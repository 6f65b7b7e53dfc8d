----------------------------- MODULE StakeVault -----------------------------
(***************************************************************************)
(* What the staking contract promises: every coin is in a wallet, in a     *)
(* staker's claim on the vault, or in the treasury.  A claim grows only by *)
(* its holder's deposit and falls only by a payout to its holder or by a   *)
(* forfeit to the treasury, and nothing ever leaves the treasury.          *)
(***************************************************************************)
EXTENDS Ledgers

CONSTANTS Holders,   \* who may own coins
          Issues     \* the numbers of coins that may be issued at once

VARIABLES wallets, claims, treasury

vaultVars == <<wallets, claims, treasury>>

Init ==
  /\ wallets = [h \in Holders |-> 0]
  /\ claims = [h \in Holders |-> 0]
  /\ treasury = 0

Deposit(h, n) ==
  /\ n <= wallets[h]
  /\ wallets' = Debit(wallets, h, n)
  /\ claims' = Credit(claims, h, n)
  /\ UNCHANGED treasury

Withdraw(h, n) ==
  /\ n <= claims[h]
  /\ claims' = Debit(claims, h, n)
  /\ wallets' = Credit(wallets, h, n)
  /\ UNCHANGED treasury

Forfeit(h, n) ==
  /\ n <= claims[h]
  /\ claims' = Debit(claims, h, n)
  /\ treasury' = treasury + n
  /\ UNCHANGED wallets

Donate(h, n) ==
  /\ n <= wallets[h]
  /\ wallets' = Debit(wallets, h, n)
  /\ treasury' = treasury + n
  /\ UNCHANGED claims

Pay(h, g, n) ==
  /\ n <= wallets[h]
  /\ wallets' = Credit(Debit(wallets, h, n), g, n)
  /\ UNCHANGED <<claims, treasury>>

Issue(h, n) ==
  /\ wallets' = Credit(wallets, h, n)
  /\ UNCHANGED <<claims, treasury>>

Endow(n) ==
  /\ treasury' = treasury + n
  /\ UNCHANGED <<wallets, claims>>

Next ==
  \/ \E h \in Holders :
       \/ \E n \in 0 .. wallets[h] :
            \/ Deposit(h, n)
            \/ Donate(h, n)
            \/ \E g \in Holders : Pay(h, g, n)
       \/ \E n \in 0 .. claims[h] : Withdraw(h, n) \/ Forfeit(h, n)
       \/ \E n \in Issues : Issue(h, n)
  \/ \E n \in Issues : Endow(n)

Spec == Init /\ [][Next]_vaultVars
=============================================================================
