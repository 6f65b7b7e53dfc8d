---------------------- MODULE StakeReputationTheorems ----------------------
(***************************************************************************)
(* The token's invariant: balances add up to the supply.  The unchecked    *)
(* additions of ERC20._update cannot wrap because of it.  It rests on      *)
(* lemmas about Total, which the proofs about the registry and the pages   *)
(* use too: how a total changes with one entry, and that it bounds every   *)
(* entry.                                                                  *)
(*                                                                         *)
(* The vault is solvent, its treasury never shrinks, and it implements the *)
(* abstract StakeVault.  The inductive invariant adds the token's: without *)
(* SupplyIsBacked a credit to the vault could wrap; and that the vault     *)
(* itself has no stake, for a payout to the vault would be booked twice;   *)
(* and that the vault has approved nobody, for who it had approved could   *)
(* empty it.                                                               *)
(***************************************************************************)
EXTENDS StakeReputation, FiniteSetTheorems, TLAPS

\* The coins of an account are as many as its entry.
LEMMA CoinsOfCount ==
  ASSUME NEW f, NEW a, f[a] \in Nat
  PROVE  IsFiniteSet(CoinsOf(f, a)) /\ Cardinality(CoinsOf(f, a)) = f[a]
<1>1. IsFiniteSet({a}) /\ Cardinality({a}) = 1
  BY FS_Singleton
<1>2. IsFiniteSet(1 .. f[a]) /\ Cardinality(1 .. f[a]) = f[a]
  BY FS_Interval
<1> DEFINE I == 1 .. f[a]
<1>3. IsFiniteSet({a} \X I) /\ Cardinality({a} \X I) = Cardinality({a}) * Cardinality(I)
  <2> HIDE DEF I
  <2>. QED  BY <1>1, <1>2, FS_Product, Zenon DEF I
<1>. QED  BY <1>1, <1>2, <1>3 DEF CoinsOf

\* A ledger over finitely many accounts with bounded entries has finitely
\* many coins, so its total is a number.
LEMMA CoinsFinite ==
  ASSUME NEW A, IsFiniteSet(A), NEW B \in Nat, NEW f \in [A -> 0 .. B]
  PROVE  IsFiniteSet(Coins(f)) /\ Total(f) \in Nat
<1>1. IsFiniteSet(1 .. B)
  BY FS_Interval
<1>2. IsFiniteSet(A \X (1 .. B))
  BY <1>1, FS_Product, Zenon
<1>3. Coins(f) \subseteq A \X (1 .. B)
  BY DEF Coins, CoinsOf
<1>4. IsFiniteSet(Coins(f))
  BY <1>2, <1>3, FS_Subset, Zenon
<1>. QED  BY <1>4, FS_CardinalityType DEF Total

\* The coins of the accounts other than a.
OtherCoins(f, a) == Coins(f) \ CoinsOf(f, a)

\* A total is one entry plus the number of the other accounts' coins.
LEMMA TotalSplit ==
  ASSUME NEW A, IsFiniteSet(A), NEW B \in Nat, NEW f \in [A -> 0 .. B],
         NEW a \in A
  PROVE  /\ Cardinality(OtherCoins(f, a)) \in Nat
         /\ Total(f) = f[a] + Cardinality(OtherCoins(f, a))
<1>1. IsFiniteSet(Coins(f))
  BY CoinsFinite
<1>2. IsFiniteSet(CoinsOf(f, a)) /\ Cardinality(CoinsOf(f, a)) = f[a]
  BY CoinsOfCount
<1>3. IsFiniteSet(OtherCoins(f, a))
  BY <1>1, FS_Subset DEF OtherCoins
<1>4. Coins(f) = CoinsOf(f, a) \cup OtherCoins(f, a)
  BY DEF Coins, OtherCoins
<1>5. CoinsOf(f, a) \cap OtherCoins(f, a) = {}
  BY DEF OtherCoins
<1>6. Cardinality(Coins(f))
        = Cardinality(CoinsOf(f, a)) + Cardinality(OtherCoins(f, a)) - 0
  BY <1>2, <1>3, <1>4, <1>5, FS_Union, FS_EmptySet
<1>7. Cardinality(OtherCoins(f, a)) \in Nat
  BY <1>3, FS_CardinalityType
<1>. QED  BY <1>2, <1>6, <1>7 DEF Total

\* Changing one entry changes the total by as much.
LEMMA TotalUpdate ==
  ASSUME NEW A, IsFiniteSet(A), NEW B \in Nat,
         NEW f \in [A -> 0 .. B], NEW g \in [A -> 0 .. B],
         NEW a \in A, \A b \in A \ {a} : g[b] = f[b]
  PROVE  Total(g) = Total(f) - f[a] + g[a]
<1>1. OtherCoins(f, a) = UNION {CoinsOf(f, b) : b \in A \ {a}}
  BY DEF OtherCoins, Coins, CoinsOf
<1>2. OtherCoins(g, a) = UNION {CoinsOf(g, b) : b \in A \ {a}}
  BY DEF OtherCoins, Coins, CoinsOf
<1>3. OtherCoins(f, a) = OtherCoins(g, a)
  BY <1>1, <1>2 DEF CoinsOf
<1>4. Total(f) = f[a] + Cardinality(OtherCoins(f, a))
  BY TotalSplit
<1>5. Total(g) = g[a] + Cardinality(OtherCoins(g, a))
  BY TotalSplit
<1>6. Cardinality(OtherCoins(f, a)) \in Nat
  BY TotalSplit
<1>. QED  BY <1>3, <1>4, <1>5, <1>6

\* No entry exceeds the total.
LEMMA EntryBound ==
  ASSUME NEW A, IsFiniteSet(A), NEW B \in Nat, NEW f \in [A -> 0 .. B],
         NEW a \in A
  PROVE  f[a] <= Total(f)
BY TotalSplit

\* Nor do two entries together.
LEMMA PairBound ==
  ASSUME NEW A, IsFiniteSet(A), NEW B \in Nat, NEW f \in [A -> 0 .. B],
         NEW a \in A, NEW b \in A, a # b
  PROVE  f[a] + f[b] <= Total(f)
<1> DEFINE g == [f EXCEPT ![a] = 0]
<1>1. g \in [A -> 0 .. B] /\ g[a] = 0 /\ \A c \in A \ {a} : g[c] = f[c]
  OBVIOUS
<1> HIDE DEF g
<1>2. Total(g) = Total(f) - f[a] + g[a]
  BY <1>1, TotalUpdate
<1>3. g[b] <= Total(g)
  BY <1>1, EntryBound
<1>4. Total(f) \in Nat /\ Total(g) \in Nat
  BY <1>1, CoinsFinite
<1>. QED  BY <1>1, <1>2, <1>3, <1>4

\* Taking n from an entry that covers it.
LEMMA DebitTotal ==
  ASSUME NEW A, IsFiniteSet(A), NEW B \in Nat, NEW f \in [A -> 0 .. B],
         NEW a \in A, NEW n \in Nat, n <= f[a]
  PROVE  /\ Debit(f, a, n) \in [A -> 0 .. B]
         /\ Total(Debit(f, a, n)) = Total(f) - n
<1> DEFINE g == Debit(f, a, n)
<1>1. /\ g \in [A -> 0 .. B]
      /\ g[a] = f[a] - n
      /\ \A b \in A \ {a} : g[b] = f[b]
  BY DEF Debit
<1> HIDE DEF g
<1>2. Total(g) = Total(f) - f[a] + g[a]
  BY <1>1, TotalUpdate
<1>3. Total(f) \in Nat /\ f[a] \in Nat
  BY CoinsFinite
<1>4. Total(g) = Total(f) - n
  BY <1>1, <1>2, <1>3
<1>. QED  BY <1>1, <1>4 DEF g

\* Adding n to an entry, when the total leaves room for it.
LEMMA CreditTotal ==
  ASSUME NEW A, IsFiniteSet(A), NEW B \in Nat, NEW f \in [A -> 0 .. B],
         NEW a \in A, NEW n \in Nat, Total(f) + n <= B
  PROVE  /\ f[a] + n <= B
         /\ Credit(f, a, n) \in [A -> 0 .. B]
         /\ Total(Credit(f, a, n)) = Total(f) + n
<1> DEFINE g == Credit(f, a, n)
<1>1. Total(f) \in Nat /\ f[a] \in Nat /\ f[a] <= Total(f)
  BY CoinsFinite, EntryBound
<1>2. f[a] + n <= B
  BY <1>1
<1>3. /\ g \in [A -> 0 .. B]
      /\ g[a] = f[a] + n
      /\ \A b \in A \ {a} : g[b] = f[b]
  BY <1>2 DEF Credit
<1> HIDE DEF g
<1>4. Total(g) = Total(f) - f[a] + g[a]
  BY <1>3, TotalUpdate
<1>5. Total(g) = Total(f) + n
  BY <1>1, <1>3, <1>4
<1>. QED  BY <1>2, <1>3, <1>5 DEF g

\* The empty ledger.
LEMMA TotalOfZero ==
  ASSUME NEW A
  PROVE  Total([a \in A |-> 0]) = 0
<1>1. Coins([a \in A |-> 0]) = {}
  BY DEF Coins, CoinsOf
<1>. QED  BY <1>1, FS_EmptySet DEF Total
-----------------------------------------------------------------------------
TokenInv == TokenTypeOK /\ SupplyIsBacked

\* What a transfer leaves: exact amounts, and the same total.
LEMMA TransferIsExact ==
  ASSUME AddressAssumption, TokenAssumption, TokenInv, NEW from \in Accounts, NEW to \in Accounts,
         NEW n \in Uint, _transfer(from, to, n)
  PROVE  /\ n <= balance[from]
         /\ balance' \in [Accounts -> Uint]
         /\ from = to => balance' = balance
         /\ from # to =>
              balance' = Credit(Debit(balance, from, n), to, n)
         /\ Total(balance') = Total(balance)
<1> DEFINE debited == Debit(balance, from, n)
<1>1. /\ IsFiniteSet(Accounts)
      /\ MaxUint \in Nat
      /\ balance \in [Accounts -> 0 .. MaxUint]
      /\ Total(balance) \in 0 .. MaxUint
      /\ n \in Nat
  BY DEF AddressAssumption, TokenAssumption, TokenInv, TokenTypeOK, SupplyIsBacked, Uint
<1>2. /\ n <= balance[from]
      /\ balance' = [debited EXCEPT ![to] = Wrap(@ + n)]
  BY DEF _transfer
<1>3. /\ debited \in [Accounts -> 0 .. MaxUint]
      /\ Total(debited) = Total(balance) - n
  BY <1>1, <1>2, DebitTotal
<1>4. /\ debited[to] + n <= MaxUint
      /\ Credit(debited, to, n) \in [Accounts -> 0 .. MaxUint]
      /\ Total(Credit(debited, to, n)) = Total(debited) + n
  <2> HIDE DEF debited
  <2>1. Total(debited) + n <= MaxUint
    BY <1>1, <1>3
  <2>. QED  BY <1>1, <1>3, <2>1, CreditTotal
<1>5. balance' = Credit(debited, to, n)
  <2>1. debited[to] \in Nat
    <3> HIDE DEF debited
    <3>. QED  BY <1>3
  <2> HIDE DEF debited
  <2>2. Wrap(debited[to] + n) = debited[to] + n
    BY <1>1, <1>4, <2>1 DEF Wrap
  <2>. QED  BY <1>2, <2>2 DEF Credit
<1>6. balance' \in [Accounts -> Uint] /\ Total(balance') = Total(balance)
  <2> HIDE DEF debited
  <2>. QED  BY <1>1, <1>3, <1>4, <1>5 DEF Uint
<1>7. from = to => balance' = balance
  BY <1>1, <1>2, <1>5 DEF Debit, Credit
<1>8. from # to =>
         balance' = Credit(Debit(balance, from, n), to, n)
  BY <1>1, <1>5 DEF Debit, Credit
<1>. QED  BY <1>2, <1>6, <1>7, <1>8

\* What a mint leaves.
LEMMA MintIsExact ==
  ASSUME AddressAssumption, TokenAssumption, TokenInv, NEW to \in Accounts, NEW n \in Uint,
         _mint(to, n)
  PROVE  /\ totalSupply' \in Uint
         /\ totalSupply' = totalSupply + n
         /\ balance' \in [Accounts -> Uint]
         /\ balance' = Credit(balance, to, n)
         /\ Total(balance') = totalSupply'
<1>1. /\ IsFiniteSet(Accounts)
      /\ MaxUint \in Nat
      /\ balance \in [Accounts -> 0 .. MaxUint]
      /\ Total(balance) = totalSupply
      /\ totalSupply \in 0 .. MaxUint
      /\ n \in Nat
  BY DEF AddressAssumption, TokenAssumption, TokenInv, TokenTypeOK, SupplyIsBacked, Uint
<1>2. /\ totalSupply + n <= MaxUint
      /\ totalSupply' = totalSupply + n
      /\ balance' = [balance EXCEPT ![to] = Wrap(@ + n)]
  BY DEF _mint
<1>3. /\ balance[to] + n <= MaxUint
      /\ Credit(balance, to, n) \in [Accounts -> 0 .. MaxUint]
      /\ Total(Credit(balance, to, n)) = Total(balance) + n
  BY <1>1, <1>2, CreditTotal
<1>4. Wrap(balance[to] + n) = balance[to] + n
  BY <1>1, <1>3 DEF Wrap
<1>5. balance' = Credit(balance, to, n)
  BY <1>2, <1>4 DEF Credit
<1>6. totalSupply' \in Uint
  BY <1>1, <1>2 DEF Uint
<1>7. balance' \in [Accounts -> Uint] /\ Total(balance') = totalSupply'
  <2>1. Total(balance') = Total(balance) + n
    BY <1>3, <1>5
  <2>. QED  BY <1>1, <1>2, <1>3, <1>5, <2>1 DEF Uint
<1>. QED  BY <1>2, <1>5, <1>6, <1>7

\* Spending an allowance keeps allowances typed.
LEMMA SpendIsTyped ==
  ASSUME AddressAssumption, TokenAssumption, TokenTypeOK, NEW from \in Accounts,
         NEW s \in Accounts, NEW n \in Uint, _spendAllowance(from, s, n)
  PROVE  allowance' \in [Accounts -> [Accounts -> Uint]]
<1>1. /\ MaxUint \in Nat
      /\ allowance \in [Accounts -> [Accounts -> Uint]]
      /\ n <= allowance[from][s]
  BY DEF AddressAssumption, TokenAssumption, TokenTypeOK, _spendAllowance
<1>2. allowance[from][s] - n \in Uint
  BY <1>1 DEF Uint
<1>3. Debit(allowance[from], s, n) \in [Accounts -> Uint]
  BY <1>1, <1>2 DEF Debit
<1>. QED  BY <1>1, <1>3 DEF _spendAllowance
-----------------------------------------------------------------------------
\* Every call the token accepts, whoever makes it, keeps the invariant.
LEMMA TokenStep ==
  ASSUME AddressAssumption, TokenAssumption, TokenInv, TokenNext
  PROVE  TokenInv'
<1>1. TokenTypeOK /\ SupplyIsBacked /\ Senders \subseteq Accounts
      /\ Amounts \subseteq Uint /\ Approvals \subseteq Uint /\ ZeroAddress \in Accounts /\ TokenOwners \subseteq Accounts
      /\ Spenders \subseteq Accounts /\ Payees \subseteq Accounts
  BY DEF TokenInv, TokenAssumption, Uint
<1>2. CASE Transfer
  <2>1. PICK s \in Senders, to \in Payees, n \in Amounts :
          transfer(s, to, n)
    BY <1>2 DEF Transfer
  <2>2. _transfer(s, to, n) /\ s \in Accounts /\ n \in Uint
    BY <1>1, <2>1 DEF transfer
  <2>3. /\ balance' \in [Accounts -> Uint]
        /\ Total(balance') = Total(balance)
    BY <2>2, TransferIsExact
  <2>. QED  BY <1>1, <1>2, <2>3 DEF Transfer, TokenInv, TokenTypeOK, SupplyIsBacked
<1>3. CASE Approve
  <2>1. PICK s \in Senders, p \in Spenders, n \in Approvals : approve(s, p, n)
    BY <1>3 DEF Approve
  <2>2. allowance' \in [Accounts -> [Accounts -> Uint]]
    BY <1>1, <2>1 DEF approve, TokenTypeOK
  <2>. QED  BY <1>1, <1>3, <2>2 DEF Approve, TokenInv, TokenTypeOK, SupplyIsBacked
<1>4. CASE TransferFrom
  <2>1. PICK s \in Senders, from \in Accounts, to \in Payees, n \in Amounts :
          transferFrom(s, from, to, n)
    BY <1>4 DEF TransferFrom
  <2>2. /\ _spendAllowance(from, s, n) /\ _transfer(from, to, n)
        /\ s \in Accounts /\ n \in Uint
    BY <1>1, <2>1 DEF transferFrom
  <2>3. allowance' \in [Accounts -> [Accounts -> Uint]]
    BY <1>1, <2>2, SpendIsTyped
  <2>4. /\ balance' \in [Accounts -> Uint]
        /\ Total(balance') = Total(balance)
    BY <2>2, TransferIsExact
  <2>. QED
    BY <1>1, <1>4, <2>3, <2>4 DEF TransferFrom, TokenInv, TokenTypeOK, SupplyIsBacked
<1>5. CASE Mint
  <2>1. PICK s \in Senders, to \in Payees, n \in Amounts : mint(s, to, n)
    BY <1>5 DEF Mint
  <2>2. _mint(to, n) /\ n \in Uint
    BY <1>1, <2>1 DEF mint
  <2>3. /\ totalSupply' \in Uint
        /\ balance' \in [Accounts -> Uint]
        /\ Total(balance') = totalSupply'
    BY <2>2, MintIsExact
  <2>. QED  BY <1>1, <1>5, <2>3 DEF Mint, TokenInv, TokenTypeOK, SupplyIsBacked
<1>6. CASE ChangeOwner
  <2>1. tokenOwner' \in Accounts
    BY <1>1, <1>6 DEF ChangeOwner, TokenOwnable!passOwnership, TokenOwnable!transferOwnership,
                      TokenOwnable!renounceOwnership
  <2>. QED  BY <1>1, <1>6, <2>1 DEF ChangeOwner, TokenInv, TokenTypeOK, SupplyIsBacked
<1>. QED  BY <1>2, <1>3, <1>4, <1>5, <1>6 DEF TokenNext

LEMMA TokenInitInv ==
  ASSUME AddressAssumption, TokenAssumption, TokenInit
  PROVE  TokenInv
<1>1. TokenTypeOK
  BY DEF AddressAssumption, TokenAssumption, TokenInit, TokenTypeOK, Uint
<1>2. SupplyIsBacked
  BY TotalOfZero DEF TokenInit, SupplyIsBacked
<1>. QED  BY <1>1, <1>2 DEF TokenInv

\* The token's balances always add up to its supply, however large: no
\* unchecked addition of ERC20._update ever wraps.
THEOREM TokenSafety == TokenSpec => [](TokenTypeOK /\ SupplyIsBacked)
<1>1. TokenInit => TokenInv
  BY AddressAssumption, TokenAssumption, TokenInitInv
<1>2. TokenInv /\ [TokenNext]_tokenVars => TokenInv'
  <2>1. TokenInv /\ TokenNext => TokenInv'
    BY AddressAssumption, TokenAssumption, TokenStep
  <2>2. TokenInv /\ UNCHANGED tokenVars => TokenInv'
    BY DEF tokenVars, TokenInv, TokenTypeOK, SupplyIsBacked
  <2>. QED  BY <2>1, <2>2
<1>3. TokenInv => TokenTypeOK /\ SupplyIsBacked
  BY DEF TokenInv
<1>. QED  BY <1>1, <1>2, <1>3, PTL DEF TokenSpec
-----------------------------------------------------------------------------

StakeInv ==
  /\ TokenInv
  /\ StakeTypeOK
  /\ Solvent
  /\ stakedAmount[Vault] = 0
  /\ \A a \in Accounts : allowance[Vault][a] = 0

\* What the steps below read from the invariant and the assumptions.
LEMMA StakeFacts ==
  ASSUME AddressAssumption, TokenAssumption, StakeAssumption, StakeInv
  PROVE  /\ IsFiniteSet(Accounts)
         /\ MaxUint \in Nat
         /\ Vault \in Accounts /\ Vault \notin Senders
         /\ Senders \subseteq Accounts /\ Payees \subseteq Accounts
         /\ Amounts \subseteq Uint
         /\ balance \in [Accounts -> 0 .. MaxUint]
         /\ stakedAmount \in [Accounts -> 0 .. MaxUint]
         /\ Total(balance) \in 0 .. MaxUint
         /\ Total(stakedAmount) \in Nat
         /\ Total(stakedAmount) <= balance[Vault]
<1>1. /\ IsFiniteSet(Accounts) /\ MaxUint \in Nat
      /\ Vault \in Accounts /\ Vault \notin Senders
      /\ Senders \subseteq Accounts /\ Payees \subseteq Accounts
      /\ Amounts \subseteq Uint
  BY DEF AddressAssumption, TokenAssumption, StakeAssumption, Uint
<1>2. /\ balance \in [Accounts -> 0 .. MaxUint]
      /\ Total(balance) = totalSupply /\ totalSupply \in 0 .. MaxUint
  BY DEF StakeInv, TokenInv, TokenTypeOK, SupplyIsBacked, Uint
<1>3. stakedAmount \in [Accounts -> 0 .. MaxUint]
  BY DEF StakeInv, StakeTypeOK, Uint
<1>4. Total(stakedAmount) \in Nat
  BY <1>1, <1>3, CoinsFinite
<1>. QED  BY <1>1, <1>2, <1>3, <1>4 DEF StakeInv, Solvent

\* Staking moves n tokens into the vault and books n more stake.
LEMMA StakeTokensEffect ==
  ASSUME AddressAssumption, TokenAssumption, StakeAssumption, StakeInv,
         NEW s \in Senders, NEW n \in Amounts, stakeTokens(s, n)
  PROVE  /\ n \in Nat /\ n <= balance[s]
         /\ balance' = Credit(Debit(balance, s, n), Vault, n)
         /\ balance' \in [Accounts -> Uint]
         /\ Total(balance') = Total(balance)
         /\ allowance' \in [Accounts -> [Accounts -> Uint]]
         /\ stakedAmount' = Credit(stakedAmount, s, n)
         /\ stakedAmount' \in [Accounts -> Uint]
         /\ Total(stakedAmount') = Total(stakedAmount) + n
         /\ balance'[Vault] = balance[Vault] + n
<1>1. /\ IsFiniteSet(Accounts) /\ MaxUint \in Nat
      /\ Vault \in Accounts /\ s \in Accounts /\ s # Vault /\ n \in Uint
      /\ balance \in [Accounts -> 0 .. MaxUint]
      /\ stakedAmount \in [Accounts -> 0 .. MaxUint]
      /\ Total(balance) \in 0 .. MaxUint
      /\ Total(stakedAmount) \in Nat
      /\ Total(stakedAmount) <= balance[Vault]
      /\ TokenInv /\ TokenTypeOK
  BY StakeFacts DEF StakeInv, TokenInv
<1>2. /\ _spendAllowance(s, Vault, n) /\ _transfer(s, Vault, n)
      /\ stakedAmount' = Credit(stakedAmount, s, n)
  BY DEF stakeTokens, transferFrom
<1>3. /\ n <= balance[s]
      /\ balance' \in [Accounts -> Uint]
      /\ balance' = Credit(Debit(balance, s, n), Vault, n)
      /\ Total(balance') = Total(balance)
  BY <1>1, <1>2, TransferIsExact
<1>4. allowance' \in [Accounts -> [Accounts -> Uint]]
  BY <1>1, <1>2, SpendIsTyped
<1>5. n \in Nat
  BY <1>1 DEF Uint
<1>6. balance[s] + balance[Vault] <= Total(balance)
  BY <1>1, PairBound
<1>7. Total(stakedAmount) + n <= MaxUint
  BY <1>1, <1>3, <1>5, <1>6
<1>8. /\ Credit(stakedAmount, s, n) \in [Accounts -> 0 .. MaxUint]
      /\ Total(Credit(stakedAmount, s, n)) = Total(stakedAmount) + n
  BY <1>1, <1>5, <1>7, CreditTotal
<1>9. stakedAmount' \in [Accounts -> Uint]
  BY <1>2, <1>8 DEF Uint
<1>10. Total(stakedAmount') = Total(stakedAmount) + n
  BY <1>2, <1>8
<1>11. balance'[Vault] = balance[Vault] + n
  BY <1>1, <1>3 DEF Credit, Debit
<1>. QED  BY <1>2, <1>3, <1>4, <1>5, <1>9, <1>10, <1>11

\* Withdrawing moves n tokens out of the vault and books n less stake.
LEMMA WithdrawStakeEffect ==
  ASSUME AddressAssumption, TokenAssumption, StakeAssumption, StakeInv,
         NEW s \in Senders, NEW n \in Amounts, withdrawStake(s, n)
  PROVE  /\ n \in Nat /\ n <= stakedAmount[s]
         /\ balance' = Credit(Debit(balance, Vault, n), s, n)
         /\ balance' \in [Accounts -> Uint]
         /\ Total(balance') = Total(balance)
         /\ stakedAmount' = Debit(stakedAmount, s, n)
         /\ stakedAmount' \in [Accounts -> Uint]
         /\ Total(stakedAmount') = Total(stakedAmount) - n
         /\ balance'[Vault] = balance[Vault] - n
<1>1. /\ IsFiniteSet(Accounts) /\ MaxUint \in Nat
      /\ Vault \in Accounts /\ s \in Accounts /\ s # Vault
      /\ n \in Uint
      /\ balance \in [Accounts -> 0 .. MaxUint]
      /\ stakedAmount \in [Accounts -> 0 .. MaxUint]
      /\ TokenInv
  BY StakeFacts DEF StakeInv
<1>0. n \in Nat
  BY <1>1 DEF Uint
<1>2. /\ n <= stakedAmount[s] /\ _transfer(Vault, s, n)
      /\ stakedAmount' = Debit(stakedAmount, s, n)
  BY DEF withdrawStake, transfer
<1>3. /\ balance' \in [Accounts -> Uint]
      /\ balance' = Credit(Debit(balance, Vault, n), s, n)
      /\ Total(balance') = Total(balance)
  BY <1>1, <1>2, TransferIsExact
<1>4. /\ Debit(stakedAmount, s, n) \in [Accounts -> 0 .. MaxUint]
      /\ Total(Debit(stakedAmount, s, n)) = Total(stakedAmount) - n
  BY <1>0, <1>1, <1>2, DebitTotal
<1>5. /\ stakedAmount' \in [Accounts -> Uint]
      /\ Total(stakedAmount') = Total(stakedAmount) - n
  BY <1>2, <1>4 DEF Uint
<1>6. balance'[Vault] = balance[Vault] - n
  BY <1>0, <1>1, <1>3 DEF Credit, Debit
<1>. QED  BY <1>0, <1>1, <1>2, <1>3, <1>5, <1>6

\* A percentage of a stake is no more than the stake.
LEMMA PercentageBound ==
  ASSUME NEW n \in Nat, NEW r \in 0 .. 100
  PROVE  (n * r) \div 100 \in 0 .. n
<1>1. n * r \in Nat /\ n * r <= n * 100
  OBVIOUS
<1> DEFINE m == n * r
<1>2. m \in Nat /\ m <= n * 100
  BY <1>1
<1> HIDE DEF m
<1>3. m \div 100 \in 0 .. n
  BY <1>2
<1>. QED  BY <1>3 DEF m

\* Slashing takes at most the stake off the books.
LEMMA SlashStakeEffect ==
  ASSUME AddressAssumption, TokenAssumption, StakeAssumption, StakeInv,
         NEW s, NEW ngo \in Accounts, slashStake(s, ngo)
  PROVE  /\ slashAmount(ngo) \in 0 .. stakedAmount[ngo]
         /\ stakedAmount' = Debit(stakedAmount, ngo, slashAmount(ngo))
         /\ stakedAmount' \in [Accounts -> Uint]
         /\ Total(stakedAmount') = Total(stakedAmount) - slashAmount(ngo)
         /\ ngo # Vault
<1>1. /\ IsFiniteSet(Accounts) /\ MaxUint \in Nat
      /\ stakedAmount \in [Accounts -> 0 .. MaxUint]
      /\ penaltyRate \in 0 .. 100
      /\ stakedAmount[Vault] = 0
  BY StakeFacts DEF StakeInv, StakeTypeOK
<1>2. /\ stakedAmount[ngo] > 0
      /\ stakedAmount' = Debit(stakedAmount, ngo, slashAmount(ngo))
  BY DEF slashStake
<1>3. slashAmount(ngo) \in 0 .. stakedAmount[ngo]
  BY <1>1, PercentageBound DEF slashAmount
<1>4. /\ Debit(stakedAmount, ngo, slashAmount(ngo)) \in [Accounts -> 0 .. MaxUint]
      /\ Total(Debit(stakedAmount, ngo, slashAmount(ngo)))
           = Total(stakedAmount) - slashAmount(ngo)
  <2>1. slashAmount(ngo) \in Nat /\ slashAmount(ngo) <= stakedAmount[ngo]
    BY <1>1, <1>3
  <2>. QED  BY <1>1, <2>1, DebitTotal
<1>. QED  BY <1>1, <1>2, <1>3, <1>4 DEF Uint

\* Reputation scores stay numbers of the type.
LEMMA ReputationEffect ==
  ASSUME AddressAssumption, TokenAssumption, StakeAssumption, StakeTypeOK, NEW s,
         NEW ngo \in Accounts,
         increaseReputation(s, ngo) \/ decreaseReputation(s, ngo)
  PROVE  reputationScore' \in [Accounts -> Uint]
<1>1. MaxUint \in Nat /\ reputationScore \in [Accounts -> 0 .. MaxUint]
  BY DEF AddressAssumption, TokenAssumption, StakeTypeOK, Uint
<1>2. CASE increaseReputation(s, ngo)
  <2>1. /\ reputationScore[ngo] + reputationReward \in 0 .. MaxUint
        /\ reputationScore' = Credit(reputationScore, ngo, reputationReward)
    BY <1>1, <1>2 DEF increaseReputation, reputationReward
  <2>. QED  BY <1>1, <2>1 DEF Credit, Uint
<1>3. CASE decreaseReputation(s, ngo)
  <2> DEFINE loss == IF reputationScore[ngo] >= reputationPenalty
                     THEN reputationPenalty ELSE reputationScore[ngo]
  <2>1. loss \in Nat /\ loss <= reputationScore[ngo]
    BY <1>1 DEF reputationPenalty
  <2>2. reputationScore' = Debit(reputationScore, ngo, loss)
    BY <1>3 DEF decreaseReputation
  <2> HIDE DEF loss
  <2>. QED  BY <1>1, <2>1, <2>2 DEF Debit, Uint
<1>. QED  BY <1>2, <1>3

\* No call made to the token alone takes anything from the vault: only the
\* vault itself could, for it never approves anybody.
LEMMA TokenLeavesVault ==
  ASSUME AddressAssumption, TokenAssumption, StakeAssumption, StakeInv, TokenNext
  PROVE  balance'[Vault] >= balance[Vault]
<1>1. /\ Vault \in Accounts /\ Vault \notin Senders
      /\ Senders \subseteq Accounts /\ Payees \subseteq Accounts
      /\ Amounts \subseteq Uint
      /\ balance \in [Accounts -> 0 .. MaxUint]
      /\ MaxUint \in Nat
      /\ TokenInv
      /\ \A a \in Accounts : allowance[Vault][a] = 0
  BY StakeFacts DEF StakeInv
<1>2. balance[Vault] \in Nat
  BY <1>1
<1>3. ASSUME NEW from \in Accounts, NEW to \in Accounts, NEW n \in Uint,
             _transfer(from, to, n), from # Vault
      PROVE  balance'[Vault] >= balance[Vault]
  <2>1. /\ from = to => balance' = balance
        /\ from # to => balance' = Credit(Debit(balance, from, n), to, n)
    BY <1>1, <1>3, TransferIsExact
  <2>. QED  BY <1>1, <1>2, <1>3, <2>1 DEF Credit, Debit, Uint
<1>4. CASE Transfer
  BY <1>1, <1>3, <1>4 DEF Transfer, transfer
<1>5. CASE TransferFrom
  <2>1. PICK s \in Senders, from \in Accounts, to \in Payees, n \in Amounts :
          transferFrom(s, from, to, n)
    BY <1>5 DEF TransferFrom
  <2>2. CASE from # Vault
    BY <1>1, <1>3, <2>1, <2>2 DEF transferFrom
  <2>3. CASE from = Vault
    <3>1. n = 0
      BY <1>1, <2>1, <2>3 DEF transferFrom, _spendAllowance, Uint
    <3>2. /\ from = to => balance' = balance
          /\ from # to => balance' = Credit(Debit(balance, from, n), to, n)
      BY <1>1, <2>1, TransferIsExact DEF transferFrom
    <3>. QED  BY <1>1, <1>2, <2>3, <3>1, <3>2 DEF Credit, Debit
  <2>. QED  BY <2>2, <2>3
<1>6. CASE Mint
  <2>1. PICK to \in Payees, n \in Amounts : _mint(to, n)
    BY <1>6 DEF Mint, mint
  <2>2. balance' = Credit(balance, to, n)
    BY <1>1, <2>1, MintIsExact
  <2>3. n \in Uint
    BY <1>1
  <2>4. n \in Nat
    BY <2>3 DEF Uint
  <2>. QED  BY <1>1, <1>2, <2>2, <2>4 DEF Credit
<1>7. CASE Approve \/ ChangeOwner
  BY <1>2, <1>7 DEF Approve, ChangeOwner
<1>. QED  BY <1>4, <1>5, <1>6, <1>7 DEF TokenNext
-----------------------------------------------------------------------------
\* Every call to the vault or the token keeps the invariant, and takes nothing
\* from the treasury.
LEMMA StakeStep ==
  ASSUME AddressAssumption, TokenAssumption, StakeAssumption, StakeInv, StakeNext
  PROVE  StakeInv' /\ treasury' >= treasury
<1>1. /\ TokenInv /\ TokenTypeOK /\ SupplyIsBacked /\ StakeTypeOK
      /\ stakedAmount[Vault] = 0
      /\ \A a \in Accounts : allowance[Vault][a] = 0
      /\ IsFiniteSet(Accounts) /\ MaxUint \in Nat
      /\ Vault \in Accounts /\ Vault \notin Senders
      /\ Senders \subseteq Accounts /\ Payees \subseteq Accounts
      /\ Amounts \subseteq Uint
      /\ balance \in [Accounts -> 0 .. MaxUint]
      /\ Total(stakedAmount) \in Nat
      /\ Total(stakedAmount) <= balance[Vault]
  BY StakeFacts DEF StakeInv, TokenInv
<1>2. balance[Vault] \in Nat
  BY <1>1
<1>3. ASSUME TokenNext, UNCHANGED stakeVars
      PROVE  StakeInv' /\ treasury' >= treasury
  <2>1. TokenInv'
    BY <1>1, <1>3, TokenStep
  <2>2. /\ stakedAmount' = stakedAmount
        /\ stakeOwner' = stakeOwner
        /\ verificationContract' = verificationContract
        /\ reputationScore' = reputationScore
        /\ minimumStake' = minimumStake
        /\ penaltyRate' = penaltyRate
    BY <1>3 DEF stakeVars, configVars
  <2>3. balance'[Vault] >= balance[Vault] /\ balance'[Vault] \in Nat
    BY <1>1, <1>3, <2>1, TokenLeavesVault DEF TokenInv, TokenTypeOK, Uint
  <2>4. \A a \in Accounts : allowance'[Vault][a] = 0
    <3>1. allowance \in [Accounts -> [Accounts -> Uint]]
      BY <1>1 DEF TokenTypeOK
    <3>2. CASE Approve
      BY <1>1, <3>1, <3>2 DEF Approve, approve
    <3>3. CASE TransferFrom
      <4>1. PICK s \in Senders, from \in Accounts, to \in Payees, n \in Amounts :
              transferFrom(s, from, to, n)
        BY <3>3 DEF TransferFrom
      <4>2. /\ n <= allowance[from][s]
            /\ \/ allowance' = allowance
               \/ allowance' = [allowance EXCEPT ![from] = Debit(@, s, n)]
        BY <4>1 DEF transferFrom, _spendAllowance
      <4>3. from = Vault => n = 0
        BY <1>1, <4>2 DEF Uint
      <4>. QED  BY <1>1, <3>1, <4>2, <4>3 DEF Debit
    <3>4. CASE Transfer \/ Mint \/ ChangeOwner
      BY <1>1, <3>4 DEF Transfer, Mint, ChangeOwner
    <3>. QED  BY <1>3, <3>2, <3>3, <3>4 DEF TokenNext
  <2>5. StakeTypeOK'
    BY <1>1, <2>2 DEF StakeTypeOK
  <2>6. Solvent' /\ treasury' >= treasury
    BY <1>1, <1>2, <2>2, <2>3 DEF Solvent, treasury
  <2>. QED  BY <1>1, <2>1, <2>2, <2>4, <2>5, <2>6 DEF StakeInv
<1>4. CASE Stake
  <2>1. PICK s \in Senders, n \in Amounts : stakeTokens(s, n)
    BY <1>4 DEF Stake
  <2>2. /\ n \in Nat
        /\ balance' \in [Accounts -> Uint]
        /\ Total(balance') = Total(balance)
        /\ allowance' \in [Accounts -> [Accounts -> Uint]]
        /\ stakedAmount' = Credit(stakedAmount, s, n)
        /\ stakedAmount' \in [Accounts -> Uint]
        /\ Total(stakedAmount') = Total(stakedAmount) + n
        /\ balance'[Vault] = balance[Vault] + n
    BY <2>1, StakeTokensEffect
  <2>3. TokenInv'
    BY <1>1, <1>4, <2>2 DEF Stake, TokenInv, TokenTypeOK, SupplyIsBacked
  <2>4. StakeTypeOK'
    BY <1>1, <1>4, <2>2 DEF Stake, configVars, StakeTypeOK
  <2>5. Solvent' /\ treasury' >= treasury
    BY <1>1, <1>2, <2>2 DEF Solvent, treasury
  <2>6. stakedAmount'[Vault] = 0
    BY <1>1, <2>2 DEF Credit, StakeTypeOK
  <2>7. \A a \in Accounts : allowance'[Vault][a] = 0
    BY <1>1, <2>1 DEF stakeTokens, transferFrom, _spendAllowance, TokenTypeOK
  <2>. QED  BY <2>3, <2>4, <2>5, <2>6, <2>7 DEF StakeInv
<1>5. CASE Withdraw
  <2>1. PICK s \in Senders, n \in Amounts : withdrawStake(s, n)
    BY <1>5 DEF Withdraw
  <2>2. /\ n \in Nat /\ n <= stakedAmount[s]
        /\ balance' \in [Accounts -> Uint]
        /\ Total(balance') = Total(balance)
        /\ stakedAmount' = Debit(stakedAmount, s, n)
        /\ stakedAmount' \in [Accounts -> Uint]
        /\ Total(stakedAmount') = Total(stakedAmount) - n
        /\ balance'[Vault] = balance[Vault] - n
    BY <2>1, WithdrawStakeEffect
  <2>3. TokenInv'
    BY <1>1, <1>5, <2>2 DEF Withdraw, TokenInv, TokenTypeOK, SupplyIsBacked
  <2>4. StakeTypeOK'
    BY <1>1, <1>5, <2>2 DEF Withdraw, configVars, StakeTypeOK
  <2>5. Solvent' /\ treasury' >= treasury
    BY <1>1, <1>2, <2>2 DEF Solvent, treasury
  <2>6. stakedAmount'[Vault] = 0
    BY <1>1, <2>2 DEF Debit, StakeTypeOK
  <2>. QED  BY <1>1, <1>5, <2>3, <2>4, <2>5, <2>6 DEF StakeInv, Withdraw
<1>6. CASE Slash
  <2>1. PICK s \in Senders, ngo \in NGOs : slashStake(s, ngo)
    BY <1>6 DEF Slash
  <2>2. /\ slashAmount(ngo) \in 0 .. stakedAmount[ngo]
        /\ stakedAmount' = Debit(stakedAmount, ngo, slashAmount(ngo))
        /\ stakedAmount' \in [Accounts -> Uint]
        /\ Total(stakedAmount') = Total(stakedAmount) - slashAmount(ngo)
        /\ ngo # Vault
    BY <2>1, SlashStakeEffect DEF StakeAssumption
  <2>3. slashAmount(ngo) \in Nat
    BY <1>1, <2>2 DEF StakeTypeOK, Uint
  <2>4. UNCHANGED tokenVars
    BY <1>6 DEF Slash
  <2>5. TokenInv'
    BY <1>1, <2>4 DEF tokenVars, TokenInv, TokenTypeOK, SupplyIsBacked
  <2>6. StakeTypeOK'
    BY <1>1, <1>6, <2>2 DEF Slash, configVars, StakeTypeOK
  <2>7. Solvent' /\ treasury' >= treasury
    BY <1>1, <1>2, <2>2, <2>3, <2>4 DEF tokenVars, Solvent, treasury
  <2>8. stakedAmount'[Vault] = 0
    BY <1>1, <2>2 DEF Debit, StakeTypeOK
  <2>. QED  BY <1>1, <2>4, <2>5, <2>6, <2>7, <2>8 DEF StakeInv, tokenVars
<1>7. ASSUME UNCHANGED <<stakedAmount, tokenVars>>, StakeTypeOK'
      PROVE  StakeInv' /\ treasury' >= treasury
  <2>1. TokenInv'
    BY <1>1, <1>7 DEF tokenVars, TokenInv, TokenTypeOK, SupplyIsBacked
  <2>2. Solvent' /\ treasury' >= treasury
    BY <1>1, <1>2, <1>7 DEF tokenVars, Solvent, treasury
  <2>. QED  BY <1>1, <1>7, <2>1, <2>2 DEF tokenVars, StakeInv
<1>8. CASE IncreaseReputation \/ DecreaseReputation
  <2>1. reputationScore' \in [Accounts -> Uint]
    BY <1>1, <1>8, ReputationEffect DEF StakeAssumption, IncreaseReputation, DecreaseReputation
  <2>2. StakeTypeOK'
    BY <1>1, <1>8, <2>1
      DEF IncreaseReputation, DecreaseReputation, configVars, StakeTypeOK
  <2>. QED  BY <1>7, <1>8, <2>2 DEF IncreaseReputation, DecreaseReputation
<1>9. CASE ConfigureStake
  <2>1. /\ StakeOwners \subseteq Accounts /\ Verifiers \subseteq Accounts
        /\ Minimums \subseteq Uint /\ Rates \subseteq Nat
        /\ ZeroAddress \in Accounts
    BY DEF AddressAssumption, TokenAssumption, StakeAssumption, Uint
  <2>2. StakeTypeOK'
    BY <1>1, <1>9, <2>1
      DEF ConfigureStake, stake_setVerificationContract, setMinimumStake,
          setPenaltyRate, StakeOwnable!passOwnership, StakeOwnable!transferOwnership,
          StakeOwnable!renounceOwnership, StakeTypeOK
  <2>. QED  BY <1>7, <1>9, <2>2 DEF ConfigureStake
<1>. QED  BY <1>3, <1>4, <1>5, <1>6, <1>8, <1>9 DEF StakeNext

LEMMA StakeInitInv ==
  ASSUME AddressAssumption, TokenAssumption, StakeAssumption, TokenInit, StakeInit
  PROVE  StakeInv
<1>1. TokenInv
  BY TokenInitInv
<1>2. /\ Vault \in Accounts /\ Deployer \in Accounts /\ ZeroAddress \in Accounts
      /\ InitialMinimumStake \in Uint /\ 0 \in Uint
  BY DEF AddressAssumption, TokenAssumption, StakeAssumption, Uint
<1>3. StakeTypeOK
  BY <1>2 DEF StakeInit, StakeTypeOK
<1>4. Solvent
  BY <1>2, TotalOfZero DEF TokenInit, StakeInit, Solvent
<1>5. stakedAmount[Vault] = 0 /\ \A a \in Accounts : allowance[Vault][a] = 0
  BY <1>2 DEF TokenInit, StakeInit
<1>. QED  BY <1>1, <1>3, <1>4, <1>5 DEF StakeInv

LEMMA StakeStutter ==
  ASSUME AddressAssumption, TokenAssumption, StakeAssumption, StakeInv, UNCHANGED stakeAndTokenVars
  PROVE  StakeInv' /\ treasury' >= treasury
<1>1. Total(stakedAmount) \in Nat /\ balance[Vault] \in Nat
  BY StakeFacts
<1>2. StakeInv'
  BY DEF stakeAndTokenVars, stakeVars, configVars, tokenVars, StakeInv, TokenInv,
         TokenTypeOK, SupplyIsBacked, StakeTypeOK, Solvent
<1>3. treasury' = treasury
  BY DEF stakeAndTokenVars, stakeVars, tokenVars, treasury
<1>4. treasury \in Int
  BY <1>1 DEF treasury
<1>. QED  BY <1>2, <1>3, <1>4

LEMMA StakeInvariance == StakeSpec => []StakeInv
<1>1. StakeSystemInit => StakeInv
  BY AddressAssumption, TokenAssumption, StakeAssumption, StakeInitInv DEF StakeSystemInit
<1>2. StakeInv /\ [StakeNext]_stakeAndTokenVars => StakeInv'
  BY AddressAssumption, TokenAssumption, StakeAssumption, StakeStep, StakeStutter
<1>. QED  BY <1>1, <1>2, PTL DEF StakeSpec

\* Whatever is staked, withdrawn, slashed, donated and configured, and for any
\* number of stakers, the vault can pay every stake, and every variable keeps
\* its type.
THEOREM StakeSafety == StakeSpec => [](StakeTypeOK /\ Solvent)
<1>1. StakeInv => StakeTypeOK /\ Solvent
  BY DEF StakeInv
<1>. QED  BY <1>1, StakeInvariance, PTL

\* A payout of any part of a stake meets every guard of _transfer: the vault
\* holds the tokens, and neither address is zero.
THEOREM StakesArePayable ==
  StakeSpec => [](\A a \in Senders : /\ Vault # ZeroAddress /\ a # ZeroAddress
                                     /\ stakedAmount[a] <= balance[Vault])
<1>1. ASSUME AddressAssumption, TokenAssumption, StakeAssumption, StakeInv, NEW a \in Senders
      PROVE  Vault # ZeroAddress /\ a # ZeroAddress /\ stakedAmount[a] <= balance[Vault]
  <2>1. /\ IsFiniteSet(Accounts) /\ MaxUint \in Nat /\ a \in Accounts
        /\ stakedAmount \in [Accounts -> 0 .. MaxUint]
        /\ balance \in [Accounts -> 0 .. MaxUint] /\ Vault \in Accounts
        /\ Total(stakedAmount) \in Nat /\ Total(stakedAmount) <= balance[Vault]
    BY <1>1, StakeFacts
  <2>2. stakedAmount[a] <= Total(stakedAmount) /\ stakedAmount[a] \in Nat
    BY <2>1, EntryBound
  <2>3. balance[Vault] \in Nat
    BY <2>1
  <2> QED BY <1>1, <2>1, <2>2, <2>3 DEF AddressAssumption, StakeAssumption
<1>2. StakeInv => \A a \in Senders : /\ Vault # ZeroAddress /\ a # ZeroAddress
                                     /\ stakedAmount[a] <= balance[Vault]
  BY <1>1, AddressAssumption, TokenAssumption, StakeAssumption
<1> QED BY <1>2, StakeInvariance, PTL

\* No transaction takes a slashed token out of the vault's treasury.
THEOREM TreasuryIsKept == StakeSpec => TreasuryNeverShrinks
<1>1. StakeInv /\ [StakeNext]_stakeAndTokenVars
        => [treasury' >= treasury]_stakeAndTokenVars
  BY AddressAssumption, TokenAssumption, StakeAssumption, StakeStep
<1>. QED  BY <1>1, StakeInvariance, PTL DEF StakeSpec, TreasuryNeverShrinks
-----------------------------------------------------------------------------
\* The contract implements the abstract vault, step by step.  What a ledger
\* says of the accounts other than the vault:
Others(f) == [h \in Holders |-> f[h]]

LEMMA OthersOf ==
  ASSUME NEW S, NEW f \in [Accounts -> S], NEW a \in Accounts, NEW n
  PROVE  /\ a \in Holders =>
              /\ Others(f)[a] = f[a]
              /\ Others(Credit(f, a, n)) = Vaulting!Credit(Others(f), a, n)
              /\ Others(Debit(f, a, n)) = Vaulting!Debit(Others(f), a, n)
         /\ a = Vault => /\ Others(Credit(f, a, n)) = Others(f)
                         /\ Others(Debit(f, a, n)) = Others(f)
BY DEF Others, Holders, Credit, Debit, Vaulting!Credit, Vaulting!Debit

LEMMA VaultInitially ==
  ASSUME AddressAssumption, TokenAssumption, StakeAssumption, StakeSystemInit
  PROVE  Vaulting!Init
<1>1. treasury = 0
  BY TotalOfZero DEF StakeSystemInit, TokenInit, StakeInit, StakeAssumption, treasury
<1>2. /\ [h \in Holders |-> balance[h]] = [h \in Holders |-> 0]
      /\ [h \in Holders |-> stakedAmount[h]] = [h \in Holders |-> 0]
  BY DEF StakeSystemInit, TokenInit, StakeInit, Holders
<1> QED BY <1>1, <1>2 DEF Vaulting!Init

\* A transfer between accounts is a payment, one to the vault a donation; the
\* vault itself pays nothing but through withdrawStake.
LEMMA TransferImplements ==
  ASSUME AddressAssumption, TokenAssumption, StakeAssumption, StakeInv,
         NEW from \in Accounts, NEW to \in Accounts, NEW n \in Uint,
         _transfer(from, to, n), from = Vault => n = 0, UNCHANGED stakedAmount
  PROVE  [Vaulting!Next]_(Vaulting!vaultVars)
<1>1. /\ Vault \in Accounts /\ MaxUint \in Nat
      /\ balance \in [Accounts -> Nat]
      /\ Total(stakedAmount) \in Nat
      /\ n \in Nat /\ TokenInv
  BY StakeFacts DEF StakeInv, Uint
<1>2. /\ n <= balance[from]
      /\ from = to => balance' = balance
      /\ from # to => balance' = Credit(Debit(balance, from, n), to, n)
  BY <1>1, TransferIsExact
<1> DEFINE debited == Debit(balance, from, n)
<1>3. debited \in [Accounts -> Int]
  BY <1>1 DEF Debit
<1>4. CASE balance' = balance
  BY <1>4 DEF Vaulting!vaultVars, treasury
<1>5. CASE from = Vault
  <2>1. debited = balance
    BY <1>1, <1>5 DEF Debit
  <2>2. Credit(debited, to, n) = balance
    BY <1>1, <1>5, <2>1 DEF Credit
  <2> QED BY <1>2, <1>4, <2>2
<1>6. CASE from # Vault /\ to = Vault /\ from # to
  <2> HIDE DEF debited
  <2>1. from \in Holders /\ balance' = Credit(debited, Vault, n)
    BY <1>2, <1>6 DEF Holders, debited
  <2>2. Others(balance') = Vaulting!Debit(Others(balance), from, n)
    BY <1>1, <1>3, <2>1, OthersOf DEF debited
  <2>3. balance'[Vault] = balance[Vault] + n
    BY <1>1, <1>3, <1>6, <2>1 DEF debited, Credit, Debit
  <2>4. treasury' = treasury + n
    BY <1>1, <2>3 DEF treasury
  <2>5. n \in 0 .. Others(balance)[from] /\ n <= Others(balance)[from]
    BY <1>1, <1>2, <2>1, OthersOf
  <2>6. Vaulting!Donate(from, n)
    BY <2>2, <2>4, <2>5 DEF Vaulting!Donate, Others
  <2> QED BY <2>1, <2>5, <2>6 DEF Vaulting!Next, Others
<1>7. CASE from # Vault /\ to # Vault /\ from # to
  <2> HIDE DEF debited
  <2>1. from \in Holders /\ to \in Holders /\ balance' = Credit(debited, to, n)
    BY <1>2, <1>7 DEF Holders, debited
  <2>2. Others(balance') = Vaulting!Credit(Vaulting!Debit(Others(balance), from, n), to, n)
    BY <1>1, <1>3, <2>1, OthersOf DEF debited
  <2>3. balance'[Vault] = balance[Vault]
    BY <1>1, <1>3, <1>7, <2>1 DEF debited, Credit, Debit
  <2>4. treasury' = treasury
    BY <2>3 DEF treasury
  <2>5. n \in 0 .. Others(balance)[from] /\ n <= Others(balance)[from]
    BY <1>1, <1>2, <2>1, OthersOf
  <2>6. Vaulting!Pay(from, to, n)
    BY <2>2, <2>4, <2>5 DEF Vaulting!Pay, Others
  <2> QED BY <2>1, <2>5, <2>6 DEF Vaulting!Next, Others
<1> QED BY <1>2, <1>4, <1>5, <1>6, <1>7

\* A mint is an issue to an account, or an endowment of the treasury.
LEMMA MintImplements ==
  ASSUME AddressAssumption, TokenAssumption, StakeAssumption, StakeInv,
         NEW to \in Accounts, NEW n \in Amounts, _mint(to, n), UNCHANGED stakedAmount
  PROVE  Vaulting!Next
<1>1. /\ Vault \in Accounts /\ MaxUint \in Nat
      /\ balance \in [Accounts -> Nat]
      /\ Total(stakedAmount) \in Nat
      /\ n \in Uint /\ TokenInv
  BY StakeFacts DEF StakeInv, Uint
<1>2. balance' = Credit(balance, to, n) /\ n \in Nat
  BY <1>1, MintIsExact DEF Uint
<1>3. CASE to = Vault
  <2>1. Others(balance') = Others(balance)
    BY <1>1, <1>2, <1>3, OthersOf
  <2>2. balance'[Vault] = balance[Vault] + n
    BY <1>1, <1>2, <1>3 DEF Credit
  <2>3. treasury' = treasury + n
    BY <1>1, <1>2, <2>2 DEF treasury
  <2> QED BY <2>1, <2>3 DEF Vaulting!Next, Vaulting!Endow, Others
<1>4. CASE to # Vault
  <2>1. to \in Holders /\ Others(balance') = Vaulting!Credit(Others(balance), to, n)
    BY <1>1, <1>2, <1>4, OthersOf DEF Holders
  <2>2. balance'[Vault] = balance[Vault]
    BY <1>1, <1>2, <1>4 DEF Credit
  <2>3. treasury' = treasury
    BY <2>2 DEF treasury
  <2> QED BY <2>1, <2>3 DEF Vaulting!Next, Vaulting!Issue, Others
<1> QED BY <1>3, <1>4

LEMMA TokenImplements ==
  ASSUME AddressAssumption, TokenAssumption, StakeAssumption, StakeInv, TokenNext,
         UNCHANGED stakedAmount
  PROVE  [Vaulting!Next]_(Vaulting!vaultVars)
<1>1. /\ Vault \in Accounts /\ Vault \notin Senders
      /\ Senders \subseteq Accounts /\ Payees \subseteq Accounts
      /\ Amounts \subseteq Uint /\ MaxUint \in Nat
      /\ \A a \in Accounts : allowance[Vault][a] = 0
  BY StakeFacts DEF StakeInv
<1>2. CASE Transfer
  BY <1>1, <1>2, TransferImplements DEF Transfer, transfer
<1>3. CASE TransferFrom
  <2>1. PICK s \in Senders, from \in Accounts, to \in Payees, n \in Amounts :
          _spendAllowance(from, s, n) /\ _transfer(from, to, n)
    BY <1>3 DEF TransferFrom, transferFrom
  <2>2. n <= allowance[from][s] /\ n \in 0 .. MaxUint /\ s \in Accounts
    BY <1>1, <2>1 DEF _spendAllowance, Uint
  <2>3. from = Vault => n = 0
    BY <1>1, <2>2
  <2> QED BY <1>1, <2>1, <2>3, TransferImplements
<1>4. CASE Mint
  BY <1>1, <1>4, MintImplements DEF Mint, mint
<1>5. CASE UNCHANGED balance
  BY <1>5 DEF Vaulting!vaultVars, treasury
<1> QED BY <1>2, <1>3, <1>4, <1>5 DEF TokenNext, Approve, ChangeOwner

LEMMA StakeImplements ==
  ASSUME AddressAssumption, TokenAssumption, StakeAssumption, StakeInv, Stake
  PROVE  Vaulting!Next
<1>1. PICK s \in Senders, n \in Amounts : stakeTokens(s, n)
  BY DEF Stake
<1>2. /\ n \in Nat /\ n <= balance[s]
      /\ balance' = Credit(Debit(balance, s, n), Vault, n)
      /\ stakedAmount' = Credit(stakedAmount, s, n)
      /\ Total(stakedAmount') = Total(stakedAmount) + n
      /\ balance'[Vault] = balance[Vault] + n
  BY <1>1, StakeTokensEffect
<1>3. /\ Vault \in Accounts /\ MaxUint \in Nat /\ s \in Accounts /\ s \in Holders
      /\ balance \in [Accounts -> Nat] /\ stakedAmount \in [Accounts -> Nat]
      /\ Total(stakedAmount) \in Nat
  BY StakeFacts DEF Holders
<1>4. Debit(balance, s, n) \in [Accounts -> Int]
  BY <1>2, <1>3 DEF Debit
<1>5. Others(balance') = Vaulting!Debit(Others(balance), s, n)
  BY <1>2, <1>3, <1>4, OthersOf
<1>6. Others(stakedAmount') = Vaulting!Credit(Others(stakedAmount), s, n)
  BY <1>2, <1>3, OthersOf
<1>7. treasury' = treasury
  BY <1>2, <1>3 DEF treasury
<1>8. n \in 0 .. Others(balance)[s] /\ n <= Others(balance)[s]
  BY <1>2, <1>3, OthersOf
<1>9. Vaulting!Deposit(s, n)
  BY <1>5, <1>6, <1>7, <1>8 DEF Vaulting!Deposit, Others
<1> QED BY <1>3, <1>8, <1>9 DEF Vaulting!Next, Others

LEMMA WithdrawImplements ==
  ASSUME AddressAssumption, TokenAssumption, StakeAssumption, StakeInv, Withdraw
  PROVE  Vaulting!Next
<1>1. PICK s \in Senders, n \in Amounts : withdrawStake(s, n)
  BY DEF Withdraw
<1>2. /\ n \in Nat /\ n <= stakedAmount[s]
      /\ balance' = Credit(Debit(balance, Vault, n), s, n)
      /\ stakedAmount' = Debit(stakedAmount, s, n)
      /\ Total(stakedAmount') = Total(stakedAmount) - n
      /\ balance'[Vault] = balance[Vault] - n
  BY <1>1, WithdrawStakeEffect
<1>3. /\ Vault \in Accounts /\ MaxUint \in Nat /\ s \in Accounts /\ s \in Holders
      /\ balance \in [Accounts -> Nat] /\ stakedAmount \in [Accounts -> Nat]
      /\ Total(stakedAmount) \in Nat
  BY StakeFacts DEF Holders
<1>4. Debit(balance, Vault, n) \in [Accounts -> Int]
  BY <1>2, <1>3 DEF Debit
<1>5. Others(balance') = Vaulting!Credit(Others(balance), s, n)
  <2>1. Others(Debit(balance, Vault, n)) = Others(balance)
    BY <1>3, OthersOf
  <2> QED BY <1>2, <1>3, <1>4, <2>1, OthersOf
<1>6. Others(stakedAmount') = Vaulting!Debit(Others(stakedAmount), s, n)
  BY <1>2, <1>3, OthersOf
<1>7. treasury' = treasury
  BY <1>2, <1>3 DEF treasury
<1>8. n \in 0 .. Others(stakedAmount)[s] /\ n <= Others(stakedAmount)[s]
  BY <1>2, <1>3, OthersOf
<1>9. Vaulting!Withdraw(s, n)
  BY <1>5, <1>6, <1>7, <1>8 DEF Vaulting!Withdraw, Others
<1> QED BY <1>3, <1>8, <1>9 DEF Vaulting!Next, Others

LEMMA SlashImplements ==
  ASSUME AddressAssumption, TokenAssumption, StakeAssumption, StakeInv, Slash
  PROVE  Vaulting!Next
<1>1. PICK s \in Senders, ngo \in NGOs : slashStake(s, ngo)
  BY DEF Slash
<1>2. ngo \in Accounts /\ UNCHANGED balance
  BY DEF StakeAssumption, Slash, tokenVars
<1>3. PICK n \in 0 .. stakedAmount[ngo] :
        /\ stakedAmount' = Debit(stakedAmount, ngo, n)
        /\ Total(stakedAmount') = Total(stakedAmount) - n
        /\ ngo # Vault
  BY <1>1, <1>2, SlashStakeEffect
<1>4. /\ Vault \in Accounts /\ MaxUint \in Nat /\ ngo \in Holders
      /\ balance \in [Accounts -> Nat] /\ stakedAmount \in [Accounts -> Nat]
      /\ Total(stakedAmount) \in Nat
  BY <1>2, <1>3, StakeFacts DEF Holders
<1>5. Others(stakedAmount') = Vaulting!Debit(Others(stakedAmount), ngo, n)
  BY <1>2, <1>3, <1>4, OthersOf
<1>6. n \in Nat /\ n <= stakedAmount[ngo]
  BY <1>2, <1>3, <1>4
<1>7. treasury' = treasury + n
  BY <1>2, <1>3, <1>4, <1>6 DEF treasury
<1>8. n \in 0 .. Others(stakedAmount)[ngo] /\ n <= Others(stakedAmount)[ngo]
  BY <1>2, <1>4, <1>6, OthersOf
<1>9. Vaulting!Forfeit(ngo, n)
  BY <1>2, <1>5, <1>7, <1>8 DEF Vaulting!Forfeit, Others
<1> QED BY <1>4, <1>8, <1>9 DEF Vaulting!Next, Others

\* Every call is one step of the abstract vault, or none: stakes are deposited
\* and paid back to their holders alone, and what is slashed or given stays.
THEOREM StakeImplementsVault == StakeSpec => ImplementsVault
<1>1. StakeSystemInit => Vaulting!Init
  BY AddressAssumption, TokenAssumption, StakeAssumption, VaultInitially
<1>2. StakeInv /\ [StakeNext]_stakeAndTokenVars => [Vaulting!Next]_(Vaulting!vaultVars)
  <2> SUFFICES ASSUME StakeInv, [StakeNext]_stakeAndTokenVars
               PROVE  [Vaulting!Next]_(Vaulting!vaultVars)
    OBVIOUS
  <2> USE AddressAssumption, TokenAssumption, StakeAssumption
  <2>1. CASE TokenNext /\ UNCHANGED stakeVars
    BY <2>1, TokenImplements DEF stakeVars
  <2>2. CASE Stake
    BY <2>2, StakeImplements
  <2>3. CASE Withdraw
    BY <2>3, WithdrawImplements
  <2>4. CASE Slash
    BY <2>4, SlashImplements
  <2>5. CASE UNCHANGED <<stakedAmount, balance>>
    BY <2>5 DEF Vaulting!vaultVars, treasury
  <2> QED
    BY <2>1, <2>2, <2>3, <2>4, <2>5
       DEF StakeNext, IncreaseReputation, DecreaseReputation, ConfigureStake,
           stakeAndTokenVars, stakeVars, tokenVars
<1> QED BY <1>1, <1>2, StakeInvariance, PTL DEF StakeSpec, ImplementsVault, Vaulting!Spec
=============================================================================
