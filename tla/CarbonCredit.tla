---------------------------- MODULE CarbonCredit ----------------------------
(***************************************************************************)
(* CarbonCredit.sol: the BCC token, an OpenZeppelin ERC20 whose owner may  *)
(* mint.  It is also the token NGOs stake.                                 *)
(*                                                                         *)
(* A handler is the guard under which the call does not revert and the     *)
(* assignments it makes; it says nothing of the variables it leaves alone, *)
(* so that a contract that makes several calls in one transaction can      *)
(* conjoin them.  TokenNext adds the frame.                                     *)
(***************************************************************************)
EXTENDS Ledgers, Addresses

CONSTANTS
  TokenOwners,   \* the addresses ownership passes to, ZeroAddress by renouncing
  Payees,        \* the addresses tokens are sent to
  Spenders,      \* the addresses somebody may approve
  Amounts,       \* the values transactions carry
  Approvals,     \* the values approve is called with
  MaxUint,       \* type(uint256).max
  SupplyBound    \* bound on what is ever minted (MaxUint or more: no bound)

ASSUME TokenAssumption ==
  /\ Payees \subseteq Accounts
  /\ Spenders \subseteq Accounts
  /\ TokenOwners \subseteq Accounts
  /\ MaxUint \in Nat
  /\ Amounts \subseteq 0 .. MaxUint
  /\ Approvals \subseteq 0 .. MaxUint
  /\ SupplyBound \in Nat

VARIABLES
  tokenOwner,    \* Ownable._owner
  balance,       \* ERC20._balances
  allowance,     \* ERC20._allowances: allowance[owner][spender]
  totalSupply    \* ERC20._totalSupply

tokenVars == <<tokenOwner, balance, allowance, totalSupply>>

TokenOwnable == INSTANCE Ownable WITH owner <- tokenOwner

Uint == 0 .. MaxUint

\* The value an unchecked addition of two uint256 leaves.
Wrap(n) == IF n > MaxUint THEN n - (MaxUint + 1) ELSE n

TokenInit ==
  /\ tokenOwner = Deployer
  /\ balance = [a \in Accounts |-> 0]
  /\ allowance = [a \in Accounts |-> [s \in Accounts |-> 0]]
  /\ totalSupply = 0
-----------------------------------------------------------------------------
\* A mistake the properties must catch: a credit computed before the debit is
\* written.
_transferStale(from, to, value) ==
  /\ from # ZeroAddress
  /\ to # ZeroAddress
  /\ value <= balance[from]
  /\ balance' = [Debit(balance, from, value)
                   EXCEPT ![to] = Wrap(balance[to] + value)]

\* ERC20._transfer and the branch of ERC20._update it takes.  The debit is
\* written before the credit is read: a transfer to oneself changes nothing.
_transfer(from, to, value) ==
  /\ from # ZeroAddress
  /\ to # ZeroAddress
  /\ value <= balance[from]
  /\ balance' = [Debit(balance, from, value) EXCEPT ![to] = Wrap(@ + value)]

\* ERC20._mint: the addition to the supply is the checked one.
_mint(account, value) ==
  /\ account # ZeroAddress
  /\ totalSupply + value <= MaxUint
  /\ totalSupply' = totalSupply + value
  /\ balance' = [balance EXCEPT ![account] = Wrap(@ + value)]

\* ERC20._spendAllowance: an allowance of MaxUint is infinite.
_spendAllowance(from, spender, value) ==
  /\ value <= allowance[from][spender]
  /\ from # ZeroAddress
  /\ allowance' = IF allowance[from][spender] = MaxUint
                  THEN allowance
                  ELSE [allowance EXCEPT ![from] = Debit(@, spender, value)]

transfer(sender, to, value) == _transfer(sender, to, value)

approve(sender, spender, value) ==
  /\ spender # ZeroAddress
  /\ allowance' = [allowance EXCEPT ![sender][spender] = value]

transferFrom(sender, from, to, value) ==
  /\ _spendAllowance(from, sender, value)
  /\ _transfer(from, to, value)

mint(sender, to, amount) ==
  /\ TokenOwnable!onlyOwner(sender)
  /\ _mint(to, amount)
-----------------------------------------------------------------------------
Transfer ==
  /\ \E s \in Senders, to \in Payees, n \in Amounts : transfer(s, to, n)
  /\ UNCHANGED <<tokenOwner, allowance, totalSupply>>

Approve ==
  /\ \E s \in Senders, p \in Spenders, n \in Approvals : approve(s, p, n)
  /\ UNCHANGED <<tokenOwner, balance, totalSupply>>

TransferFrom ==
  /\ \E s \in Senders, from \in Accounts, to \in Payees, n \in Amounts :
        transferFrom(s, from, to, n)
  /\ UNCHANGED <<tokenOwner, totalSupply>>

Mint ==
  /\ \E s \in Senders, to \in Payees, n \in Amounts :
        /\ totalSupply + n <= SupplyBound
        /\ mint(s, to, n)
  /\ UNCHANGED <<tokenOwner, allowance>>

ChangeOwner ==
  /\ \E s \in Senders, a \in TokenOwners : TokenOwnable!passOwnership(s, a)
  /\ UNCHANGED <<balance, allowance, totalSupply>>

TokenNext == Transfer \/ Approve \/ TransferFrom \/ Mint \/ ChangeOwner

TokenSpec == TokenInit /\ [][TokenNext]_tokenVars
-----------------------------------------------------------------------------
\* Every variable holds a value of its Solidity type.
TokenTypeOK ==
  /\ tokenOwner \in Accounts
  /\ balance \in [Accounts -> Uint]
  /\ allowance \in [Accounts -> [Accounts -> Uint]]
  /\ totalSupply \in Uint

\* The balances add up to the supply.  ERC20._update adds to balances without
\* overflow checks because of this: one wrapped balance would break it.
SupplyIsBacked == Total(balance) = totalSupply
=============================================================================
