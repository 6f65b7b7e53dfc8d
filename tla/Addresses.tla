----------------------------- MODULE Addresses -----------------------------
(***************************************************************************)
(* The addresses every contract's module is written over.  A handler      *)
(* takes the transaction's sender (msg.sender) first; a call that reverts  *)
(* changes nothing, so it is not enabled.                                  *)
(***************************************************************************)
EXTENDS FiniteSets

CONSTANTS
  Accounts,      \* every address, contracts and ZeroAddress included
  ZeroAddress,   \* address(0)
  Senders,       \* the addresses that send transactions: never a contract
  Deployer       \* msg.sender of the constructors

ASSUME AddressAssumption ==
  /\ IsFiniteSet(Accounts)
  /\ ZeroAddress \in Accounts
  /\ Senders \subseteq Accounts \ {ZeroAddress}
  /\ Deployer \in Accounts \ {ZeroAddress}
=============================================================================
