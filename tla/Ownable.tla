------------------------------ MODULE Ownable ------------------------------
(***************************************************************************)
(* OpenZeppelin's Ownable, the access control every first-party contract   *)
(* inherits.  A contract's module instantiates it with its own owner       *)
(* variable.  A handler takes the transaction's sender first; a call that  *)
(* reverts changes nothing, so it is simply not enabled.                   *)
(***************************************************************************)
CONSTANTS ZeroAddress

VARIABLE owner

onlyOwner(sender) == sender = owner

transferOwnership(sender, newOwner) ==
  /\ onlyOwner(sender)
  /\ newOwner # ZeroAddress
  /\ owner' = newOwner

renounceOwnership(sender) ==
  /\ onlyOwner(sender)
  /\ owner' = ZeroAddress

\* Ownership passes to newOwner: to ZeroAddress only by renouncing it.
passOwnership(sender, newOwner) ==
  \/ transferOwnership(sender, newOwner)
  \/ newOwner = ZeroAddress /\ renounceOwnership(sender)
=============================================================================
