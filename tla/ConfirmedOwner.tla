--------------------------- MODULE ConfirmedOwner ---------------------------
(***************************************************************************)
(* Chainlink's ConfirmedOwner: ownership passes in two transactions, an    *)
(* offer by the owner and its acceptance by the address it was offered to. *)
(***************************************************************************)
CONSTANT ZeroAddress

VARIABLES owner, pendingOwner

onlyOwner(sender) == sender = owner

transferOwnership(sender, to) ==
  /\ onlyOwner(sender)
  /\ to # sender
  /\ pendingOwner' = to
  /\ UNCHANGED owner

acceptOwnership(sender) ==
  /\ sender = pendingOwner
  /\ owner' = sender
  /\ pendingOwner' = ZeroAddress
=============================================================================
