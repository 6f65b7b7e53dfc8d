------------------------- MODULE MCStakeReputation -------------------------
(***************************************************************************)
(* The deployer and one NGO, both of whom stake, and the vault.  A supply  *)
(* of 5 minted in steps of 1 and 4: 25% of a stake below 4 rounds to       *)
(* nothing, and 100% of a stake of 5 overflows (MaxUint is 499).           *)
(***************************************************************************)
EXTENDS StakeReputation

CONSTANTS zero, deployer, ngo, vault
=============================================================================
