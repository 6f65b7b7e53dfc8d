---------------------------- MODULE MCBlueCarbon ----------------------------
(***************************************************************************)
(* The deployer is owner and admin, as the script has it; one NGO; the     *)
(* score oracle.  The runs differ in which configuration calls happen.     *)
(***************************************************************************)
EXTENDS BlueCarbonClaims

CONSTANTS zero, deployer, ngo, oracle, registry, manager, vault, verification

MCAccounts == {zero, deployer, ngo, oracle, registry, manager, vault, verification}
=============================================================================
