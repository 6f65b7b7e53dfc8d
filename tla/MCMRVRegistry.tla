--------------------------- MODULE MCMRVRegistry ---------------------------
(***************************************************************************)
(* The owner (deployer) and one NGO, two plantations, all configuration    *)
(* calls in any order: the registry may or may not own the token, the      *)
(* verification contract address may be the owner's own, the NGO may be    *)
(* blacklisted between submission and issue.                               *)
(***************************************************************************)
EXTENDS MRVRegistry

CONSTANTS zero, deployer, ngo, registry, manager
=============================================================================
