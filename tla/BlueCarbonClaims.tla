-------------------------- MODULE BlueCarbonClaims --------------------------
(***************************************************************************)
(* What a comment of the repository says of the system and the deployed    *)
(* contracts do not do, as a run of its own shows.                         *)
(***************************************************************************)
EXTENDS BlueCarbon

\* MRVRegistry.sol:171, of markSurvivalVerified: "Marks a plantation as having
\* passed its periodic survival check."  So the registry's owner can mark any
\* registered plantation.
SurvivalCanBeRecorded ==
  \A i \in 0 .. plantationIdCounter - 1 :
    ENABLED markSurvivalVerified(registryOwner, i)
=============================================================================
