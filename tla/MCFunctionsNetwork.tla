------------------------- MODULE MCFunctionsNetwork -------------------------
(***************************************************************************)
(* Three honest nodes and a faulty one with a single request.  One run     *)
(* looks for wrong answers, with two mishaps, lies among them, and nodes   *)
(* that may compute a result or an error; the other, where the faulty node *)
(* says nothing, one mishap happens and nodes agree, for what never ends.  *)
(***************************************************************************)
EXTENDS FunctionsNetwork

CONSTANTS r1, c1

MCGas == r1 :> 2
MCCoordinators == r1 :> c1

MCResult == {[failed |-> FALSE, value |-> 1]}
MCOutcomes == MCResult \cup {[failed |-> TRUE, value |-> 1]}

MCForgeries ==
  {[id |-> r1, failed |-> FALSE, value |-> 9, gas |-> 0, coordinator |-> c1]}

MCQueries == {<<r1>>}
MCNone == {}
MCSymmetry == Permutations(Nodes)

\* Bounds the rounds that overlap with reports not yet accepted: a round begins
\* once every node has accepted all it was told, or, as long as the nodes agree,
\* all but one have.
late == {n \in Nodes : delivered[n] # {}}

RoundMayBegin ==
  \/ late = {}
  \/ Cardinality(late) = 1 /\ outcomesOf(r1) \subseteq MCResult

MCNext ==
  /\ NetworkNext
  /\ leader' \in {leader, NoLeader} \/ RoundMayBegin

MCSpec == NetworkInit /\ [][MCNext]_networkVars /\ NetworkFairness
=============================================================================
