--------------------------- MODULE MCFunctionsNode ---------------------------
(***************************************************************************)
(* What the nodes of the network do, each part on its own: a listener with *)
(* its table, a round of observations and the report made of them, and the *)
(* loop that aggregates.                                                   *)
(*                                                                         *)
(* The listener has one fault, one crash, and two transactions open at a   *)
(* time.  Either r1 alone is made, with everything that can happen, or r1  *)
(* and r2, so that r1 may be pruned and received again: then nothing fails *)
(* and nothing is answered.                                                *)
(*                                                                         *)
(* A round is about r1 alone, whose results are 1, 2 or an error, while    *)
(* the faulty observer also says 0 or 9, gives wrong metadata and repeats  *)
(* itself; or about the other three, of which s exceeds the gas limit      *)
(* after r, and t goes to another coordinator, and r is named twice.       *)
(*                                                                         *)
(* The loop has lists of up to six items of three values: two liars among  *)
(* five, ties of two and three values, a majority overtaken late.          *)
(***************************************************************************)
EXTENDS FunctionsListener, ReportRound, ModeLoop

CONSTANTS r1, r2, r, s, t, c1, c2

MCGas == r1 :> 3 @@ r :> 3 @@ s :> 2 @@ t :> 1
MCCoordinators == r1 :> c1 @@ r :> c1 @@ s :> c1 @@ t :> c2

result(v) == [failed |-> FALSE, value |-> v]
MCOutcomesOf ==
  [id \in {r, s, t} |-> {result(1)}]
    @@ r1 :> {result(1), result(2), [failed |-> TRUE, value |-> 1]}

forged(id, failed, value, gas, coordinator) ==
  [id |-> id, failed |-> failed, value |-> value, gas |-> gas, coordinator |-> coordinator]

MCForgeries ==
  {forged(r1, FALSE, 0, 3, c1), forged(r1, FALSE, 9, 0, c2), forged(r1, TRUE, 9, 3, c1),
   forged(r, FALSE, 9, 13, c2), forged(t, TRUE, 9, 0, c1)}

MCQueries == {<<r1>>, <<r1, r1>>, <<r, s, r, t>>, <<t, s, r>>}

VARIABLES
  part,   \* what is explored, and
  made    \* the requests the listener's part is about: they never change

MCVars == <<listenerVars, spokenVars, loopVars, part, made>>

\* The parts that are not explored stand still where they begin.
MCInit ==
  /\ ListenerInit /\ RoundInit /\ LoopInit
  /\ part \in {"listener", "round", "loop"} /\ made \in {{r1}, {r1, r2}}
  /\ part = "listener" \/ made = {r1}
  /\ part = "round" \/ query = <<r1>>
  /\ part = "loop" \/ items = <<CHOOSE v \in Values : TRUE>>

calm ==
  /\ UNCHANGED faultVars
  /\ recent \subseteq recent'
  /\ mined' \subseteq {"request"} \X made
  /\ \A node \in Nodes : RequestOf(r2) \in detected[node] => RequestOf(r2) \in detected'[node]

ListenerPart ==
  /\ ListenerNext
  /\ mined' \subseteq {"request", "response"} \X made
  /\ made = {r1} \/ calm
  /\ \A node \in Nodes : Cardinality(open'[node]) <= 2

MCNext ==
  /\ \/ part = "listener" /\ ListenerPart /\ UNCHANGED <<spokenVars, loopVars>>
     \/ part = "round" /\ RoundNext /\ UNCHANGED <<listenerVars, loopVars>>
     \/ part = "loop" /\ Iterate /\ UNCHANGED <<listenerVars, spokenVars>>
  /\ UNCHANGED <<part, made>>

MCSpec ==
  /\ MCInit /\ [][MCNext]_MCVars
  /\ \A node \in Nodes : NodeFairness(node) /\ WF_listenerVars(timeoutRequests(node))
=============================================================================
