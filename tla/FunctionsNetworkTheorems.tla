---------------------- MODULE FunctionsNetworkTheorems ----------------------
(***************************************************************************)
(* What the Functions network answers, for any number of nodes, requests   *)
(* and outcomes, any reports under way at once and any mishaps: the        *)
(* invariant that what is reported, sent and answered was computed by more *)
(* than F honest nodes, along every step of FunctionsNetwork.              *)
(***************************************************************************)
EXTENDS FunctionsNetwork, FunctionsTheorems

\* The honest nodes that have an outcome of a request.
Computers(r) == {node \in Nodes : rows[node][r].outcome # NoOutcome}

Answered == [id : Requests, failed : BOOLEAN, value : Int]

\* What may be answered: more than F honest nodes have an outcome, and if these
\* agree the item says theirs.
Backed(item) ==
  /\ Cardinality(Computers(item.id)) > F
  /\ \A outcome \in Outcomes : outcomesOf(item.id) = {outcome} =>
       item.failed = outcome.failed /\ item.value = outcome.value

BackedItems == {item \in Answered : Backed(item)}

\* The honest observations in a list say what their speakers' rows say, f.
Recorded(list, speaker, f) ==
  \A i \in HonestPlaces(list, speaker) :
    /\ f[speaker[i]] # NoOutcome
    /\ list[i].failed = f[speaker[i]].failed
    /\ list[i].value = f[speaker[i]].value

\* The outcomes the nodes have of a request.
PastOf(r) == [node \in Nodes |-> rows[node][r].outcome]

\* The observations of a request are of different speakers, on record.
HeardOf(list, r, heard, f) ==
  \E speaker : SpokenBy(list, speaker, r, heard) /\ Recorded(list, speaker, f)

RoundRecorded ==
  /\ RoundInv
  /\ \A r \in Requests : HeardOf(reqIdToObservationList[r], r, observed, PastOf(r))

ReportsOf(B) == (SUBSET B) \ {{}}

\* The reports D to be accepted, A to be transmitted and T on their way.
SentOK(D, A, T, B) ==
  /\ D \in [Nodes -> SUBSET ReportsOf(B)]
  /\ A \in [Nodes -> SUBSET ReportsOf(B)]
  /\ T \subseteq Nodes \X (SUBSET B)

\* The answers given to the requests Q.
AnswersOK(given, Q, B) ==
  \A r \in Requests :
    \/ given[r] = NoOutcome
    \/ /\ r \in Q
       /\ given[r] = [failed |-> given[r].failed, value |-> given[r].value]
       /\ [id |-> r, failed |-> given[r].failed, value |-> given[r].value] \in B

\* A request's outcome is about to be written at most once, and not over another.
OnceEach ==
  \A node \in Nodes, r \in Requests : OneAtWork(rows[node], {}, open[node], r)

NodesOK == TablesOK(asked) /\ OnceEach

NetworkInv ==
  /\ asked \subseteq Requests
  /\ NodesOK
  /\ leader \in Nodes \cup Faulty \cup {NoLeader}
  /\ RoundRecorded
  /\ SentOK(delivered, accepted, txs, BackedItems)
  /\ AnswersOK(answer, asked, BackedItems)
-----------------------------------------------------------------------------
\* An outcome, once there, stays: nothing is pruned while it may be reported.
OutcomesKept ==
  \A node \in Nodes, r \in Requests :
    rows[node][r].outcome # NoOutcome => rows'[node][r].outcome = rows[node][r].outcome

\* What every step does that writes no outcome.
OutcomesStand ==
  \A node \in Nodes, r \in Requests : rows'[node][r].outcome = rows[node][r].outcome

NodesFinite == IsFiniteSet(Nodes)

LEMMA NodesAreFinite == NodesFinite
BY ReportAssumption, NetworkAssumption, FS_Subset DEF NodesFinite

\* What may be answered may be answered from then on.
LEMMA BackedStays ==
  ASSUME OutcomesKept
  PROVE  BackedItems \subseteq BackedItems'
<1> SUFFICES ASSUME NEW item \in Answered, Backed(item) PROVE Backed(item)'
  BY DEF BackedItems, Answered
<1>1. PICK r \in Requests : r = item.id
  BY DEF Answered
<1>2. Computers(r) \subseteq Computers(r)' /\ outcomesOf(r) \subseteq outcomesOf(r)'
  BY DEF OutcomesKept, Computers, outcomesOf
<1>3. IsFiniteSet(Computers(r)')
  <2>1. Computers(r)' \subseteq Nodes
    BY DEF Computers
  <2> QED BY <2>1, NodesAreFinite, FS_Subset DEF NodesFinite
<1>4. /\ Cardinality(Computers(r)) \in Nat /\ Cardinality(Computers(r)') \in Nat
      /\ Cardinality(Computers(r)) <= Cardinality(Computers(r)')
  BY <1>2, <1>3, FS_Subset, FS_CardinalityType
<1>5. Cardinality(Computers(r)) > F /\ F \in Nat
  BY <1>1, ReportAssumption DEF Backed
<1>6. Cardinality(Computers(r)') > F
  BY <1>4, <1>5
<1>7. ASSUME NEW outcome \in Outcomes, outcomesOf(r)' = {outcome}
      PROVE  item.failed = outcome.failed /\ item.value = outcome.value
  <2>1. Computers(r) # {}
    BY <1>4, <1>5, FS_EmptySet
  <2>2. outcomesOf(r) # {}
    BY <2>1 DEF Computers, outcomesOf
  <2>3. outcomesOf(r) = {outcome}
    BY <1>2, <1>7, <2>2
  <2> QED BY <1>1, <2>3 DEF Backed
<1> QED BY <1>1, <1>6, <1>7 DEF Backed

\* More that may be answered takes nothing back.
LEMMA MoreIsBacked ==
  ASSUME NEW D, NEW A, NEW T, NEW given, NEW Q, NEW more, NEW B, NEW C,
         SentOK(D, A, T, B), AnswersOK(given, Q, B), B \subseteq C, Q \subseteq more
  PROVE  SentOK(D, A, T, C) /\ AnswersOK(given, more, C)
<1>1. SUBSET ReportsOf(B) \subseteq SUBSET ReportsOf(C)
  BY DEF ReportsOf
<1>2. SentOK(D, A, T, C)
  BY <1>1 DEF SentOK
<1> QED BY <1>2 DEF AnswersOK
-----------------------------------------------------------------------------
\* Tables that stay keep their outcomes.
LEMMA NothingIsLost ==
  ASSUME UNCHANGED ormVars
  PROVE  OutcomesStand
BY DEF ormVars, OutcomesStand

\* A step of one node writes an outcome where there is none, of a request asked.
Computes(node, r, outcome) ==
  /\ r \in asked /\ rows[node][r].outcome = NoOutcome
  /\ \A m \in Nodes, p \in Requests :
       rows'[m][p].outcome = IF m = node /\ p = r THEN outcome ELSE rows[m][p].outcome

\* What a step does to the tables that computes nothing, and one that does.
RowsStand == TablesGoOn(asked) /\ OnceEach' /\ OutcomesStand

RowsCompute ==
  /\ TablesGoOn(asked) /\ OnceEach'
  /\ \E node \in Nodes, r \in Requests, outcome \in Outcomes : Computes(node, r, outcome)

LEMMA RowsStay ==
  ASSUME NodesOK, UNCHANGED ormVars
  PROVE  RowsStand
<1>1. OnceEach'
  BY DEF NodesOK, OnceEach, ormVars
<1> QED BY <1>1, TablesStay, NothingIsLost DEF NodesOK, RowsStand

\* A step about one node.
LEMMA OneNodesOnce ==
  ASSUME NodesOK, NEW node \in Nodes, NEW t, NEW T,
         rows' = [rows EXCEPT ![node] = t], open' = [open EXCEPT ![node] = T],
         \A r \in Requests : OneAtWork(t, {}, T, r)
  PROVE  OnceEach'
<1>1. /\ rows' = [m \in Nodes |-> IF m = node THEN t ELSE rows[m]]
      /\ open' = [m \in Nodes |-> IF m = node THEN T ELSE open[m]]
  BY DEF NodesOK, TablesOK
<1>2. ASSUME NEW other \in Nodes, NEW r \in Requests
      PROVE  OneAtWork(rows'[other], {}, open'[other], r)
  BY <1>1 DEF NodesOK, OnceEach
<1> QED BY <1>2 DEF OnceEach

LEMMA OneNodesOutcomes ==
  ASSUME NodesOK, NEW node \in Nodes, NEW t, rows' = [rows EXCEPT ![node] = t],
         \A r \in Requests : t[r].outcome = rows[node][r].outcome
  PROVE  OutcomesStand
<1>1. rows' = [m \in Nodes |-> IF m = node THEN t ELSE rows[m]]
  BY DEF NodesOK, TablesOK
<1> QED BY <1>1 DEF OutcomesStand

\* A transaction that writes states only: a confirmation, the timer, a report.
LEMMA StatesStand ==
  ASSUME NodesOK, NEW node \in Nodes, NEW x, x.outcome = NoOutcome,
         x.next \in RequestStates \ {"RESULT_READY"}, update(node, x),
         NEW T, T \subseteq open[node], open' = [open EXCEPT ![node] = T]
  PROVE  RowsStand
<1>1. TablesGoOn(asked)
  BY UpdateGoesOn DEF NodesOK, WritesOK
<1>2. PICK t, u : t = rows[node] /\ u = Updated(t, x)
  OBVIOUS
<1>3. rows' = [rows EXCEPT ![node] = u]
  BY <1>2, UpdateWrites DEF NodesOK
<1>4. \A r \in Requests : u[r].outcome = t[r].outcome
  BY <1>2 DEF Updated, written
<1>5. ASSUME NEW r \in Requests PROVE OneAtWork(u, {}, T, r)
  <2>1. OneAtWork(t, {}, open[node], r) /\ Results(T, r) \subseteq Results(open[node], r)
    BY <1>2 DEF NodesOK, OnceEach, Results
  <2> QED BY <1>4, <2>1, FewerAtWork
<1>6. OnceEach'
  BY <1>3, <1>5, OneNodesOnce
<1>7. OutcomesStand
  <2>1. \A r \in Requests : u[r].outcome = rows[node][r].outcome
    BY <1>2, <1>4
  <2>2. rows' = [m \in Nodes |-> IF m = node THEN u ELSE rows[m]]
    BY <1>3 DEF NodesOK, TablesOK
  <2> QED BY <2>1, <2>2 DEF OutcomesStand
<1> QED BY <1>1, <1>6, <1>7 DEF RowsStand

\* A transaction begins that is to write states, or the only one to write r's
\* outcome.
LEMMA BeginStands ==
  ASSUME NodesOK, NEW node \in Nodes, NEW x, OpenOK(x), begin(node, x),
         \A r \in DOMAIN x.read : x.outcome # NoOutcome =>
           rows[node][r].outcome = NoOutcome /\ Results(open[node], r) = {}
  PROVE  RowsStand
<1>1. TablesGoOn(asked)
  BY BeginGoesOn DEF NodesOK
<1>2. /\ open' = [open EXCEPT ![node] = open[node] \cup {x}]
      /\ rows' = [rows EXCEPT ![node] = rows[node]]
      /\ rows' = rows
  BY DEF begin, NodesOK, TablesOK
<1>3. ASSUME NEW r \in Requests PROVE OneAtWork(rows[node], {}, open[node] \cup {x}, r)
  <2>1. OneAtWork(rows[node], {}, open[node], r)
    BY DEF NodesOK, OnceEach
  <2>2. CASE x.outcome = NoOutcome \/ r \notin DOMAIN x.read
    <3>1. Results(open[node] \cup {x}, r) = Results(open[node], r)
      BY <2>2 DEF Results
    <3> QED BY <2>1, <3>1 DEF OneAtWork
  <2>3. CASE x.outcome # NoOutcome /\ r \in DOMAIN x.read
    <3>1. Results(open[node], r) = {} /\ rows[node][r].outcome = NoOutcome
      BY <2>3
    <3>2. Results(open[node] \cup {x}, r) = {x}
      BY <2>3, <3>1 DEF Results
    <3> QED BY <3>1, <3>2 DEF OneAtWork
  <2> QED BY <2>2, <2>3
<1>4. OnceEach'
  BY <1>2, <1>3, OneNodesOnce
<1>5. OutcomesStand
  BY <1>2 DEF OutcomesStand
<1> QED BY <1>1, <1>4, <1>5 DEF RowsStand

\* A transaction without an outcome, at once or slow.
LEMMA TransactStands ==
  ASSUME NodesOK, NEW node \in Nodes, NEW x, OpenOK(x), x.outcome = NoOutcome,
         NEW m, transact(node, x, m)
  PROVE  RowsStand
<1>1. CASE update(node, x) /\ UNCHANGED open
  <2>1. open' = [open EXCEPT ![node] = open[node]]
    BY <1>1 DEF NodesOK, TablesOK
  <2>2. x.next \in RequestStates \ {"RESULT_READY"}
    BY DEF OpenOK, WritesOK
  <2> QED BY <1>1, <2>1, <2>2, StatesStand
<1>2. CASE begin(node, x)
  BY <1>2, BeginStands
<1> QED BY <1>1, <1>2 DEF transact

\* What is written of one request's outcome.
LEMMA WritingComputes ==
  ASSUME NodesOK, NEW node \in Nodes, NEW r \in Requests, NEW x, OpenOK(x),
         x.outcome # NoOutcome, DOMAIN x.read = {r}, rows[node][r].outcome = NoOutcome,
         update(node, x), NEW T, T \subseteq open[node], open' = [open EXCEPT ![node] = T],
         Results(T, r) = {}
  PROVE  RowsStand \/ RowsCompute
<1>1. TablesGoOn(asked)
  BY UpdateGoesOn DEF NodesOK, OpenOK
<1>2. PICK t, u : t = rows[node] /\ u = Updated(t, x)
  OBVIOUS
<1>3. rows' = [rows EXCEPT ![node] = u]
  BY <1>2, UpdateWrites DEF NodesOK
<1>4. \A p \in Requests \ {r} : u[p] = t[p]
  BY <1>2 DEF Updated
<1>5. ASSUME NEW p \in Requests PROVE OneAtWork(u, {}, T, p)
  <2>1. CASE p = r
    BY <2>1 DEF OneAtWork
  <2>2. CASE p # r
    <3>1. OneAtWork(t, {}, open[node], p) /\ Results(T, p) \subseteq Results(open[node], p)
      BY <1>2 DEF NodesOK, OnceEach, Results
    <3> QED BY <1>4, <2>2, <3>1, FewerAtWork
  <2> QED BY <2>1, <2>2
<1>6. OnceEach'
  BY <1>3, <1>5, OneNodesOnce
<1>7. CASE r \in In(t)
  <2>1. r \in asked
    BY <1>2, <1>7 DEF NodesOK, TablesOK, TableOK, In
  <2>2. u[r].outcome = x.outcome /\ x.outcome \in Outcomes
    BY <1>2, <1>7 DEF Updated, written, OpenOK, WritesOK
  <2>3. rows' = [m \in Nodes |-> IF m = node THEN u ELSE rows[m]]
    BY <1>3 DEF NodesOK, TablesOK
  <2>4. ASSUME NEW m \in Nodes, NEW p \in Requests
        PROVE  rows'[m][p].outcome =
                 IF m = node /\ p = r THEN x.outcome ELSE rows[m][p].outcome
    <3>1. CASE m = node /\ p = r
      BY <2>2, <2>3, <3>1
    <3>2. CASE m = node /\ p # r
      BY <1>2, <1>4, <2>3, <3>2
    <3>3. CASE m # node
      BY <2>3, <3>3
    <3> QED BY <3>1, <3>2, <3>3
  <2>5. Computes(node, r, x.outcome)
    BY <2>1, <2>4 DEF Computes
  <2> QED BY <1>1, <1>6, <2>2, <2>5 DEF RowsCompute
<1>8. CASE r \notin In(t)
  <2>1. u[r] = t[r]
    BY <1>2, <1>8 DEF Updated
  <2>2. \A p \in Requests : u[p].outcome = rows[node][p].outcome
    BY <1>2, <1>4, <2>1
  <2>3. OutcomesStand
    BY <1>3, <2>2, OneNodesOutcomes
  <2> QED BY <1>1, <1>6, <2>3 DEF RowsStand
<1> QED BY <1>7, <1>8

\* A node computes a request, and writes the outcome at once or later.
LEMMA ComputeGoesOn ==
  ASSUME NodesOK, NEW node \in Nodes, NEW r \in Requests, NEW outcome \in Outcomes,
         Compute(node, r, outcome)
  PROVE  RowsStand \/ RowsCompute
<1>1. PICK x : x = SetResult(node, r, outcome)
  OBVIOUS
<1>2. /\ rows[node][r].outcome = NoOutcome /\ Results(open[node], r) = {}
      /\ CheckStateTransition(x) /\ transact(node, x, 0)
  BY <1>1 DEF Compute, Results
<1>3. DOMAIN x.read = {r} /\ x.outcome = outcome /\ outcome # NoOutcome
  BY <1>1, ORMAssumption DEF SetResult, transaction
<1>4. OpenOK(x)
  <2>1. "RESULT_READY" \in RequestStates
    BY DEF RequestStates
  <2> QED BY <1>1, <1>2, <1>3, <2>1, SettersOpen DEF SetResult, NodesOK
<1>5. CASE update(node, x) /\ UNCHANGED open
  <2>1. open' = [open EXCEPT ![node] = open[node]]
    BY <1>5 DEF NodesOK, TablesOK
  <2> QED BY <1>2, <1>3, <1>4, <1>5, <2>1, WritingComputes
<1>6. CASE begin(node, x)
  BY <1>2, <1>3, <1>4, <1>6, BeginStands
<1> QED BY <1>2, <1>5, <1>6 DEF transact

\* A slow transaction ends.
LEMMA CommitStandsOrComputes ==
  ASSUME NodesOK, NEW node \in Nodes, Commit(node)
  PROVE  RowsStand \/ RowsCompute
<1>1. PICK x \in open[node] : commit(node, x)
  BY DEF Commit
<1>2. OpenOK(x) /\ update(node, x) /\ open' = [open EXCEPT ![node] = open[node] \ {x}]
  BY <1>1 DEF commit, end, NodesOK, TablesOK
<1>3. CASE x.outcome = NoOutcome
  <2>1. x.next \in RequestStates \ {"RESULT_READY"}
    BY <1>2, <1>3 DEF OpenOK, WritesOK
  <2> QED BY <1>2, <1>3, <2>1, StatesStand
<1>4. CASE x.outcome # NoOutcome
  <2>1. PICK r \in Requests : DOMAIN x.read = {r}
    BY <1>2, <1>4 DEF OpenOK
  <2>2. OneAtWork(rows[node], {}, open[node], r) /\ x \in Results(open[node], r)
    BY <1>1, <1>4, <2>1 DEF NodesOK, OnceEach, Results
  <2>3. rows[node][r].outcome = NoOutcome /\ Results(open[node] \ {x}, r) = {}
    BY <2>2 DEF OneAtWork, Results
  <2> QED BY <1>2, <1>4, <2>1, <2>3, WritingComputes
<1> QED BY <1>3, <1>4

LEMMA ReceiveStands ==
  ASSUME NodesOK, NEW node \in Nodes, NEW r \in Requests, Receive(node, r)
  PROVE  RowsStand
<1>1. r \in asked /\ CreateRequest(node, r)
  BY DEF Receive
<1>2. OutcomesStand
  BY <1>1, NewRowsHaveNone DEF NodesOK, OutcomesStand
<1>3. UNCHANGED open
  BY <1>1 DEF CreateRequest
<1>4. ASSUME NEW m \in Nodes, NEW p \in Requests
      PROVE  OneAtWork(rows'[m], {}, open'[m], p)
  <2>1. OneAtWork(rows[m], {}, open[m], p) /\ Results(open'[m], p) = Results(open[m], p)
    BY <1>3 DEF NodesOK, OnceEach
  <2>2. rows'[m][p].outcome \in {rows[m][p].outcome, NoOutcome}
    BY <1>2 DEF OutcomesStand
  <2>3. PICK t, u, T, V : t = rows[m] /\ u = rows'[m] /\ T = open[m] /\ V = open'[m]
    OBVIOUS
  <2>4. OneAtWork(u, {}, V, p)
    BY <2>1, <2>2, <2>3, FewerAtWork
  <2> QED BY <2>3, <2>4
<1>5. OnceEach'
  BY <1>4 DEF OnceEach
<1> QED BY <1>1, <1>2, <1>5, CreateRequestGoesOn DEF NodesOK, RowsStand

LEMMA ConfirmStands ==
  ASSUME NodesOK, NEW node \in Nodes, NEW r \in Requests, Confirm(node, r)
  PROVE  RowsStand
<1>1. PICK x : x = SetConfirmed(node, r)
  OBVIOUS
<1>2. update(node, x) /\ UNCHANGED open
  BY <1>1 DEF Confirm
<1>3. x.outcome = NoOutcome /\ x.next \in RequestStates \ {"RESULT_READY"}
  BY <1>1 DEF SetConfirmed, transaction, RequestStates
<1>4. open' = [open EXCEPT ![node] = open[node]]
  BY <1>2 DEF NodesOK, TablesOK
<1> QED BY <1>2, <1>3, <1>4, StatesStand

LEMMA TimeOutStands ==
  ASSUME NodesOK, NEW node \in Nodes, TimeOut(node)
  PROVE  RowsStand
<1>1. PICK cutoff \in 1 .. Len(received[node]) :
        transact(node, TimeoutExpiredResults(node, cutoff), 1)
  BY DEF TimeOut
<1>2. PICK x : x = TimeoutExpiredResults(node, cutoff)
  OBVIOUS
<1>3. OpenOK(x) /\ x.outcome = NoOutcome
  BY <1>2, TimerOpens DEF NodesOK, TimeoutExpiredResults, transaction
<1> QED BY <1>1, <1>2, <1>3, TransactStands

LEMMA FinalizeSlowlyStands ==
  ASSUME NodesOK, NEW node \in Nodes, NEW r \in Requests, FinalizeSlowly(node, r)
  PROVE  RowsStand
<1>1. PICK x : x = SetFinalized(node, r)
  OBVIOUS
<1>2. begin(node, x) /\ CheckStateTransition(x) /\ x.outcome = NoOutcome
  BY <1>1 DEF FinalizeSlowly, SetFinalized, transaction
<1>3. OpenOK(x)
  BY <1>1, <1>2, SettersOpen DEF SetFinalized, NodesOK, RequestStates
<1> QED BY <1>2, <1>3, BeginStands

\* A report finalizes every row it can, all of one node.
LEMMA AcceptanceStands ==
  ASSUME NodesOK, NEW node \in Nodes, NEW report,
         ShouldAcceptFinalizedReport(node, report)
  PROVE  RowsStand
<1>1. PICK ids : update(node, transaction(node, ids, "FINALIZED", NoOutcome))
  BY DEF ShouldAcceptFinalizedReport
<1>2. PICK x : x = transaction(node, ids, "FINALIZED", NoOutcome)
  OBVIOUS
<1>3. x.outcome = NoOutcome /\ x.next \in RequestStates \ {"RESULT_READY"}
  BY <1>2 DEF transaction, RequestStates
<1>4. open' = [open EXCEPT ![node] = open[node] \ finalizing(node)]
  BY DEF ShouldAcceptFinalizedReport, NodesOK, TablesOK
<1> QED BY <1>1, <1>2, <1>3, <1>4, StatesStand

\* A step of a node either computes something or leaves the outcomes alone.
LEMMA NodesStandOrCompute ==
  ASSUME NodesOK, NEW node \in Nodes, NodeNext(node)
  PROVE  RowsStand \/ RowsCompute
<1>1. ASSUME NEW r \in Requests,
             Receive(node, r) \/ Confirm(node, r) \/ FinalizeSlowly(node, r)
      PROVE  RowsStand
  BY <1>1, ReceiveStands, ConfirmStands, FinalizeSlowlyStands
<1>2. ASSUME NEW report, ShouldAcceptFinalizedReport(node, report)
      PROVE  RowsStand
  BY <1>2, AcceptanceStands
<1>3. ASSUME NEW report, ShouldTransmitAcceptedReport(node, report)
      PROVE  RowsStand
  BY <1>3, RowsStay DEF ShouldTransmitAcceptedReport
<1>4. CASE TimeOut(node)
  BY <1>4, TimeOutStands
<1>5. CASE Lead(node) \/ Observe(node)
  BY <1>5, RowsStay DEF Lead, Observe
<1>6. CASE NodeWork(node)
  BY <1>1, <1>2, <1>3, <1>6, ComputeGoesOn, CommitStandsOrComputes, Zenon DEF NodeWork
<1> QED BY <1>1, <1>4, <1>5, <1>6, Zenon DEF NodeNext

\* What every step does to the tables.
RowsGoOn == TablesGoOn(asked) /\ OnceEach' /\ OutcomesKept

LEMMA BothGoOn ==
  ASSUME RowsStand \/ RowsCompute
  PROVE  RowsGoOn
<1>1. ASSUME NEW node \in Nodes, NEW r \in Requests, NEW outcome, Computes(node, r, outcome)
      PROVE  OutcomesKept
  BY <1>1 DEF Computes, OutcomesKept
<1>2. OutcomesStand => OutcomesKept
  BY DEF OutcomesStand, OutcomesKept
<1> QED BY <1>1, <1>2 DEF RowsStand, RowsCompute, RowsGoOn

\* Whatever happens, the tables go on and no outcome is lost.
LEMMA RowsAlwaysGoOn ==
  ASSUME NodesOK, NetworkNext
  PROVE  RowsGoOn
<1>1. ASSUME NEW node \in Nodes, NodeNext(node)
      PROVE  RowsGoOn
  BY <1>1, NodesStandOrCompute, BothGoOn
<1>2. CASE \E r \in Requests : AskRequest(r)
  BY <1>2, RowsStay, BothGoOn DEF AskRequest
<1>3. CASE \/ FaultyLead \/ FaultyObserve
           \/ EndRound \/ Abandon
           \/ LoseTransaction
  BY <1>3, RowsStay, BothGoOn DEF FaultyLead, FaultyObserve, EndRound, Abandon, LoseTransaction
<1>4. CASE \E tx \in txs : Mine(tx)
  BY <1>4, RowsStay, BothGoOn DEF Mine
<1> QED BY <1>1, <1>2, <1>3, <1>4, Zenon DEF NetworkNext
-----------------------------------------------------------------------------
\* A list without observations.
LEMMA NothingHeard ==
  ASSUME NEW r \in Requests, NEW f
  PROVE  ListOK(<<>>, r) /\ HeardOf(<<>>, r, {}, f)
<1>1. SpokenBy(<<>>, <<>>, r, {}) /\ Recorded(<<>>, <<>>, f)
  BY DEF SpokenBy, Recorded, HonestPlaces
<1> QED BY <1>1 DEF ListOK, HeardOf

\* A round that starts, or none.
LEMMA NoRoundYet ==
  ASSUME NEW asking \in Seq(Requests), noRound(asking)
  PROVE  RoundRecorded'
<1>1. query' = asking /\ observed' = {} /\ reqIdToObservationList' = [r \in Requests |-> <<>>]
  BY DEF noRound
<1>2. RoundInv'
  BY <1>1, NothingHeard, NetworkAssumption DEF RoundInv
<1>3. ASSUME NEW r \in Requests
      PROVE  HeardOf(reqIdToObservationList'[r], r, observed', PastOf(r)')
  BY <1>1, NothingHeard
<1> QED BY <1>2, <1>3 DEF RoundRecorded

\* What a node computes after it observed does not change what it said.
LEMMA RecordsGoOn ==
  ASSUME RoundRecorded, UNCHANGED roundVars, OutcomesKept
  PROVE  RoundRecorded'
<1>1. UNCHANGED <<query, observed, reqIdToObservationList>>
  BY DEF roundVars
<1>2. RoundInv'
  BY <1>1 DEF RoundRecorded, RoundInv
<1>3. ASSUME NEW r \in Requests
      PROVE  HeardOf(reqIdToObservationList[r], r, observed, PastOf(r)')
  <2>1. PICK list, f, g : list = reqIdToObservationList[r] /\ f = PastOf(r) /\ g = PastOf(r)'
    OBVIOUS
  <2>2. PICK speaker : SpokenBy(list, speaker, r, observed) /\ Recorded(list, speaker, f)
    BY <2>1 DEF RoundRecorded, HeardOf
  <2>3. \A node \in Nodes : f[node] # NoOutcome => g[node] = f[node]
    BY <2>1 DEF PastOf, OutcomesKept
  <2>4. ASSUME NEW i \in HonestPlaces(list, speaker) PROVE speaker[i] \in Nodes
    <3>1. speaker[i] \in observed /\ speaker[i] \notin Faulty
      BY <2>2 DEF SpokenBy, HonestPlaces
    <3> QED BY <3>1, NetworkAssumption DEF RoundRecorded, RoundInv
  <2>5. Recorded(list, speaker, g)
    BY <2>2, <2>3, <2>4 DEF Recorded
  <2> QED BY <2>1, <2>2, <2>5 DEF HeardOf
<1> QED BY <1>1, <1>2, <1>3 DEF RoundRecorded

\* What an honest node says is on record.
OnRecord(o, p, f) ==
  o \notin Faulty => /\ f[o] # NoOutcome
                     /\ p.failed = f[o].failed /\ p.value = f[o].value

LEMMA RecordGrows ==
  ASSUME NEW r \in Ids, NEW list, ListOK(list, r), NEW speaker, NEW heard,
         SpokenBy(list, speaker, r, heard), NEW f, Recorded(list, speaker, f),
         NEW o, o \notin heard,
         NEW processed, NEW m \in Nat, \A i \in 1 .. m : Said(o, processed[i]),
         \A i \in 1 .. m : processed[i].id = r => OnRecord(o, processed[i], f),
         NEW longer, Takes(list, longer, processed, m, r), ListOK(longer, r)
  PROVE  HeardOf(longer, r, heard \cup {o}, f)
<1>1. PICK next : next = NextSpeaker(list, longer, speaker, o)
  OBVIOUS
<1>2. SpokenBy(longer, next, r, heard \cup {o})
  BY <1>1, SpeakersGrow
<1>3. PICK l \in Nat : l = Len(list)
  BY DEF ListOK
<1>4. CASE longer = list
  <2>1. next = [i \in 1 .. l |-> speaker[i]]
    BY <1>1, <1>3, <1>4 DEF NextSpeaker
  <2>2. Recorded(longer, next, f)
    BY <1>3, <1>4, <2>1 DEF Recorded, HonestPlaces
  <2> QED BY <1>2, <2>2 DEF HeardOf
<1>5. CASE longer # list
  <2>1. PICK i0 \in 1 .. m : processed[i0].id = r /\ longer = Append(list, processed[i0])
    BY <1>5 DEF Takes
  <2>2. PICK p : p = processed[i0]
    OBVIOUS
  <2>3. longer = Append(list, p) /\ OnRecord(o, p, f)
    BY <2>1, <2>2
  <2>4. Len(longer) = l + 1 /\ longer[l + 1] = p /\ \A i \in 1 .. l : longer[i] = list[i]
    BY <1>3, <2>3 DEF ListOK
  <2>5. next = [i \in 1 .. l + 1 |-> IF i <= l THEN speaker[i] ELSE o]
    BY <1>1, <1>3, <2>4 DEF NextSpeaker
  <2>6. ASSUME NEW i \in 1 .. l + 1, next[i] \notin Faulty
        PROVE  /\ f[next[i]] # NoOutcome
               /\ longer[i].failed = f[next[i]].failed
               /\ longer[i].value = f[next[i]].value
    <3>1. CASE i \in 1 .. l
      <4>1. next[i] = speaker[i] /\ longer[i] = list[i] /\ i \in HonestPlaces(list, speaker)
        BY <1>3, <2>4, <2>5, <2>6, <3>1 DEF HonestPlaces
      <4> QED BY <4>1 DEF Recorded
    <3>2. CASE i = l + 1
      <4>1. next[i] = o /\ longer[i] = p
        BY <2>4, <2>5, <3>2
      <4> QED BY <2>3, <2>6, <4>1 DEF OnRecord
    <3>3. i \in 1 .. l \/ i = l + 1
      OBVIOUS
    <3> QED BY <3>1, <3>2, <3>3
  <2>7. Recorded(longer, next, f)
    BY <2>4, <2>6 DEF Recorded, HonestPlaces
  <2> QED BY <1>2, <2>7 DEF HeardOf
<1> QED BY <1>4, <1>5

\* An observation is considered.
LEMMA ConsiderRecords ==
  ASSUME RoundRecorded, NEW o \in Observers, NEW processed, NEW m \in Nat, Len(processed) = m,
         \A i \in 1 .. m : Said(o, processed[i]),
         \A r \in Requests : \A i \in 1 .. m :
           processed[i].id = r => OnRecord(o, processed[i], PastOf(r)),
         Consider(o, processed), UNCHANGED ormVars
  PROVE  RoundRecorded'
<1>1. /\ RoundInv' /\ o \notin observed /\ observed' = observed \cup {o}
      /\ \A r \in Ids : Takes(reqIdToObservationList[r], reqIdToObservationList'[r],
                              processed, m, r)
  BY ConsiderTakes DEF RoundRecorded
<1>2. ASSUME NEW r \in Requests
      PROVE  HeardOf(reqIdToObservationList'[r], r, observed', PastOf(r)')
  <2>1. PICK list, longer, f : /\ list = reqIdToObservationList[r]
                               /\ longer = reqIdToObservationList'[r]
                               /\ f = PastOf(r)
    OBVIOUS
  <2>2. r \in Ids
    BY NetworkAssumption
  <2>3. PastOf(r)' = f
    BY <2>1 DEF PastOf, ormVars
  <2>4. PICK speaker : SpokenBy(list, speaker, r, observed) /\ Recorded(list, speaker, f)
    BY <2>1 DEF RoundRecorded, HeardOf
  <2>5. /\ ListOK(list, r) /\ ListOK(longer, r)
        /\ Takes(list, longer, processed, m, r)
    BY <1>1, <2>1, <2>2 DEF RoundRecorded, RoundInv
  <2>6. \A i \in 1 .. m : processed[i].id = r => OnRecord(o, processed[i], f)
    BY <2>1
  <2>7. HeardOf(longer, r, observed \cup {o}, f)
    BY <1>1, <2>2, <2>4, <2>5, <2>6, RecordGrows
  <2> QED BY <1>1, <2>1, <2>3, <2>7
<1> QED BY <1>1, <1>2 DEF RoundRecorded

\* A node observes what is in its table.
LEMMA ObserveRecords ==
  ASSUME TablesOK(asked), RoundRecorded, NEW node \in Nodes, Observe(node)
  PROVE  RoundRecorded'
<1>1. PICK outcome : outcome = [r \in ready(node) |-> rows[node][r].outcome]
  OBVIOUS
<1>2. Consider(node, Observation(outcome)) /\ UNCHANGED ormVars
  BY <1>1 DEF Observe
<1>3. DOMAIN outcome = ready(node) /\ ready(node) \subseteq Requests
  BY <1>1 DEF ready
<1>4. ASSUME NEW r \in DOMAIN outcome
      PROVE  /\ outcome[r] = PastOf(r)[node] /\ outcome[r] # NoOutcome
             /\ outcome[r] \in [failed : BOOLEAN, value : Int]
  <2>1. r \in Requests /\ rows[node][r].state = "RESULT_READY"
    BY <1>3 DEF ready
  <2>2. outcome[r] = rows[node][r].outcome
    BY <1>1, <1>3
  <2>3. rows[node][r] \in Row /\ rows[node][r].outcome # NoOutcome
    BY <2>1 DEF TablesOK, TableOK
  <2>4. outcome[r] \in Outcomes
    BY <2>2, <2>3 DEF Row
  <2> QED BY <2>2, <2>3, <2>4, NetworkAssumption DEF PastOf
<1>5. node \in Observers
  BY NetworkAssumption
<1>6. PICK m \in Nat :
        /\ Len(Observation(outcome)) = m
        /\ \A i \in 1 .. m : /\ Said(node, Observation(outcome)[i])
                             /\ Observes(Observation(outcome)[i], outcome)
  <2>1. DOMAIN outcome \subseteq Ids
    BY <1>3, NetworkAssumption
  <2>2. \A r \in DOMAIN outcome : outcome[r] \in [failed : BOOLEAN, value : Int]
    BY <1>4
  <2> QED BY <2>1, <2>2, HonestSays DEF RoundRecorded
<1>7. ASSUME NEW r \in Requests, NEW i \in 1 .. m, Observation(outcome)[i].id = r
      PROVE  OnRecord(node, Observation(outcome)[i], PastOf(r))
  BY <1>4, <1>6, <1>7 DEF Observes, OnRecord
<1> QED BY <1>2, <1>5, <1>6, <1>7, ConsiderRecords

\* A faulty node says what it likes, or nothing.
LEMMA FaultyObserveRecords ==
  ASSUME RoundRecorded, FaultyObserve
  PROVE  RoundRecorded'
<1>1. UNCHANGED ormVars
  BY DEF FaultyObserve
<1>2. PICK o \in Faulty : \/ Consider(o, <<>>)
                          \/ \E forged \in Forgeries : Consider(o, <<forged>>)
  BY DEF FaultyObserve
<1>3. o \in Observers
  BY NetworkAssumption
<1>4. \A p, f : OnRecord(o, p, f)
  BY DEF OnRecord
<1>5. CASE Consider(o, <<>>)
  <2>1. Len(<<>>) = 0
    OBVIOUS
  <2> QED BY <1>1, <1>3, <1>5, <2>1, ConsiderRecords
<1>6. ASSUME NEW forged \in Forgeries, Consider(o, <<forged>>)
      PROVE  RoundRecorded'
  <2>1. PICK lie : lie = <<forged>>
    OBVIOUS
  <2>2. Len(lie) = 1 /\ \A i \in 1 .. 1 : lie[i] = forged
    BY <2>1
  <2>3. Said(o, forged)
    BY FaultySays, ReportAssumption
  <2>4. \A i \in 1 .. 1 : Said(o, lie[i])
    BY <2>2, <2>3
  <2>5. \A r \in Requests : \A i \in 1 .. 1 : lie[i].id = r => OnRecord(o, lie[i], PastOf(r))
    BY <1>4
  <2> QED BY <1>1, <1>3, <1>6, <2>1, <2>2, <2>4, <2>5, ConsiderRecords
<1> QED BY <1>2, <1>5, <1>6

\* What a loop takes of a list is a list.
LEMMA ItemsAreSequence ==
  ASSUME NEW S, NEW list \in Seq(S), NEW P, P \subseteq 1 .. Len(list)
  PROVE  ItemsAt(list, P) \in Seq(S)
<1>1. PICK m \in Nat : m = Len(list)
  OBVIOUS
<1>2. PICK c \in Nat : c = Cardinality(P)
  BY <1>1, ItemsAtPlaces
<1>3. PICK place \in Bijection(1 .. c, P) : ItemsAt(list, P) = Listing(list, place, c)
  <2>1. \E place \in Bijection(1 .. Cardinality(P), P) :
          ItemsAt(list, P) = Listing(list, place, Cardinality(P))
    BY <1>1, ItemsAtPlaces
  <2> QED BY <1>2, <2>1
<1>4. place \in [1 .. c -> P]
  BY <1>3 DEF Bijection, Injection
<1>5. \A i \in P : list[i] \in S
  BY <1>1
<1>6. PICK taken : taken = ItemsAt(list, P)
  OBVIOUS
<1>7. taken = [j \in 1 .. c |-> list[place[j]]]
  BY <1>3, <1>6 DEF Listing
<1>8. taken \in [1 .. c -> S]
  BY <1>4, <1>5, <1>7
<1>9. taken \in Seq(S)
  BY <1>8, FunctionIsSequence
<1> QED BY <1>6, <1>9

LEMMA QueryTyped ==
  ASSUME TablesOK(asked), NEW node \in Nodes
  PROVE  Query(node) \in Seq(Requests)
<1>1. PICK q : q = received[node]
  OBVIOUS
<1>2. q \in Seq(Requests)
  BY <1>1 DEF TablesOK, TableOK
<1>3. PICK oldest : oldest = FindOldestEntriesByState(node, "RESULT_READY", MaxRequestBatchSize)
  OBVIOUS
<1>4. oldest \in Seq(Requests)
  <2>1. PICK P : oldest = ItemsAt(q, P) /\ P \subseteq 1 .. Len(q)
    BY <1>1, <1>3 DEF FindOldestEntriesByState, firstPlacesOf
  <2> QED BY <1>2, <2>1, ItemsAreSequence
<1>5. PICK P : Query(node) = ItemsAt(oldest, P) /\ P \subseteq 1 .. Len(oldest)
  BY <1>3 DEF Query
<1> QED BY <1>4, <1>5, ItemsAreSequence

\* The round through every step.
LEMMA RoundAlwaysRecorded ==
  ASSUME NodesOK, RoundRecorded, NetworkNext
  PROVE  RoundRecorded'
<1>1. OutcomesKept
  BY RowsAlwaysGoOn DEF RowsGoOn
<1>2. CASE UNCHANGED roundVars
  BY <1>1, <1>2, RecordsGoOn
<1>3. ASSUME NEW node \in Nodes, NodeNext(node)
      PROVE  RoundRecorded'
  <2>1. CASE \/ NodeWork(node)
             \/ \E r \in Requests : Confirm(node, r) \/ FinalizeSlowly(node, r)
             \/ TimeOut(node)
    <3>1. UNCHANGED leaderVars
      BY <2>1 DEF NodeWork, Receive, Compute, Commit, ShouldAcceptFinalizedReport,
         ShouldTransmitAcceptedReport, Confirm, FinalizeSlowly, TimeOut
    <3> QED BY <1>2, <3>1 DEF leaderVars
  <2>2. CASE Lead(node)
    BY <2>2, QueryTyped, NoRoundYet DEF Lead, NodesOK
  <2>3. CASE Observe(node)
    BY <2>3, ObserveRecords DEF NodesOK
  <2> QED BY <1>3, <2>1, <2>2, <2>3, Zenon DEF NodeNext
<1>4. CASE FaultyLead
  <2>1. PICK asking \in Queries : noRound(asking)
    BY <1>4 DEF FaultyLead
  <2>2. asking \in Seq(Requests)
    BY ReportAssumption, NetworkAssumption
  <2> QED BY <2>1, <2>2, NoRoundYet
<1>5. CASE FaultyObserve
  BY <1>5, FaultyObserveRecords
<1>6. CASE EndRound \/ Abandon
  <2>1. noRound(<<>>) /\ <<>> \in Seq(Requests)
    BY <1>6 DEF EndRound, Abandon
  <2> QED BY <2>1, NoRoundYet
<1>7. CASE \/ \E r \in Requests : AskRequest(r)
           \/ LoseTransaction
           \/ \E tx \in txs : Mine(tx)
  <2>1. UNCHANGED leaderVars
    BY <1>7 DEF AskRequest, LoseTransaction, Mine
  <2> QED BY <1>2, <2>1 DEF leaderVars
<1> QED BY <1>3, <1>4, <1>5, <1>6, <1>7, Zenon DEF NetworkNext
-----------------------------------------------------------------------------
\* What a report says of a request.
SaysOf(item) == [id |-> item.id, failed |-> item.failed, value |-> item.value]

\* What is reported may be answered.
LEMMA ReportedIsBacked ==
  ASSUME RoundRecorded, NEW item \in Included
  PROVE  SaysOf(item) \in BackedItems
<1>1. PICK r, L : r = item.id /\ L = reqIdToObservationList[r]
  OBVIOUS
<1>2. r \in Requests
  BY <1>1, IncludedIsReported, NetworkAssumption DEF RoundRecorded
<1>3. PICK f : f = PastOf(r)
  OBVIOUS
<1>4. PICK speaker : SpokenBy(L, speaker, r, observed) /\ Recorded(L, speaker, f)
  BY <1>1, <1>2, <1>3 DEF RoundRecorded, HeardOf
<1>5. PICK G : G = HonestPlaces(L, speaker)
  OBVIOUS
<1>6. RestsOn(item, L, G)
  BY <1>1, <1>4, <1>5, HonestReport DEF RoundRecorded
<1>7. PICK S : S = SpeakersAt(speaker, G)
  OBVIOUS
<1>8. Cardinality(S) >= F + 1
  <2>1. SomeOf(L, G)
    BY <1>6 DEF RestsOn, SomeOf
  <2>2. Cardinality(SpeakersAt(speaker, G)) = Cardinality(G)
    BY <1>4, <2>1, SpeakersCounted
  <2>3. Cardinality(G) >= F + 1
    BY <1>6 DEF RestsOn
  <2> QED BY <1>7, <2>2, <2>3
<1>9. ASSUME NEW i \in G
      PROVE  /\ speaker[i] \in Nodes /\ f[speaker[i]] # NoOutcome
             /\ f[speaker[i]] = rows[speaker[i]][r].outcome
             /\ L[i].failed = f[speaker[i]].failed /\ L[i].value = f[speaker[i]].value
  <2>1. speaker[i] \in observed /\ speaker[i] \notin Faulty
    BY <1>4, <1>5 DEF SpokenBy, HonestPlaces
  <2>2. speaker[i] \in Nodes
    BY <2>1, NetworkAssumption DEF RoundRecorded, RoundInv
  <2> QED BY <1>3, <1>4, <1>5, <2>2 DEF Recorded, PastOf
<1>10. Cardinality(Computers(r)) > F
  <2>1. S \subseteq Computers(r) /\ Computers(r) \subseteq Nodes
    BY <1>7, <1>9 DEF Computers, SpeakersAt
  <2>2. IsFiniteSet(Computers(r))
    BY <2>1, NodesAreFinite, FS_Subset DEF NodesFinite
  <2>3. /\ Cardinality(S) \in Nat /\ Cardinality(Computers(r)) \in Nat
        /\ Cardinality(S) <= Cardinality(Computers(r))
    BY <2>1, <2>2, FS_Subset, FS_CardinalityType
  <2> QED BY <1>8, <2>3, ReportAssumption
<1>11. ASSUME NEW outcome \in Outcomes, outcomesOf(r) = {outcome}
       PROVE  item.failed = outcome.failed /\ item.value = outcome.value
  <2>1. ASSUME NEW i \in G PROVE f[speaker[i]] = outcome
    <3>1. rows[speaker[i]][r].outcome \in outcomesOf(r)
      BY <1>9 DEF outcomesOf
    <3> QED BY <1>9, <1>11, <3>1
  <2>2. PICK fl, v : fl = outcome.failed /\ v = outcome.value
    OBVIOUS
  <2>3. \A i \in G : L[i].failed = fl /\ L[i].value = v
    BY <1>9, <2>1, <2>2
  <2> QED BY <1>6, <2>2, <2>3, HonestAgreement
<1>12. item.failed \in BOOLEAN /\ item.value \in Int
  <2>1. item = Aggregate(DefaultAggregationMethod, L) /\ L \in Seq(Item)
    BY <1>6 DEF RestsOn
  <2>2. G # {}
    BY <1>6, FS_EmptySet, FaultyFew DEF RestsOn
  <2>3. PICK i \in G : i \in 1 .. Len(L)
    BY <1>6, <2>2 DEF RestsOn
  <2>4. Len(L) >= 1
    BY <2>1, <2>3
  <2> QED BY <2>1, <2>4, AggregateTyped
<1>13. SaysOf(item) \in Answered
  BY <1>1, <1>2, <1>12 DEF SaysOf, Answered
<1>14. Backed(SaysOf(item))
  BY <1>1, <1>10, <1>11 DEF SaysOf, Backed
<1> QED BY <1>13, <1>14 DEF BackedItems
-----------------------------------------------------------------------------
\* What is under way, and what is answered, may be.
SentInv == SentOK(delivered, accepted, txs, BackedItems)
AnsweredInv == AnswersOK(answer, asked, BackedItems)

\* The step leaves nothing under way that was not reported.
SentGoesOn ==
  /\ SentOK(delivered', accepted', txs', BackedItems)
  /\ AnswersOK(answer', asked', BackedItems)

LEMMA SentStays ==
  ASSUME SentInv, AnsweredInv, UNCHANGED <<chainVars, transmissionVars>>
  PROVE  SentGoesOn
BY DEF SentInv, AnsweredInv, SentGoesOn, chainVars, transmissionVars

\* The round ends with a report.
LEMMA EndRoundSends ==
  ASSUME RoundRecorded, SentInv, AnsweredInv, EndRound
  PROVE  SentGoesOn
<1>1. PICK report : report = {SaysOf(i) : i \in Included}
  OBVIOUS
<1>2. /\ delivered' = IF report = {} THEN delivered
                      ELSE [node \in Nodes |-> delivered[node] \cup {report}]
      /\ UNCHANGED <<chainVars, accepted, txs>>
  BY <1>1 DEF EndRound, Included, SaysOf
<1>3. PICK B : B = BackedItems
  OBVIOUS
<1>4. report \subseteq B
  BY <1>1, <1>3, ReportedIsBacked
<1>5. /\ delivered \in [Nodes -> SUBSET ReportsOf(B)]
      /\ accepted \in [Nodes -> SUBSET ReportsOf(B)]
      /\ txs \subseteq Nodes \X (SUBSET B)
  BY <1>3 DEF SentInv, SentOK
<1>6. delivered' \in [Nodes -> SUBSET ReportsOf(B)]
  <2>1. report = {} \/ report \in ReportsOf(B)
    BY <1>4 DEF ReportsOf
  <2> QED BY <1>2, <1>5, <2>1
<1>7. SentOK(delivered', accepted', txs', B)
  BY <1>2, <1>5, <1>6 DEF SentOK
<1>8. AnswersOK(answer', asked', B)
  BY <1>2, <1>3 DEF AnsweredInv, chainVars
<1> QED BY <1>3, <1>7, <1>8 DEF SentGoesOn

\* A node accepts a report, or sends it.
LEMMA AcceptanceSends ==
  ASSUME SentInv, AnsweredInv, NEW node \in Nodes, NEW report,
         ShouldAcceptFinalizedReport(node, report)
  PROVE  SentGoesOn
<1>1. PICK B : B = BackedItems
  OBVIOUS
<1>2. /\ delivered \in [Nodes -> SUBSET ReportsOf(B)]
      /\ accepted \in [Nodes -> SUBSET ReportsOf(B)]
      /\ txs \subseteq Nodes \X (SUBSET B)
  BY <1>1 DEF SentInv, SentOK
<1>3. /\ report \in delivered[node]
      /\ delivered' = [delivered EXCEPT ![node] = @ \ {report}]
      /\ accepted' = accepted \/ accepted' = [accepted EXCEPT ![node] = @ \cup {report}]
      /\ UNCHANGED <<txs, chainVars>>
  BY DEF ShouldAcceptFinalizedReport
<1>4. delivered' \in [Nodes -> SUBSET ReportsOf(B)]
  BY <1>2, <1>3
<1>5. report \in ReportsOf(B)
  BY <1>2, <1>3
<1>6. accepted' \in [Nodes -> SUBSET ReportsOf(B)]
  BY <1>2, <1>3, <1>5
<1>7. SentOK(delivered', accepted', txs', B)
  BY <1>2, <1>3, <1>4, <1>6 DEF SentOK
<1>8. AnswersOK(answer', asked', B)
  BY <1>1, <1>3 DEF AnsweredInv, chainVars
<1> QED BY <1>1, <1>7, <1>8 DEF SentGoesOn

LEMMA TransmissionSends ==
  ASSUME SentInv, AnsweredInv, NEW node \in Nodes, NEW report,
         ShouldTransmitAcceptedReport(node, report)
  PROVE  SentGoesOn
<1>1. PICK B : B = BackedItems
  OBVIOUS
<1>2. /\ delivered \in [Nodes -> SUBSET ReportsOf(B)]
      /\ accepted \in [Nodes -> SUBSET ReportsOf(B)]
      /\ txs \subseteq Nodes \X (SUBSET B)
  BY <1>1 DEF SentInv, SentOK
<1>3. /\ report \in accepted[node]
      /\ accepted' = [accepted EXCEPT ![node] = @ \ {report}]
      /\ txs' = txs \/ txs' = txs \cup {<<node, report>>}
      /\ UNCHANGED <<delivered, chainVars>>
  BY DEF ShouldTransmitAcceptedReport
<1>4. accepted' \in [Nodes -> SUBSET ReportsOf(B)]
  BY <1>2, <1>3
<1>5. report \in SUBSET B
  BY <1>2, <1>3 DEF ReportsOf
<1>6. txs' \subseteq Nodes \X (SUBSET B)
  BY <1>2, <1>3, <1>5
<1>7. SentOK(delivered', accepted', txs', B)
  BY <1>2, <1>3, <1>4, <1>6 DEF SentOK
<1>8. AnswersOK(answer', asked', B)
  BY <1>1, <1>3 DEF AnsweredInv, chainVars
<1> QED BY <1>1, <1>7, <1>8 DEF SentGoesOn

\* A transaction is lost, or mined: the router answers what is asked and open.
LEMMA LossSends ==
  ASSUME SentInv, AnsweredInv, LoseTransaction
  PROVE  SentGoesOn
<1>1. txs' \subseteq txs /\ UNCHANGED <<chainVars, delivered, accepted>>
  BY DEF LoseTransaction
<1> QED BY <1>1 DEF SentInv, AnsweredInv, SentOK, SentGoesOn, chainVars

LEMMA MiningSends ==
  ASSUME SentInv, AnsweredInv, NEW tx \in txs, Mine(tx)
  PROVE  SentGoesOn
<1>1. PICK B, report : B = BackedItems /\ report = tx[2]
  OBVIOUS
<1>2. txs' \subseteq txs /\ fulfill(report) /\ UNCHANGED <<asked, delivered, accepted>>
  BY <1>1 DEF Mine
<1>3. SentOK(delivered', accepted', txs', B)
  BY <1>1, <1>2 DEF SentInv, SentOK
<1>4. report \subseteq B
  BY <1>1 DEF SentInv, SentOK
<1>5. ASSUME NEW r \in Requests
      PROVE  \/ answer'[r] = NoOutcome
             \/ /\ r \in asked'
                /\ answer'[r] = [failed |-> answer'[r].failed, value |-> answer'[r].value]
                /\ [id |-> r, failed |-> answer'[r].failed, value |-> answer'[r].value] \in B
  <2>1. CASE \E item \in report : item.id = r /\ r \in asked /\ answer[r] = NoOutcome
    <3>1. PICK item : item = CHOOSE i \in report : i.id = r
      OBVIOUS
    <3>2. item \in report /\ item.id = r
      BY <2>1, <3>1
    <3>3. answer'[r] = [failed |-> item.failed, value |-> item.value]
      BY <1>2, <2>1, <3>1 DEF fulfill
    <3>4. item \in B /\ item \in Answered
      BY <1>1, <1>4, <3>2 DEF BackedItems
    <3>5. item = [id |-> r, failed |-> item.failed, value |-> item.value]
      BY <3>2, <3>4 DEF Answered
    <3>6. PICK given : given = answer'[r]
      OBVIOUS
    <3>7. given.failed = item.failed /\ given.value = item.value
      BY <3>3, <3>6
    <3> QED BY <1>2, <2>1, <3>3, <3>4, <3>5, <3>6, <3>7
  <2>2. CASE ~ \E item \in report : item.id = r /\ r \in asked /\ answer[r] = NoOutcome
    <3>1. answer'[r] = answer[r]
      BY <1>2, <2>2 DEF fulfill
    <3> QED BY <1>1, <1>2, <3>1 DEF AnsweredInv, AnswersOK
  <2> QED BY <2>1, <2>2
<1>6. AnswersOK(answer', asked', B)
  BY <1>5 DEF AnswersOK
<1> QED BY <1>1, <1>3, <1>6 DEF SentGoesOn

\* Whatever happens, only what was reported is sent, and only that answered.
LEMMA SentAlwaysGoesOn ==
  ASSUME RoundRecorded, SentInv, AnsweredInv, NetworkNext
  PROVE  SentGoesOn
<1>1. ASSUME NEW node \in Nodes, NodeNext(node)
      PROVE  SentGoesOn
  <2>1. ASSUME NEW r \in Requests,
               Receive(node, r) \/ Confirm(node, r) \/ FinalizeSlowly(node, r)
        PROVE  SentGoesOn
    BY <2>1, SentStays DEF Receive, Confirm, FinalizeSlowly
  <2>2. ASSUME NEW r \in Requests, NEW outcome \in Outcomes, Compute(node, r, outcome)
        PROVE  SentGoesOn
    BY <2>2, SentStays DEF Compute
  <2>3. ASSUME NEW report, ShouldAcceptFinalizedReport(node, report)
        PROVE  SentGoesOn
    BY <2>3, AcceptanceSends
  <2>4. ASSUME NEW report, ShouldTransmitAcceptedReport(node, report)
        PROVE  SentGoesOn
    BY <2>4, TransmissionSends
  <2>5. CASE TimeOut(node) \/ Lead(node) \/ Observe(node) \/ Commit(node)
    BY <2>5, SentStays DEF TimeOut, Lead, Observe, Commit
  <2>6. CASE NodeWork(node)
    BY <2>1, <2>2, <2>3, <2>4, <2>5, <2>6, Zenon DEF NodeWork
  <2> QED BY <1>1, <2>1, <2>5, <2>6, Zenon DEF NodeNext
<1>2. ASSUME NEW r \in Requests, AskRequest(r)
      PROVE  SentGoesOn
  <2>1. asked \subseteq asked' /\ UNCHANGED <<answer, transmissionVars>>
    BY <1>2 DEF AskRequest
  <2> QED BY <2>1 DEF SentInv, AnsweredInv, AnswersOK, SentGoesOn, transmissionVars
<1>3. CASE FaultyLead \/ FaultyObserve \/ Abandon
  BY <1>3, SentStays DEF FaultyLead, FaultyObserve, Abandon
<1>4. CASE EndRound
  BY <1>4, EndRoundSends
<1>5. CASE LoseTransaction
  BY <1>5, LossSends
<1>6. ASSUME NEW tx \in txs, Mine(tx)
      PROVE  SentGoesOn
  BY <1>6, MiningSends
<1> QED BY <1>1, <1>2, <1>3, <1>4, <1>5, <1>6, Zenon DEF NetworkNext
-----------------------------------------------------------------------------
\* Requests are only added, and somebody leads or nobody does.
LEMMA LeadersTyped ==
  ASSUME asked \subseteq Requests, leader \in Nodes \cup Faulty \cup {NoLeader}, NetworkNext
  PROVE  /\ asked \subseteq asked' /\ asked' \subseteq Requests
         /\ leader' \in Nodes \cup Faulty \cup {NoLeader}
<1>1. ASSUME NEW node \in Nodes, NodeNext(node)
      PROVE  asked' = asked /\ (leader' = leader \/ leader' = node)
  <2>1. CASE \/ NodeWork(node)
             \/ \E r \in Requests : Confirm(node, r) \/ FinalizeSlowly(node, r)
             \/ TimeOut(node)
    BY <2>1 DEF NodeWork, Receive, Compute, Commit, ShouldAcceptFinalizedReport,
       ShouldTransmitAcceptedReport, Confirm, FinalizeSlowly, TimeOut, chainVars, leaderVars
  <2>2. CASE Lead(node) \/ Observe(node)
    BY <2>2 DEF Lead, Observe, chainVars
  <2> QED BY <1>1, <2>1, <2>2, Zenon DEF NodeNext
<1>2. CASE \/ \E r \in Requests : AskRequest(r)
           \/ \E tx \in txs : Mine(tx)
           \/ LoseTransaction
  BY <1>2 DEF AskRequest, Mine, LoseTransaction, chainVars, leaderVars
<1>3. CASE FaultyLead \/ FaultyObserve \/ EndRound \/ Abandon
  BY <1>3 DEF FaultyLead, FaultyObserve, EndRound, Abandon, chainVars
<1> QED BY <1>1, <1>2, <1>3, Zenon DEF NetworkNext

LEMMA NetworkStarts ==
  ASSUME NetworkInit
  PROVE  NetworkInv
<1>1. NodesOK
  <2>1. TablesOK(asked)
    BY TablesStart DEF NetworkInit
  <2>2. OnceEach
    BY DEF NetworkInit, ORMInit, OnceEach, OneAtWork, Results
  <2> QED BY <2>1, <2>2 DEF NodesOK
<1>2. RoundRecorded
  <2>1. query = <<>> /\ observed = {} /\ reqIdToObservationList = [r \in Requests |-> <<>>]
    BY DEF NetworkInit
  <2>2. RoundInv
    BY <2>1, NothingHeard, NetworkAssumption DEF RoundInv
  <2>3. ASSUME NEW r \in Requests
        PROVE  HeardOf(reqIdToObservationList[r], r, observed, PastOf(r))
    BY <2>1, NothingHeard
  <2> QED BY <2>2, <2>3 DEF RoundRecorded
<1>3. SentOK(delivered, accepted, txs, BackedItems) /\ AnswersOK(answer, asked, BackedItems)
  BY DEF NetworkInit, SentOK, AnswersOK
<1> QED BY <1>1, <1>2, <1>3 DEF NetworkInit, NetworkInv

LEMMA NetworkGoesOn ==
  ASSUME NetworkInv, NetworkNext
  PROVE  NetworkInv'
<1>1. NodesOK /\ RoundRecorded /\ SentInv /\ AnsweredInv
  BY DEF NetworkInv, SentInv, AnsweredInv
<1>2. RowsGoOn /\ RoundRecorded' /\ SentGoesOn
  BY <1>1, RowsAlwaysGoOn, RoundAlwaysRecorded, SentAlwaysGoesOn
<1>3. /\ asked \subseteq asked' /\ asked' \subseteq Requests
      /\ leader' \in Nodes \cup Faulty \cup {NoLeader}
  BY LeadersTyped DEF NetworkInv
<1>4. NodesOK'
  BY <1>2, <1>3, TablesAreOK DEF TablesOK, RowsGoOn, NodesOK
<1>5. BackedItems \subseteq BackedItems'
  BY <1>2, BackedStays DEF RowsGoOn
<1>6. /\ SentOK(delivered', accepted', txs', BackedItems')
      /\ AnswersOK(answer', asked', BackedItems')
  BY <1>2, <1>5, MoreIsBacked DEF SentGoesOn
<1> QED BY <1>2, <1>3, <1>4, <1>6 DEF NetworkInv

LEMMA NetworkRests ==
  ASSUME NetworkInv, UNCHANGED networkVars
  PROVE  NetworkInv'
<1>1. /\ UNCHANGED <<asked, answer, leader, query, observed, reqIdToObservationList>>
      /\ UNCHANGED <<delivered, accepted, txs, rows, received, open>>
  BY DEF networkVars, chainVars, leaderVars, roundVars, transmissionVars, ormVars
<1>2. NodesOK' /\ RoundInv'
  BY <1>1 DEF NetworkInv, NodesOK, OnceEach, RoundRecorded, TablesOK, RoundInv
<1>3. BackedItems' = BackedItems
  BY <1>1 DEF BackedItems, Backed, Computers, outcomesOf
<1>4. \A r \in Requests : PastOf(r)' = PastOf(r)
  BY <1>1 DEF PastOf
<1>5. RoundRecorded'
  BY <1>1, <1>2, <1>4 DEF NetworkInv, RoundRecorded
<1> QED BY <1>1, <1>2, <1>3, <1>5 DEF NetworkInv

LEMMA NetworkInvAlways == NetworkSpec => []NetworkInv
<1>1. NetworkInit => NetworkInv
  BY NetworkStarts
<1>2. NetworkInv /\ [NetworkNext]_networkVars => NetworkInv'
  BY NetworkGoesOn, NetworkRests
<1> QED BY <1>1, <1>2, PTL DEF NetworkSpec
-----------------------------------------------------------------------------
\* What is sent or to be sent was reported, each table holds the requests asked
\* that it received, each once, and only what was asked is answered, for any
\* network.
THEOREM NetworkStaysTyped == NetworkSpec => []NetworkTypeOK
<1>1. ASSUME NetworkInv PROVE NetworkTypeOK
  <2>1. \A r \in Requests : answer[r] = NoOutcome \/ r \in asked
    BY <1>1 DEF NetworkInv, AnswersOK
  <2>2. query \in Seq(Requests)
    BY <1>1, NetworkAssumption DEF NetworkInv, RoundRecorded, RoundInv
  <2>3. SUBSET BackedItems \subseteq Reports
    BY DEF BackedItems, Answered, Reports
  <2>4. /\ delivered \in [Nodes -> SUBSET ReportsOf(BackedItems)]
        /\ accepted \in [Nodes -> SUBSET ReportsOf(BackedItems)]
        /\ txs \subseteq Nodes \X (SUBSET BackedItems)
    BY <1>1 DEF NetworkInv, SentOK
  <2>5. ASSUME NEW node \in Nodes
        PROVE  /\ Stored(node) \subseteq asked
               /\ ToSet(received[node]) = Stored(node)
               /\ Len(received[node]) = Cardinality(Stored(node))
               /\ delivered[node] \cup accepted[node] \subseteq Reports \ {{}}
    <3>1. TableOK(rows[node], received[node], asked)
      BY <1>1 DEF NetworkInv, NodesOK, TablesOK
    <3>2. Stored(node) = In(rows[node])
      BY DEF Stored, In
    <3>3. Stored(node) \subseteq asked /\ ToSet(received[node]) = Stored(node)
      BY <3>1, <3>2 DEF TableOK, In
    <3>4. Cardinality(ToSet(received[node])) = Len(received[node])
      BY <3>1, DistinctLength DEF TableOK
    <3>5. delivered[node] \cup accepted[node] \subseteq Reports \ {{}}
      BY <2>3, <2>4 DEF ReportsOf
    <3> QED BY <3>3, <3>4, <3>5
  <2>6. \A tx \in txs : tx[1] \in Nodes /\ tx[2] \in Reports
    BY <2>3, <2>4
  <2> QED BY <1>1, <2>1, <2>2, <2>5, <2>6 DEF NetworkInv, NetworkTypeOK
<1> QED BY <1>1, NetworkInvAlways, PTL

\* Whoever leads and lies, however late, often or by whom a report is
\* transmitted, the router answers a request only with what more than F honest
\* nodes computed and, if these agree, with their outcome.
THEOREM AnswersAlwaysComputed == NetworkSpec => []AnswersAreComputed
<1>1. ASSUME NetworkInv PROVE AnswersAreComputed
  <2> SUFFICES ASSUME NEW r \in Requests, answer[r] # NoOutcome
               PROVE  /\ Cardinality(Computers(r)) > F
                      /\ \A outcome \in Outcomes :
                           outcomesOf(r) = {outcome} => answer[r] = outcome
    BY DEF AnswersAreComputed, Computers
  <2>1. PICK given, item : /\ given = answer[r]
                           /\ item = [id |-> r, failed |-> given.failed, value |-> given.value]
    OBVIOUS
  <2>2. given = [failed |-> given.failed, value |-> given.value] /\ item \in BackedItems
    BY <1>1, <2>1 DEF NetworkInv, AnswersOK
  <2>3. Backed(item) /\ item.id = r /\ item.failed = given.failed /\ item.value = given.value
    BY <2>1, <2>2 DEF BackedItems
  <2>4. ASSUME NEW outcome \in Outcomes, outcomesOf(r) = {outcome}
        PROVE  given = outcome
    <3>1. given.failed = outcome.failed /\ given.value = outcome.value
      BY <2>3, <2>4 DEF Backed
    <3>2. outcome = [failed |-> outcome.failed, value |-> outcome.value]
      BY NetworkAssumption
    <3> QED BY <2>2, <3>1, <3>2
  <2> QED BY <2>1, <2>3, <2>4 DEF Backed
<1> QED BY <1>1, NetworkInvAlways, PTL
-----------------------------------------------------------------------------
\* What the service behind the network has computed.
ComputedOf == [node \in Nodes |-> [r \in Requests |-> rows[node][r].outcome]]

LEMMA NothingComputed ==
  ASSUME OutcomesStand
  PROVE  ComputedOf' = ComputedOf
BY DEF OutcomesStand, ComputedOf

\* A computation is the service's.
LEMMA ComputeImplements ==
  ASSUME NEW node \in Nodes, NEW r \in Requests, NEW outcome \in Outcomes,
         Computes(node, r, outcome), UNCHANGED <<asked, answer>>
  PROVE  Answers!AnswerNext
<1>1. ComputedOf' = [ComputedOf EXCEPT ![node][r] = outcome]
  <2>1. ComputedOf' = [m \in Nodes |-> [p \in Requests |->
          IF m = node /\ p = r THEN outcome ELSE rows[m][p].outcome]]
    BY DEF Computes, ComputedOf
  <2>2. [ComputedOf EXCEPT ![node][r] = outcome] = [m \in Nodes |-> [p \in Requests |->
          IF m = node /\ p = r THEN outcome ELSE rows[m][p].outcome]]
    BY DEF ComputedOf
  <2> QED BY <2>1, <2>2
<1>2. r \in asked /\ ComputedOf[node][r] = NoOutcome
  BY DEF Computes, ComputedOf
<1>3. Answers!Compute(node, r, outcome)
  BY <1>1, <1>2 DEF Answers!Compute, ComputedOf
<1> QED BY <1>3 DEF Answers!AnswerNext

\* What may be answered is supported.
LEMMA BackedIsSupported ==
  ASSUME NEW item \in BackedItems, NEW given,
         given = [failed |-> item.failed, value |-> item.value]
  PROVE  Answers!Supported(item.id, given)
<1>1. PICK r \in Requests : r = item.id
  BY DEF BackedItems, Answered
<1>2. Computers(r) = {node \in Nodes : ComputedOf[node][r] # NoOutcome}
  BY DEF Computers, ComputedOf
<1>3. Cardinality(Computers(r)) > F
  BY <1>1 DEF BackedItems, Backed
<1>4. given \in [failed : BOOLEAN, value : Int]
  BY DEF BackedItems, Answered
<1>5. ASSUME NEW outcome \in Outcomes, \A node \in Computers(r) : ComputedOf[node][r] = outcome
      PROVE  given = outcome
  <2>1. Computers(r) # {}
    <3>1. F \in Nat
      BY ReportAssumption
    <3>2. Cardinality({}) = 0
      BY FS_EmptySet
    <3> QED BY <1>3, <3>1, <3>2
  <2>2. outcomesOf(r) = {outcome}
    BY <1>5, <2>1, ORMAssumption DEF outcomesOf, Computers, ComputedOf
  <2>3. item.failed = outcome.failed /\ item.value = outcome.value
    BY <1>1, <2>2 DEF BackedItems, Backed
  <2>4. outcome = [failed |-> outcome.failed, value |-> outcome.value]
    BY NetworkAssumption
  <2> QED BY <2>3, <2>4
<1>6. Answers!ComputersOf(r) = Computers(r)
  BY <1>2 DEF Answers!ComputersOf, ComputedOf
<1>7. Computers(r) \subseteq Nodes
  BY DEF Computers
<1>8. \A node \in Nodes :
        [m \in Nodes |-> [p \in Requests |-> rows[m][p].outcome]][node][r] = ComputedOf[node][r]
  BY DEF ComputedOf
<1>9. ASSUME NEW outcome \in Outcomes,
             \A node \in Answers!ComputersOf(r) :
               [m \in Nodes |-> [p \in Requests |-> rows[m][p].outcome]][node][r] = outcome
      PROVE  given = outcome
  BY <1>5, <1>6, <1>7, <1>8, <1>9
<1>10. Answers!Cardinality(Answers!ComputersOf(r)) > F
  <2>1. Answers!Cardinality(Computers(r)) = Cardinality(Computers(r))
    BY ONLY Zenon DEF Cardinality, Answers!Cardinality
  <2> QED BY <1>3, <1>6, <2>1
<1>11. Answers!Supported(r, given)
  BY ONLY <1>4, <1>9, <1>10 DEF Answers!Supported
<1> QED BY <1>1, <1>11

\* A transaction that is mined answers requests for the first time.
LEMMA MiningImplements ==
  ASSUME SentInv, NEW tx \in txs, Mine(tx)
  PROVE  Answers!AnswerNext
<1>1. PICK report : report = tx[2]
  OBVIOUS
<1>2. fulfill(report) /\ UNCHANGED asked /\ UNCHANGED ormVars
  BY <1>1 DEF Mine
<1>3. report \subseteq BackedItems
  BY <1>1 DEF SentInv, SentOK
<1>4. answer' = [r \in Requests |-> answer'[r]]
  BY <1>2 DEF fulfill
<1>5. ASSUME NEW r \in Requests
      PROVE  \/ answer'[r] = answer[r]
             \/ r \in asked /\ answer[r] = NoOutcome /\ Answers!Supported(r, answer'[r])
  <2>1. CASE \E item \in report : item.id = r /\ r \in asked /\ answer[r] = NoOutcome
    <3>1. PICK item : item = CHOOSE i \in report : i.id = r
      OBVIOUS
    <3>2. item \in BackedItems /\ item.id = r
      BY <1>3, <2>1, <3>1
    <3>3. answer'[r] = [failed |-> item.failed, value |-> item.value]
      BY <1>2, <2>1, <3>1 DEF fulfill
    <3>4. Answers!Supported(r, answer'[r])
      BY <3>2, <3>3, BackedIsSupported
    <3> QED BY <2>1, <3>4
  <2>2. CASE ~ \E item \in report : item.id = r /\ r \in asked /\ answer[r] = NoOutcome
    BY <1>2, <2>2 DEF fulfill
  <2> QED BY <2>1, <2>2
<1>6. ComputedOf' = ComputedOf
  BY <1>2, NothingIsLost, NothingComputed
<1>7. Answers!Answer
  BY <1>2, <1>4, <1>5, <1>6 DEF Answers!Answer, ComputedOf
<1> QED BY <1>7 DEF Answers!AnswerNext

\* Everything between a request and its answer is hidden from those who ask.
LEMMA NetworkStepImplements ==
  ASSUME NetworkInv, NetworkNext
  PROVE  [Answers!AnswerNext]_Answers!answerVars
<1>1. NodesOK /\ SentInv
  BY DEF NetworkInv, SentInv
<1>2. ASSUME OutcomesStand, UNCHANGED <<asked, answer>>
      PROVE  UNCHANGED Answers!answerVars
  BY <1>2, NothingComputed DEF Answers!answerVars, ComputedOf
<1>3. ASSUME NEW node \in Nodes, NodeNext(node)
      PROVE  Answers!AnswerNext \/ UNCHANGED Answers!answerVars
  <2>1. UNCHANGED <<asked, answer>>
    <3>1. CASE \/ NodeWork(node)
               \/ \E r \in Requests : Confirm(node, r) \/ FinalizeSlowly(node, r)
      BY <3>1 DEF NodeWork, Receive, Compute, Commit, ShouldAcceptFinalizedReport,
         ShouldTransmitAcceptedReport, Confirm, FinalizeSlowly, chainVars
    <3>2. CASE TimeOut(node) \/ Lead(node) \/ Observe(node)
      BY <3>2 DEF TimeOut, Lead, Observe, chainVars
    <3> QED BY <1>3, <3>1, <3>2, Zenon DEF NodeNext
  <2>2. CASE RowsStand
    BY <1>2, <2>1, <2>2 DEF RowsStand
  <2>3. CASE RowsCompute
    BY <2>1, <2>3, ComputeImplements DEF RowsCompute
  <2> QED BY <1>1, <1>3, <2>2, <2>3, NodesStandOrCompute, Zenon
<1>4. ASSUME NEW r \in Requests, AskRequest(r)
      PROVE  Answers!AnswerNext
  <2>1. ComputedOf' = ComputedOf
    BY <1>4, NothingIsLost, NothingComputed DEF AskRequest
  <2>2. Answers!Ask(r)
    BY <1>4, <2>1 DEF AskRequest, Answers!Ask, ComputedOf
  <2> QED BY <2>2 DEF Answers!AnswerNext
<1>5. CASE \/ FaultyLead \/ FaultyObserve
           \/ EndRound \/ Abandon
           \/ LoseTransaction
  <2>1. UNCHANGED <<asked, answer>> /\ UNCHANGED ormVars
    BY <1>5 DEF FaultyLead, FaultyObserve, EndRound, Abandon, LoseTransaction, chainVars
  <2> QED BY <1>2, <2>1, NothingIsLost
<1>6. ASSUME NEW tx \in txs, Mine(tx)
      PROVE  Answers!AnswerNext
  BY <1>1, <1>6, MiningImplements
<1> QED BY <1>3, <1>4, <1>5, <1>6, Zenon DEF NetworkNext

\* For any number of nodes, up to F of them faulty, and whatever is lost or late,
\* the network implements the service its users see.
THEOREM NetworkImplementsAnswers == NetworkSpec => ImplementsAnswers
<1>1. NetworkInit => Answers!AnswerInit
  BY DEF NetworkInit, ORMInit, NoRow, Answers!AnswerInit, Answers!Unanswered
<1>2. NetworkInv /\ [NetworkNext]_networkVars => [Answers!AnswerNext]_Answers!answerVars
  <2>1. ASSUME UNCHANGED networkVars
        PROVE  UNCHANGED Answers!answerVars
    BY <2>1 DEF networkVars, chainVars, ormVars, Answers!answerVars
  <2> QED BY <2>1, NetworkStepImplements
<1> QED BY <1>1, <1>2, NetworkInvAlways, PTL DEF NetworkSpec, ImplementsAnswers, Answers!AnswerSpec
=============================================================================
