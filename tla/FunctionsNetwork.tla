-------------------------- MODULE FunctionsNetwork --------------------------
(***************************************************************************)
(* The Functions network: honest nodes with their tables (FunctionsORM),   *)
(* rounds of the reporting protocol among them and the faulty ones         *)
(* (ReportPhase), and the transmission of what they report to the router,  *)
(* which answers each request once.  How a node learns of requests and     *)
(* answers is FunctionsListener's subject and one step here.               *)
(*                                                                         *)
(* Of libocr, which runs the rounds, only what reporting.go relies on is   *)
(* modelled: one round at a time, its leader among the nodes, a report     *)
(* from at least 2F+1 observations, delivered to every honest node.        *)
(*                                                                         *)
(* A transaction on a table that nothing overtakes is one step here.  One  *)
(* that is slow, so that others may come between its read and its write,   *)
(* begins in one step and ends in another, and counts as a mishap.         *)
(***************************************************************************)
EXTENDS FunctionsORM, ReportPhase

CONSTANTS
  NoLeader,
  MaxRequestBatchSize,
  MaxMishaps      \* bound on the faults of honest nodes and chain, and on lies

ASSUME NetworkAssumption ==
  /\ Observers = Nodes \cup Faulty /\ Nodes \cap Faulty = {}
  /\ NoLeader \notin Observers
  /\ Ids = Requests
  /\ Outcomes \subseteq [failed : BOOLEAN, value : Int]
  /\ MaxRequestBatchSize \in Nat \ {0}
  /\ MaxMishaps \in Nat

VARIABLES
  asked,       \* the requests the router has sent out
  answer,      \* what it was answered, of each
  leader,      \* of the round going on
  delivered,   \* of each node: reports to be accepted
  accepted,    \* of each node: reports to be transmitted
  txs,         \* the transactions under way, with their senders
  mishaps

chainVars == <<asked, answer>>
leaderVars == <<leader, roundVars>>
transmissionVars == <<delivered, accepted, txs>>
networkVars == <<chainVars, leaderVars, transmissionVars, mishaps, ormVars>>

noRound(qry) ==
  /\ query' = qry
  /\ observed' = {}
  /\ reqIdToObservationList' = [r \in Requests |-> <<>>]

NetworkInit ==
  /\ ORMInit
  /\ asked = {}
  /\ answer = [r \in Requests |-> NoOutcome]
  /\ leader = NoLeader /\ query = <<>> /\ observed = {}
  /\ reqIdToObservationList = [r \in Requests |-> <<>>]
  /\ delivered = [n \in Nodes |-> {}]
  /\ accepted = [n \in Nodes |-> {}]
  /\ txs = {}
  /\ mishaps = 0

Mishaps(m) == mishaps + m <= MaxMishaps /\ mishaps' = mishaps + m
Mishap == Mishaps(1)

\* A transaction of node n, at once or slow, because of m mishaps so far.
transact(n, t, m) ==
  \/ update(n, t) /\ UNCHANGED open /\ Mishaps(m)
  \/ begin(n, t) /\ Mishaps(m + 1)
-----------------------------------------------------------------------------
AskRequest(r) ==
  /\ r \notin asked
  /\ asked' = asked \cup {r}
  /\ UNCHANGED <<answer, leaderVars, transmissionVars, mishaps, ormVars>>

Receive(n, r) ==
  /\ r \in asked
  /\ CreateRequest(n, r)
  /\ UNCHANGED <<chainVars, leaderVars, transmissionVars, mishaps>>

\* A computation may also never end: nothing here but fairness makes it.
Compute(n, r, outcome) ==
  /\ rows[n][r].outcome = NoOutcome
  /\ \A t \in open[n] : t.outcome = NoOutcome \/ r \notin DOMAIN t.read
  /\ CheckStateTransition(SetResult(n, r, outcome))
  /\ transact(n, SetResult(n, r, outcome), 0)
  /\ UNCHANGED <<chainVars, leaderVars, transmissionVars>>

\* From wherever it is, the row ends confirmed: slow or not is the same.
Confirm(n, r) ==
  /\ answer[r] # NoOutcome
  /\ CheckStateTransition(SetConfirmed(n, r))
  /\ update(n, SetConfirmed(n, r)) /\ UNCHANGED open
  /\ UNCHANGED <<chainVars, leaderVars, transmissionVars, mishaps>>

\* The timer is a mishap by itself.
TimeOut(n) ==
  /\ \A t \in open[n] : t.next # "TIMED_OUT"
  /\ \E cutoff \in 1 .. Len(received[n]) :
       LET expiring == TimeoutExpiredResults(n, cutoff)
       IN  DOMAIN expiring.read # {} /\ transact(n, expiring, 1)
  /\ UNCHANGED <<chainVars, leaderVars, transmissionVars>>

finalizing(n) == {t \in open[n] : t.next = "FINALIZED"}

\* What was slow ends; what ShouldAcceptFinalizedReport waits for ends with it.
Commit(n) ==
  /\ \E t \in open[n] \ finalizing(n) : commit(n, t)
  /\ UNCHANGED <<chainVars, leaderVars, transmissionVars, mishaps>>
-----------------------------------------------------------------------------
\* The oldest ready requests, of those the ones that fit the first's
\* coordinator; a round about none of them changes nothing and is left out.
Query(n) ==
  LET oldest == FindOldestEntriesByState(n, "RESULT_READY", MaxRequestBatchSize)
      named == {i \in 1 .. Len(oldest) : CoordinatorContract[oldest[i]] # ZeroCoordinator}
      included == {i \in named :
        ShouldIncludeCoordinator(CoordinatorContract[oldest[i]],
                                 CoordinatorContract[oldest[Min(named)]])}
  IN  ItemsAt(oldest, included)

Lead(n) ==
  /\ leader = NoLeader /\ Query(n) # <<>>
  /\ leader' = n
  /\ noRound(Query(n))
  /\ UNCHANGED <<chainVars, transmissionVars, mishaps, ormVars>>

FaultyLead ==
  /\ leader = NoLeader
  /\ leader' \in Faulty
  /\ \E ids \in Queries : noRound(ids)
  /\ UNCHANGED <<chainVars, transmissionVars, mishaps, ormVars>>

\* Observation() finds what is in the table when the query arrives.
ready(n) == {r \in Requests : rows[n][r].state = "RESULT_READY"}

Observe(n) ==
  /\ leader # NoLeader
  /\ Consider(n, Observation([r \in ready(n) |-> rows[n][r].outcome]))
  /\ UNCHANGED <<leader, chainVars, transmissionVars, mishaps, ormVars>>

\* Silence about the request costs a faulty node nothing; the lies are counted.
FaultyObserve ==
  /\ leader # NoLeader
  /\ \E o \in Faulty :
       \/ Consider(o, <<>>) /\ UNCHANGED mishaps
       \/ \E forged \in Forgeries : Consider(o, <<forged>>) /\ Mishap
  /\ UNCHANGED <<leader, chainVars, transmissionVars, ormVars>>

\* Enough have answered; an honest leader has also waited for the honest ones,
\* unless one of them is late, which is a fault.
quorum == leader # NoLeader /\ Cardinality(observed) >= 2 * F + 1
complete == leader \in Faulty \/ Nodes \subseteq observed

EndRound ==
  /\ quorum
  /\ IF complete THEN UNCHANGED mishaps ELSE Mishap
  /\ LET items == ToSet(Report.items)
         report == {[id |-> i.id, failed |-> i.failed, value |-> i.value] : i \in items}
     IN  delivered' = IF report = {} THEN delivered
                      ELSE [n \in Nodes |-> delivered[n] \cup {report}]
  /\ leader' = NoLeader
  /\ noRound(<<>>)
  /\ UNCHANGED <<chainVars, accepted, txs, ormVars>>

\* The leader is replaced before it has a report.
Abandon ==
  /\ leader # NoLeader
  /\ IF leader \in Faulty THEN UNCHANGED mishaps ELSE Mishap
  /\ leader' = NoLeader
  /\ noRound(<<>>)
  /\ UNCHANGED <<chainVars, transmissionVars, ormVars>>
-----------------------------------------------------------------------------
\* The reports are accepted one by one, of the requests of each one by one.
FinalizeSlowly(n, r) ==
  /\ \E report \in delivered[n] : r \in {item.id : item \in report}
  /\ finalizing(n) = {}
  /\ CheckStateTransition(SetFinalized(n, r))
  /\ Mishap /\ begin(n, SetFinalized(n, r))
  /\ UNCHANGED <<chainVars, leaderVars, transmissionVars>>

\* Every row it can is finalized, a slow one in any case; the report is accepted
\* for those, and for requests this node has never heard of.
ShouldAcceptFinalizedReport(n, report) ==
  LET ids == {item.id : item \in report}
      slow == UNION {DOMAIN t.read : t \in finalizing(n)}
      finalized == slow \cup {r \in ids : CheckStateTransition(SetFinalized(n, r))}
      needTransmission == finalized \cup (ids \ Stored(n))
  IN  /\ report \in delivered[n] /\ slow \subseteq ids
      /\ delivered' = [delivered EXCEPT ![n] = @ \ {report}]
      /\ update(n, transaction(n, finalized, "FINALIZED", NoOutcome))
      /\ open' = [open EXCEPT ![n] = @ \ finalizing(n)]
      /\ accepted' = IF needTransmission = {} THEN accepted
                     ELSE [accepted EXCEPT ![n] = @ \cup {report}]
      /\ UNCHANGED <<txs, chainVars, leaderVars, mishaps>>

\* A mistake the properties must catch: a report is sent while it is finalized.
ShouldTransmitAcceptedReportFinalized(n, report) ==
  LET needTransmission ==
        {item \in report : rows[n][item.id].state \in {"IN_PROGRESS", "RESULT_READY"}}
  IN  /\ report \in accepted[n]
      /\ accepted' = [accepted EXCEPT ![n] = @ \ {report}]
      /\ txs' = IF needTransmission = {} THEN txs ELSE txs \cup {<<n, report>>}
      /\ UNCHANGED <<delivered, chainVars, leaderVars, mishaps, ormVars>>

\* Its turn to transmit has come: the whole report, if any of it is needed.
ShouldTransmitAcceptedReport(n, report) ==
  LET needTransmission ==
        {item \in report : rows[n][item.id].state \notin {"CONFIRMED", "TIMED_OUT"}}
  IN  /\ report \in accepted[n]
      /\ accepted' = [accepted EXCEPT ![n] = @ \ {report}]
      /\ txs' = IF needTransmission = {} THEN txs ELSE txs \cup {<<n, report>>}
      /\ UNCHANGED <<delivered, chainVars, leaderVars, mishaps, ormVars>>

LoseTransaction ==
  /\ Mishap
  /\ \E tx \in txs : txs' = txs \ {tx}
  /\ UNCHANGED <<chainVars, leaderVars, delivered, accepted, ormVars>>

\* The coordinator passes each item on, and the router takes those whose
\* commitment is open.
fulfill(report) ==
  answer' = [r \in Requests |->
    IF \E item \in report : item.id = r /\ r \in asked /\ answer[r] = NoOutcome
    THEN LET item == CHOOSE i \in report : i.id = r
         IN  [failed |-> item.failed, value |-> item.value]
    ELSE answer[r]]

Mine(tx) ==
  /\ tx \in txs
  /\ txs' = txs \ {tx}
  /\ fulfill(tx[2])
  /\ UNCHANGED <<asked, leaderVars, delivered, accepted, mishaps, ormVars>>
-----------------------------------------------------------------------------
\* What a node does without being asked, and owes the network.
NodeWork(n) ==
  \/ \E r \in Requests :
       \/ Receive(n, r)
       \/ \E outcome \in Outcomes : Compute(n, r, outcome)
  \/ Commit(n)
  \/ \E report \in delivered[n] : ShouldAcceptFinalizedReport(n, report)
  \/ \E report \in accepted[n] : ShouldTransmitAcceptedReport(n, report)

NodeNext(n) ==
  \/ NodeWork(n)
  \/ \E r \in Requests : Confirm(n, r) \/ FinalizeSlowly(n, r)
  \/ TimeOut(n)
  \/ Lead(n)
  \/ Observe(n)

NetworkNext ==
  \/ \E n \in Nodes : NodeNext(n)
  \/ \E r \in Requests : AskRequest(r)
  \/ FaultyLead \/ FaultyObserve
  \/ EndRound \/ Abandon
  \/ LoseTransaction
  \/ \E tx \in txs : Mine(tx)

\* Honest nodes do what they started and answer the leader; honest ones lead
\* again and again; a faulty leader is given up, a complete round ends; and what
\* is sent is mined.  Faulty nodes owe nothing.  Fairness of rounds is written
\* out, by what the actions do to the variables of a round, which is quicker to
\* check: weak fairness of Observe, strong fairness of Lead, and weak fairness of
\* ending a round that a faulty node leads or that is complete.
NetworkFairness ==
  /\ WF_networkVars(\E n \in Nodes : NodeWork(n))
  /\ \/ []<>(leader = NoLeader \/ Nodes \subseteq observed)
     \/ []<><<~(observed' \cap Nodes \subseteq observed)>>_observed
  /\ \/ <>[]~(leader = NoLeader /\ \E n \in Nodes : Query(n) # <<>>)
     \/ []<><<leader' \in Nodes>>_leader
  /\ \/ []<>~(leader \in Faulty \/ (quorum /\ complete))
     \/ []<><<leader' = NoLeader>>_leader
  /\ WF_networkVars(\E tx \in txs : Mine(tx))

NetworkSpec == NetworkInit /\ [][NetworkNext]_networkVars /\ NetworkFairness
-----------------------------------------------------------------------------
Reports == SUBSET [id : Requests, failed : BOOLEAN, value : Int]

\* Every variable holds a value of its type, and what is sent or to be sent was
\* reported.
NetworkTypeOK ==
  /\ asked \subseteq Requests
  /\ \A r \in Requests : answer[r] = NoOutcome \/ r \in asked
  /\ leader \in Nodes \cup Faulty \cup {NoLeader}
  /\ query \in Seq(Requests)
  /\ \A n \in Nodes :
       /\ Stored(n) \subseteq asked
       /\ ToSet(received[n]) = Stored(n)
       /\ Len(received[n]) = Cardinality(Stored(n))
       /\ delivered[n] \cup accepted[n] \subseteq Reports \ {{}}
  /\ \A tx \in txs : tx[1] \in Nodes /\ tx[2] \in Reports

outcomesOf(r) == {rows[n][r].outcome : n \in Nodes} \ {NoOutcome}

\* What a request is answered with was computed: more than F honest nodes have
\* an outcome for it by then, and if these agree it is theirs, whoever led the
\* round, and however late, often or by whom it was transmitted.
AnswersAreComputed ==
  \A r \in Requests : answer[r] # NoOutcome =>
    /\ Cardinality({n \in Nodes : rows[n][r].outcome # NoOutcome}) > F
    /\ \A outcome \in Outcomes : outcomesOf(r) = {outcome} => answer[r] = outcome

\* The network is the service its users see: nodes compute, and however rounds,
\* lies, losses and retransmissions go, each request is answered at most once,
\* for good, and on more than F honest computations.
Answers == INSTANCE AnswerService WITH
  computed <- [n \in Nodes |-> [r \in Requests |-> rows[n][r].outcome]]

ImplementsAnswers == Answers!AnswerSpec

\* The network comes to rest: unless honest nodes or the chain fail, or the
\* faulty nodes lie, every request is answered, although up to F nodes are
\* silent or lead nowhere; and although each node may be told of a report again
\* and again and each may transmit it, in the end nothing is under way.
NetworkSettles ==
  <>[](/\ mishaps > 0 \/ \A r \in asked : answer[r] # NoOutcome
       /\ txs = {}
       /\ \A n \in Nodes : delivered[n] = {} /\ accepted[n] = {} /\ open[n] = {})
=============================================================================
