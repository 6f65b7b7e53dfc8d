-------------------------- MODULE FunctionsListener --------------------------
(***************************************************************************)
(* The listener of each node (listener.go, logpoller_wrapper.go): it polls *)
(* the chain for request and response events and starts a goroutine for    *)
(* each new one, so that the events of a poll are handled in any order.    *)
(* What polls, handlers and computations leave in memory is lost in a      *)
(* crash; events already detected are remembered in memory for a while.    *)
(*                                                                         *)
(* Offchain requests, secrets and the parsing of requests are left out: a  *)
(* request that cannot be parsed yields an error as its outcome.  A handler *)
(* started while another one of the same event waits is taken for that one. *)
(***************************************************************************)
EXTENDS FunctionsORM, FiniteSets

CONSTANTS
  MaxFailures,   \* bounds on the faults and on the crashes, for every node
  MaxCrashes     \* together

ASSUME ListenerAssumption == MaxFailures \in Nat /\ MaxCrashes \in Nat

VARIABLES
  mined,      \* the events the chain has logged
  recent,     \* those in the blocks a poll looks at (pastBlocksToPoll)
  detected,   \* of each node: isPreviouslyDetected
  handling,   \* of each node: events whose handler was started
  computing,  \* of each node: requests whose handler waits for the outcome
  recomputed, \* of each node: requests that were received again, their row
              \* gone, while a handler was still at work on them
  failures,   \* how many faults and
  crashes     \* how many crashes there were

chainLogVars == <<mined, recent>>
memoryVars == <<detected, handling, computing, recomputed>>
faultVars == <<failures, crashes>>
listenerVars == <<chainLogVars, memoryVars, faultVars, ormVars>>

RequestOf(r) == <<"request", r>>
ResponseOf(r) == <<"response", r>>
Logs == {"request", "response"} \X Requests

ListenerInit ==
  /\ ORMInit
  /\ mined = {} /\ recent = {}
  /\ detected = [n \in Nodes |-> {}]
  /\ handling = [n \in Nodes |-> {}]
  /\ computing = [n \in Nodes |-> {}]
  /\ recomputed = [n \in Nodes |-> {}]
  /\ failures = 0 /\ crashes = 0

Fault ==
  /\ failures < MaxFailures
  /\ failures' = failures + 1
  /\ UNCHANGED crashes

Log(l) ==
  /\ l \notin mined
  /\ mined' = mined \cup {l}
  /\ recent' = recent \cup {l}

\* The blocks move on.  It is a fault when a node is not done with the event.
AgeOut(l) ==
  /\ l \in recent
  /\ recent' = recent \ {l}
  /\ IF \A n \in Nodes : l \in detected[n] \ handling[n]
     THEN UNCHANGED faultVars ELSE Fault
  /\ UNCHANGED <<mined, memoryVars, ormVars>>
-----------------------------------------------------------------------------
\* A poll starts a handler for each event it has not seen; those it has seen
\* long ago it forgets afterwards (logPollerCacheDurationSec).
LatestEvents(n) ==
  LET fresh == recent \ detected[n]
  IN  \E expired \in SUBSET detected[n] :
        /\ fresh # {} \/ expired # {}
        /\ handling' = [handling EXCEPT ![n] = @ \cup fresh]
        /\ detected' = [detected EXCEPT ![n] = (@ \cup fresh) \ expired]
        /\ UNCHANGED <<chainLogVars, computing, recomputed, faultVars, ormVars>>

\* The responses cannot be fetched: the new requests are detected by now, and
\* the poll returns none of them.
LatestEventsFails(n) ==
  LET fresh == {l \in recent \ detected[n] : l[1] = "request"}
  IN  /\ fresh # {}
      /\ Fault
      /\ detected' = [detected EXCEPT ![n] = @ \cup fresh]
      /\ UNCHANGED <<chainLogVars, handling, computing, recomputed, ormVars>>

handled(n, l) ==
  /\ l \in handling[n]
  /\ handling' = [handling EXCEPT ![n] = @ \ {l}]

\* A handler computes the request, or is about to write its outcome.
atWork(n, r) ==
  \/ r \in computing[n]
  \/ \E t \in open[n] : t.outcome # NoOutcome /\ r \in DOMAIN t.read

\* handleOracleRequestV1 up to the computation: a duplicate ends it.
handleOracleRequestV1(n, r) ==
  /\ handled(n, RequestOf(r))
  /\ \/ /\ CreateRequest(n, r)
        /\ computing' = [computing EXCEPT ![n] = @ \cup {r}]
        /\ recomputed' = [recomputed EXCEPT ![n] = IF atWork(n, r) THEN @ \cup {r} ELSE @ \ {r}]
     \/ r \in Stored(n) /\ UNCHANGED <<ormVars, computing, recomputed>>
  /\ UNCHANGED <<chainLogVars, detected, faultVars>>

\* One handler is done with its computation, which may not be the only one.
computed(n, r) ==
  /\ r \in computing[n]
  /\ \/ computing' = [computing EXCEPT ![n] = @ \ {r}]
     \/ r \in recomputed[n] /\ UNCHANGED computing

\* The rest of it (handleRequest), when the computation yields an outcome.
handleRequest(n, r, outcome) ==
  /\ computed(n, r)
  /\ setWithStateTransitionCheck(n, SetResult(n, r, outcome))
  /\ UNCHANGED <<chainLogVars, detected, handling, recomputed, faultVars>>

\* An internal error: nobody computes the request again.
handleRequestFails(n, r) ==
  /\ computed(n, r)
  /\ Fault
  /\ setWithStateTransitionCheck(n, SetInternalError(n, r))
  /\ UNCHANGED <<chainLogVars, detected, handling, recomputed>>

handleOracleResponseV1(n, r) ==
  /\ handled(n, ResponseOf(r))
  /\ setWithStateTransitionCheck(n, SetConfirmed(n, r))
  /\ UNCHANGED <<chainLogVars, detected, computing, recomputed, faultVars>>

\* The handler's context ends before its transaction begins, or before it ends.
HandlerTimesOut(n) ==
  /\ \/ /\ \E l \in Logs : handled(n, l)
        /\ UNCHANGED ormVars
     \/ /\ \E t \in open[n] : rollback(n, t)
        /\ UNCHANGED handling
  /\ Fault
  /\ UNCHANGED <<chainLogVars, detected, computing, recomputed>>

\* Whoever began it, the handlers, the timer or the reporting plugin.
CommitOne(n) ==
  /\ \E t \in open[n] : commit(n, t)
  /\ UNCHANGED <<chainLogVars, memoryVars, faultVars>>

\* The timer and the reporting plugin each make one transaction after another.
oneAtATime(n, next) == \A t \in open[n] : t.next # next

timeoutRequests(n) ==
  /\ oneAtATime(n, "TIMED_OUT")
  /\ \E cutoff \in 1 .. Len(received[n]) :
       LET expiring == TimeoutExpiredResults(n, cutoff)
       IN  DOMAIN expiring.read # {} /\ begin(n, expiring)
  /\ UNCHANGED <<chainLogVars, memoryVars, faultVars>>

pruneRequests(n) ==
  /\ PruneOldestRequests(n)
  /\ UNCHANGED <<chainLogVars, memoryVars, faultVars>>

\* Handlers and open transactions are gone.
allEnd(n) ==
  /\ crashes < MaxCrashes
  /\ crashes' = crashes + 1
  /\ handling' = [handling EXCEPT ![n] = {}]
  /\ computing' = [computing EXCEPT ![n] = {}]
  /\ recomputed' = [recomputed EXCEPT ![n] = {}]
  /\ open' = [open EXCEPT ![n] = {}]
  /\ UNCHANGED <<chainLogVars, failures, rows, received>>

\* A mistake the properties must catch: what was detected survives.
CrashAndRestartRemembering(n) == allEnd(n) /\ UNCHANGED detected

CrashAndRestart(n) ==
  /\ allEnd(n)
  /\ detected' = [detected EXCEPT ![n] = {}]

NodeStep(n) ==
  \/ LatestEvents(n)
  \/ LatestEventsFails(n)
  \/ HandlerTimesOut(n)
  \/ CommitOne(n)
  \/ pruneRequests(n)
  \/ CrashAndRestart(n)
  \/ \E r \in Requests :
       \/ handleOracleRequestV1(n, r)
       \/ \E outcome \in Outcomes : handleRequest(n, r, outcome)
       \/ handleRequestFails(n, r)
       \/ handleOracleResponseV1(n, r)
-----------------------------------------------------------------------------
\* Everything else, as a single node sees it: requests are made, the network
\* accepts reports about them, and the router answers them, in that order but
\* without regard to how far this node has come.
RequestMined(r) ==
  /\ Log(RequestOf(r))
  /\ UNCHANGED <<memoryVars, faultVars, ormVars>>

ResponseMined(r) ==
  /\ RequestOf(r) \in mined
  /\ Log(ResponseOf(r))
  /\ UNCHANGED <<memoryVars, faultVars, ormVars>>

AcceptReport(n, r) ==
  /\ RequestOf(r) \in mined
  /\ oneAtATime(n, "FINALIZED")
  /\ setWithStateTransitionCheck(n, SetFinalized(n, r))
  /\ UNCHANGED <<chainLogVars, memoryVars, faultVars>>

Environment ==
  \/ \E r \in Requests : RequestMined(r) \/ ResponseMined(r)
  \/ \E l \in Logs : AgeOut(l)
  \/ \E n \in Nodes, r \in Requests : AcceptReport(n, r)

ListenerNext ==
  \/ \E n \in Nodes : NodeStep(n) \/ timeoutRequests(n)
  \/ Environment

\* The tickers go on and find new events, a handler that was started runs, a
\* computation ends and so does a transaction; a later cutoff covers every row.
NodeFairness(n) ==
  /\ WF_listenerVars(~(recent \subseteq detected[n]) /\ LatestEvents(n))
  /\ WF_listenerVars(CommitOne(n))
  /\ \A r \in Requests :
       /\ WF_listenerVars(handleOracleRequestV1(n, r))
       /\ WF_listenerVars(\E outcome \in Outcomes : handleRequest(n, r, outcome))
       /\ WF_listenerVars(handleOracleResponseV1(n, r))

ListenerSpec ==
  /\ ListenerInit
  /\ [][ListenerNext]_listenerVars
  /\ \A n \in Nodes : NodeFairness(n) /\ WF_listenerVars(timeoutRequests(n))
-----------------------------------------------------------------------------
\* Every variable holds a value of its type.  The table holds the rows in the
\* order they came, each once, and only of requests the chain has logged; a row
\* that is ready has an outcome.
ListenerTypeOK ==
  /\ mined \subseteq Logs /\ recent \subseteq mined
  /\ \A n \in Nodes :
       /\ ToSet(received[n]) = Stored(n)
       /\ Len(received[n]) = Cardinality(Stored(n))
       /\ detected[n] \cup handling[n] \subseteq mined
       /\ computing[n] \cup recomputed[n] \subseteq Requests
       /\ \A t \in open[n] : DOMAIN t.read \subseteq Requests /\ t.next \in RequestStates
       /\ \A r \in Stored(n) :
            /\ RequestOf(r) \in mined
            /\ rows[n][r].state \in RequestStates
            /\ rows[n][r].outcome \in Outcomes \cup {NoOutcome}
            /\ rows[n][r].state = "RESULT_READY" => rows[n][r].outcome # NoOutcome

stage(state) ==
  CASE state = "NONE" -> 0
    [] state = "IN_PROGRESS" -> 1
    [] state = "RESULT_READY" -> 2
    [] state = "FINALIZED" -> 3
    [] state = "TIMED_OUT" -> 4
    [] state = "CONFIRMED" -> 5

\* A transaction that ends writes r although its row is no longer what it read.
overtaken(n, r) ==
  \E t \in open[n] \ open'[n] : r \in DOMAIN t.read /\ t.read[r] # rows[n][r].state

\* What a node has recorded of a request, while it keeps the row.  Its outcome
\* is final, also for late computations, the timer, reports and restarts, unless
\* two handlers compute it because its row was pruned between them: so a later
\* round observes what an earlier one did.  A request is set back by nothing but
\* a transaction that another one overtook, which the database lets happen.
RecordsStay ==
  \A n \in Nodes : \A r \in Stored(n) \cap Stored(n)' :
    /\ \/ rows[n][r].outcome \in {NoOutcome, rows'[n][r].outcome}
       \/ r \in recomputed[n]
    /\ stage(rows[n][r].state) <= stage(rows'[n][r].state) \/ overtaken(n, r)

RecordsAreKept == [][RecordsStay]_listenerVars

\* What the code says of the states (models.go): nothing leaves CONFIRMED.
ConfirmedStays ==
  \A n \in Nodes : \A r \in Stored(n) \cap Stored(n)' :
    rows[n][r].state = "CONFIRMED" => rows'[n][r].state = "CONFIRMED"

ConfirmedIsFinal == [][ConfirmedStays]_listenerVars

\* Only a request with enough newer ones behind it is ever forgotten: as many of
\* those received after it as the node is configured to store stay.
NewestStay ==
  \A n \in Nodes : \A i \in 1 .. Len(received[n]) :
    received[n][i] \notin Stored(n)' =>
      Cardinality({j \in i + 1 .. Len(received[n]) :
                     received[n][j] \in Stored(n)'}) >= MaxStoredRequests

NewestAreStored == [][NewestStay]_listenerVars

\* No request keeps a node busy for ever: it is confirmed, times out or is
\* pruned, whatever is lost in faults and crashes.
EveryRowIsSettled ==
  \A n \in Nodes, r \in Requests : Unfinished(n, r) ~> ~Unfinished(n, r)

\* A node takes up every request the chain logs, also one that was detected
\* before a crash: unless a fault hides it, it enters the table.
RequestsAreTakenUp ==
  \A n \in Nodes, r \in Requests :
    <>(RequestOf(r) \in mined) => <>(r \in Stored(n) \/ failures > 0)
=============================================================================
