---------------------------- MODULE FunctionsORM ----------------------------
(***************************************************************************)
(* The table of requests each node of the Functions network keeps          *)
(* (models.go, orm.go), in a database of its own; it outlives a crash of   *)
(* the node.                                                               *)
(*                                                                         *)
(* A setter is a transaction that reads the state of a row, checks the     *)
(* transition, and then writes the row by its id: it takes no lock when it *)
(* reads and does not ask for the state again when it writes, and others   *)
(* may commit in between.  That is why it begins in one step and commits   *)
(* in another.  The database makes the writes of a transaction in one step *)
(* (its default isolation), and inserting and pruning are one step: of     *)
(* what they look at, the one inserts it in the same statement, and the    *)
(* other only finds more of it when it deletes.                            *)
(*                                                                         *)
(* The rows of a node are ordered by the time they were received, which    *)
(* is all that is kept of it.                                              *)
(***************************************************************************)
EXTENDS Integers, SequencesExt, Lists

CONSTANTS
  Nodes,
  Requests,
  Outcomes,            \* what a computation may yield: a result or an error
  NoOutcome,
  TimeoutBatch,        \* RequestTimeoutBatchLookupSize
  MaxStoredRequests,   \* PruneMaxStoredRequests
  PruneBatch           \* PruneBatchSize

ASSUME ORMAssumption ==
  /\ NoOutcome \notin Outcomes
  /\ TimeoutBatch \in Nat \ {0}
  /\ MaxStoredRequests \in Nat \ {0}
  /\ PruneBatch \in Nat \ {0}

VARIABLES
  rows,      \* of each node: request -> row
  received,  \* of each node: the stored requests, oldest first
  open       \* of each node: transactions that have read and not written yet

ormVars == <<rows, received, open>>

RequestStates == {"IN_PROGRESS", "RESULT_READY", "TIMED_OUT", "FINALIZED", "CONFIRMED"}

NoRow == [state |-> "NONE", outcome |-> NoOutcome]

ORMInit ==
  /\ rows = [n \in Nodes |-> [r \in Requests |-> NoRow]]
  /\ received = [n \in Nodes |-> <<>>]
  /\ open = [n \in Nodes |-> {}]

Stored(n) == {r \in Requests : rows[n][r] # NoRow}

\* A mistake the properties must catch: a late report revives a request.
nextStatesRevived(prev) ==
  CASE prev = "IN_PROGRESS"  -> RequestStates
    [] prev = "RESULT_READY" -> {"TIMED_OUT", "FINALIZED", "CONFIRMED"}
    [] prev = "TIMED_OUT"    -> {"FINALIZED", "CONFIRMED"}
    [] prev = "FINALIZED"    -> {"TIMED_OUT", "CONFIRMED"}
    [] prev = "CONFIRMED"    -> {"FINALIZED"}

\* The table of CheckStateTransition.
nextStates(prev) ==
  CASE prev = "IN_PROGRESS"  -> RequestStates
    [] prev = "RESULT_READY" -> {"TIMED_OUT", "FINALIZED", "CONFIRMED"}
    [] prev = "TIMED_OUT"    -> {"CONFIRMED"}
    [] prev = "FINALIZED"    -> {"TIMED_OUT", "CONFIRMED"}
    [] prev = "CONFIRMED"    -> {}

\* A transaction of node n that has read the states of some rows, to set their
\* state and, unless it has none, their outcome.
transaction(n, ids, next, outcome) ==
  [read |-> [r \in ids |-> rows[n][r].state], next |-> next, outcome |-> outcome]

CheckStateTransition(t) ==
  \A r \in DOMAIN t.read : t.read[r] # "NONE" /\ t.next \in nextStates(t.read[r])

begin(n, t) ==
  /\ open' = [open EXCEPT ![n] = @ \cup {t}]
  /\ UNCHANGED <<rows, received>>

written(row, t) ==
  [state |-> t.next, outcome |-> IF t.outcome = NoOutcome THEN row.outcome ELSE t.outcome]

\* Rows are found by their ids, in whatever state they are by now.
update(n, t) ==
  /\ rows' = [rows EXCEPT ![n] = [r \in Requests |->
       IF r \in DOMAIN t.read \cap Stored(n) THEN written(@[r], t) ELSE @[r]]]
  /\ UNCHANGED received

end(n, t) ==
  /\ t \in open[n]
  /\ open' = [open EXCEPT ![n] = @ \ {t}]

commit(n, t) == end(n, t) /\ update(n, t)
rollback(n, t) == end(n, t) /\ UNCHANGED <<rows, received>>

\* A refused transition, or a row that is gone, is an error that is logged.
setWithStateTransitionCheck(n, t) ==
  IF CheckStateTransition(t) THEN begin(n, t) ELSE UNCHANGED ormVars

SetResult(n, r, outcome) == transaction(n, {r}, "RESULT_READY", outcome)

\* A mistake the properties must catch: an internal error is left to be reported.
SetInternalErrorReady(n, r) == transaction(n, {r}, "RESULT_READY", NoOutcome)

\* With readyForProcessing the error is the user's, and an outcome like another.
SetInternalError(n, r) == transaction(n, {r}, "IN_PROGRESS", NoOutcome)

SetFinalized(n, r) == transaction(n, {r}, "FINALIZED", NoOutcome)

SetConfirmed(n, r) == transaction(n, {r}, "CONFIRMED", NoOutcome)

newRow == [state |-> "IN_PROGRESS", outcome |-> NoOutcome]

\* A mistake the properties must catch: an event seen twice makes two rows.
CreateRequestAgain(n, r) ==
  /\ rows' = [rows EXCEPT ![n][r] = newRow]
  /\ received' = [received EXCEPT ![n] = Append(@, r)]
  /\ UNCHANGED open

\* A row that is there already is left alone: the caller sees a duplicate.
CreateRequest(n, r) ==
  /\ r \notin Stored(n)
  /\ rows' = [rows EXCEPT ![n][r] = newRow]
  /\ received' = [received EXCEPT ![n] = Append(@, r)]
  /\ UNCHANGED open

firstOf(s, limit) == SubSeq(s, 1, IF Len(s) < limit THEN Len(s) ELSE limit)

allowedPrevStates == {"IN_PROGRESS", "RESULT_READY", "FINALIZED"}

Unfinished(n, r) == rows[n][r].state \in allowedPrevStates

\* Of the first cutoff rows, those received before the cutoff time, the oldest
\* that are in one of the states, as many as one batch takes.
expiredIn(n, cutoff, states) ==
  LET found == {i \in 1 .. cutoff : rows[n][received[n][i]].state \in states}
  IN  {received[n][i] : i \in firstPlacesOf(found, TimeoutBatch)}

\* A mistake the properties must catch: a request in transmission is left out.
TimeoutExpiredResultsUnsent(n, cutoff) ==
  transaction(n, expiredIn(n, cutoff, allowedPrevStates \ {"FINALIZED"}), "TIMED_OUT", NoOutcome)

TimeoutExpiredResults(n, cutoff) ==
  transaction(n, expiredIn(n, cutoff, allowedPrevStates), "TIMED_OUT", NoOutcome)

FindOldestEntriesByState(n, state, limit) ==
  LET found == {i \in 1 .. Len(received[n]) : rows[n][received[n][i]].state = state}
  IN  ItemsAt(received[n], firstPlacesOf(found, limit))

\* A mistake the properties must catch: a whole batch whenever there are too many.
pruneLimitWhole(total) == PruneBatch

pruneLimit(total) ==
  IF total - MaxStoredRequests > PruneBatch THEN PruneBatch
                                            ELSE total - MaxStoredRequests

\* Prunes in whatever state the oldest requests are.
PruneOldestRequests(n) ==
  LET total == Len(received[n])
      pruned == firstOf(received[n], pruneLimit(total))
  IN  /\ total > MaxStoredRequests
      /\ rows' = [rows EXCEPT ![n] = [r \in Requests |->
           IF r \in ToSet(pruned) THEN NoRow ELSE @[r]]]
      /\ received' = [received EXCEPT ![n] = SubSeq(@, Len(pruned) + 1, total)]
      /\ UNCHANGED open
=============================================================================
