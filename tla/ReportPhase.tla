----------------------------- MODULE ReportPhase -----------------------------
(***************************************************************************)
(* What a node contributes to a round of the reporting protocol            *)
(* (reporting.go): its observation in answer to a leader's query, and the  *)
(* report it makes of the observations it is given, one after another.     *)
(***************************************************************************)
EXTENDS Aggregation, Ledgers, SequencesExt

CONSTANTS
  Observers, Faulty, F,
  Ids,
  CallbackGasLimit, CoordinatorContract,   \* of each request, from its log
  ZeroCoordinator,
  Forgeries,       \* what a faulty observer may say of a request
  Queries,         \* what a faulty leader may ask for
  DefaultAggregationMethod,
  MaxReportTotalCallbackGas,
  MaxUint32

ASSUME ReportAssumption ==
  /\ IsFiniteSet(Observers) /\ Faulty \subseteq Observers
  /\ F \in Nat /\ Cardinality(Faulty) <= F
  /\ Cardinality(Observers) > 3 * F
  /\ Queries \subseteq Seq(Ids)
  /\ MaxUint32 \in Nat /\ MaxReportTotalCallbackGas \in 0 .. MaxUint32
  /\ \A id \in Ids : CallbackGasLimit[id] \in 0 .. MaxUint32
  /\ \A p \in Forgeries :
       /\ p = [id |-> p.id, failed |-> p.failed, value |-> p.value, gas |-> p.gas,
               coordinator |-> p.coordinator]
       /\ p.failed \in BOOLEAN /\ p.value \in Int /\ p.gas \in 0 .. MaxUint32

VARIABLES
  query,
  observed,   \* the observers whose observation was considered
  reqIdToObservationList

roundVars == <<query, observed, reqIdToObservationList>>

N == Cardinality(Observers)

\* Where the query names a request for the first time.
firstPlaces == {i \in 1 .. Len(query) : \A j \in 1 .. i - 1 : query[j] # query[i]}

\* What Observation() answers of the requests that are ready here, each once.
Observation(outcome) ==
  LET ready == ItemsAt(query, {i \in firstPlaces : query[i] \in DOMAIN outcome})
  IN  [i \in 1 .. Len(ready) |->
         [id |-> ready[i],
          failed |-> outcome[ready[i]].failed, value |-> outcome[ready[i]].value,
          gas |-> CallbackGasLimit[ready[i]],
          coordinator |-> CoordinatorContract[ready[i]]]]

\* A mistake the properties must catch: an observer is heard twice.
considerTwice(processedRequests) ==
  [id \in Ids |->
     LET about == SelectSeq(processedRequests, LAMBDA p : p.id = id)
     IN  IF id \in ToSet(query)
         THEN reqIdToObservationList[id] \o about
         ELSE reqIdToObservationList[id]]

\* Report() takes, of each observation, the first item about each queried id.
consider(processedRequests) ==
  [id \in Ids |->
     LET about == {i \in 1 .. Len(processedRequests) : processedRequests[i].id = id}
     IN  IF id \in ToSet(query) /\ about # {}
         THEN Append(reqIdToObservationList[id], processedRequests[Min(about)])
         ELSE reqIdToObservationList[id]]

Consider(o, processedRequests) ==
  /\ o \notin observed
  /\ observed' = observed \cup {o}
  /\ reqIdToObservationList' = consider(processedRequests)
  /\ UNCHANGED query
-----------------------------------------------------------------------------
uint32(m) == m % (MaxUint32 + 1)

ShouldIncludeCoordinator(requestCoordinator, reportCoordinator) ==
  /\ requestCoordinator # ZeroCoordinator
  /\ reportCoordinator \in {ZeroCoordinator, requestCoordinator}

\* A mistake the properties must catch: each request is held against the limit
\* alone.
exceedsLimitAlone(total, gas) == gas > MaxReportTotalCallbackGas

exceedsLimit(total, gas) == uint32(total + gas) > MaxReportTotalCallbackGas

\* One pass of Report()'s loop.  A request left out for its coordinator has
\* already used up its gas; the report so far has ZeroCoordinator if none.
Include(report, id) ==
  LET observations == reqIdToObservationList[id]
      aggregated == Aggregate(DefaultAggregationMethod, observations)
      charged == [report EXCEPT !.gas = uint32(@ + aggregated.gas)]
  IN  IF ~CanAggregate(N, F, observations) \/ exceedsLimit(report.gas, aggregated.gas)
      THEN report
      ELSE IF ShouldIncludeCoordinator(aggregated.coordinator, report.coordinator)
      THEN [charged EXCEPT !.coordinator = aggregated.coordinator,
                           !.items = Append(@, aggregated)]
      ELSE charged

uniqueQueryIds == ItemsAt(query, firstPlaces)

\* The report after k passes.
reportAfter[k \in 0 .. Len(uniqueQueryIds)] ==
  IF k = 0 THEN [items |-> <<>>, gas |-> 0, coordinator |-> ZeroCoordinator]
           ELSE Include(reportAfter[k - 1], uniqueQueryIds[k])

Report == reportAfter[Len(uniqueQueryIds)]
=============================================================================
