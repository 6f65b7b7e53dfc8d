----------------------------- MODULE ReportRound -----------------------------
(***************************************************************************)
(* One round of the reporting protocol.  A faulty leader may ask for       *)
(* anything and a faulty observer may answer anything; the others observe  *)
(* what they computed.                                                     *)
(***************************************************************************)
EXTENDS ReportPhase

CONSTANT OutcomesOf   \* what computing each request may yield: [failed, value]

ASSUME OutcomesAssumption ==
  \A id \in Ids : OutcomesOf[id] \subseteq [failed : BOOLEAN, value : Int]

VARIABLE speakers   \* for the properties: who made the observations of each list

spokenVars == <<roundVars, speakers>>

RoundInit ==
  /\ query \in Queries
  /\ observed = {}
  /\ reqIdToObservationList = [id \in Ids |-> <<>>]
  /\ speakers = [id \in Ids |-> <<>>]

\* What a node may have ready of the queried requests.
Computed ==
  UNION {{outcome \in [ready -> UNION {OutcomesOf[id] : id \in ready}] :
            \A id \in ready : outcome[id] \in OutcomesOf[id]} :
         ready \in SUBSET ToSet(query)}

\* What came to the lists is of o.
Speaks(o, processedRequests) ==
  /\ Consider(o, processedRequests)
  /\ speakers' = [id \in Ids |->
       [i \in 1 .. Len(reqIdToObservationList'[id]) |->
          IF i <= Len(reqIdToObservationList[id]) THEN speakers[id][i] ELSE o]]

HonestObserves ==
  \E o \in Observers \ Faulty, outcome \in Computed : Speaks(o, Observation(outcome))

\* A message of a faulty observer is any list of up to two forged items.
FaultyObserves ==
  \E o \in Faulty, forged \in BoundedSeq(Forgeries, 2) : Speaks(o, forged)

RoundNext == HonestObserves \/ FaultyObserves

RoundSpec == RoundInit /\ [][RoundNext]_spokenVars
-----------------------------------------------------------------------------
Included == ToSet(Report.items)

\* Where the list of a request has honest observations.
HonestOf(id) == {i \in 1 .. Len(reqIdToObservationList[id]) : speakers[id][i] \notin Faulty}

\* Nothing is reported on the word of the faulty observers alone, however
\* often they repeat it: more than F others observed the request.
ReportedByHonest ==
  \A item \in Included : Cardinality({speakers[item.id][i] : i \in HonestOf(item.id)}) >= F + 1

\* When the honest observations of a request agree, the report says of it what
\* they say, error or result, and with the metadata of the request.
AgreementIsReported ==
  \A item \in Included :
    LET said(i) == reqIdToObservationList[item.id][i]
    IN  (\A i, j \in HonestOf(item.id) :
           said(i).failed = said(j).failed /\ said(i).value = said(j).value) =>
          \A i \in HonestOf(item.id) :
            /\ item.failed = said(i).failed
            /\ item.value = said(i).value
            /\ item.gas = CallbackGasLimit[item.id]
            /\ item.coordinator = CoordinatorContract[item.id]

\* When no honest computation failed, the median lies between two honest
\* results, although the faulty ones may be as large or small as they like.
MedianIsBetweenHonest ==
  \A item \in Included :
    LET said(i) == reqIdToObservationList[item.id][i]
    IN  (DefaultAggregationMethod = "MEDIAN" /\ \A i \in HonestOf(item.id) : ~said(i).failed) =>
          /\ ~item.failed
          /\ \E i, j \in HonestOf(item.id) :
               said(i).value <= item.value /\ item.value <= said(j).value

\* A report can be delivered in one transaction: no request twice, one
\* coordinator, and callbacks whose gas, added up, stays in the limit, unless
\* what some observer says of a request's gas is so large that the sum wraps.
ReportIsDeliverable ==
  LET items == Report.items
      gasFits == \A id \in Ids : \A p \in ToSet(reqIdToObservationList[id]) :
                   p.gas + MaxReportTotalCallbackGas <= MaxUint32
  IN  /\ \A i, j \in 1 .. Len(items) : items[i].id = items[j].id => i = j
      /\ \A i, j \in 1 .. Len(items) : items[i].coordinator = items[j].coordinator
      /\ gasFits => Total([i \in 1 .. Len(items) |-> items[i].gas]) <= MaxReportTotalCallbackGas
=============================================================================
