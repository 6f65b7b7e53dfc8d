----------------------------- MODULE Aggregation -----------------------------
(***************************************************************************)
(* How the nodes of the Functions network make one answer of many          *)
(* observations (aggregation.go).  An observation is the outcome of a      *)
(* computation, a result or an error, with the metadata of its request.    *)
(***************************************************************************)
EXTENDS Lists

\* What the map counts[] of aggregateMode holds of v after k items.
Occurrences(items, v, k) == Cardinality({i \in 1 .. k : items[i] = v})

\* A mistake the properties must catch: as many as there are will do.
CanAggregateAny(N, F, observations) ==
  /\ N > 0
  /\ Len(observations) \in 1 .. N

CanAggregate(N, F, observations) ==
  /\ N > 0
  /\ Len(observations) \in 1 .. N
  /\ Len(observations) >= 2 * F + 1

\* The most frequent item; of several, the one that first got that frequent.
aggregateMode(items) ==
  LET reached(k) == Occurrences(items, items[k], k)
      first == CHOOSE k \in 1 .. Len(items) : \A j \in 1 .. Len(items) :
                 /\ reached(j) <= reached(k)
                 /\ reached(j) = reached(k) => k <= j
  IN  items[first]

\* A mistake the properties must catch: the list is not sorted.
aggregateMedianUnsorted(items) == items[(Len(items) - 1) \div 2 + 1]

\* The item at index (n - 1) / 2 of the sorted list, which counts from 0.
aggregateMedian(items) ==
  LET n == Len(items)
      below(v) == Cardinality({i \in 1 .. n : items[i] < v})
      upTo(v)  == Cardinality({i \in 1 .. n : items[i] <= v})
      middle == (n - 1) \div 2
      k == CHOOSE i \in 1 .. n : below(items[i]) <= middle /\ middle < upTo(items[i])
  IN  items[k]

FieldOf(observations, field) ==
  [i \in 1 .. Len(observations) |-> observations[i][field]]

\* Where a list has errors, or results.
PlacesOf(failed, observations) ==
  {i \in 1 .. Len(observations) : observations[i].failed = failed}

\* A mistake the properties must catch: one error is enough.
ResultIsErrorEager(observations) == PlacesOf(TRUE, observations) # {}

\* Strictly more errors than results make the answer an error.
ResultIsError(observations) ==
  Cardinality(PlacesOf(TRUE, observations)) > Cardinality(PlacesOf(FALSE, observations))

Aggregate(method, observations) ==
  LET isError == ResultIsError(observations)
      toAggregate == ItemsAt(observations, PlacesOf(isError, observations))
      values == FieldOf(toAggregate, "value")
  IN  [id     |-> observations[1].id,
       failed |-> isError,
       value  |-> IF isError \/ method = "MODE" THEN aggregateMode(values)
                                                ELSE aggregateMedian(values),
       gas         |-> aggregateMode(FieldOf(toAggregate, "gas")),
       coordinator |-> aggregateMode(FieldOf(toAggregate, "coordinator"))]
=============================================================================
