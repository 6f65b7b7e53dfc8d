------------------------------ MODULE ModeLoop ------------------------------
(***************************************************************************)
(* The loop of aggregateMode (aggregation.go), one iteration a step, over  *)
(* the list of items some round has collected.  The map counts is total:   *)
(* a value it does not hold yet counts 0.                                  *)
(***************************************************************************)
EXTENDS Aggregation

CONSTANTS
  Values,
  MaxItems,   \* bound on the length of the list
  Nil         \* the slice mostFrequent before the loop

ASSUME ModeAssumption ==
  /\ MaxItems \in Nat
  /\ Nil \notin Values

VARIABLES items, k, counts, mostFrequent, highestFreq

loopVars == <<items, k, counts, mostFrequent, highestFreq>>

n == Len(items)

LoopInit ==
  /\ items \in UNION {[1 .. m -> Values] : m \in 1 .. MaxItems}
  /\ k = 0
  /\ counts = [v \in Values |-> 0]
  /\ mostFrequent = Nil
  /\ highestFreq = 0

\* A mistake the properties must catch: the latest item wins a tie.
IterateLate ==
  /\ k < n
  /\ k' = k + 1
  /\ LET item == items[k + 1]
         currCount == counts[item] + 1
     IN  /\ counts' = [counts EXCEPT ![item] = currCount]
         /\ IF currCount >= highestFreq
            THEN highestFreq' = currCount /\ mostFrequent' = item
            ELSE UNCHANGED <<highestFreq, mostFrequent>>
  /\ UNCHANGED items

\* A mistake the properties must catch: the highest count is not remembered.
IterateForgetful ==
  /\ k < n
  /\ k' = k + 1
  /\ LET item == items[k + 1]
         currCount == counts[item] + 1
     IN  /\ counts' = [counts EXCEPT ![item] = currCount]
         /\ IF currCount > highestFreq
            THEN highestFreq' = 1 /\ mostFrequent' = item
            ELSE UNCHANGED <<highestFreq, mostFrequent>>
  /\ UNCHANGED items

Iterate ==
  /\ k < n
  /\ k' = k + 1
  /\ LET item == items[k + 1]
         currCount == counts[item] + 1
     IN  /\ counts' = [counts EXCEPT ![item] = currCount]
         /\ IF currCount > highestFreq
            THEN highestFreq' = currCount /\ mostFrequent' = item
            ELSE UNCHANGED <<highestFreq, mostFrequent>>
  /\ UNCHANGED items

LoopSpec == LoopInit /\ [][Iterate]_loopVars
-----------------------------------------------------------------------------
\* Every variable holds a value of its type, and the first item is a winner:
\* nil is never returned, as no list is empty (the callers split a quorum of
\* observations and take the larger part).
LoopTypeOK ==
  /\ items \in Seq(Values) /\ n \in 1 .. MaxItems
  /\ k \in 0 .. n
  /\ counts \in [Values -> Nat]
  /\ mostFrequent \in IF k = 0 THEN {Nil} ELSE Values
  /\ highestFreq \in Nat

\* What the network rests on: when at most F of at least 2F + 1 observers err
\* or lie, and the others agree, the loop returns what the others say,
\* whatever the liars say and wherever in the list they stand.
AgreementSurvives ==
  k = n =>
    \A F \in 0 .. MaxItems, Bad \in SUBSET (1 .. n), v \in Values :
      /\ n >= 2 * F + 1
      /\ Cardinality(Bad) <= F
      /\ \A i \in (1 .. n) \ Bad : items[i] = v
      => mostFrequent = v

\* The loop computes the most frequent item, the first of several: the nodes
\* of a round, each running it on the same list, sign the same report.
LoopComputesMode == k = n => mostFrequent = aggregateMode(items)
=============================================================================
