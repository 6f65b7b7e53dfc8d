-------------------------- MODULE FunctionsTheorems --------------------------
(***************************************************************************)
(* What the nodes of the Functions network rest on.  The loop of           *)
(* aggregateMode is correct for lists of any length, any set of values and *)
(* any number of faulty observers; the table of a node, whatever events,   *)
(* faults and crashes there are, takes back what it holds only in the ways *)
(* its transactions and its pruning allow, for any number of nodes and     *)
(* requests and any configured limits; and a report says what honest       *)
(* observers say, for any number of observers and any lies of the faulty   *)
(* ones.                                                                   *)
(***************************************************************************)
EXTENDS ModeLoop, FunctionsListener, ReportRound, FiniteSetTheorems,
        WellFoundedInduction, TLAPS

\* The numbers up to m are m.
LEMMA IntervalSize ==
  ASSUME NEW m \in Nat
  PROVE  IsFiniteSet(1 .. m) /\ Cardinality(1 .. m) = m
BY FS_Interval, SMT

\* Where v stands among the first j items.
Places(s, v, j) == {i \in 1 .. j : s[i] = v}

\* Counting the first j items takes a finite set, of at most j members.
LEMMA OccurrencesBound ==
  ASSUME NEW s, NEW v, NEW j \in Nat
  PROVE  /\ IsFiniteSet(Places(s, v, j))
         /\ Occurrences(s, v, j) \in Nat
         /\ Occurrences(s, v, j) <= j
<1>1. IsFiniteSet(1 .. j) /\ Cardinality(1 .. j) = j
  BY IntervalSize
<1>2. Places(s, v, j) \subseteq 1 .. j
  BY DEF Places
<1>3. QED
  BY <1>1, <1>2, FS_Subset, FS_CardinalityType DEF Occurrences, Places

\* The next item adds one to its own count and to no other.
LEMMA OccurrencesStep ==
  ASSUME NEW s, NEW v, NEW j \in Nat
  PROVE  Occurrences(s, v, j + 1) =
           IF s[j + 1] = v THEN Occurrences(s, v, j) + 1 ELSE Occurrences(s, v, j)
<1>1. IsFiniteSet(Places(s, v, j))
  BY OccurrencesBound
<1>2. j + 1 \notin Places(s, v, j)
  BY DEF Places
<1>3. CASE s[j + 1] = v
  <2>1. Places(s, v, j + 1) = Places(s, v, j) \cup {j + 1}
    BY <1>3 DEF Places
  <2>2. QED
    BY <1>1, <1>2, <1>3, <2>1, FS_AddElement DEF Occurrences, Places
<1>4. CASE s[j + 1] # v
  <2>1. Places(s, v, j + 1) = Places(s, v, j)
    BY <1>4 DEF Places
  <2>2. QED
    BY <1>4, <2>1 DEF Occurrences, Places
<1>5. QED
  BY <1>3, <1>4

\* Two values share the places there are.
LEMMA OccurrencesDisjoint ==
  ASSUME NEW s, NEW v, NEW w, NEW j \in Nat, v # w
  PROVE  Occurrences(s, v, j) + Occurrences(s, w, j) <= j
<1> DEFINE P == Places(s, v, j)
           Q == Places(s, w, j)
<1>1. IsFiniteSet(P) /\ IsFiniteSet(Q)
  BY OccurrencesBound
<1>2. P \cap Q = {}
  BY DEF Places
<1>3. IsFiniteSet(1 .. j) /\ Cardinality(1 .. j) = j
  BY IntervalSize
<1>4. P \cup Q \subseteq 1 .. j
  BY DEF Places
<1>5. Cardinality(P \cup Q) <= j
  BY <1>3, <1>4, FS_Subset
<1>6. Cardinality(P \cup Q) = Cardinality(P) + Cardinality(Q)
  <2>1. Cardinality(P \cup Q) = Cardinality(P) + Cardinality(Q) - Cardinality(P \cap Q)
    BY <1>1, FS_Union
  <2>2. Cardinality(P \cap Q) = 0
    BY <1>2, FS_EmptySet
  <2>3. Cardinality(P) \in Nat /\ Cardinality(Q) \in Nat
    BY <1>1, FS_CardinalityType
  <2>4. QED
    BY <2>1, <2>2, <2>3
<1>7. QED
  BY <1>5, <1>6 DEF Occurrences, Places

\* What the others agree on has the majority of the list.
LEMMA AgreedHasMajority ==
  ASSUME NEW s, NEW j \in Nat, NEW most \in Nat, NEW Bad \in SUBSET (1 .. j), NEW v,
         j >= 2 * most + 1,
         Cardinality(Bad) <= most,
         \A i \in (1 .. j) \ Bad : s[i] = v
  PROVE  2 * Occurrences(s, v, j) > j
<1> DEFINE Good == (1 .. j) \ Bad
<1>1. IsFiniteSet(1 .. j) /\ Cardinality(1 .. j) = j
  BY IntervalSize
<1>2. IsFiniteSet(Bad) /\ Cardinality(Bad) \in Nat
  BY <1>1, FS_Subset, FS_CardinalityType
<1>3. Cardinality(Good) = j - Cardinality(Bad)
  <2>1. (1 .. j) \cap Bad = Bad
    OBVIOUS
  <2>2. Cardinality(Good) = Cardinality(1 .. j) - Cardinality((1 .. j) \cap Bad)
    BY <1>1, FS_Difference
  <2>3. QED
    BY <1>1, <2>1, <2>2
<1>4. Good \subseteq Places(s, v, j)
  BY DEF Places
<1>5. Cardinality(Good) <= Occurrences(s, v, j)
  <2>1. IsFiniteSet(Places(s, v, j))
    BY OccurrencesBound
  <2>2. Cardinality(Good) <= Cardinality(Places(s, v, j))
    BY <1>4, <2>1, FS_Subset
  <2>3. QED
    BY <2>2 DEF Occurrences, Places
<1>6. Occurrences(s, v, j) \in Nat
  BY OccurrencesBound
<1>7. QED
  BY <1>2, <1>3, <1>5, <1>6
-----------------------------------------------------------------------------
\* The count an item has when the loop passes it.
Reached(s, j) == Occurrences(s, s[j], j)

\* After m items of s the winner is s[j], which got to the highest count there
\* and first.
WinsAt(s, m, j, winner, highest) ==
  /\ winner = s[j]
  /\ Reached(s, j) = highest
  /\ \A i \in 1 .. m : Reached(s, i) <= highest
  /\ \A i \in 1 .. m : i < j => Reached(s, i) < highest

\* An item that exceeds the highest count is the new winner.
LEMMA NewWinner ==
  ASSUME NEW s, NEW m \in Nat, NEW j \in 1 .. m, NEW winner, NEW highest \in Nat,
         WinsAt(s, m, j, winner, highest),
         Reached(s, m + 1) > highest
  PROVE  WinsAt(s, m + 1, m + 1, s[m + 1], Reached(s, m + 1))
<1>1. \A i \in 1 .. m : Reached(s, i) \in Nat
  BY OccurrencesBound DEF Reached
<1>2. Reached(s, m + 1) \in Nat
  BY OccurrencesBound DEF Reached
<1>3. \A i \in 1 .. m : Reached(s, i) < Reached(s, m + 1)
  BY <1>1, <1>2 DEF WinsAt
<1>4. \A i \in 1 .. m + 1 : i = m + 1 \/ i \in 1 .. m
  OBVIOUS
<1>5. QED
  BY <1>1, <1>2, <1>3, <1>4 DEF WinsAt

\* The first item is the first winner.
LEMMA FirstWinner ==
  ASSUME NEW s PROVE WinsAt(s, 1, 1, s[1], Reached(s, 1))
<1>1. Reached(s, 1) \in Nat
  BY OccurrencesBound DEF Reached
<1>2. \A i \in 1 .. 1 : i = 1
  OBVIOUS
<1>3. QED
  BY <1>1, <1>2 DEF WinsAt

\* An item that does not exceed the highest count leaves the winner.
LEMMA SameWinner ==
  ASSUME NEW s, NEW m \in Nat, NEW j \in 1 .. m, NEW winner, NEW highest \in Nat,
         WinsAt(s, m, j, winner, highest),
         Reached(s, m + 1) <= highest
  PROVE  WinsAt(s, m + 1, j, winner, highest)
<1>1. \A i \in 1 .. m + 1 : i = m + 1 \/ i \in 1 .. m
  OBVIOUS
<1>2. ~(m + 1 < j)
  OBVIOUS
<1>3. QED
  BY <1>1, <1>2 DEF WinsAt

\* There is one such place, so the loop's winner is the mode.
LEMMA WinnerIsMode ==
  ASSUME NEW s \in Seq(Values), Len(s) >= 1, NEW j \in 1 .. Len(s), NEW winner,
         NEW highest \in Nat, WinsAt(s, Len(s), j, winner, highest)
  PROVE  winner = aggregateMode(s)
<1> DEFINE IsFirst(x) == \A i \in 1 .. Len(s) :
             /\ Reached(s, i) <= Reached(s, x)
             /\ Reached(s, i) = Reached(s, x) => x <= i
           first == CHOOSE x \in 1 .. Len(s) : IsFirst(x)
<1>1. \A i \in 1 .. Len(s) : Reached(s, i) \in Nat
  BY OccurrencesBound DEF Reached
<1>2. IsFirst(j)
  BY <1>1 DEF WinsAt
<1>3. first \in 1 .. Len(s) /\ IsFirst(first)
  <2> HIDE DEF IsFirst
  <2>1. QED
    BY <1>2
<1>4. first = j
  <2>1. Reached(s, first) <= Reached(s, j) /\ Reached(s, j) <= Reached(s, first)
    BY <1>2, <1>3
  <2>2. Reached(s, first) = Reached(s, j)
    BY <1>1, <1>3, <2>1
  <2>3. first <= j /\ j <= first
    BY <1>2, <1>3, <2>2
  <2>4. QED
    BY <1>3, <2>3
<1>5. aggregateMode(s) = s[first]
  BY DEF aggregateMode, Reached
<1>6. QED
  BY <1>4, <1>5 DEF WinsAt
-----------------------------------------------------------------------------
CountsExact == \A v \in Values : counts[v] = Occurrences(items, v, k)

HighestIsHighest == \A v \in Values : counts[v] <= highestFreq

WinnerIsFirst ==
  \/ k = 0 /\ highestFreq = 0
  \/ /\ mostFrequent \in Values
     /\ counts[mostFrequent] = highestFreq
     /\ \E j \in 1 .. k : WinsAt(items, k, j, mostFrequent, highestFreq)

LoopInv == LoopTypeOK /\ CountsExact /\ HighestIsHighest /\ WinnerIsFirst
-----------------------------------------------------------------------------
\* Before the loop nothing is counted.
LEMMA LoopInitially == ASSUME LoopInit PROVE LoopInv
<1> USE ModeAssumption DEF LoopInit
<1>1. LoopTypeOK
  BY DEF LoopTypeOK, n
<1>2. CountsExact
  <2>1. ASSUME NEW v \in Values PROVE Occurrences(items, v, 0) = 0
    BY OccurrencesBound
  <2>2. QED
    BY <2>1 DEF CountsExact
<1>3. HighestIsHighest /\ WinnerIsFirst
  BY DEF HighestIsHighest, WinnerIsFirst
<1>4. QED
  BY <1>1, <1>2, <1>3 DEF LoopInv

\* An iteration keeps the counts exact and the winner first.
LEMMA IterateKeeps == ASSUME LoopInv, Iterate PROVE LoopInv'
<1> DEFINE item == items[k + 1]
           currCount == counts[item] + 1
<1>1. /\ items \in Seq(Values) /\ n \in Nat /\ n <= MaxItems /\ n >= 1
      /\ k \in Nat /\ k < n /\ k' = k + 1 /\ items' = items /\ n' = n
      /\ counts \in [Values -> Nat] /\ highestFreq \in Nat
      /\ counts' = [counts EXCEPT ![item] = currCount]
  BY ModeAssumption DEF LoopInv, LoopTypeOK, Iterate, n
<1>2. item \in Values
  BY <1>1 DEF n
<1>3. /\ currCount \in Nat
      /\ counts'[item] = currCount
      /\ \A v \in Values : v # item => counts'[v] = counts[v]
  BY <1>1, <1>2
<1>4. ASSUME mostFrequent' \in Values PROVE LoopTypeOK'
  <2>1. counts' \in [Values -> Nat] /\ highestFreq' \in Nat
    BY <1>1, <1>3 DEF Iterate
  <2>2. k' \in 0 .. n' /\ k' # 0 /\ n' \in 1 .. MaxItems
    BY <1>1, ModeAssumption
  <2>3. QED
    BY <1>1, <1>4, <2>1, <2>2 DEF LoopTypeOK
<1>5. \A v \in Values : counts[v] = Occurrences(items, v, k)
  BY DEF LoopInv, CountsExact
<1>6. CountsExact'
  <2>1. ASSUME NEW v \in Values PROVE counts'[v] = Occurrences(items, v, k + 1)
    <3>1. Occurrences(items, v, k + 1) =
            IF items[k + 1] = v THEN Occurrences(items, v, k) + 1
                                ELSE Occurrences(items, v, k)
      BY <1>1, OccurrencesStep
    <3>2. QED
      BY <1>2, <1>3, <1>5, <3>1
  <2>2. QED
    BY <1>1, <2>1 DEF CountsExact
<1>7. Reached(items, k + 1) = currCount
  BY <1>1, <1>2, <1>3, <1>6 DEF CountsExact, Reached
<1>8. \A v \in Values : counts[v] \in Nat /\ counts[v] <= highestFreq
  BY <1>1 DEF LoopInv, HighestIsHighest
<1>9. CASE currCount > highestFreq
  <2>1. highestFreq' = currCount /\ mostFrequent' = item
    BY <1>9 DEF Iterate
  <2>2. HighestIsHighest'
    BY <1>1, <1>2, <1>3, <1>8, <1>9, <2>1 DEF HighestIsHighest
  <2>3. WinsAt(items, k + 1, k + 1, items[k + 1], Reached(items, k + 1))
    <3>1. CASE k = 0
      BY <3>1, FirstWinner
    <3>2. CASE k # 0
      <4>1. PICK j \in 1 .. k : WinsAt(items, k, j, mostFrequent, highestFreq)
        BY <3>2 DEF LoopInv, WinnerIsFirst
      <4>2. QED
        BY <1>1, <1>7, <1>9, <4>1, NewWinner
    <3>3. QED
      BY <3>1, <3>2
  <2>4. k + 1 \in 1 .. k'
    BY <1>1
  <2>5. WinsAt(items', k', k + 1, mostFrequent', highestFreq')
    BY <1>1, <1>7, <2>1, <2>3
  <2>6. WinnerIsFirst'
    BY <1>2, <1>3, <2>1, <2>4, <2>5 DEF WinnerIsFirst
  <2>7. LoopTypeOK'
    BY <1>2, <1>4, <2>1
  <2>8. QED
    BY <1>6, <2>2, <2>6, <2>7 DEF LoopInv
<1>10. CASE ~(currCount > highestFreq)
  <2>1. highestFreq' = highestFreq /\ mostFrequent' = mostFrequent
    BY <1>10 DEF Iterate
  <2>2. currCount <= highestFreq
    BY <1>1, <1>3, <1>10
  <2>3. HighestIsHighest'
    BY <1>1, <1>2, <1>3, <1>8, <2>1, <2>2 DEF HighestIsHighest
  <2>4. k # 0
    BY <1>2, <1>8, <2>2 DEF LoopInv, WinnerIsFirst
  <2>5. PICK j \in 1 .. k : WinsAt(items, k, j, mostFrequent, highestFreq)
    BY <2>4 DEF LoopInv, WinnerIsFirst
  <2>6. WinsAt(items, k + 1, j, mostFrequent, highestFreq)
    BY <1>1, <1>7, <2>2, <2>5, SameWinner
  <2>7. j \in 1 .. k' /\ WinsAt(items', k', j, mostFrequent', highestFreq')
    BY <1>1, <2>1, <2>5, <2>6
  <2>8. mostFrequent \in Values /\ counts[mostFrequent] = highestFreq
    BY <2>4 DEF LoopInv, WinnerIsFirst
  <2>9. mostFrequent # item
    BY <1>1, <1>2, <2>2, <2>8
  <2>10. WinnerIsFirst'
    BY <1>3, <2>1, <2>7, <2>8, <2>9 DEF WinnerIsFirst
  <2>11. LoopTypeOK'
    BY <1>4, <2>1, <2>8
  <2>12. QED
    BY <1>6, <2>3, <2>10, <2>11 DEF LoopInv
<1>11. QED
  BY <1>9, <1>10

\* At the end the winner is the mode, and an agreed value is the winner.
LEMMA LoopInvSuffices ==
  ASSUME LoopInv PROVE LoopComputesMode /\ AgreementSurvives
<1>1. /\ items \in Seq(Values) /\ n \in Nat /\ n >= 1 /\ n <= MaxItems
      /\ n = Len(items) /\ highestFreq \in Nat
  BY ModeAssumption DEF LoopInv, LoopTypeOK, n
<1>2. LoopComputesMode
  <2>1. SUFFICES ASSUME k = n PROVE mostFrequent = aggregateMode(items)
    BY DEF LoopComputesMode
  <2>2. PICK j \in 1 .. n : WinsAt(items, n, j, mostFrequent, highestFreq)
    BY <1>1, <2>1 DEF LoopInv, WinnerIsFirst
  <2>3. QED
    BY <1>1, <2>2, WinnerIsMode
<1>3. AgreementSurvives
  <2>1. SUFFICES ASSUME k = n, NEW most \in 0 .. MaxItems, NEW Bad \in SUBSET (1 .. n),
                        NEW v \in Values,
                        n >= 2 * most + 1, Cardinality(Bad) <= most,
                        \A i \in (1 .. n) \ Bad : items[i] = v
                 PROVE  mostFrequent = v
    BY DEF AgreementSurvives
  <2>2. most \in Nat
    OBVIOUS
  <2>3. 2 * Occurrences(items, v, n) > n
    BY <1>1, <2>1, <2>2, AgreedHasMajority
  <2>4. /\ mostFrequent \in Values
        /\ Occurrences(items, mostFrequent, n) = highestFreq
        /\ Occurrences(items, v, n) <= highestFreq
    BY <1>1, <2>1 DEF LoopInv, WinnerIsFirst, CountsExact, HighestIsHighest
  <2>5. /\ Occurrences(items, v, n) \in Nat
        /\ mostFrequent # v =>
             Occurrences(items, mostFrequent, n) + Occurrences(items, v, n) <= n
    BY <1>1, OccurrencesBound, OccurrencesDisjoint
  <2>6. QED
    BY <1>1, <2>3, <2>4, <2>5
<1>4. QED
  BY <1>2, <1>3

\* The invariant holds throughout, for lists of any length over any values.
THEOREM LoopSafety == LoopSpec => []LoopInv
<1>1. LoopInit => LoopInv
  BY LoopInitially
<1>2. LoopInv /\ [Iterate]_loopVars => LoopInv'
  <2>1. CASE Iterate
    BY <2>1, IterateKeeps
  <2>2. CASE UNCHANGED loopVars
    BY <2>2 DEF LoopInv, LoopTypeOK, CountsExact, HighestIsHighest, WinnerIsFirst,
                n, loopVars
  <2>3. QED
    BY <2>1, <2>2
<1>3. QED
  BY <1>1, <1>2, PTL DEF LoopSpec

\* For any number of observers and any set of values: if all but F of at least
\* 2F + 1 observers agree, the aggregate is what they agree on.
THEOREM AgreementAlwaysSurvives == LoopSpec => []AgreementSurvives
<1>1. LoopInv => AgreementSurvives
  BY LoopInvSuffices
<1>2. QED
  BY <1>1, LoopSafety, PTL

\* The loop always ends with the first most frequent item.
THEOREM LoopAlwaysComputesMode == LoopSpec => []LoopComputesMode
<1>1. LoopInv => LoopComputesMode
  BY LoopInvSuffices
<1>2. QED
  BY <1>1, LoopSafety, PTL

-----------------------------------------------------------------------------
\* What a table holds of a request.
Row == [state : RequestStates \cup {"NONE"}, outcome : Outcomes \cup {NoOutcome}]

\* The requests of a table t.
In(t) == {r \in Requests : t[r] # NoRow}

\* A table t with its rows' order q, given the requests M there have been.
TableOK(t, q, M) ==
  /\ t \in [Requests -> Row]
  /\ q \in Seq(Requests)
  /\ ToSet(q) = In(t)
  /\ \A i, j \in 1 .. Len(q) : q[i] = q[j] => i = j
  /\ \A r \in Requests :
       /\ t[r].state = "NONE" => t[r] = NoRow
       /\ t[r].state = "RESULT_READY" => t[r].outcome # NoOutcome
       /\ t[r] # NoRow => r \in M

\* What a transaction writes makes a row what it should be, whatever it was.
WritesOK(x) ==
  /\ x.next \in RequestStates
  /\ x.outcome \in Outcomes \cup {NoOutcome}
  /\ x.next = "RESULT_READY" => x.outcome # NoOutcome

\* The transactions the setters and the timer open: a result is of one request,
\* and the transition was allowed when it was checked.
OpenOK(x) ==
  /\ WritesOK(x)
  /\ DOMAIN x.read \subseteq Requests
  /\ x.outcome # NoOutcome => \E r \in Requests : DOMAIN x.read = {r}
  /\ \A r \in DOMAIN x.read : x.read[r] \in RequestStates /\ x.next \in nextStates(x.read[r])

\* The table t after the writes of transaction x.
Updated(t, x) ==
  [r \in Requests |-> IF r \in DOMAIN x.read \cap In(t) THEN written(t[r], x) ELSE t[r]]

\* As many rows as are to be stored stay that are newer than one that goes.
NewerStay(t, q, u) ==
  \A i \in 1 .. Len(q) : q[i] \notin In(u) =>
    Cardinality({j \in i + 1 .. Len(q) : q[j] \in In(u)}) >= MaxStoredRequests

\* What a node remembers is about events the chain has logged.
MemoryTyped ==
  /\ mined \subseteq Logs /\ recent \subseteq mined
  /\ detected \in [Nodes -> SUBSET mined]
  /\ handling \in [Nodes -> SUBSET mined]
  /\ computing \in [Nodes -> SUBSET Requests]
  /\ recomputed \in [Nodes -> SUBSET Requests]

\* Every node's table is in order, and so is what is open on it.
TablesOK(M) ==
  /\ DOMAIN rows = Nodes /\ rows = [node \in Nodes |-> rows[node]]
  /\ DOMAIN received = Nodes /\ received = [node \in Nodes |-> received[node]]
  /\ DOMAIN open = Nodes /\ open = [node \in Nodes |-> open[node]]
  /\ \A node \in Nodes :
       /\ TableOK(rows[node], received[node], M)
       /\ \A x \in open[node] : OpenOK(x)

Logged == {r \in Requests : RequestOf(r) \in mined}

\* Of the transactions T those that write an outcome of r.
Results(T, r) == {x \in T : x.outcome # NoOutcome /\ r \in DOMAIN x.read}

\* While r is computed, by C, or an outcome is about to be written, by one of T,
\* there is none in the table t, and nobody else is at work on it.
OneAtWork(t, C, T, r) ==
  /\ r \in C => t[r].outcome = NoOutcome /\ Results(T, r) = {}
  /\ \A x \in Results(T, r) : t[r].outcome = NoOutcome /\ Results(T, r) = {x}

\* A request has one handler at work, unless it was received again meanwhile.
HandlersOK ==
  \A node \in Nodes : \A r \in Requests \ recomputed[node] :
    OneAtWork(rows[node], computing[node], open[node], r)

ListenerInv == MemoryTyped /\ TablesOK(Logged) /\ HandlersOK

-----------------------------------------------------------------------------
\* A sequence without repetitions is as long as it has members.
LEMMA DistinctLength ==
  ASSUME NEW S, NEW q \in Seq(S), \A i, j \in 1 .. Len(q) : q[i] = q[j] => i = j
  PROVE  IsFiniteSet(ToSet(q)) /\ Cardinality(ToSet(q)) = Len(q)
<1>1. /\ Len(q) \in Nat /\ DOMAIN q = 1 .. Len(q)
      /\ q = [i \in 1 .. Len(q) |-> q[i]]
  OBVIOUS
<1>2. ToSet(q) = {q[i] : i \in 1 .. Len(q)}
  BY <1>1 DEF ToSet
<1>3. q \in [1 .. Len(q) -> ToSet(q)]
  BY <1>1, <1>2
<1>4. q \in Surjection(1 .. Len(q), ToSet(q)) /\ q \in Injection(1 .. Len(q), ToSet(q))
  BY <1>1, <1>2, <1>3 DEF Surjection, Injection, IsInjective
<1>5. IsFiniteSet(1 .. Len(q)) /\ Cardinality(1 .. Len(q)) = Len(q)
  BY <1>1, IntervalSize
<1> QED BY <1>4, <1>5, FS_Surjection

\* Every allowed transition goes on.
LEMMA TransitionsGoOn ==
  ASSUME NEW p \in RequestStates, NEW next \in nextStates(p)
  PROVE  stage(p) <= stage(next)
BY DEF RequestStates, nextStates, stage

\* Every state of a row, and NONE, has its stage.
LEMMA StagesTyped ==
  ASSUME NEW p \in RequestStates \cup {"NONE"}
  PROVE  stage(p) \in 0 .. 5
BY DEF RequestStates, stage

\* A new row at the end.
LEMMA CreatedTable ==
  ASSUME NEW t, NEW q, NEW M, TableOK(t, q, M), NEW r \in Requests, t[r] = NoRow,
         r \in M, NEW u, NEW s, u = [t EXCEPT ![r] = newRow], s = Append(q, r)
  PROVE  TableOK(u, s, M)
<1>1. newRow \in Row /\ newRow # NoRow /\ newRow.state = "IN_PROGRESS"
  BY DEF Row, RequestStates, NoRow, newRow
<1>2. /\ t \in [Requests -> Row] /\ q \in Seq(Requests) /\ ToSet(q) = In(t)
      /\ \A i, j \in 1 .. Len(q) : q[i] = q[j] => i = j
  BY DEF TableOK
<1>3. u \in [Requests -> Row] /\ u[r] = newRow /\ \A p \in Requests \ {r} : u[p] = t[p]
  BY <1>1, <1>2
<1>4. /\ s \in Seq(Requests) /\ Len(s) = Len(q) + 1 /\ Len(q) \in Nat
      /\ s[Len(q) + 1] = r /\ \A i \in 1 .. Len(q) : s[i] = q[i]
  BY <1>2
<1>5. DOMAIN q = 1 .. Len(q) /\ DOMAIN s = 1 .. Len(q) + 1
  BY <1>2, <1>4
<1>6. ToSet(s) = ToSet(q) \cup {r}
  BY <1>4, <1>5 DEF ToSet
<1>7. In(u) = In(t) \cup {r}
  BY <1>1, <1>3 DEF In
<1>8. ToSet(s) = In(u)
  BY <1>2, <1>6, <1>7
<1>9. \A i \in 1 .. Len(q) : q[i] # r
  BY <1>2, <1>5 DEF ToSet, In
<1>10. \A i, j \in 1 .. Len(s) : s[i] = s[j] => i = j
  BY <1>2, <1>4, <1>9
<1>11. \A p \in Requests :
         /\ u[p].state = "NONE" => u[p] = NoRow
         /\ u[p].state = "RESULT_READY" => u[p].outcome # NoOutcome
         /\ u[p] # NoRow => p \in M
  BY <1>1, <1>3 DEF TableOK
<1> QED BY <1>3, <1>4, <1>8, <1>10, <1>11 DEF TableOK

\* Rows are rewritten, in whatever state they are: none comes or goes.
LEMMA UpdatedTable ==
  ASSUME NEW t, NEW q, NEW M, TableOK(t, q, M), NEW x, WritesOK(x)
  PROVE  TableOK(Updated(t, x), q, M) /\ In(Updated(t, x)) = In(t)
<1> DEFINE u == Updated(t, x)
<1>1. t \in [Requests -> Row]
  BY DEF TableOK
<1>2. ASSUME NEW r \in Requests
      PROVE  /\ u[r] \in Row
             /\ u[r] = NoRow <=> t[r] = NoRow
             /\ u[r].state = "NONE" => u[r] = NoRow
             /\ u[r].state = "RESULT_READY" => u[r].outcome # NoOutcome
  <2>1. t[r] \in Row
    BY <1>1
  <2>2. CASE r \in DOMAIN x.read \cap In(t)
    <3>1. u[r] = written(t[r], x) /\ t[r] # NoRow
      BY <2>2 DEF Updated, In
    <3>2. u[r].state = x.next /\ u[r].outcome \in {t[r].outcome, x.outcome} /\ u[r] \in Row
      BY <2>1, <3>1 DEF written, WritesOK, Row
    <3>3. x.next # "NONE" /\ NoRow.state = "NONE"
      BY DEF WritesOK, RequestStates, NoRow
    <3>4. x.next = "RESULT_READY" => u[r].outcome = x.outcome /\ x.outcome # NoOutcome
      BY <3>1 DEF written, WritesOK
    <3> QED BY <3>1, <3>2, <3>3, <3>4
  <2>3. CASE r \notin DOMAIN x.read \cap In(t)
    <3>1. u[r] = t[r]
      BY <2>3 DEF Updated
    <3> QED BY <2>1, <3>1 DEF TableOK
  <2> QED BY <2>2, <2>3
<1>3. u \in [Requests -> Row]
  BY <1>2 DEF Updated
<1>4. In(u) = In(t)
  BY <1>2 DEF In
<1>5. \A r \in Requests : u[r] # NoRow => r \in M
  BY <1>2 DEF TableOK
<1> HIDE DEF u
<1>6. TableOK(u, q, M)
  BY <1>2, <1>3, <1>4, <1>5 DEF TableOK
<1> QED BY <1>4, <1>6 DEF u

\* A sequence cut in two.
LEMMA FirstAndRest ==
  ASSUME NEW S, NEW q \in Seq(S), NEW l \in 0 .. Len(q)
  PROVE  /\ SubSeq(q, 1, l) \in Seq(S) /\ Len(SubSeq(q, 1, l)) = l
         /\ \A i \in 1 .. l : SubSeq(q, 1, l)[i] = q[i]
         /\ SubSeq(q, l + 1, Len(q)) \in Seq(S)
         /\ Len(SubSeq(q, l + 1, Len(q))) = Len(q) - l
         /\ \A i \in 1 .. Len(q) - l : SubSeq(q, l + 1, Len(q))[i] = q[l + i]
OBVIOUS

\* What one pruning takes leaves as many rows as are to be stored.
LEMMA PruningLeavesEnough ==
  ASSUME NEW total \in Nat, total > MaxStoredRequests
  PROVE  /\ pruneLimit(total) \in 0 .. total
         /\ total - pruneLimit(total) >= MaxStoredRequests
BY ORMAssumption DEF pruneLimit

\* A sequence q of requests, its first l items and the m others.
CutInTwo(q, l, m, first, s) ==
  /\ Len(q) = l + m
  /\ first \in Seq(Requests) /\ Len(first) = l
  /\ \A i \in 1 .. l : first[i] = q[i]
  /\ s \in Seq(Requests) /\ Len(s) = m
  /\ \A i \in 1 .. m : s[i] = q[l + i]

LEMMA PrunedTable ==
  ASSUME NEW t, NEW q, NEW M, TableOK(t, q, M), NEW l \in Nat, NEW m \in Nat,
         m >= MaxStoredRequests, NEW first, NEW s, CutInTwo(q, l, m, first, s),
         NEW u,
         u = [r \in Requests |-> IF r \in ToSet(first) THEN NoRow ELSE t[r]]
  PROVE  TableOK(u, s, M) /\ NewerStay(t, q, u)
<1>1. /\ t \in [Requests -> Row] /\ q \in Seq(Requests) /\ ToSet(q) = In(t)
      /\ \A i, j \in 1 .. Len(q) : q[i] = q[j] => i = j
  BY DEF TableOK
<1>2. /\ Len(q) = l + m
      /\ first \in Seq(Requests) /\ Len(first) = l /\ \A i \in 1 .. l : first[i] = q[i]
      /\ s \in Seq(Requests) /\ Len(s) = m /\ \A i \in 1 .. m : s[i] = q[l + i]
  BY DEF CutInTwo
<1>3. Len(q) \in Nat /\ DOMAIN q = 1 .. Len(q) /\ DOMAIN first = 1 .. l /\ DOMAIN s = 1 .. m
  BY <1>1, <1>2
<1>4. /\ ToSet(q) = {q[i] : i \in 1 .. Len(q)}
      /\ ToSet(first) = {q[i] : i \in 1 .. l}
      /\ ToSet(s) = {q[l + i] : i \in 1 .. m}
  <2>1. ToSet(q) = {q[i] : i \in 1 .. Len(q)}
    BY <1>2, <1>3 DEF ToSet
  <2>2. ToSet(first) = {first[i] : i \in 1 .. l}
    BY <1>2, <1>3 DEF ToSet
  <2>3. {first[i] : i \in 1 .. l} = {q[i] : i \in 1 .. l}
    BY <1>2
  <2>4. ToSet(s) = {s[i] : i \in 1 .. m}
    BY <1>2, <1>3 DEF ToSet
  <2>5. {s[i] : i \in 1 .. m} = {q[l + i] : i \in 1 .. m}
    <3>1. \A i \in 1 .. m : s[i] = q[l + i]
      BY <1>2
    <3>2. ASSUME NEW x PROVE (\E i \in 1 .. m : x = s[i]) <=> (\E i \in 1 .. m : x = q[l + i])
      BY <3>1
    <3> QED BY <3>2
  <2> QED BY <2>1, <2>2, <2>3, <2>4, <2>5
<1>5. ToSet(s) = ToSet(q) \ ToSet(first)
  <2>1. ASSUME NEW r \in ToSet(s) PROVE r \in ToSet(q) \ ToSet(first)
    <3>1. PICK i \in 1 .. m : r = q[l + i]
      BY <1>4
    <3>2. l + i \in 1 .. Len(q) /\ \A j \in 1 .. l : j \in 1 .. Len(q) /\ j # l + i
      BY <1>2, <1>3
    <3> QED BY <1>1, <1>4, <3>1, <3>2
  <2>2. ASSUME NEW r \in ToSet(q) \ ToSet(first) PROVE r \in ToSet(s)
    <3>1. PICK i \in 1 .. Len(q) : r = q[i]
      BY <1>4
    <3>2. i \notin 1 .. l
      BY <1>4, <3>1
    <3>3. i - l \in 1 .. m /\ l + (i - l) = i
      BY <1>2, <1>3, <3>2
    <3> QED BY <1>4, <3>1, <3>3
  <2> QED BY <2>1, <2>2
<1>6. NoRow \in Row
  BY DEF NoRow, Row
<1>7. u \in [Requests -> Row]
  BY <1>1, <1>6
<1>8. In(u) = In(t) \ ToSet(first)
  BY DEF In
<1>9. \A i, j \in 1 .. Len(s) : s[i] = s[j] => i = j
  <2> SUFFICES ASSUME NEW i \in 1 .. Len(s), NEW j \in 1 .. Len(s), s[i] = s[j]
               PROVE  i = j
    OBVIOUS
  <2>1. l + i \in 1 .. Len(q) /\ l + j \in 1 .. Len(q) /\ q[l + i] = q[l + j]
    BY <1>2, <1>3
  <2>2. l + i = l + j
    BY <1>1, <2>1
  <2> QED BY <2>2
<1>10. \A r \in Requests :
         /\ u[r].state = "NONE" => u[r] = NoRow
         /\ u[r].state = "RESULT_READY" => u[r].outcome # NoOutcome
         /\ u[r] # NoRow => r \in M
  BY DEF TableOK, NoRow
<1>11. TableOK(u, s, M)
  BY <1>1, <1>2, <1>5, <1>7, <1>8, <1>9, <1>10 DEF TableOK
<1>12. ASSUME NEW i \in 1 .. Len(q), q[i] \notin In(u)
       PROVE  Cardinality({j \in i + 1 .. Len(q) : q[j] \in In(u)}) >= MaxStoredRequests
  <2> DEFINE newer == {j \in i + 1 .. Len(q) : q[j] \in In(u)}
  <2>2. q[i] \in ToSet(first)
    BY <1>1, <1>4, <1>8, <1>12
  <2>3. i \in 1 .. l
    <3>1. PICK place \in 1 .. l : q[i] = q[place]
      BY <1>4, <2>2
    <3>2. place \in 1 .. Len(q)
      BY <1>2, <1>3
    <3> QED BY <1>1, <3>1, <3>2
  <2>4. l + 1 .. l + m \subseteq newer
    <3> SUFFICES ASSUME NEW j \in l + 1 .. l + m PROVE j \in newer
      OBVIOUS
    <3>1. j \in i + 1 .. Len(q) /\ j - l \in 1 .. m /\ q[j] = q[l + (j - l)]
      BY <1>2, <1>3, <2>3
    <3>2. q[j] \in ToSet(s)
      BY <1>4, <3>1
    <3>3. q[j] \in In(u)
      BY <1>1, <1>5, <1>8, <3>2
    <3> QED BY <3>1, <3>3
  <2>5. IsFiniteSet(newer)
    <3>1. newer \subseteq 1 .. Len(q)
      BY <1>3
    <3> QED BY <1>3, <3>1, IntervalSize, FS_Subset
  <2>6. Cardinality(l + 1 .. l + m) = m
    BY FS_Interval
  <2>7. Cardinality(newer) \in Nat /\ Cardinality(l + 1 .. l + m) <= Cardinality(newer)
    BY <2>4, <2>5, FS_Subset, FS_CardinalityType
  <2>8. Cardinality(newer) >= MaxStoredRequests
    BY <2>6, <2>7, ORMAssumption
  <2> QED BY <2>8
<1> QED BY <1>11, <1>12 DEF NewerStay


-----------------------------------------------------------------------------
\* What every step does to the tables: they stay well formed.
TablesGoOn(M) ==
  /\ DOMAIN rows' = Nodes /\ rows' = [node \in Nodes |-> rows'[node]]
  /\ DOMAIN received' = Nodes /\ received' = [node \in Nodes |-> received'[node]]
  /\ DOMAIN open' = Nodes /\ open' = [node \in Nodes |-> open'[node]]
  /\ \A node \in Nodes :
       /\ TableOK(rows'[node], received'[node], M)
       /\ \A x \in open'[node] : OpenOK(x)

\* More requests take nothing from a table.
LEMMA LongerLog ==
  ASSUME NEW t, NEW q, NEW M, NEW longer, TableOK(t, q, M), M \subseteq longer
  PROVE  TableOK(t, q, longer)
BY DEF TableOK

\* Tables that go on are in order, also when there are more requests by then.
LEMMA TablesAreOK ==
  ASSUME NEW M, NEW longer, TablesGoOn(M), M \subseteq longer
  PROVE  /\ DOMAIN rows' = Nodes /\ rows' = [node \in Nodes |-> rows'[node]]
         /\ DOMAIN received' = Nodes /\ received' = [node \in Nodes |-> received'[node]]
         /\ DOMAIN open' = Nodes /\ open' = [node \in Nodes |-> open'[node]]
         /\ \A node \in Nodes :
              /\ TableOK(rows'[node], received'[node], longer)
              /\ \A x \in open'[node] : OpenOK(x)
BY LongerLog DEF TablesGoOn

\* A step that leaves the tables alone.
LEMMA TablesStay ==
  ASSUME NEW M, TablesOK(M), UNCHANGED ormVars
  PROVE  TablesGoOn(M)
BY DEF TablesOK, ormVars, TablesGoOn

\* A step that changes one node's table, or what is open on it, or both.
LEMMA OneTableChanges ==
  ASSUME NEW M, TablesOK(M), NEW node \in Nodes, NEW u, NEW s, NEW T,
         TableOK(u, s, M), \A x \in T : OpenOK(x),
         rows' = [rows EXCEPT ![node] = u], received' = [received EXCEPT ![node] = s],
         open' = [open EXCEPT ![node] = T]
  PROVE  TablesGoOn(M)
<1>1. /\ rows' = [other \in Nodes |-> IF other = node THEN u ELSE rows[other]]
      /\ received' = [other \in Nodes |-> IF other = node THEN s ELSE received[other]]
      /\ open' = [other \in Nodes |-> IF other = node THEN T ELSE open[other]]
  BY DEF TablesOK
<1>2. ASSUME NEW other \in Nodes
      PROVE  /\ TableOK(rows'[other], received'[other], M)
             /\ \A x \in open'[other] : OpenOK(x)
  BY <1>1 DEF TablesOK
<1> QED BY <1>1, <1>2 DEF TablesGoOn

\* Transactions begin, or end without a trace.
LEMMA OpeningGoesOn ==
  ASSUME NEW M, TablesOK(M), NEW node \in Nodes, NEW T, \A x \in T : OpenOK(x),
         UNCHANGED <<rows, received>>, open' = [open EXCEPT ![node] = T]
  PROVE  TablesGoOn(M)
<1>1. TableOK(rows[node], received[node], M)
  BY DEF TablesOK
<1>2. /\ rows' = [rows EXCEPT ![node] = rows[node]]
      /\ received' = [received EXCEPT ![node] = received[node]]
  BY DEF TablesOK
<1> QED BY <1>1, <1>2, OneTableChanges

LEMMA BeginGoesOn ==
  ASSUME NEW M, TablesOK(M), NEW node \in Nodes, NEW x, OpenOK(x), begin(node, x)
  PROVE  TablesGoOn(M)
<1>1. open' = [open EXCEPT ![node] = open[node] \cup {x}] /\ UNCHANGED <<rows, received>>
  BY DEF begin, TablesOK
<1>2. \A y \in open[node] \cup {x} : OpenOK(y)
  BY DEF TablesOK
<1> QED BY <1>1, <1>2, OpeningGoesOn

\* What an update does to the rows.
LEMMA UpdateWrites ==
  ASSUME NEW M, TablesOK(M), NEW node \in Nodes, NEW x, update(node, x)
  PROVE  rows' = [rows EXCEPT ![node] = Updated(rows[node], x)] /\ UNCHANGED received
<1>1. Stored(node) = In(rows[node])
  BY DEF Stored, In
<1> QED BY <1>1 DEF update, Updated, TablesOK

\* A transaction is written, and it and maybe others are no longer open.
LEMMA UpdateGoesOn ==
  ASSUME NEW M, TablesOK(M), NEW node \in Nodes, NEW x, WritesOK(x), update(node, x),
         NEW T, T \subseteq open[node], open' = [open EXCEPT ![node] = T]
  PROVE  TablesGoOn(M)
<1>1. /\ TableOK(rows[node], received[node], M)
      /\ received = [received EXCEPT ![node] = received[node]]
      /\ \A y \in T : OpenOK(y)
  BY DEF TablesOK
<1>2. /\ rows' = [rows EXCEPT ![node] = Updated(rows[node], x)]
      /\ received' = [received EXCEPT ![node] = received[node]]
  BY <1>1, UpdateWrites
<1>3. PICK t, q : t = rows[node] /\ q = received[node]
  OBVIOUS
<1>4. TableOK(Updated(t, x), q, M)
  BY <1>1, <1>3, UpdatedTable
<1>5. PICK u : u = Updated(t, x)
  OBVIOUS
<1> QED BY <1>1, <1>2, <1>3, <1>4, <1>5, OneTableChanges

LEMMA CommitGoesOn ==
  ASSUME NEW M, TablesOK(M), NEW node \in Nodes, NEW x, commit(node, x)
  PROVE  TablesGoOn(M)
<1>1. x \in open[node] /\ OpenOK(x)
  BY DEF commit, end, TablesOK
<1>2. open' = [open EXCEPT ![node] = open[node] \ {x}] /\ update(node, x)
  BY DEF commit, end, TablesOK
<1> QED BY <1>1, <1>2, UpdateGoesOn DEF OpenOK

\* CreateRequest adds a row to a table in which there is none.
LEMMA CreateRequestGoesOn ==
  ASSUME NEW M, TablesOK(M), NEW node \in Nodes, NEW r \in Requests,
         r \in M, CreateRequest(node, r)
  PROVE  TablesGoOn(M)
<1>1. PICK t, q, u, s : /\ t = rows[node] /\ q = received[node]
                        /\ u = [rows[node] EXCEPT ![r] = newRow]
                        /\ s = Append(received[node], r)
  OBVIOUS
<1>2. TableOK(t, q, M)
  BY <1>1 DEF TablesOK
<1>3. t[r] = NoRow
  BY <1>1 DEF CreateRequest, Stored
<1>4. TableOK(u, s, M)
  BY <1>1, <1>2, <1>3, CreatedTable
<1>5. rows' = [rows EXCEPT ![node] = u] /\ received' = [received EXCEPT ![node] = s]
  BY <1>1 DEF CreateRequest
<1>6. open' = [open EXCEPT ![node] = open[node]] /\ \A x \in open[node] : OpenOK(x)
  BY DEF CreateRequest, TablesOK
<1> QED BY <1>4, <1>5, <1>6, OneTableChanges

\* What PruneOldestRequests takes are the oldest rows.
LEMMA PruneGoesOn ==
  ASSUME NEW M, TablesOK(M), NEW node \in Nodes, PruneOldestRequests(node)
  PROVE  /\ TablesGoOn(M)
         /\ NewerStay(rows[node], received[node], rows'[node])
         /\ \A r \in Requests : rows'[node][r] \in {rows[node][r], NoRow}
         /\ rows' = [rows EXCEPT ![node] = rows'[node]]
<1>1. PICK t, q : t = rows[node] /\ q = received[node]
  OBVIOUS
<1>2. TableOK(t, q, M)
  BY <1>1 DEF TablesOK
<1>3. PICK total : total = Len(q)
  OBVIOUS
<1>4. total \in Nat /\ q \in Seq(Requests)
  BY <1>2, <1>3 DEF TableOK
<1>5. total > MaxStoredRequests
  BY <1>1, <1>3 DEF PruneOldestRequests
<1>6. PICK l : l = pruneLimit(total)
  OBVIOUS
<1>7. l \in 0 .. total /\ total - l >= MaxStoredRequests
  BY <1>4, <1>5, <1>6, PruningLeavesEnough
<1>8. PICK first, s : first = SubSeq(q, 1, l) /\ s = SubSeq(q, l + 1, total)
  OBVIOUS
<1>9. PICK m : m = total - l
  OBVIOUS
<1>10. m \in Nat /\ l \in Nat /\ total = l + m /\ m >= MaxStoredRequests
  BY <1>4, <1>7, <1>9
<1>11. CutInTwo(q, l, m, first, s)
  BY <1>3, <1>4, <1>7, <1>8, <1>9, <1>10, FirstAndRest DEF CutInTwo
<1>12. firstOf(q, l) = first
  BY <1>3, <1>4, <1>7, <1>8 DEF firstOf
<1>13. PICK u : u = [r \in Requests |-> IF r \in ToSet(first) THEN NoRow ELSE t[r]]
  OBVIOUS
<1>14. rows' = [rows EXCEPT ![node] = u] /\ received' = [received EXCEPT ![node] = s]
  BY <1>1, <1>3, <1>6, <1>8, <1>11, <1>12, <1>13 DEF PruneOldestRequests, CutInTwo
<1>15. TableOK(u, s, M) /\ NewerStay(t, q, u)
  BY <1>2, <1>3, <1>10, <1>11, <1>13, PrunedTable
<1>16. open' = [open EXCEPT ![node] = open[node]] /\ \A x \in open[node] : OpenOK(x)
  BY DEF PruneOldestRequests, TablesOK
<1>17. TablesGoOn(M)
  BY <1>14, <1>15, <1>16, OneTableChanges
<1>18. rows'[node] = u
  BY <1>14 DEF TablesOK
<1>19. \A r \in Requests : u[r] \in {t[r], NoRow}
  BY <1>13
<1> QED BY <1>1, <1>14, <1>15, <1>17, <1>18, <1>19

\* The transactions the setters open are what they should be.
LEMMA SettersOpen ==
  ASSUME NEW M, TablesOK(M), NEW node \in Nodes, NEW r \in Requests, NEW next \in RequestStates,
         NEW outcome \in Outcomes \cup {NoOutcome}, next = "RESULT_READY" => outcome # NoOutcome,
         CheckStateTransition(transaction(node, {r}, next, outcome))
  PROVE  OpenOK(transaction(node, {r}, next, outcome))
<1> DEFINE x == transaction(node, {r}, next, outcome)
<1>1. /\ DOMAIN x.read = {r} /\ x.read[r] = rows[node][r].state
      /\ x.next = next /\ x.outcome = outcome
  BY DEF transaction
<1>2. rows[node][r] \in Row
  BY DEF TablesOK, TableOK
<1>3. x.read[r] \in RequestStates \cup {"NONE"}
  BY <1>1, <1>2 DEF Row
<1>4. x.read[r] # "NONE" /\ x.next \in nextStates(x.read[r])
  BY <1>1 DEF CheckStateTransition
<1> HIDE DEF x
<1>5. OpenOK(x)
  BY <1>1, <1>3, <1>4 DEF OpenOK, WritesOK
<1> QED BY <1>5 DEF x

\* The timer's transactions too.
LEMMA TimerOpens ==
  ASSUME NEW M, TablesOK(M), NEW node \in Nodes, NEW cutoff \in 1 .. Len(received[node])
  PROVE  OpenOK(TimeoutExpiredResults(node, cutoff))
<1>1. PICK ids : ids = expiredIn(node, cutoff, allowedPrevStates)
  OBVIOUS
<1>2. ASSUME NEW r \in ids
      PROVE  r \in Requests /\ rows[node][r].state \in allowedPrevStates
  <2>1. PICK i \in 1 .. cutoff : /\ r = received[node][i]
                                 /\ rows[node][received[node][i]].state \in allowedPrevStates
    BY <1>1 DEF expiredIn, firstPlacesOf
  <2>2. received[node] \in Seq(Requests)
    BY DEF TablesOK, TableOK
  <2> QED BY <2>1, <2>2
<1> DEFINE x == transaction(node, ids, "TIMED_OUT", NoOutcome)
<1>3. /\ DOMAIN x.read = ids /\ x.next = "TIMED_OUT" /\ x.outcome = NoOutcome
      /\ \A r \in ids : x.read[r] = rows[node][r].state
  BY DEF transaction
<1>4. \A p \in allowedPrevStates : p \in RequestStates /\ "TIMED_OUT" \in nextStates(p)
  BY DEF allowedPrevStates, RequestStates, nextStates
<1>5. x = TimeoutExpiredResults(node, cutoff)
  BY <1>1 DEF TimeoutExpiredResults
<1> HIDE DEF x
<1>6. WritesOK(x)
  BY <1>3 DEF WritesOK, RequestStates
<1>7. OpenOK(x)
  BY <1>2, <1>3, <1>4, <1>6 DEF OpenOK
<1> QED BY <1>5, <1>7

\* A setter opens its transaction, or does nothing.
LEMMA SettersGoOn ==
  ASSUME NEW M, TablesOK(M), NEW node \in Nodes, NEW r \in Requests, NEW x,
         \/ \E outcome \in Outcomes : x = SetResult(node, r, outcome)
         \/ x \in {SetInternalError(node, r), SetFinalized(node, r), SetConfirmed(node, r)},
         setWithStateTransitionCheck(node, x)
  PROVE  TablesGoOn(M)
<1>1. ASSUME CheckStateTransition(x) PROVE OpenOK(x)
  <2>1. PICK next \in RequestStates, outcome \in Outcomes \cup {NoOutcome} :
          /\ x = transaction(node, {r}, next, outcome)
          /\ next = "RESULT_READY" => outcome # NoOutcome
    BY ORMAssumption DEF SetResult, SetInternalError, SetFinalized, SetConfirmed, RequestStates
  <2> QED BY <1>1, <2>1, SettersOpen
<1> QED BY <1>1, BeginGoesOn, TablesStay DEF setWithStateTransitionCheck

\* Whatever happens to a node or around it, the tables go on.
LEMMA TablesAlwaysGoOn ==
  ASSUME ListenerInv, ListenerNext
  PROVE  TablesGoOn(Logged)
<1> USE DEF ListenerInv
<1>1. ASSUME NEW node \in Nodes, NodeStep(node)
      PROVE  TablesGoOn(Logged)
  <2>1. CASE LatestEvents(node) \/ LatestEventsFails(node)
    BY <2>1, TablesStay DEF LatestEvents, LatestEventsFails
  <2>2. CASE HandlerTimesOut(node)
    <3>1. ASSUME NEW x, rollback(node, x) PROVE TablesGoOn(Logged)
      <4>1. open' = [open EXCEPT ![node] = open[node] \ {x}] /\ UNCHANGED <<rows, received>>
        BY <3>1 DEF rollback, end, TablesOK
      <4>2. \A y \in open[node] \ {x} : OpenOK(y)
        BY DEF TablesOK
      <4> QED BY <4>1, <4>2, OpeningGoesOn
    <3> QED BY <2>2, <3>1, TablesStay DEF HandlerTimesOut
  <2>3. CASE CommitOne(node)
    BY <2>3, CommitGoesOn DEF CommitOne
  <2>4. CASE pruneRequests(node)
    BY <2>4, PruneGoesOn DEF pruneRequests
  <2>5. CASE CrashAndRestart(node)
    BY <2>5, OpeningGoesOn DEF CrashAndRestart, allEnd
  <2>6. ASSUME NEW r \in Requests, handleOracleRequestV1(node, r)
        PROVE  TablesGoOn(Logged)
    <3>1. r \in Logged
      BY <2>6 DEF handleOracleRequestV1, handled, MemoryTyped, Logged
    <3>2. CreateRequest(node, r) \/ UNCHANGED ormVars
      BY <2>6 DEF handleOracleRequestV1
    <3> QED BY <3>1, <3>2, CreateRequestGoesOn, TablesStay
  <2>7. ASSUME NEW r \in Requests, NEW outcome \in Outcomes, handleRequest(node, r, outcome)
        PROVE  TablesGoOn(Logged)
    BY <2>7, SettersGoOn DEF handleRequest
  <2>8. ASSUME NEW r \in Requests,
               handleRequestFails(node, r) \/ handleOracleResponseV1(node, r)
        PROVE  TablesGoOn(Logged)
    BY <2>8, SettersGoOn DEF handleRequestFails, handleOracleResponseV1
  <2> QED BY <1>1, <2>1, <2>2, <2>3, <2>4, <2>5, <2>6, <2>7, <2>8, Zenon DEF NodeStep
<1>2. ASSUME NEW node \in Nodes, timeoutRequests(node)
      PROVE  TablesGoOn(Logged)
  <2>1. PICK cutoff \in 1 .. Len(received[node]) : begin(node, TimeoutExpiredResults(node, cutoff))
    BY <1>2 DEF timeoutRequests
  <2> QED BY <2>1, TimerOpens, BeginGoesOn
<1>3. ASSUME Environment PROVE TablesGoOn(Logged)
  <2>1. ASSUME NEW r \in Requests, RequestMined(r) \/ ResponseMined(r)
        PROVE  TablesGoOn(Logged)
    BY <2>1, TablesStay DEF RequestMined, ResponseMined
  <2>2. ASSUME NEW l \in Logs, AgeOut(l) PROVE TablesGoOn(Logged)
    BY <2>2, TablesStay DEF AgeOut
  <2>3. ASSUME NEW node \in Nodes, NEW r \in Requests, AcceptReport(node, r)
        PROVE  TablesGoOn(Logged)
    BY <2>3, SettersGoOn DEF AcceptReport
  <2> QED BY <1>3, <2>1, <2>2, <2>3, Zenon DEF Environment
<1> QED BY <1>1, <1>2, <1>3, Zenon DEF ListenerNext

\* The rows only change when a transaction ends, a request is received, or rows
\* are pruned.
LEMMA RowsOnlyChangeSo ==
  ASSUME ListenerNext
  PROVE  \/ UNCHANGED <<rows, received>>
         \/ \E node \in Nodes, x \in UNION {open[m] : m \in Nodes} : commit(node, x)
         \/ \E node \in Nodes, r \in Requests : CreateRequest(node, r)
         \/ \E node \in Nodes : PruneOldestRequests(node)
<1> USE DEF ormVars, begin, setWithStateTransitionCheck, rollback
<1>1. ASSUME NEW node \in Nodes, NodeStep(node)
      PROVE  \/ UNCHANGED <<rows, received>>
             \/ \E x \in open[node] : commit(node, x)
             \/ \E r \in Requests : CreateRequest(node, r)
             \/ PruneOldestRequests(node)
  BY <1>1 DEF NodeStep, LatestEvents, LatestEventsFails, HandlerTimesOut, CommitOne,
     pruneRequests, CrashAndRestart, allEnd, handleOracleRequestV1, handleRequest,
     handleRequestFails, handleOracleResponseV1
<1>2. ASSUME NEW node \in Nodes, timeoutRequests(node) PROVE UNCHANGED <<rows, received>>
  BY <1>2 DEF timeoutRequests
<1>3. ASSUME Environment PROVE UNCHANGED <<rows, received>>
  BY <1>3 DEF Environment, RequestMined, ResponseMined, AgeOut, AcceptReport
<1> QED BY <1>1, <1>2, <1>3 DEF ListenerNext

-----------------------------------------------------------------------------
\* What a node remembers of the chain, and what it is busy with.
Remembers(M) ==
  /\ detected' \in [Nodes -> SUBSET M]
  /\ handling' \in [Nodes -> SUBSET M]
  /\ computing' \in [Nodes -> SUBSET Requests]
  /\ recomputed' \in [Nodes -> SUBSET Requests]

\* What is in memory speaks of events the chain has logged.
LEMMA MemoryStaysTyped ==
  ASSUME MemoryTyped, ListenerNext
  PROVE  MemoryTyped' /\ mined \subseteq mined'
<1>1. ASSUME NEW node \in Nodes, NodeStep(node)
      PROVE  UNCHANGED chainLogVars /\ Remembers(mined)
  <2>1. CASE LatestEvents(node)
    <3>1. PICK expired \in SUBSET detected[node] :
            /\ handling' = [handling EXCEPT ![node] = @ \cup (recent \ detected[node])]
            /\ detected' = [detected EXCEPT ![node] = (@ \cup (recent \ detected[node])) \ expired]
            /\ UNCHANGED <<chainLogVars, computing, recomputed>>
      BY <2>1 DEF LatestEvents
    <3> QED BY <3>1 DEF MemoryTyped, Remembers
  <2>2. CASE LatestEventsFails(node)
    BY <2>2 DEF LatestEventsFails, MemoryTyped, Remembers
  <2>3. CASE HandlerTimesOut(node)
    <3>1. UNCHANGED handling \/ \E l \in Logs : handled(node, l)
      BY <2>3 DEF HandlerTimesOut
    <3> QED BY <2>3, <3>1 DEF HandlerTimesOut, handled, MemoryTyped, Remembers
  <2>4. CASE CommitOne(node) \/ pruneRequests(node)
    BY <2>4 DEF CommitOne, pruneRequests, memoryVars, MemoryTyped, Remembers
  <2>5. CASE CrashAndRestart(node)
    BY <2>5 DEF CrashAndRestart, allEnd, MemoryTyped, Remembers
  <2>6. ASSUME NEW r \in Requests, handleOracleRequestV1(node, r)
        PROVE  UNCHANGED chainLogVars /\ Remembers(mined)
    <3>1. PICK more \in SUBSET Requests, again \in SUBSET Requests :
            /\ handling' = [handling EXCEPT ![node] = @ \ {RequestOf(r)}]
            /\ UNCHANGED <<chainLogVars, detected>>
            /\ computing' = [computing EXCEPT ![node] = @ \cup more]
            /\ recomputed' = [recomputed EXCEPT ![node] = again]
      <4>1. CASE CreateRequest(node, r)
        BY <2>6, <4>1 DEF handleOracleRequestV1, handled, MemoryTyped
      <4>2. CASE ~CreateRequest(node, r)
        <5>1. UNCHANGED <<computing, recomputed>>
          BY <2>6, <4>2 DEF handleOracleRequestV1
        <5>2. /\ computing' = [computing EXCEPT ![node] = @ \cup {}]
              /\ recomputed' = [recomputed EXCEPT ![node] = recomputed[node]]
              /\ recomputed[node] \subseteq Requests
          BY <5>1 DEF MemoryTyped
        <5> QED BY <2>6, <5>2 DEF handleOracleRequestV1, handled
      <4> QED BY <4>1, <4>2
    <3> QED BY <3>1 DEF MemoryTyped, Remembers
  <2>7. ASSUME NEW r \in Requests,
               \/ \E outcome \in Outcomes : handleRequest(node, r, outcome)
               \/ handleRequestFails(node, r)
        PROVE  UNCHANGED chainLogVars /\ Remembers(mined)
    BY <2>7 DEF handleRequest, handleRequestFails, computed, MemoryTyped, Remembers
  <2>8. ASSUME NEW r \in Requests, handleOracleResponseV1(node, r)
        PROVE  UNCHANGED chainLogVars /\ Remembers(mined)
    BY <2>8 DEF handleOracleResponseV1, handled, MemoryTyped, Remembers
  <2> QED BY <1>1, <2>1, <2>2, <2>3, <2>4, <2>5, <2>6, <2>7, <2>8, Zenon DEF NodeStep
<1>2. ASSUME NEW node \in Nodes, timeoutRequests(node)
      PROVE  UNCHANGED chainLogVars /\ Remembers(mined)
  BY <1>2 DEF timeoutRequests, memoryVars, MemoryTyped, Remembers
<1>3. ASSUME NEW node \in Nodes, NEW r \in Requests, AcceptReport(node, r)
      PROVE  UNCHANGED chainLogVars /\ Remembers(mined)
  BY <1>3 DEF AcceptReport, memoryVars, MemoryTyped, Remembers
<1>4. ASSUME NEW r \in Requests, RequestMined(r) \/ ResponseMined(r)
      PROVE  MemoryTyped' /\ mined \subseteq mined'
  <2>1. RequestOf(r) \in Logs /\ ResponseOf(r) \in Logs
    BY DEF Logs, RequestOf, ResponseOf
  <2>2. PICK l \in Logs :
          mined' = mined \cup {l} /\ recent' = recent \cup {l} /\ UNCHANGED memoryVars
    BY <1>4, <2>1 DEF RequestMined, ResponseMined, Log
  <2> QED BY <2>2 DEF MemoryTyped, memoryVars
<1>5. ASSUME NEW l \in Logs, AgeOut(l)
      PROVE  MemoryTyped' /\ mined \subseteq mined'
  BY <1>5 DEF AgeOut, MemoryTyped, memoryVars
<1>6. ASSUME UNCHANGED chainLogVars, Remembers(mined)
      PROVE  MemoryTyped' /\ mined \subseteq mined'
  BY <1>6 DEF MemoryTyped, Remembers, chainLogVars
<1> QED BY <1>1, <1>2, <1>3, <1>4, <1>5, <1>6, Zenon DEF ListenerNext, Environment

-----------------------------------------------------------------------------
\* Nobody joins those at work on r.
LEMMA FewerAtWork ==
  ASSUME NEW t, NEW C, NEW T, NEW r, OneAtWork(t, C, T, r), NEW u, NEW D, NEW V,
         Results(V, r) \subseteq Results(T, r), r \in D => r \in C,
         u[r].outcome \in {t[r].outcome, NoOutcome}
  PROVE  OneAtWork(u, D, V, r)
BY DEF OneAtWork

\* What a transaction without an outcome, or about something else, is to r.
LEMMA OthersResults ==
  ASSUME NEW T, NEW x, NEW r, x.outcome = NoOutcome \/ r \notin DOMAIN x.read
  PROVE  Results(T \cup {x}, r) = Results(T, r)
BY DEF Results

\* The handler of r is done with it and opens its transaction.
LEMMA HandsOver ==
  ASSUME NEW t, NEW C, NEW T, NEW r, OneAtWork(t, C, T, r), r \in C, NEW x
  PROVE  OneAtWork(t, C \ {r}, T \cup {x}, r) /\ OneAtWork(t, C \ {r}, T, r)
BY DEF OneAtWork, Results

\* What a commit does to the outcome of r, and to those at work on it.
LEMMA CommitOnOne ==
  ASSUME NEW t, NEW C, NEW T, NEW r \in Requests, OneAtWork(t, C, T, r), NEW x \in T
  PROVE  /\ OneAtWork(Updated(t, x), C, T \ {x}, r)
         /\ t[r].outcome \in {NoOutcome, Updated(t, x)[r].outcome}
<1> DEFINE u == Updated(t, x)
<1>1. u[r] = t[r] \/ (r \in DOMAIN x.read /\ u[r] = written(t[r], x))
  BY DEF Updated
<1>2. CASE x \in Results(T, r)
  <2>1. t[r].outcome = NoOutcome /\ r \notin C /\ Results(T \ {x}, r) = {}
    BY <1>2 DEF OneAtWork, Results
  <2> QED BY <2>1 DEF OneAtWork
<1>3. CASE x \notin Results(T, r)
  <2>1. u[r].outcome = t[r].outcome
    BY <1>1, <1>3 DEF Results, written
  <2>2. Results(T \ {x}, r) = Results(T, r)
    BY <1>3 DEF Results
  <2> QED BY <2>1, <2>2 DEF OneAtWork
<1> QED BY <1>2, <1>3

\* A new row has no outcome, and no row none.
LEMMA NewRowsHaveNone ==
  ASSUME NEW node \in Nodes, NEW r \in Requests, CreateRequest(node, r),
         NEW M, TablesOK(M), NEW other \in Nodes, NEW p \in Requests
  PROVE  /\ rows'[other][p].outcome = rows[other][p].outcome
         /\ rows[other][p] # NoRow => rows'[other][p] = rows[other][p]
<1>1. rows[node][r] = NoRow /\ rows' = [rows EXCEPT ![node][r] = newRow]
  BY DEF CreateRequest, Stored
<1>2. DOMAIN rows = Nodes /\ rows = [m \in Nodes |-> rows[m]] /\ rows[node] \in [Requests -> Row]
  BY DEF TablesOK, TableOK
<1>3. newRow.outcome = NoOutcome /\ NoRow.outcome = NoOutcome
  BY DEF newRow, NoRow
<1>4. CASE other = node /\ p = r
  BY <1>1, <1>2, <1>3, <1>4
<1>5. CASE other # node \/ p # r
  BY <1>1, <1>2, <1>5
<1> QED BY <1>4, <1>5

\* A step about one node leaves the handlers of the others alone.
LEMMA OneNodesHandlers ==
  ASSUME ListenerInv, NEW node \in Nodes, NEW t, NEW C, NEW A, NEW T,
         rows' = [rows EXCEPT ![node] = t], computing' = [computing EXCEPT ![node] = C],
         recomputed' = [recomputed EXCEPT ![node] = A], open' = [open EXCEPT ![node] = T],
         \A r \in Requests \ A : OneAtWork(t, C, T, r)
  PROVE  HandlersOK'
<1>1. /\ rows' = [m \in Nodes |-> IF m = node THEN t ELSE rows[m]]
      /\ computing' = [m \in Nodes |-> IF m = node THEN C ELSE computing[m]]
      /\ recomputed' = [m \in Nodes |-> IF m = node THEN A ELSE recomputed[m]]
      /\ open' = [m \in Nodes |-> IF m = node THEN T ELSE open[m]]
  BY DEF ListenerInv, MemoryTyped, TablesOK
<1>2. ASSUME NEW other \in Nodes, NEW r \in Requests \ recomputed'[other]
      PROVE  OneAtWork(rows'[other], computing'[other], open'[other], r)
  BY <1>1 DEF ListenerInv, HandlersOK
<1> QED BY <1>2 DEF HandlersOK

\* A step that changes neither rows nor what is computed, and opens at most a
\* transaction without an outcome, or closes one.
LEMMA OpeningKeepsHandlers ==
  ASSUME ListenerInv, NEW node \in Nodes, NEW T, UNCHANGED <<rows, computing, recomputed>>,
         open' = [open EXCEPT ![node] = T],
         \A x \in T : x \in open[node] \/ x.outcome = NoOutcome
  PROVE  HandlersOK'
<1>1. /\ rows' = [rows EXCEPT ![node] = rows[node]]
      /\ computing' = [computing EXCEPT ![node] = computing[node]]
      /\ recomputed' = [recomputed EXCEPT ![node] = recomputed[node]]
  BY DEF ListenerInv, MemoryTyped, TablesOK
<1>2. ASSUME NEW r \in Requests \ recomputed[node]
      PROVE  OneAtWork(rows[node], computing[node], T, r)
  <2>1. Results(T, r) \subseteq Results(open[node], r)
    BY DEF Results
  <2>2. OneAtWork(rows[node], computing[node], open[node], r)
    BY DEF ListenerInv, HandlersOK
  <2> QED BY <2>1, <2>2, FewerAtWork
<1> QED BY <1>1, <1>2, OneNodesHandlers

\* A setter without an outcome.
LEMMA SettingKeepsHandlers ==
  ASSUME ListenerInv, NEW node \in Nodes, NEW x, x.outcome = NoOutcome,
         setWithStateTransitionCheck(node, x) \/ begin(node, x),
         UNCHANGED <<computing, recomputed>>
  PROVE  HandlersOK'
<1>1. PICK T : /\ open' = [open EXCEPT ![node] = T] /\ UNCHANGED rows
               /\ \A y \in T : y \in open[node] \/ y = x
  <2>1. CASE begin(node, x)
    <3>1. open' = [open EXCEPT ![node] = open[node] \cup {x}]
      BY <2>1 DEF begin, ListenerInv, TablesOK
    <3> QED BY <2>1, <3>1 DEF begin
  <2>2. CASE UNCHANGED ormVars
    <3>1. open' = [open EXCEPT ![node] = open[node]]
      BY <2>2 DEF ormVars, ListenerInv, TablesOK
    <3> QED BY <2>2, <3>1 DEF ormVars
  <2> QED BY <2>1, <2>2 DEF setWithStateTransitionCheck
<1> QED BY <1>1, OpeningKeepsHandlers

LEMMA HandlersStay ==
  ASSUME ListenerInv, UNCHANGED <<rows, open, computing, recomputed>>
  PROVE  HandlersOK'
BY DEF ListenerInv, HandlersOK

\* A request is received: its handler computes it, maybe beside another one.
LEMMA ReceivingKeepsHandlers ==
  ASSUME ListenerInv, NEW node \in Nodes, NEW r \in Requests, handleOracleRequestV1(node, r),
         CreateRequest(node, r)
  PROVE  HandlersOK'
<1>1. PICK t, C, A, T :
        /\ t = [rows[node] EXCEPT ![r] = newRow] /\ C = computing[node] \cup {r}
        /\ A = (IF atWork(node, r) THEN recomputed[node] \cup {r} ELSE recomputed[node] \ {r})
        /\ T = open[node]
  OBVIOUS
<1>2. /\ rows' = [rows EXCEPT ![node] = t] /\ open' = [open EXCEPT ![node] = T]
      /\ computing' = [computing EXCEPT ![node] = C]
      /\ recomputed' = [recomputed EXCEPT ![node] = A]
  <2>1. r \notin Stored(node)
    BY DEF CreateRequest
  <2> QED BY <1>1, <2>1 DEF handleOracleRequestV1, CreateRequest, ListenerInv, TablesOK, MemoryTyped
<1>3. rows[node] \in [Requests -> Row] /\ rows[node][r] = NoRow /\ newRow.outcome = NoOutcome
  BY DEF ListenerInv, TablesOK, TableOK, CreateRequest, Stored, newRow
<1>4. ASSUME NEW p \in Requests \ A PROVE OneAtWork(t, C, T, p)
  <2>1. CASE p = r
    <3>1. ~atWork(node, r)
      BY <1>1, <1>4, <2>1
    <3>2. Results(T, r) = {}
      BY <1>1, <3>1 DEF atWork, Results
    <3> QED BY <1>1, <1>3, <2>1, <3>2 DEF OneAtWork
  <2>2. CASE p # r
    <3>1. p \in Requests \ recomputed[node] /\ t[p] = rows[node][p] /\ (p \in C <=> p \in computing[node])
      BY <1>1, <1>3, <1>4, <2>2
    <3>2. OneAtWork(rows[node], computing[node], T, p)
      BY <1>1, <3>1 DEF ListenerInv, HandlersOK
    <3> QED BY <3>1, <3>2, FewerAtWork
  <2> QED BY <2>1, <2>2
<1> QED BY <1>2, <1>4, OneNodesHandlers

\* A computation ends, and its handler goes on to a setter about the request.
LEMMA ComputedKeepsHandlers ==
  ASSUME ListenerInv, NEW node \in Nodes, NEW r \in Requests, computed(node, r),
         NEW x, DOMAIN x.read = {r}, setWithStateTransitionCheck(node, x), UNCHANGED recomputed
  PROVE  HandlersOK'
<1>1. PICK T : /\ open' = [open EXCEPT ![node] = T] /\ UNCHANGED rows
               /\ T = open[node] \/ T = open[node] \cup {x}
  <2>1. CASE begin(node, x)
    <3>1. open' = [open EXCEPT ![node] = open[node] \cup {x}]
      BY <2>1 DEF begin, ListenerInv, TablesOK
    <3> QED BY <2>1, <3>1 DEF begin
  <2>2. CASE UNCHANGED ormVars
    <3>1. open' = [open EXCEPT ![node] = open[node]]
      BY <2>2 DEF ormVars, ListenerInv, TablesOK
    <3> QED BY <2>2, <3>1 DEF ormVars
  <2> QED BY <2>1, <2>2 DEF setWithStateTransitionCheck
<1>2. PICK C : /\ computing' = [computing EXCEPT ![node] = C]
               /\ \/ C = computing[node] \ {r}
                  \/ r \in recomputed[node] /\ C = computing[node]
  <2>1. CASE computing' = [computing EXCEPT ![node] = @ \ {r}]
    <3>1. computing' = [computing EXCEPT ![node] = computing[node] \ {r}]
      BY <2>1 DEF ListenerInv, MemoryTyped
    <3> QED BY <3>1
  <2>2. CASE r \in recomputed[node] /\ UNCHANGED computing
    <3>1. computing' = [computing EXCEPT ![node] = computing[node]]
      BY <2>2 DEF ListenerInv, MemoryTyped
    <3> QED BY <2>2, <3>1
  <2> QED BY <2>1, <2>2 DEF computed
<1>3. /\ rows' = [rows EXCEPT ![node] = rows[node]]
      /\ recomputed' = [recomputed EXCEPT ![node] = recomputed[node]]
  BY <1>1 DEF ListenerInv, MemoryTyped, TablesOK
<1>4. ASSUME NEW p \in Requests \ recomputed[node]
      PROVE  OneAtWork(rows[node], C, T, p)
  <2>1. OneAtWork(rows[node], computing[node], open[node], p)
    BY DEF ListenerInv, HandlersOK
  <2>2. CASE p = r
    <3>1. C = computing[node] \ {r} /\ r \in computing[node]
      BY <1>2, <1>4, <2>2 DEF computed
    <3>2. /\ OneAtWork(rows[node], computing[node] \ {r}, open[node] \cup {x}, r)
          /\ OneAtWork(rows[node], computing[node] \ {r}, open[node], r)
      BY <2>1, <2>2, <3>1, HandsOver
    <3> QED BY <1>1, <2>2, <3>1, <3>2
  <2>3. CASE p # r
    <3>1. p \notin DOMAIN x.read
      BY <2>3
    <3>2. Results(open[node] \cup {x}, p) = Results(open[node], p)
      BY <3>1, OthersResults
    <3>3. Results(T, p) = Results(open[node], p) /\ (p \in C => p \in computing[node])
      BY <1>1, <1>2, <3>2
    <3> QED BY <2>1, <3>3, FewerAtWork
  <2> QED BY <2>2, <2>3
<1> QED BY <1>1, <1>2, <1>3, <1>4, OneNodesHandlers

\* A transaction is written.
LEMMA CommittingKeepsHandlers ==
  ASSUME ListenerInv, NEW node \in Nodes, NEW x, commit(node, x),
         UNCHANGED <<computing, recomputed>>
  PROVE  HandlersOK'
<1>1. x \in open[node] /\ open' = [open EXCEPT ![node] = open[node] \ {x}]
  BY DEF commit, end, ListenerInv, TablesOK
<1>2. rows' = [rows EXCEPT ![node] = Updated(rows[node], x)]
  BY UpdateWrites DEF commit, ListenerInv
<1>3. /\ computing' = [computing EXCEPT ![node] = computing[node]]
      /\ recomputed' = [recomputed EXCEPT ![node] = recomputed[node]]
  BY DEF ListenerInv, MemoryTyped
<1>4. ASSUME NEW r \in Requests \ recomputed[node]
      PROVE  OneAtWork(Updated(rows[node], x), computing[node], open[node] \ {x}, r)
  <2>1. OneAtWork(rows[node], computing[node], open[node], r)
    BY DEF ListenerInv, HandlersOK
  <2> QED BY <1>1, <2>1, CommitOnOne
<1> QED BY <1>1, <1>2, <1>3, <1>4, OneNodesHandlers

\* Rows are pruned under the hands of those at work on them.
LEMMA PruningKeepsHandlers ==
  ASSUME ListenerInv, NEW node \in Nodes, PruneOldestRequests(node),
         UNCHANGED <<computing, recomputed>>
  PROVE  HandlersOK'
<1>1. PICK t : t = rows'[node]
  OBVIOUS
<1>2. /\ rows' = [rows EXCEPT ![node] = t]
      /\ \A r \in Requests : t[r] \in {rows[node][r], NoRow}
  BY <1>1, PruneGoesOn DEF ListenerInv
<1>3. /\ computing' = [computing EXCEPT ![node] = computing[node]]
      /\ recomputed' = [recomputed EXCEPT ![node] = recomputed[node]]
      /\ open' = [open EXCEPT ![node] = open[node]]
  BY DEF ListenerInv, MemoryTyped, TablesOK, PruneOldestRequests
<1>4. ASSUME NEW r \in Requests \ recomputed[node]
      PROVE  OneAtWork(t, computing[node], open[node], r)
  <2>1. OneAtWork(rows[node], computing[node], open[node], r)
    BY DEF ListenerInv, HandlersOK
  <2>2. t[r].outcome \in {rows[node][r].outcome, NoOutcome}
    BY <1>2 DEF NoRow
  <2> QED BY <2>1, <2>2, FewerAtWork
<1> QED BY <1>2, <1>3, <1>4, OneNodesHandlers

\* A crash ends everybody's work.
LEMMA CrashKeepsHandlers ==
  ASSUME ListenerInv, NEW node \in Nodes, allEnd(node)
  PROVE  HandlersOK'
<1>1. /\ rows' = [rows EXCEPT ![node] = rows[node]]
      /\ computing' = [computing EXCEPT ![node] = {}]
      /\ recomputed' = [recomputed EXCEPT ![node] = {}]
      /\ open' = [open EXCEPT ![node] = {}]
  BY DEF allEnd, ListenerInv, TablesOK
<1>2. \A r \in Requests \ {} : OneAtWork(rows[node], {}, {}, r)
  BY DEF OneAtWork, Results
<1> QED BY <1>1, <1>2, OneNodesHandlers

\* Whatever happens, a request has one handler at work, or was received again.
LEMMA HandlersStayOK ==
  ASSUME ListenerInv, ListenerNext
  PROVE  HandlersOK'
<1>1. ASSUME NEW node \in Nodes, NodeStep(node) PROVE HandlersOK'
  <2>1. CASE LatestEvents(node) \/ LatestEventsFails(node)
    BY <2>1, HandlersStay DEF LatestEvents, LatestEventsFails, ormVars
  <2>2. CASE HandlerTimesOut(node)
    <3>1. ASSUME NEW x, rollback(node, x) PROVE HandlersOK'
      <4>1. open' = [open EXCEPT ![node] = open[node] \ {x}] /\ UNCHANGED rows
        BY <3>1 DEF rollback, end, ListenerInv, TablesOK
      <4> QED BY <2>2, <4>1, OpeningKeepsHandlers DEF HandlerTimesOut
    <3> QED BY <2>2, <3>1, HandlersStay DEF HandlerTimesOut, ormVars
  <2>3. CASE CommitOne(node)
    BY <2>3, CommittingKeepsHandlers DEF CommitOne, memoryVars
  <2>4. CASE pruneRequests(node)
    BY <2>4, PruningKeepsHandlers DEF pruneRequests, memoryVars
  <2>5. CASE CrashAndRestart(node)
    BY <2>5, CrashKeepsHandlers DEF CrashAndRestart
  <2>6. ASSUME NEW r \in Requests, handleOracleRequestV1(node, r) PROVE HandlersOK'
    <3>1. CASE CreateRequest(node, r)
      BY <2>6, <3>1, ReceivingKeepsHandlers
    <3>2. CASE ~CreateRequest(node, r)
      BY <2>6, <3>2, HandlersStay DEF handleOracleRequestV1, ormVars
    <3> QED BY <3>1, <3>2
  <2>7. ASSUME NEW r \in Requests,
               \/ \E outcome \in Outcomes : handleRequest(node, r, outcome)
               \/ handleRequestFails(node, r)
        PROVE  HandlersOK'
    <3>1. PICK x : /\ DOMAIN x.read = {r} /\ setWithStateTransitionCheck(node, x)
                   /\ computed(node, r) /\ UNCHANGED recomputed
      BY <2>7 DEF handleRequest, handleRequestFails, SetResult, SetInternalError, transaction
    <3> QED BY <3>1, ComputedKeepsHandlers
  <2>8. ASSUME NEW r \in Requests, handleOracleResponseV1(node, r) PROVE HandlersOK'
    <3>1. SetConfirmed(node, r).outcome = NoOutcome
      BY DEF SetConfirmed, transaction
    <3> QED BY <2>8, <3>1, SettingKeepsHandlers DEF handleOracleResponseV1
  <2> QED BY <1>1, <2>1, <2>2, <2>3, <2>4, <2>5, <2>6, <2>7, <2>8, Zenon DEF NodeStep
<1>2. ASSUME NEW node \in Nodes, timeoutRequests(node) PROVE HandlersOK'
  <2>1. PICK cutoff \in 1 .. Len(received[node]) : begin(node, TimeoutExpiredResults(node, cutoff))
    BY <1>2 DEF timeoutRequests
  <2>2. TimeoutExpiredResults(node, cutoff).outcome = NoOutcome
    BY DEF TimeoutExpiredResults, transaction
  <2> QED BY <1>2, <2>1, <2>2, SettingKeepsHandlers DEF timeoutRequests, memoryVars
<1>3. ASSUME Environment PROVE HandlersOK'
  <2>1. ASSUME NEW node \in Nodes, NEW r \in Requests, AcceptReport(node, r) PROVE HandlersOK'
    <3>1. SetFinalized(node, r).outcome = NoOutcome
      BY DEF SetFinalized, transaction
    <3> QED BY <2>1, <3>1, SettingKeepsHandlers DEF AcceptReport, memoryVars
  <2>2. CASE \/ \E r \in Requests : RequestMined(r) \/ ResponseMined(r)
             \/ \E l \in Logs : AgeOut(l)
    BY <2>2, HandlersStay DEF RequestMined, ResponseMined, AgeOut, memoryVars, ormVars
  <2> QED BY <1>3, <2>1, <2>2 DEF Environment
<1> QED BY <1>1, <1>2, <1>3, Zenon DEF ListenerNext

-----------------------------------------------------------------------------
\* Nodes start with empty tables.
LEMMA TablesStart ==
  ASSUME NEW M, ORMInit
  PROVE  TablesOK(M)
<1>2. /\ rows = [node \in Nodes |-> [r \in Requests |-> NoRow]]
      /\ received = [node \in Nodes |-> <<>>]
      /\ open = [node \in Nodes |-> {}]
  BY DEF ORMInit
<1>3. ASSUME NEW node \in Nodes PROVE TableOK(rows[node], received[node], M)
  <2>1. rows[node] = [r \in Requests |-> NoRow] /\ received[node] = <<>>
    BY <1>2
  <2>2. NoRow \in Row /\ NoRow.state = "NONE"
    BY DEF NoRow, Row
  <2>3. ToSet(received[node]) = {} /\ received[node] \in Seq(Requests) /\ Len(received[node]) = 0
    BY <2>1 DEF ToSet
  <2> QED BY <2>1, <2>2, <2>3 DEF TableOK, In
<1> QED BY <1>2, <1>3 DEF TablesOK

LEMMA ListenerStarts ==
  ASSUME ListenerInit
  PROVE  ListenerInv
<1>1. MemoryTyped
  BY DEF ListenerInit, MemoryTyped
<1>2. HandlersOK
  BY DEF ListenerInit, ORMInit, HandlersOK, OneAtWork, Results
<1> QED BY <1>1, <1>2, TablesStart DEF ListenerInit, ListenerInv

\* The invariant is inductive.
LEMMA ListenerStep ==
  ASSUME ListenerInv, [ListenerNext]_listenerVars
  PROVE  ListenerInv'
<1>1. CASE ListenerNext
  <2>1. TablesGoOn(Logged)
    BY <1>1, TablesAlwaysGoOn
  <2>2. MemoryTyped' /\ mined \subseteq mined'
    BY <1>1, MemoryStaysTyped DEF ListenerInv
  <2>3. Logged \subseteq Logged'
    BY <2>2 DEF Logged
  <2>4. TablesOK(Logged)'
    BY <2>1, <2>3, TablesAreOK DEF TablesOK
  <2>5. HandlersOK'
    BY <1>1, HandlersStayOK
  <2> QED BY <2>2, <2>4, <2>5 DEF ListenerInv
<1>2. CASE UNCHANGED listenerVars
  <2>1. UNCHANGED ormVars /\ UNCHANGED <<mined, recent, detected, handling, computing, recomputed>>
    BY <1>2 DEF listenerVars, chainLogVars, memoryVars
  <2>2. HandlersOK'
    BY <2>1, HandlersStay DEF ormVars
  <2> QED BY <2>1, <2>2 DEF ListenerInv, MemoryTyped, ormVars, TablesOK, Logged
<1> QED BY <1>1, <1>2

\* The invariant holds throughout.
LEMMA ListenerInvAlways == ListenerSpec => []ListenerInv
<1>1. ListenerInit => ListenerInv
  BY ListenerStarts
<1>2. ListenerInv /\ [ListenerNext]_listenerVars => ListenerInv'
  BY ListenerStep
<1> QED BY <1>1, <1>2, PTL DEF ListenerSpec

\* The listener's table is what ListenerTypeOK says, however many nodes and
\* requests there are and whatever fails: a row for each request received, each
\* once, of requests the chain has logged, with an outcome once it is ready.
THEOREM TablesStayTyped == ListenerSpec => []ListenerTypeOK
<1>1. ASSUME ListenerInv PROVE ListenerTypeOK
  <2>1. ASSUME NEW node \in Nodes
        PROVE  /\ ToSet(received[node]) = Stored(node)
               /\ Len(received[node]) = Cardinality(Stored(node))
               /\ detected[node] \cup handling[node] \subseteq mined
               /\ computing[node] \cup recomputed[node] \subseteq Requests
               /\ \A x \in open[node] : DOMAIN x.read \subseteq Requests /\ x.next \in RequestStates
               /\ \A r \in Stored(node) :
                    /\ RequestOf(r) \in mined
                    /\ rows[node][r].state \in RequestStates
                    /\ rows[node][r].outcome \in Outcomes \cup {NoOutcome}
                    /\ rows[node][r].state = "RESULT_READY" => rows[node][r].outcome # NoOutcome
    <3>1. TableOK(rows[node], received[node], Logged)
      BY <1>1 DEF ListenerInv, TablesOK
    <3>2. Stored(node) = In(rows[node])
      BY DEF Stored, In
    <3>3. ToSet(received[node]) = Stored(node)
      BY <3>1, <3>2 DEF TableOK
    <3>4. Cardinality(ToSet(received[node])) = Len(received[node])
      BY <3>1, DistinctLength DEF TableOK
    <3>5. /\ detected[node] \cup handling[node] \subseteq mined
          /\ computing[node] \cup recomputed[node] \subseteq Requests
      BY <1>1 DEF ListenerInv, MemoryTyped
    <3>6. ASSUME NEW r \in Stored(node)
          PROVE  /\ RequestOf(r) \in mined
                 /\ rows[node][r].state \in RequestStates
                 /\ rows[node][r].outcome \in Outcomes \cup {NoOutcome}
                 /\ rows[node][r].state = "RESULT_READY" => rows[node][r].outcome # NoOutcome
      BY <3>1 DEF Stored, TableOK, Row, Logged
    <3>7. \A x \in open[node] : DOMAIN x.read \subseteq Requests /\ x.next \in RequestStates
      BY <1>1 DEF ListenerInv, TablesOK, OpenOK, WritesOK
    <3> QED BY <3>3, <3>4, <3>5, <3>6, <3>7
  <2>2. mined \subseteq Logs /\ recent \subseteq mined
    BY <1>1 DEF ListenerInv, MemoryTyped
  <2> QED BY <2>1, <2>2 DEF ListenerTypeOK
<1> QED BY <1>1, ListenerInvAlways, PTL

\* What a node has recorded of a request, while its row is kept, changes only in
\* two ways.  The outcome is another only if a second handler was started, the
\* row having been pruned under the first (handleOracleRequestV1); and the row
\* is set back only by a transaction whose check of the state was overtaken by
\* another one's write (setWithStateTransitionCheck, TimeoutExpiredResults).
THEOREM RowsAreKept == ListenerSpec => RecordsAreKept
<1>1. ASSUME ListenerInv, [ListenerNext]_listenerVars PROVE [RecordsStay]_listenerVars
  <2> SUFFICES ASSUME ListenerNext PROVE RecordsStay
    BY <1>1
  <2> DEFINE Kept(m, r) ==
        /\ rows[m][r].outcome \in {NoOutcome, rows'[m][r].outcome} \/ r \in recomputed[m]
        /\ stage(rows[m][r].state) <= stage(rows'[m][r].state) \/ overtaken(m, r)
  <2> SUFFICES ASSUME NEW m \in Nodes, NEW r \in Stored(m) \cap Stored(m)' PROVE Kept(m, r)
    BY DEF RecordsStay
  <2>1. r \in Requests /\ rows[m][r] # NoRow /\ rows'[m][r] # NoRow /\ rows[m][r] \in Row
    BY <1>1 DEF Stored, ListenerInv, TablesOK, TableOK
  <2>2. rows[m][r].state \in RequestStates /\ stage(rows[m][r].state) \in 0 .. 5
    BY <1>1, <2>1, StagesTyped DEF ListenerInv, TablesOK, TableOK, Row
  <2>3. CASE rows'[m][r] = rows[m][r]
    BY <2>2, <2>3
  <2>4. ASSUME NEW node \in Nodes, NEW x, commit(node, x), rows'[m][r] # rows[m][r]
        PROVE  Kept(m, r)
    <3>1. rows' = [rows EXCEPT ![node] = Updated(rows[node], x)]
      BY <1>1, <2>4, UpdateWrites DEF commit, ListenerInv
    <3>2. m = node
      BY <1>1, <2>4, <3>1 DEF ListenerInv, TablesOK
    <3>3. rows'[m] = Updated(rows[m], x)
      BY <1>1, <3>1, <3>2 DEF ListenerInv, TablesOK
    <3>4. r \in DOMAIN x.read /\ rows'[m][r].state = x.next
      BY <2>1, <2>4, <3>3 DEF Updated, written
    <3>5. x \in open[m] /\ x \notin open'[m]
      BY <1>1, <2>4, <3>2 DEF commit, end, ListenerInv, TablesOK
    <3>6. r \in recomputed[m] \/ rows[m][r].outcome \in {NoOutcome, rows'[m][r].outcome}
      <4>1. ASSUME r \notin recomputed[m]
            PROVE  OneAtWork(rows[m], computing[m], open[m], r)
        BY <1>1, <2>1, <4>1 DEF ListenerInv, HandlersOK
      <4>2. ASSUME r \notin recomputed[m]
            PROVE  rows[m][r].outcome \in {NoOutcome, Updated(rows[m], x)[r].outcome}
        BY <2>1, <3>5, <4>1, <4>2, CommitOnOne
      <4> QED BY <3>3, <4>2
    <3>7. stage(rows[m][r].state) <= stage(rows'[m][r].state) \/ overtaken(m, r)
      <4>1. CASE x.read[r] # rows[m][r].state
        BY <3>4, <3>5, <4>1 DEF overtaken
      <4>2. CASE x.read[r] = rows[m][r].state
        <5>1. OpenOK(x)
          BY <1>1, <3>5 DEF ListenerInv, TablesOK
        <5>2. x.next \in nextStates(rows[m][r].state)
          BY <3>4, <4>2, <5>1 DEF OpenOK
        <5> QED BY <2>2, <3>4, <5>2, TransitionsGoOn
      <4> QED BY <4>1, <4>2
    <3> QED BY <3>6, <3>7
  <2>5. ASSUME NEW node \in Nodes, NEW p \in Requests, CreateRequest(node, p)
        PROVE  rows'[m][r] = rows[m][r]
    BY <1>1, <2>1, <2>5, NewRowsHaveNone DEF ListenerInv
  <2>6. ASSUME NEW node \in Nodes, PruneOldestRequests(node)
        PROVE  rows'[m][r] = rows[m][r]
    <3>1. /\ \A p \in Requests : rows'[node][p] \in {rows[node][p], NoRow}
          /\ rows' = [rows EXCEPT ![node] = rows'[node]]
      BY <1>1, <2>6, PruneGoesOn DEF ListenerInv
    <3>2. m # node => rows'[m] = rows[m]
      BY <1>1, <3>1 DEF ListenerInv, TablesOK
    <3> QED BY <2>1, <3>1, <3>2
  <2>7. UNCHANGED <<rows, received>> => rows'[m][r] = rows[m][r]
    OBVIOUS
  <2> QED BY <2>3, <2>4, <2>5, <2>6, <2>7, RowsOnlyChangeSo
<1> QED BY <1>1, ListenerInvAlways, PTL DEF ListenerSpec, RecordsAreKept

\* Pruning (PruneOldestRequests) takes the oldest rows alone: whatever the
\* configured limits, a row only goes when MaxStoredRequests of those received
\* after it stay.
THEOREM NewestRowsStay == ListenerSpec => NewestAreStored
<1>1. ASSUME ListenerInv, [ListenerNext]_listenerVars PROVE [NewestStay]_listenerVars
  <2> SUFFICES ASSUME ListenerNext PROVE NewestStay
    BY <1>1
  <2> SUFFICES ASSUME NEW m \in Nodes, NEW i \in 1 .. Len(received[m]),
                      received[m][i] \notin Stored(m)'
               PROVE  Cardinality({j \in i + 1 .. Len(received[m]) :
                                     received[m][j] \in Stored(m)'}) >= MaxStoredRequests
    BY DEF NewestStay
  <2>1. Stored(m) = In(rows[m]) /\ Stored(m)' = In(rows'[m])
    BY DEF Stored, In
  <2>2. received[m][i] \in Stored(m)
    <3>1. received[m] \in Seq(Requests) /\ ToSet(received[m]) = In(rows[m])
      BY <1>1 DEF ListenerInv, TablesOK, TableOK
    <3> QED BY <2>1, <3>1 DEF ToSet
  <2>3. UNCHANGED rows => FALSE
    BY <2>1, <2>2
  <2>4. ASSUME NEW node \in Nodes, NEW x, commit(node, x) PROVE FALSE
    <3>1. rows' = [rows EXCEPT ![node] = Updated(rows[node], x)]
      BY <1>1, <2>4, UpdateWrites DEF commit, ListenerInv
    <3>2. OpenOK(x) /\ TableOK(rows[node], received[node], Logged)
      BY <1>1, <2>4 DEF commit, end, ListenerInv, TablesOK
    <3>3. PICK t, q : t = rows[node] /\ q = received[node]
      OBVIOUS
    <3>4. In(Updated(t, x)) = In(t)
      BY <3>2, <3>3, UpdatedTable DEF OpenOK
    <3>5. rows'[m] = IF m = node THEN Updated(t, x) ELSE rows[m]
      BY <1>1, <3>1, <3>3 DEF ListenerInv, TablesOK
    <3> QED BY <2>1, <2>2, <3>3, <3>4, <3>5
  <2>5. ASSUME NEW node \in Nodes, NEW p \in Requests, CreateRequest(node, p) PROVE FALSE
    <3>1. received[m][i] \in Requests /\ rows[m][received[m][i]] # NoRow
      BY <2>2 DEF Stored
    <3>2. rows'[m][received[m][i]] = rows[m][received[m][i]]
      BY <1>1, <2>5, <3>1, NewRowsHaveNone DEF ListenerInv
    <3> QED BY <3>1, <3>2 DEF Stored
  <2>6. ASSUME NEW node \in Nodes, PruneOldestRequests(node)
        PROVE  Cardinality({j \in i + 1 .. Len(received[m]) :
                              received[m][j] \in Stored(m)'}) >= MaxStoredRequests
    <3>1. /\ NewerStay(rows[node], received[node], rows'[node])
          /\ rows' = [rows EXCEPT ![node] = rows'[node]]
      BY <1>1, <2>6, PruneGoesOn DEF ListenerInv
    <3>2. m = node
      <4>1. m # node => rows'[m] = rows[m]
        BY <1>1, <3>1 DEF ListenerInv, TablesOK
      <4> QED BY <2>1, <2>2, <4>1
    <3> QED BY <2>1, <3>1, <3>2 DEF NewerStay
  <2> QED BY <2>3, <2>4, <2>5, <2>6, RowsOnlyChangeSo
<1> QED BY <1>1, ListenerInvAlways, PTL DEF ListenerSpec, NewestAreStored
-----------------------------------------------------------------------------
\* A set of natural numbers has a least element, and a bounded one a greatest.
LEMMA LeastOf ==
  ASSUME NEW S, S \subseteq Nat, S # {}
  PROVE  \E i \in S : \A j \in S : i <= j
<1>1. PICK i \in S : \A j \in S : <<j, i>> \notin OpToRel(<, Nat)
  BY NatLessThanWellFounded, WFMin
<1>2. \A j \in S : ~(j < i)
  BY <1>1 DEF OpToRel
<1> QED BY <1>2

LEMMA GreatestOf ==
  ASSUME NEW m \in Nat, NEW S, S \subseteq 0 .. m, S # {}
  PROVE  \E i \in S : \A j \in S : j <= i
<1> DEFINE T == {m - j : j \in S}
<1>1. T \subseteq Nat
  OBVIOUS
<1>2. T # {}
  OBVIOUS
<1>3. PICK l \in T : \A j \in T : l <= j
  BY <1>1, <1>2, LeastOf
<1>4. PICK i \in S : l = m - i
  OBVIOUS
<1>5. ASSUME NEW j \in S PROVE j <= i
  <2>1. m - j \in T
    OBVIOUS
  <2>2. m - i <= m - j
    BY <1>3, <1>4, <2>1
  <2> QED BY <2>2
<1> QED BY <1>5

\* How many of the places P are among the first i.
UpTo(P, i) == Cardinality(P \cap 1 .. i)

LEMMA UpToTyped ==
  ASSUME NEW P, NEW i \in Nat
  PROVE  IsFiniteSet(P \cap 1 .. i) /\ UpTo(P, i) \in Nat /\ UpTo(P, i) <= i
<1>1. IsFiniteSet(1 .. i) /\ Cardinality(1 .. i) = i
  BY IntervalSize
<1>2. P \cap 1 .. i \in SUBSET (1 .. i)
  OBVIOUS
<1>3. IsFiniteSet(P \cap 1 .. i) /\ Cardinality(P \cap 1 .. i) <= i
  BY <1>1, <1>2, FS_Subset
<1> QED BY <1>3, FS_CardinalityType DEF UpTo

LEMMA UpToNext ==
  ASSUME NEW P, NEW i \in Nat
  PROVE  UpTo(P, i + 1) = IF i + 1 \in P THEN UpTo(P, i) + 1 ELSE UpTo(P, i)
<1>1. IsFiniteSet(P \cap 1 .. i)
  BY UpToTyped
<1>2. CASE i + 1 \in P
  <2>1. P \cap 1 .. i + 1 = (P \cap 1 .. i) \cup {i + 1} /\ i + 1 \notin P \cap 1 .. i
    BY <1>2
  <2> QED BY <1>1, <1>2, <2>1, FS_AddElement DEF UpTo
<1>3. CASE i + 1 \notin P
  <2>1. P \cap 1 .. i + 1 = P \cap 1 .. i
    BY <1>3
  <2> QED BY <1>3, <2>1 DEF UpTo
<1> QED BY <1>2, <1>3

\* A place counts itself, and those before it do not.
LEMMA UpToRises ==
  ASSUME NEW P, NEW i \in Nat, NEW j \in P, j \in Nat, i < j
  PROVE  UpTo(P, i) < UpTo(P, j)
<1>1. j \notin P \cap 1 .. i /\ (P \cap 1 .. i) \cup {j} \in SUBSET (P \cap 1 .. j)
  OBVIOUS
<1>2. IsFiniteSet(P \cap 1 .. i) /\ IsFiniteSet(P \cap 1 .. j)
  BY UpToTyped
<1>3. Cardinality((P \cap 1 .. i) \cup {j}) = Cardinality(P \cap 1 .. i) + 1
  BY <1>1, <1>2, FS_AddElement
<1>4. Cardinality((P \cap 1 .. i) \cup {j}) <= Cardinality(P \cap 1 .. j)
  BY <1>1, <1>2, FS_Subset
<1>5. UpTo(P, i) \in Nat /\ UpTo(P, j) \in Nat
  BY UpToTyped
<1> QED BY <1>3, <1>4, <1>5 DEF UpTo

\* Each number up to their own is that of some place.
LEMMA UpToReaches ==
  ASSUME NEW m \in Nat, NEW P, P \subseteq 1 .. m, NEW j \in 1 .. Cardinality(P)
  PROVE  \E i \in P : UpTo(P, i) = j
<1>1. UpTo(P, m) = Cardinality(P) /\ UpTo(P, m) \in Nat
  <2>1. P \cap 1 .. m = P
    OBVIOUS
  <2> QED BY <2>1, UpToTyped DEF UpTo
<1>2. UpTo(P, 0) = 0
  <2>1. UpTo(P, 0) \in Nat /\ UpTo(P, 0) <= 0
    BY UpToTyped
  <2> QED BY <2>1
<1> DEFINE S == {i \in Nat : UpTo(P, i) >= j}
<1>3. S \subseteq Nat /\ m \in S
  BY <1>1
<1>4. PICK i \in S : \A l \in S : i <= l
  BY <1>3, LeastOf
<1>5. i \in Nat /\ UpTo(P, i) >= j /\ UpTo(P, i) \in Nat /\ i # 0
  <2>1. i \in Nat /\ UpTo(P, i) >= j
    OBVIOUS
  <2>2. UpTo(P, i) \in Nat
    BY <2>1, UpToTyped
  <2>3. i # 0
    BY <1>2, <2>1
  <2> QED BY <2>1, <2>2, <2>3
<1>6. i - 1 \in Nat /\ i - 1 \notin S
  BY <1>4, <1>5
<1>7. UpTo(P, i - 1) \in Nat /\ UpTo(P, i - 1) < j
  <2>1. UpTo(P, i - 1) \in Nat
    BY <1>6, UpToTyped
  <2> QED BY <1>6, <2>1
<1>8. UpTo(P, i) = IF i \in P THEN UpTo(P, i - 1) + 1 ELSE UpTo(P, i - 1)
  <2>1. i - 1 + 1 = i
    BY <1>5
  <2> QED BY <1>6, <2>1, UpToNext
<1>9. i \in P /\ UpTo(P, i) = j
  BY <1>5, <1>7, <1>8
<1> QED BY <1>9

\* The items of a list at the first c places of a sequence of them.
Listing(list, place, c) == [j \in 1 .. c |-> list[place[j]]]

\* ItemsAt lists the items at the places, each once.
LEMMA ItemsAtPlaces ==
  ASSUME NEW m \in Nat, NEW P, P \subseteq 1 .. m, NEW list
  PROVE  /\ IsFiniteSet(P) /\ Cardinality(P) \in Nat
         /\ \E place \in Bijection(1 .. Cardinality(P), P) :
              ItemsAt(list, P) = Listing(list, place, Cardinality(P))
<1>1. IsFiniteSet(P) /\ Cardinality(P) \in Nat
  <2>1. IsFiniteSet(1 .. m) /\ P \in SUBSET (1 .. m)
    BY IntervalSize
  <2> QED BY <2>1, FS_Subset, FS_CardinalityType
<1> DEFINE place == [j \in 1 .. Cardinality(P) |-> CHOOSE i \in P : UpTo(P, i) = j]
<1>2. ASSUME NEW j \in 1 .. Cardinality(P) PROVE place[j] \in P /\ UpTo(P, place[j]) = j
  BY UpToReaches
<1>3. ItemsAt(list, P) = Listing(list, place, Cardinality(P))
  BY DEF ItemsAt, UpTo, Listing
<1>4. place \in [1 .. Cardinality(P) -> P]
  BY <1>2
<1> HIDE DEF place
<1>5. \A j, l \in 1 .. Cardinality(P) : place[j] = place[l] => j = l
  BY <1>2
<1>6. ASSUME NEW i \in P PROVE \E j \in 1 .. Cardinality(P) : place[j] = i
  <2>1. i \in Nat /\ UpTo(P, i) \in Nat
    <3>1. i \in Nat
      OBVIOUS
    <3> QED BY <3>1, UpToTyped
  <2>2. UpTo(P, i) \in 1 .. Cardinality(P)
    <3>1. P \cap 1 .. i \in SUBSET P
      OBVIOUS
    <3>2. UpTo(P, i) <= Cardinality(P)
      BY <1>1, <3>1, FS_Subset DEF UpTo
    <3>3. UpTo(P, 0) < UpTo(P, i) /\ UpTo(P, 0) \in Nat
      <4>1. 0 < i
        OBVIOUS
      <4> QED BY <2>1, <4>1, UpToRises, UpToTyped
    <3> QED BY <2>1, <3>2, <3>3
  <2>3. place[UpTo(P, i)] \in P /\ UpTo(P, place[UpTo(P, i)]) = UpTo(P, i)
    BY <1>2, <2>2
  <2>4. PICK l \in P : l = place[UpTo(P, i)]
    BY <2>3
  <2>5. UpTo(P, l) = UpTo(P, i) /\ l \in Nat
    BY <2>3, <2>4
  <2>6. ~(l < i) /\ ~(i < l)
    <3>1. l < i => UpTo(P, l) < UpTo(P, i)
      BY <2>5, <2>1, UpToRises
    <3>2. i < l => UpTo(P, i) < UpTo(P, l)
      BY <2>5, <2>1, UpToRises
    <3> QED BY <2>1, <2>5, <3>1, <3>2
  <2>7. l = i
    BY <2>1, <2>5, <2>6
  <2> QED BY <2>2, <2>4, <2>7
<1>7. place \in Bijection(1 .. Cardinality(P), P)
  BY <1>4, <1>5, <1>6 DEF Bijection, Injection, Surjection, IsInjective
<1> QED BY <1>1, <1>3, <1>7

-----------------------------------------------------------------------------
LEMMA FunctionIsSequence ==
  ASSUME NEW S, NEW m \in Nat, NEW s \in [1 .. m -> S]
  PROVE  s \in Seq(S) /\ Len(s) = m
OBVIOUS

\* The mode is an item of the list, and none is counted more often when it is
\* reached.
LEMMA ModeIsItem ==
  ASSUME NEW S, NEW s \in Seq(S), Len(s) >= 1
  PROVE  \E f \in 1 .. Len(s) :
           /\ aggregateMode(s) = s[f]
           /\ \A i \in 1 .. Len(s) : Reached(s, i) <= Reached(s, f)
<1>1. PICK m \in Nat : m = Len(s)
  OBVIOUS
<1> DEFINE IsFirst(x) == \A i \in 1 .. m :
             /\ Reached(s, i) <= Reached(s, x)
             /\ Reached(s, i) = Reached(s, x) => x <= i
           first == CHOOSE x \in 1 .. m : IsFirst(x)
<1>2. \A i \in 1 .. m : Reached(s, i) \in 0 .. m
  <2> TAKE i \in 1 .. m
  <2>1. Occurrences(s, s[i], i) \in Nat /\ Occurrences(s, s[i], i) <= i
    BY OccurrencesBound
  <2> QED BY <2>1 DEF Reached
<1>3. \E x \in 1 .. m : IsFirst(x)
  <2> DEFINE R == {Reached(s, i) : i \in 1 .. m}
  <2>1. R \subseteq 0 .. m /\ R # {}
    BY <1>1, <1>2
  <2>2. PICK r \in R : \A j \in R : j <= r
    BY <2>1, GreatestOf
  <2> DEFINE T == {i \in 1 .. m : Reached(s, i) = r}
  <2>3. T \subseteq Nat /\ T # {}
    OBVIOUS
  <2>4. PICK x \in T : \A j \in T : x <= j
    BY <2>3, LeastOf
  <2>5. x \in 1 .. m /\ Reached(s, x) = r
    OBVIOUS
  <2>6. \A i \in 1 .. m : Reached(s, i) <= r
    BY <2>2
  <2>7. \A i \in 1 .. m : Reached(s, i) = r => x <= i
    BY <2>4
  <2> QED BY <2>5, <2>6, <2>7
<1>4. first \in 1 .. m /\ IsFirst(first)
  <2> HIDE DEF IsFirst
  <2> QED BY <1>3
<1>5. aggregateMode(s) = s[first]
  BY <1>1 DEF aggregateMode, Reached
<1> QED BY <1>1, <1>4, <1>5

\* What more than half of the items are, the mode is.
LEMMA ModeOfMajority ==
  ASSUME NEW S, NEW s \in Seq(S), NEW G, G \subseteq 1 .. Len(s),
         2 * Cardinality(G) > Len(s), NEW v, \A i \in G : s[i] = v
  PROVE  aggregateMode(s) = v
<1>1. PICK m \in Nat : m = Len(s)
  OBVIOUS
<1> DEFINE P == Places(s, v, m)
<1>2. IsFiniteSet(P) /\ Cardinality(P) \in Nat /\ Cardinality(P) = Occurrences(s, v, m)
  BY OccurrencesBound DEF Occurrences, Places
<1>3. 2 * Cardinality(P) > m
  <2>1. G \in SUBSET P
    BY <1>1 DEF Places
  <2>2. Cardinality(G) <= Cardinality(P) /\ IsFiniteSet(G)
    BY <1>2, <2>1, FS_Subset
  <2>3. Cardinality(G) \in Nat
    BY <2>2, FS_CardinalityType
  <2> QED BY <1>1, <1>2, <2>2, <2>3
<1>4. m >= 1
  BY <1>2, <1>3, OccurrencesBound
<1>5. PICK f \in 1 .. m :
        aggregateMode(s) = s[f] /\ \A i \in 1 .. m : Reached(s, i) <= Reached(s, f)
  BY <1>1, <1>4, ModeIsItem
<1>6. PICK l \in P : UpTo(P, l) = Cardinality(P)
  <2>1. P \subseteq 1 .. m /\ Cardinality(P) \in 1 .. Cardinality(P)
    BY <1>2, <1>3 DEF Places
  <2> QED BY <2>1, UpToReaches
<1>7. l \in 1 .. m /\ Reached(s, l) = Cardinality(P)
  <2>1. l \in 1 .. m /\ s[l] = v
    BY DEF Places
  <2>2. {i \in 1 .. l : s[i] = v} = P \cap 1 .. l
    BY <2>1 DEF Places
  <2> QED BY <1>6, <2>1, <2>2 DEF Reached, Occurrences, UpTo
<1>8. Reached(s, f) <= Occurrences(s, s[f], m)
  <2>1. Places(s, s[f], f) \in SUBSET Places(s, s[f], m)
    BY DEF Places
  <2>2. IsFiniteSet(Places(s, s[f], m))
    BY OccurrencesBound
  <2> QED BY <2>1, <2>2, FS_Subset DEF Reached, Occurrences, Places
<1>9. s[f] # v => Occurrences(s, s[f], m) + Occurrences(s, v, m) <= m
  BY OccurrencesDisjoint
<1>10. Occurrences(s, s[f], m) \in Nat
  BY OccurrencesBound
<1>11. s[f] = v
  <2> SUFFICES ASSUME s[f] # v PROVE FALSE
    OBVIOUS
  <2>1. Cardinality(P) <= Reached(s, f)
    BY <1>5, <1>7
  <2>2. Reached(s, f) \in Nat
    BY OccurrencesBound DEF Reached
  <2> QED BY <1>2, <1>3, <1>8, <1>9, <1>10, <2>1, <2>2
<1> QED BY <1>5, <1>11

-----------------------------------------------------------------------------
\* Where the items up to a number are, and those below it.
NotAbove(s, v) == {i \in 1 .. Len(s) : s[i] <= v}
Below(s, v) == {i \in 1 .. Len(s) : s[i] < v}

LEMMA PlacesCounted ==
  ASSUME NEW S, NEW s \in Seq(S), NEW P, P \subseteq 1 .. Len(s)
  PROVE  IsFiniteSet(P) /\ Cardinality(P) \in 0 .. Len(s)
<1>1. Len(s) \in Nat /\ P \in SUBSET (1 .. Len(s))
  OBVIOUS
<1>2. PICK m \in Nat : m = Len(s)
  BY <1>1
<1>3. IsFiniteSet(1 .. m) /\ Cardinality(1 .. m) = m
  BY IntervalSize
<1>4. IsFiniteSet(P) /\ Cardinality(P) <= m
  BY <1>1, <1>2, <1>3, FS_Subset
<1> QED BY <1>2, <1>4, FS_CardinalityType

\* Two sets of places that do not meet share them.
LEMMA PlacesShared ==
  ASSUME NEW S, NEW s \in Seq(S), NEW P, P \subseteq 1 .. Len(s),
         NEW G, G \subseteq 1 .. Len(s), P \cap G = {}
  PROVE  Cardinality(P) + Cardinality(G) <= Len(s)
<1>1. /\ IsFiniteSet(P) /\ Cardinality(P) \in 0 .. Len(s)
      /\ IsFiniteSet(G) /\ Cardinality(G) \in 0 .. Len(s)
  BY PlacesCounted
<1>2. IsFiniteSet(P \cup G) /\ Cardinality(P \cup G) \in 0 .. Len(s)
  BY PlacesCounted
<1>3. Cardinality(P \cup G) = Cardinality(P) + Cardinality(G) - Cardinality(P \cap G)
  BY <1>1, FS_Union
<1>4. Cardinality(P \cap G) = 0
  BY FS_EmptySet
<1> QED BY <1>1, <1>2, <1>3, <1>4

\* The median exists: a place with at most the middle number of items below its
\* own and more than that not above.
LEMMA MedianExists ==
  ASSUME NEW s \in Seq(Int), NEW h \in Nat, h < Len(s)
  PROVE  \E i \in 1 .. Len(s) :
           Cardinality(Below(s, s[i])) <= h /\ h < Cardinality(NotAbove(s, s[i]))
<1>1. PICK m \in Nat : m = Len(s)
  OBVIOUS
<1> DEFINE up(i) == Cardinality(NotAbove(s, s[i]))
<1>2. \A i \in 1 .. m : s[i] \in Int
  BY <1>1
<1>3. \A i \in 1 .. m : up(i) \in 0 .. m /\ IsFiniteSet(NotAbove(s, s[i]))
  BY <1>1, PlacesCounted DEF NotAbove
\* A set of places with a largest item.
<1>4. ASSUME NEW B, B \subseteq 1 .. m, B # {}
      PROVE  \E j \in B : Cardinality(B) <= up(j)
  <2> DEFINE U == {up(j) : j \in B}
  <2>1. U \subseteq 0 .. m /\ U # {}
    BY <1>3, <1>4
  <2>2. PICK u \in U : \A w \in U : w <= u
    BY <2>1, GreatestOf
  <2>3. PICK j \in B : u = up(j)
    OBVIOUS
  <2>4. ASSUME NEW l \in B PROVE s[l] <= s[j]
    <3> SUFFICES ASSUME s[j] < s[l] PROVE FALSE
      BY <1>2, <1>4
    <3>1. l \in 1 .. m /\ j \in 1 .. m /\ s[j] \in Int /\ s[l] \in Int
      BY <1>2, <1>4
    <3>2. NotAbove(s, s[j]) \in SUBSET NotAbove(s, s[l])
      BY <1>1, <1>2, <3>1 DEF NotAbove
    <3>3. l \in NotAbove(s, s[l]) /\ l \notin NotAbove(s, s[j])
      BY <1>1, <3>1 DEF NotAbove
    <3>4. up(j) <= up(l) /\ up(j) # up(l)
      BY <1>3, <3>1, <3>2, <3>3, FS_Subset
    <3>5. up(l) <= up(j)
      BY <2>2, <2>3
    <3>6. up(j) \in Nat /\ up(l) \in Nat
      BY <1>3, <3>1
    <3> QED BY <3>4, <3>5, <3>6
  <2>5. B \in SUBSET NotAbove(s, s[j])
    BY <1>1, <1>4, <2>4 DEF NotAbove
  <2>6. j \in 1 .. m
    BY <1>4
  <2> QED BY <1>3, <2>5, <2>6, FS_Subset
<1>5. PICK j \in 1 .. m : m <= up(j)
  <2>1. 1 .. m # {} /\ Cardinality(1 .. m) = m
    BY <1>1, IntervalSize
  <2> QED BY <1>4, <2>1
<1> DEFINE T == {up(i) : i \in {l \in 1 .. m : h < up(l)}}
<1>6. T \subseteq Nat /\ T # {}
  <2>1. j \in {l \in 1 .. m : h < up(l)}
    BY <1>1, <1>3, <1>5
  <2> QED BY <1>3, <2>1
<1>7. PICK t \in T : \A w \in T : t <= w
  BY <1>6, LeastOf
<1>8. PICK i \in {l \in 1 .. m : h < up(l)} : t = up(i)
  OBVIOUS
<1>9. i \in 1 .. m /\ h < up(i) /\ up(i) \in Nat
  BY <1>3
<1>10. Cardinality(Below(s, s[i])) <= h
  <2> SUFFICES ASSUME ~(Cardinality(Below(s, s[i])) <= h) PROVE FALSE
    OBVIOUS
  <2>1. Below(s, s[i]) \subseteq 1 .. m
    BY <1>1 DEF Below
  <2>2. Cardinality(Below(s, s[i])) \in Nat
    BY <1>1, <2>1, PlacesCounted
  <2>3. Below(s, s[i]) # {}
    <3>1. Cardinality(Below(s, s[i])) # 0
      BY <2>2
    <3> QED BY <3>1, FS_EmptySet
  <2>4. PICK l \in Below(s, s[i]) : Cardinality(Below(s, s[i])) <= up(l)
    BY <1>4, <2>1, <2>3
  <2>5. l \in 1 .. m /\ s[l] < s[i] /\ s[l] \in Int /\ s[i] \in Int
    BY <1>2, <1>9, <2>1 DEF Below
  <2>6. up(l) \in Nat /\ h < up(l)
    BY <1>3, <2>2, <2>4, <2>5
  <2>7. up(i) <= up(l)
    BY <1>7, <1>8, <2>5, <2>6
  <2>8. NotAbove(s, s[l]) \in SUBSET NotAbove(s, s[i])
    BY <1>1, <1>2, <2>5 DEF NotAbove
  <2>9. i \in NotAbove(s, s[i]) /\ i \notin NotAbove(s, s[l])
    BY <1>1, <1>9, <2>5 DEF NotAbove
  <2>10. up(l) <= up(i) /\ up(l) # up(i)
    BY <1>3, <1>9, <2>8, <2>9, FS_Subset
  <2> QED BY <1>9, <2>6, <2>7, <2>10
<1> QED BY <1>1, <1>9, <1>10

\* The median is not above all items of a majority, nor below all of them.
LEMMA MedianOfMajority ==
  ASSUME NEW s \in Seq(Int), NEW G, G \subseteq 1 .. Len(s),
         2 * Cardinality(G) > Len(s)
  PROVE  /\ aggregateMedian(s) \in Int
         /\ \E p, q \in G : s[p] <= aggregateMedian(s) /\ aggregateMedian(s) <= s[q]
<1>1. PICK m \in Nat : m = Len(s)
  OBVIOUS
<1>2. IsFiniteSet(G) /\ Cardinality(G) \in 0 .. m
  BY <1>1, PlacesCounted
<1>3. m >= 1
  BY <1>1, <1>2
<1>4. PICK h \in Nat : h = (m - 1) \div 2
  BY <1>3
<1>5. h < m /\ 2 * h <= m - 1 /\ m <= 2 * h + 2
  BY <1>3, <1>4
<1> DEFINE IsMedian(i) == Cardinality(Below(s, s[i])) <= h /\ h < Cardinality(NotAbove(s, s[i]))
           k1 == CHOOSE i \in 1 .. m : IsMedian(i)
<1>6. \E i \in 1 .. m : IsMedian(i)
  BY <1>1, <1>5, MedianExists
<1>7. k1 \in 1 .. m /\ IsMedian(k1)
  <2> HIDE DEF IsMedian
  <2> QED BY <1>6
<1>8. aggregateMedian(s) = s[k1]
  BY <1>1, <1>4 DEF aggregateMedian, Below, NotAbove
<1>9. PICK w : w = s[k1]
  OBVIOUS
<1>10. w \in Int /\ Cardinality(Below(s, w)) <= h /\ h < Cardinality(NotAbove(s, w))
  BY <1>1, <1>7, <1>9
<1>11. \A i \in G : s[i] \in Int
  BY <1>1
<1>12. \E p \in G : s[p] <= w
  <2> SUFFICES ASSUME \A p \in G : ~(s[p] <= w) PROVE FALSE
    OBVIOUS
  <2>1. NotAbove(s, w) \cap G = {} /\ NotAbove(s, w) \subseteq 1 .. Len(s)
    BY DEF NotAbove
  <2>2. Cardinality(NotAbove(s, w)) + Cardinality(G) <= m
    BY <1>1, <2>1, PlacesShared
  <2>3. Cardinality(NotAbove(s, w)) \in Nat
    BY <1>1, <2>1, PlacesCounted
  <2> QED BY <1>1, <1>2, <1>5, <1>10, <2>2, <2>3
<1>13. \E q \in G : w <= s[q]
  <2> SUFFICES ASSUME \A q \in G : ~(w <= s[q]) PROVE FALSE
    OBVIOUS
  <2>1. G \in SUBSET Below(s, w) /\ Below(s, w) \subseteq 1 .. Len(s)
    BY <1>10, <1>11 DEF Below
  <2>2. IsFiniteSet(Below(s, w)) /\ Cardinality(Below(s, w)) \in Nat
    BY <1>1, <2>1, PlacesCounted
  <2>3. Cardinality(G) <= Cardinality(Below(s, w))
    BY <2>1, <2>2, FS_Subset
  <2> QED BY <1>1, <1>2, <1>5, <1>10, <2>2, <2>3
<1> QED BY <1>8, <1>9, <1>10, <1>12, <1>13

-----------------------------------------------------------------------------
\* What a list of observations consists of.
Coordinators == {CoordinatorContract[id] : id \in Ids} \cup {p.coordinator : p \in Forgeries}

Item == [id : Ids, failed : BOOLEAN, value : Int,
         gas : 0 .. MaxUint32, coordinator : Coordinators]

\* More than half of the first c items of s are items of L at places in G.
MostFrom(s, c, L, G) ==
  \E H : /\ H \subseteq 1 .. c /\ 2 * Cardinality(H) > c
        /\ \A j \in H : \E i \in G : s[j] = L[i]

\* The items at some places, of which more than half are in G.
LEMMA MajorityOfPart ==
  ASSUME NEW L \in Seq(Item), NEW P, P \subseteq 1 .. Len(L), NEW G, G \subseteq P,
         2 * Cardinality(G) > Cardinality(P)
  PROVE  /\ ItemsAt(L, P) \in Seq(Item) /\ Len(ItemsAt(L, P)) = Cardinality(P)
         /\ MostFrom(ItemsAt(L, P), Cardinality(P), L, G)
<1>1. PICK m \in Nat : m = Len(L)
  OBVIOUS
<1>2. IsFiniteSet(P) /\ Cardinality(P) \in Nat
  BY <1>1, ItemsAtPlaces
<1>3. PICK c \in Nat : c = Cardinality(P)
  BY <1>2
<1>4. PICK place \in Bijection(1 .. c, P) : ItemsAt(L, P) = [j \in 1 .. c |-> L[place[j]]]
  <2>1. P \subseteq 1 .. m
    BY <1>1
  <2>2. \E place \in Bijection(1 .. Cardinality(P), P) :
          ItemsAt(L, P) = Listing(L, place, Cardinality(P))
    BY <2>1, ItemsAtPlaces
  <2> QED BY <1>3, <2>2 DEF Listing
<1>5. /\ place \in [1 .. c -> P] /\ \A i, j \in 1 .. c : place[i] = place[j] => i = j
      /\ \A i \in P : \E j \in 1 .. c : place[j] = i
  BY <1>4 DEF Bijection, Injection, Surjection, IsInjective
<1>6. ItemsAt(L, P) \in [1 .. c -> Item]
  <2>1. \A j \in 1 .. c : place[j] \in 1 .. m
    BY <1>1, <1>5
  <2>2. \A i \in 1 .. m : L[i] \in Item
    BY <1>1
  <2>3. \A j \in 1 .. c : L[place[j]] \in Item
    BY <2>1, <2>2
  <2> QED BY <1>4, <2>3
<1>7. ItemsAt(L, P) \in Seq(Item) /\ Len(ItemsAt(L, P)) = c
  BY <1>6, FunctionIsSequence
<1> DEFINE H == {j \in 1 .. c : place[j] \in G}
           image == [j \in H |-> place[j]]
<1>8. image \in Bijection(H, G)
  <2>1. image \in [H -> G] /\ \A i, j \in H : image[i] = image[j] => i = j
    BY <1>5
  <2>2. ASSUME NEW i \in G PROVE \E j \in H : image[j] = i
    <3>1. PICK j \in 1 .. c : place[j] = i
      BY <1>5
    <3> QED BY <3>1
  <2> HIDE DEF image, H
  <2> QED BY <2>1, <2>2 DEF Bijection, Injection, Surjection, IsInjective
<1>9. IsFiniteSet(H) /\ Cardinality(G) = Cardinality(H)
  <2>1. H \in SUBSET (1 .. c) /\ IsFiniteSet(1 .. c)
    BY IntervalSize
  <2>2. IsFiniteSet(H)
    BY <2>1, FS_Subset
  <2>3. ExistsBijection(H, G)
    BY <1>8 DEF ExistsBijection
  <2> QED BY <2>2, <2>3, FS_Bijection
<1>10. \A j \in H : \E i \in G : ItemsAt(L, P)[j] = L[i]
  BY <1>4
<1>11. H \subseteq 1 .. Cardinality(P) /\ 2 * Cardinality(H) > Cardinality(P)
  BY <1>3, <1>9
<1> HIDE DEF H
<1> QED BY <1>3, <1>7, <1>10, <1>11 DEF MostFrom

\* One field of a list of observations.
LEMMA FieldsAreSequences ==
  ASSUME NEW s \in Seq(Item)
  PROVE  /\ FieldOf(s, "value") \in Seq(Int) /\ Len(FieldOf(s, "value")) = Len(s)
         /\ FieldOf(s, "gas") \in Seq(0 .. MaxUint32) /\ Len(FieldOf(s, "gas")) = Len(s)
         /\ FieldOf(s, "coordinator") \in Seq(Coordinators)
         /\ Len(FieldOf(s, "coordinator")) = Len(s)
         /\ \A i \in 1 .. Len(s) :
              /\ FieldOf(s, "value")[i] = s[i].value
              /\ FieldOf(s, "gas")[i] = s[i].gas
              /\ FieldOf(s, "coordinator")[i] = s[i].coordinator
<1>1. PICK m \in Nat : m = Len(s)
  OBVIOUS
<1>2. \A i \in 1 .. m : s[i] \in Item
  BY <1>1
<1>3. \A i \in 1 .. m : s[i].value \in Int /\ s[i].gas \in 0 .. MaxUint32
                         /\ s[i].coordinator \in Coordinators
  BY <1>2 DEF Item
<1>4. FieldOf(s, "value") = [i \in 1 .. m |-> s[i].value]
  BY <1>1 DEF FieldOf
<1>5. FieldOf(s, "gas") = [i \in 1 .. m |-> s[i].gas]
  BY <1>1 DEF FieldOf
<1>6. FieldOf(s, "coordinator") = [i \in 1 .. m |-> s[i].coordinator]
  BY <1>1 DEF FieldOf
<1>7. FieldOf(s, "value") \in Seq(Int) /\ Len(FieldOf(s, "value")) = m
  BY <1>3, <1>4, FunctionIsSequence
<1>8. FieldOf(s, "gas") \in Seq(0 .. MaxUint32) /\ Len(FieldOf(s, "gas")) = m
  <2>1. PICK S : S = 0 .. MaxUint32
    OBVIOUS
  <2>2. FieldOf(s, "gas") \in [1 .. m -> S]
    BY <1>3, <1>5, <2>1
  <2> QED BY <2>1, <2>2, FunctionIsSequence
<1>9. FieldOf(s, "coordinator") \in Seq(Coordinators) /\ Len(FieldOf(s, "coordinator")) = m
  BY <1>3, <1>6, FunctionIsSequence
<1> QED BY <1>1, <1>4, <1>5, <1>6, <1>7, <1>8, <1>9

\* When more than half of the observers report alike whether they failed, so
\* does the aggregate.
LEMMA MajorityDecides ==
  ASSUME NEW L \in Seq(Item), NEW G, G \subseteq 1 .. Len(L),
         2 * Cardinality(G) > Len(L), NEW f \in BOOLEAN, \A i \in G : L[i].failed = f
  PROVE  /\ ResultIsError(L) <=> f
         /\ G \subseteq PlacesOf(f, L) /\ PlacesOf(f, L) \subseteq 1 .. Len(L)
         /\ 2 * Cardinality(G) > Cardinality(PlacesOf(f, L))
<1>1. /\ PlacesOf(TRUE, L) \subseteq 1 .. Len(L) /\ PlacesOf(FALSE, L) \subseteq 1 .. Len(L)
      /\ G \subseteq PlacesOf(f, L)
      /\ PlacesOf(TRUE, L) \cap PlacesOf(FALSE, L) = {}
  BY DEF PlacesOf
<1>2. /\ Cardinality(PlacesOf(TRUE, L)) \in 0 .. Len(L) /\ IsFiniteSet(PlacesOf(TRUE, L))
      /\ Cardinality(PlacesOf(FALSE, L)) \in 0 .. Len(L) /\ IsFiniteSet(PlacesOf(FALSE, L))
      /\ Cardinality(G) \in 0 .. Len(L)
  BY <1>1, PlacesCounted
<1>3. Cardinality(PlacesOf(TRUE, L)) + Cardinality(PlacesOf(FALSE, L)) <= Len(L)
  BY <1>1, PlacesShared
<1>4. Cardinality(G) <= Cardinality(PlacesOf(f, L))
  BY <1>1, <1>2, FS_Subset
<1>5. Len(L) \in Nat
  OBVIOUS
<1>6. PICK e, r, g, n1 : /\ e = Cardinality(PlacesOf(TRUE, L))
                         /\ r = Cardinality(PlacesOf(FALSE, L))
                         /\ g = Cardinality(G) /\ n1 = Len(L)
  OBVIOUS
<1>7. e \in Nat /\ r \in Nat /\ g \in Nat /\ n1 \in Nat /\ e + r <= n1 /\ 2 * g > n1
  <2>1. n1 \in Nat /\ 2 * g > n1
    BY <1>5, <1>6
  <2>2. e \in 0 .. n1 /\ r \in 0 .. n1 /\ g \in 0 .. n1
    BY <1>2, <1>6
  <2>3. e + r <= n1
    BY <1>3, <1>6
  <2>4. e \in Nat /\ r \in Nat /\ g \in Nat
    BY <2>1, <2>2
  <2> QED BY <2>1, <2>3, <2>4
<1>8. CASE f = TRUE
  <2>1. g <= e
    BY <1>4, <1>6, <1>8
  <2>2. e > r /\ 2 * g > e
    BY <1>7, <2>1
  <2>3. ResultIsError(L)
    BY <1>6, <2>2 DEF ResultIsError
  <2> QED BY <1>1, <1>6, <1>8, <2>2, <2>3
<1>9. CASE f = FALSE
  <2>1. g <= r
    BY <1>4, <1>6, <1>9
  <2>2. ~(e > r) /\ 2 * g > r
    BY <1>7, <2>1
  <2>3. ~ResultIsError(L)
    BY <1>6, <2>2 DEF ResultIsError
  <2> QED BY <1>1, <1>6, <1>9, <2>2, <2>3
<1> QED BY <1>8, <1>9
-----------------------------------------------------------------------------
\* The observations of one request.
ListOK(list, id) == list \in Seq(Item) /\ \A i \in 1 .. Len(list) : list[i].id = id

RoundInv ==
  /\ query \in Seq(Ids)
  /\ observed \subseteq Observers
  /\ DOMAIN reqIdToObservationList = Ids
  /\ \A id \in Ids : ListOK(reqIdToObservationList[id], id)

\* The observations of a list are of different speakers that were heard, and
\* those of honest ones have the metadata of the request.
SpokenBy(list, speaker, id, heard) ==
  /\ speaker \in [1 .. Len(list) -> heard]
  /\ \A i, j \in 1 .. Len(list) : speaker[i] = speaker[j] => i = j
  /\ \A i \in 1 .. Len(list) :
       speaker[i] \notin Faulty => /\ list[i].gas = CallbackGasLimit[id]
                                   /\ list[i].coordinator = CoordinatorContract[id]

\* What an observation of o may say of the requests it names.
Said(o, p) ==
  /\ p = [id |-> p.id, failed |-> p.failed, value |-> p.value,
          gas |-> p.gas, coordinator |-> p.coordinator]
  /\ p.failed \in BOOLEAN /\ p.value \in Int
  /\ p.gas \in 0 .. MaxUint32 /\ p.coordinator \in Coordinators
  /\ o \notin Faulty => /\ p.gas = CallbackGasLimit[p.id]
                        /\ p.coordinator = CoordinatorContract[p.id]

LEMMA LeastPlace ==
  ASSUME NEW S, S \subseteq Nat, S # {}
  PROVE  Min(S) \in S
<1>1. \E i \in S : \A j \in S : i <= j
  BY LeastOf
<1> QED BY <1>1 DEF Min

\* An item at the end of a list.
LEMMA LongerList ==
  ASSUME NEW list \in Seq(Item), NEW p \in Item
  PROVE  /\ Append(list, p) \in Seq(Item) /\ Len(list) \in Nat
         /\ Len(Append(list, p)) = Len(list) + 1
         /\ Append(list, p)[Len(list) + 1] = p
         /\ \A i \in 1 .. Len(list) : Append(list, p)[i] = list[i]
OBVIOUS

\* What an observation adds to the list of a request: nothing, or one item.
Takes(list, longer, processed, m, id) ==
  \/ longer = list
  \/ \E i \in 1 .. m : processed[i].id = id /\ longer = Append(list, processed[i])

\* Considering an observation keeps the lists in order.
LEMMA ConsiderTakes ==
  ASSUME RoundInv, NEW o \in Observers, NEW processed, NEW m \in Nat, Len(processed) = m,
         \A i \in 1 .. m : Said(o, processed[i]),
         Consider(o, processed)
  PROVE  /\ RoundInv'
         /\ o \notin observed /\ observed' = observed \cup {o}
         /\ \A id \in Ids : Takes(reqIdToObservationList[id], reqIdToObservationList'[id],
                                  processed, m, id)
<1>1. /\ o \notin observed /\ observed' = observed \cup {o} /\ query' = query
      /\ reqIdToObservationList' = consider(processed)
  BY DEF Consider
<1>2. DOMAIN consider(processed) = Ids
  BY DEF consider
<1>3. ASSUME NEW id \in Ids
      PROVE  /\ ListOK(consider(processed)[id], id)
             /\ Takes(reqIdToObservationList[id], consider(processed)[id], processed, m, id)
  <2> DEFINE about == {i \in 1 .. m : processed[i].id = id}
  <2>1. PICK list : list = reqIdToObservationList[id] /\ ListOK(list, id)
    BY DEF RoundInv
  <2>2. consider(processed)[id] =
          IF id \in ToSet(query) /\ about # {} THEN Append(list, processed[Min(about)]) ELSE list
    BY <2>1 DEF consider
  <2>3. CASE id \in ToSet(query) /\ about # {}
    <3>1. about \subseteq Nat
      OBVIOUS
    <3>2. Min(about) \in about
      BY <2>3, <3>1, LeastPlace
    <3>3. PICK i \in 1 .. m : i = Min(about) /\ processed[i].id = id
      BY <3>2
    <3>4. PICK p : p = processed[i]
      OBVIOUS
    <3>5. p \in Item
      BY <3>3, <3>4 DEF Said, Item
    <3> HIDE DEF about
    <3>6. consider(processed)[id] = Append(list, p)
      BY <2>2, <2>3, <3>3, <3>4
    <3>7. list \in Seq(Item) /\ \A j \in 1 .. Len(list) : list[j].id = id
      BY <2>1 DEF ListOK
    <3>8. /\ Append(list, p) \in Seq(Item) /\ Len(list) \in Nat
          /\ Len(Append(list, p)) = Len(list) + 1
          /\ Append(list, p)[Len(list) + 1] = p
          /\ \A j \in 1 .. Len(list) : Append(list, p)[j] = list[j]
      BY <3>5, <3>7, LongerList
    <3>9. p.id = id
      BY <3>3, <3>4
    <3>10. \A j \in 1 .. Len(Append(list, p)) : Append(list, p)[j].id = id
      BY <3>7, <3>8, <3>9
    <3> QED BY <2>1, <3>3, <3>4, <3>6, <3>8, <3>10 DEF ListOK, Takes
  <2>4. CASE ~(id \in ToSet(query) /\ about # {})
    <3> HIDE DEF about
    <3> QED BY <2>1, <2>2, <2>4 DEF Takes
  <2> QED BY <2>3, <2>4
<1> QED BY <1>1, <1>2, <1>3 DEF RoundInv

\* The speakers of a list after the step that considers o's observation.
NextSpeaker(list, longer, speaker, o) ==
  [i \in 1 .. Len(longer) |-> IF i <= Len(list) THEN speaker[i] ELSE o]

LEMMA SpeakersGrow ==
  ASSUME NEW id \in Ids, NEW list, ListOK(list, id), NEW speaker, NEW heard,
         SpokenBy(list, speaker, id, heard), NEW o, o \notin heard,
         NEW processed, NEW m \in Nat, \A i \in 1 .. m : Said(o, processed[i]),
         NEW longer, Takes(list, longer, processed, m, id)
  PROVE  SpokenBy(longer, NextSpeaker(list, longer, speaker, o), id, heard \cup {o})
<1>1. PICK l \in Nat : l = Len(list)
  BY DEF ListOK
<1>2. PICK next : next = NextSpeaker(list, longer, speaker, o)
  OBVIOUS
<1>3. CASE longer = list
  <2>1. next = [i \in 1 .. l |-> speaker[i]]
    BY <1>1, <1>2, <1>3 DEF NextSpeaker
  <2> QED BY <1>1, <1>2, <1>3, <2>1 DEF SpokenBy
<1>4. CASE longer # list
  <2>1. PICK k0 \in 1 .. m : processed[k0].id = id /\ longer = Append(list, processed[k0])
    BY <1>4 DEF Takes
  <2>2. PICK p : p = processed[k0]
    OBVIOUS
  <2>3. p \in Item
    <3>1. Said(o, p) /\ p.id \in Ids
      BY <2>1, <2>2
    <3>2. p = [id |-> p.id, failed |-> p.failed, value |-> p.value, gas |-> p.gas,
              coordinator |-> p.coordinator]
      BY <3>1 DEF Said
    <3>3. /\ p.failed \in BOOLEAN /\ p.value \in Int
          /\ p.gas \in 0 .. MaxUint32 /\ p.coordinator \in Coordinators
      BY <3>1 DEF Said
    <3>4. [id |-> p.id, failed |-> p.failed, value |-> p.value, gas |-> p.gas,
          coordinator |-> p.coordinator] \in Item
      BY <3>1, <3>3 DEF Item
    <3> QED BY <3>2, <3>4
  <2>4. /\ Len(longer) = l + 1 /\ longer[l + 1] = p
        /\ \A i \in 1 .. l : longer[i] = list[i]
    BY <1>1, <2>1, <2>2, <2>3, LongerList DEF ListOK
  <2>5. o \notin Faulty => /\ p.gas = CallbackGasLimit[id]
                           /\ p.coordinator = CoordinatorContract[id]
    BY <2>1, <2>2 DEF Said
  <2>6. next = [i \in 1 .. l + 1 |-> IF i <= l THEN speaker[i] ELSE o]
    BY <1>1, <1>2, <2>4 DEF NextSpeaker
  <2>7. next[l + 1] = o /\ \A i \in 1 .. l : next[i] = speaker[i]
    BY <2>6
  <2>8. \A i \in 1 .. l + 1 : i \in 1 .. l \/ i = l + 1
    OBVIOUS
  <2>9. \A i \in 1 .. l : speaker[i] \in heard /\ speaker[i] # o
    BY <1>1 DEF SpokenBy
  <2>10. next \in [1 .. l + 1 -> heard \cup {o}]
    BY <2>6, <2>9
  <2>11. \A i, j \in 1 .. l + 1 : next[i] = next[j] => i = j
    <3> SUFFICES ASSUME NEW i \in 1 .. l + 1, NEW j \in 1 .. l + 1, next[i] = next[j]
                 PROVE  i = j
      OBVIOUS
    <3>1. CASE i \in 1 .. l /\ j \in 1 .. l
      BY <1>1, <2>7, <3>1 DEF SpokenBy
    <3>2. CASE i = l + 1 /\ j = l + 1
      BY <3>2
    <3>3. CASE i \in 1 .. l /\ j = l + 1
      BY <2>7, <2>9, <3>3
    <3>4. CASE i = l + 1 /\ j \in 1 .. l
      BY <2>7, <2>9, <3>4
    <3> QED BY <2>8, <3>1, <3>2, <3>3, <3>4
  <2>12. ASSUME NEW i \in 1 .. l + 1, next[i] \notin Faulty
         PROVE  /\ longer[i].gas = CallbackGasLimit[id]
                /\ longer[i].coordinator = CoordinatorContract[id]
    <3>1. CASE i \in 1 .. l
      BY <1>1, <2>4, <2>7, <2>12, <3>1 DEF SpokenBy
    <3>2. CASE i = l + 1
      BY <2>4, <2>5, <2>7, <2>12, <3>2
    <3> QED BY <2>8, <3>1, <3>2
  <2> QED BY <1>2, <2>4, <2>10, <2>11, <2>12 DEF SpokenBy
<1> QED BY <1>3, <1>4

\* What an observation of an outcome says of it.
Observes(p, outcome) ==
  /\ p.id \in DOMAIN outcome
  /\ p.failed = outcome[p.id].failed /\ p.value = outcome[p.id].value

\* What a node observes says what it computed.
LEMMA HonestSays ==
  ASSUME RoundInv, NEW o, NEW outcome, DOMAIN outcome \subseteq Ids,
         \A id \in DOMAIN outcome : outcome[id] \in [failed : BOOLEAN, value : Int]
  PROVE  \E m \in Nat :
           /\ Len(Observation(outcome)) = m
           /\ \A i \in 1 .. m : /\ Said(o, Observation(outcome)[i])
                                /\ Observes(Observation(outcome)[i], outcome)
<1> DEFINE P == {i \in firstPlaces : query[i] \in DOMAIN outcome}
           ready == ItemsAt(query, P)
<1>1. PICK l \in Nat : l = Len(query)
  BY DEF RoundInv
<1>2. P \subseteq 1 .. l
  BY <1>1 DEF firstPlaces
<1>3. Cardinality(P) \in Nat
  <2> HIDE DEF P
  <2> QED BY <1>2, ItemsAtPlaces
<1>4. PICK m \in Nat : m = Cardinality(P)
  BY <1>3
<1>5. PICK place \in Bijection(1 .. m, P) : ready = Listing(query, place, m)
  <2> HIDE DEF P
  <2>1. \E place \in Bijection(1 .. Cardinality(P), P) :
          ItemsAt(query, P) = Listing(query, place, Cardinality(P))
    BY <1>2, ItemsAtPlaces
  <2> QED BY <1>4, <2>1
<1>6. place \in [1 .. m -> P]
  BY <1>5 DEF Bijection, Injection
<1>7. Len(ready) = m /\ \A i \in 1 .. m : ready[i] \in DOMAIN outcome
  <2>1. ready = [j \in 1 .. m |-> query[place[j]]]
    BY <1>5 DEF Listing
  <2>2. Len(ready) = m
    <3> HIDE DEF ready
    <3> QED BY <2>1
  <2>3. ASSUME NEW i \in 1 .. m PROVE ready[i] \in DOMAIN outcome
    <3>1. ready[i] = query[place[i]] /\ place[i] \in P
      <4> HIDE DEF ready, P
      <4> QED BY <1>6, <2>1
    <3> HIDE DEF ready
    <3> QED BY <3>1
  <2> QED BY <2>2, <2>3
<1> HIDE DEF ready
<1>8. Observation(outcome) =
        [i \in 1 .. Len(ready) |->
           [id |-> ready[i],
            failed |-> outcome[ready[i]].failed, value |-> outcome[ready[i]].value,
            gas |-> CallbackGasLimit[ready[i]],
            coordinator |-> CoordinatorContract[ready[i]]]]
  BY DEF Observation, ready
<1>9. PICK obs : obs = Observation(outcome)
  OBVIOUS
<1>10. Len(obs) = m
  BY <1>7, <1>8, <1>9
<1>11. ASSUME NEW i \in 1 .. m
       PROVE  Said(o, obs[i]) /\ Observes(obs[i], outcome)
  <2>1. PICK id : id = ready[i]
    OBVIOUS
  <2>2. id \in DOMAIN outcome /\ id \in Ids
    BY <1>7, <2>1
  <2>3. outcome[id].failed \in BOOLEAN /\ outcome[id].value \in Int
    BY <2>2
  <2>4. CallbackGasLimit[id] \in 0 .. MaxUint32
    BY <2>2, ReportAssumption
  <2>5. CoordinatorContract[id] \in Coordinators
    BY <2>2 DEF Coordinators
  <2>6. obs[i] = [id |-> id,
                  failed |-> outcome[id].failed, value |-> outcome[id].value,
                  gas |-> CallbackGasLimit[id], coordinator |-> CoordinatorContract[id]]
    BY <1>7, <1>8, <1>9, <2>1
  <2> QED BY <2>2, <2>3, <2>4, <2>5, <2>6 DEF Said, Observes
<1> QED BY <1>9, <1>10, <1>11

\* A faulty observer says nothing that is not an item.
LEMMA FaultySays ==
  ASSUME NEW o \in Faulty, NEW p \in Forgeries,
         p = [id |-> p.id, failed |-> p.failed, value |-> p.value,
              gas |-> p.gas, coordinator |-> p.coordinator]
  PROVE  Said(o, p)
<1>1. p.failed \in BOOLEAN /\ p.value \in Int /\ p.gas \in 0 .. MaxUint32
  BY ReportAssumption
<1>2. p.coordinator \in Coordinators
  BY DEF Coordinators
<1> QED BY <1>1, <1>2 DEF Said

-----------------------------------------------------------------------------
\* Where a list has honest observations.
HonestPlaces(list, speaker) == {i \in 1 .. Len(list) : speaker[i] \notin Faulty}

LEMMA FaultyFew ==
  /\ IsFiniteSet(Faulty) /\ Cardinality(Faulty) \in Nat /\ Cardinality(Faulty) <= F
  /\ F \in Nat
<1>1. IsFiniteSet(Faulty)
  BY ReportAssumption, FS_Subset
<1> QED BY <1>1, ReportAssumption, FS_CardinalityType

\* Of 2F+1 observers all but F are honest: more than F, and more than half.
LEMMA HonestMajority ==
  ASSUME NEW list \in Seq(Item), NEW speaker, NEW id, NEW heard,
         SpokenBy(list, speaker, id, heard), CanAggregate(N, F, list),
         NEW H, H = HonestPlaces(list, speaker)
  PROVE  /\ H \subseteq 1 .. Len(list) /\ IsFiniteSet(H) /\ Cardinality(H) \in Nat
         /\ Cardinality(H) >= F + 1 /\ 2 * Cardinality(H) > Len(list)
<1> DEFINE B == {i \in 1 .. Len(list) : speaker[i] \in Faulty}
<1>1. B \subseteq 1 .. Len(list) /\ H \subseteq 1 .. Len(list)
  BY DEF HonestPlaces
<1>2. /\ IsFiniteSet(B) /\ Cardinality(B) \in 0 .. Len(list)
      /\ IsFiniteSet(H) /\ Cardinality(H) \in 0 .. Len(list)
  <2> HIDE DEF B
  <2> QED BY <1>1, PlacesCounted
<1>3. Cardinality(B) <= F
  <2> DEFINE liar == [i \in B |-> speaker[i]]
  <2>1. liar \in [B -> Faulty]
    OBVIOUS
  <2>2. \A i, j \in B : liar[i] = liar[j] => i = j
    BY DEF SpokenBy
  <2>3. liar \in Injection(B, Faulty)
    <3> HIDE DEF liar, B
    <3> QED BY <2>1, <2>2 DEF Injection, IsInjective
  <2>4. Cardinality(B) <= Cardinality(Faulty)
    <3> HIDE DEF liar, B
    <3> QED BY <2>3, FaultyFew, FS_Injection
  <2> QED BY <1>2, <2>4, FaultyFew
<1>4. PICK m \in Nat : m = Len(list)
  OBVIOUS
<1>5. Cardinality(H) + Cardinality(B) = m
  <2>1. H \cup B = 1 .. m /\ H \cap B = {}
    BY <1>4 DEF HonestPlaces
  <2>2. Cardinality(H \cup B) = Cardinality(H) + Cardinality(B) - Cardinality(H \cap B)
    <3> HIDE DEF B
    <3> QED BY <1>2, FS_Union
  <2>3. Cardinality(H \cap B) = 0 /\ Cardinality(H \cup B) = m
    <3> HIDE DEF B
    <3> QED BY <2>1, FS_EmptySet, IntervalSize
  <2> HIDE DEF B
  <2> QED BY <1>2, <1>4, <2>2, <2>3
<1>6. m >= 2 * F + 1
  BY <1>4 DEF CanAggregate
<1> HIDE DEF B
<1>7. Cardinality(H) \in Nat /\ Cardinality(H) >= F + 1 /\ 2 * Cardinality(H) > m
  <2>1. PICK h \in Nat, b \in Nat : h = Cardinality(H) /\ b = Cardinality(B)
    BY <1>2, <1>4
  <2>2. h + b = m /\ b <= F /\ F \in Nat
    BY <1>3, <1>5, <2>1, FaultyFew
  <2>3. h >= F + 1 /\ 2 * h > m
    BY <1>4, <1>6, <2>1, <2>2
  <2> QED BY <2>1, <2>3
<1> QED BY <1>1, <1>2, <1>4, <1>7

\* The aggregate a of L says what the places G have in common, and a median
\* lies between two of theirs.
Follows(a, method, L, G, f) ==
  /\ a.failed = f
  /\ \A v : (\A i \in G : L[i].value = v) => a.value = v
  /\ \A v : (\A i \in G : L[i].gas = v) => a.gas = v
  /\ \A v : (\A i \in G : L[i].coordinator = v) => a.coordinator = v
  /\ f \/ method = "MODE" \/
       \E i, j \in G : L[i].value <= a.value /\ a.value <= L[j].value

\* The aggregate follows more than half of the observations, if they agree on
\* whether they failed.
LEMMA AggregateOfMajority ==
  ASSUME NEW method, NEW L \in Seq(Item), NEW G, G \subseteq 1 .. Len(L),
         2 * Cardinality(G) > Len(L), NEW f \in BOOLEAN, \A i \in G : L[i].failed = f
  PROVE  Follows(Aggregate(method, L), method, L, G, f)
<1>1. /\ ResultIsError(L) <=> f
      /\ G \subseteq PlacesOf(f, L) /\ PlacesOf(f, L) \subseteq 1 .. Len(L)
      /\ 2 * Cardinality(G) > Cardinality(PlacesOf(f, L))
  BY MajorityDecides
<1>2. ResultIsError(L) = f
  <2>1. ResultIsError(L) \in BOOLEAN
    BY DEF ResultIsError
  <2> QED BY <1>1, <2>1, Zenon
<1>3. PICK P : P = PlacesOf(f, L)
  OBVIOUS
<1>4. PICK s : s = ItemsAt(L, P)
  OBVIOUS
<1>5. /\ s \in Seq(Item) /\ Len(s) = Cardinality(P)
      /\ MostFrom(s, Cardinality(P), L, G)
  <2>1. P \subseteq 1 .. Len(L) /\ G \subseteq P /\ 2 * Cardinality(G) > Cardinality(P)
    BY <1>1, <1>3
  <2>2. /\ ItemsAt(L, P) \in Seq(Item) /\ Len(ItemsAt(L, P)) = Cardinality(P)
        /\ MostFrom(ItemsAt(L, P), Cardinality(P), L, G)
    BY <2>1, MajorityOfPart
  <2> QED BY <1>4, <2>2
<1>6. PICK H : /\ H \subseteq 1 .. Len(s) /\ 2 * Cardinality(H) > Len(s)
               /\ \A j \in H : \E i \in G : s[j] = L[i]
  BY <1>5 DEF MostFrom
<1>7. /\ FieldOf(s, "value") \in Seq(Int) /\ Len(FieldOf(s, "value")) = Len(s)
      /\ FieldOf(s, "gas") \in Seq(0 .. MaxUint32) /\ Len(FieldOf(s, "gas")) = Len(s)
      /\ FieldOf(s, "coordinator") \in Seq(Coordinators)
      /\ Len(FieldOf(s, "coordinator")) = Len(s)
      /\ \A i \in 1 .. Len(s) :
           /\ FieldOf(s, "value")[i] = s[i].value
           /\ FieldOf(s, "gas")[i] = s[i].gas
           /\ FieldOf(s, "coordinator")[i] = s[i].coordinator
  BY <1>5, FieldsAreSequences
<1>8. PICK a : a = Aggregate(method, L)
  OBVIOUS
<1>9. /\ a.failed = f
      /\ a.value = IF f \/ method = "MODE" THEN aggregateMode(FieldOf(s, "value"))
                                           ELSE aggregateMedian(FieldOf(s, "value"))
      /\ a.gas = aggregateMode(FieldOf(s, "gas"))
      /\ a.coordinator = aggregateMode(FieldOf(s, "coordinator"))
  BY <1>2, <1>3, <1>4, <1>8 DEF Aggregate
<1>10. PICK values : values = FieldOf(s, "value")
  OBVIOUS
<1>11. ASSUME NEW v, \A i \in G : L[i].value = v PROVE aggregateMode(values) = v
  <2>1. \A j \in H : values[j] = v
    BY <1>6, <1>7, <1>10, <1>11
  <2>2. values \in Seq(Int) /\ H \subseteq 1 .. Len(values) /\ 2 * Cardinality(H) > Len(values)
    BY <1>6, <1>7, <1>10
  <2> QED BY <2>1, <2>2, ModeOfMajority
<1>12. \E i, j \in G : /\ L[i].value <= aggregateMedian(values)
                       /\ aggregateMedian(values) <= L[j].value
  <2>1. values \in Seq(Int) /\ H \subseteq 1 .. Len(values) /\ 2 * Cardinality(H) > Len(values)
    BY <1>6, <1>7, <1>10
  <2>2. PICK p \in H, q \in H : values[p] <= aggregateMedian(values)
                                 /\ aggregateMedian(values) <= values[q]
    BY <2>1, MedianOfMajority
  <2>3. PICK i \in G : s[p] = L[i]
    BY <1>6
  <2>4. PICK j \in G : s[q] = L[j]
    BY <1>6
  <2>5. values[p] = L[i].value /\ values[q] = L[j].value
    BY <1>6, <1>7, <1>10, <2>3, <2>4
  <2> QED BY <2>2, <2>5
<1>13. ASSUME NEW v, \A i \in G : L[i].value = v PROVE aggregateMedian(values) = v
  <2>1. values \in Seq(Int) /\ H \subseteq 1 .. Len(values) /\ 2 * Cardinality(H) > Len(values)
    BY <1>6, <1>7, <1>10
  <2>2. aggregateMedian(values) \in Int
    BY <2>1, MedianOfMajority
  <2>3. PICK w \in Int : w = aggregateMedian(values)
    BY <2>2
  <2>4. PICK i \in G, j \in G : L[i].value <= w /\ w <= L[j].value
    BY <1>12, <2>3
  <2>5. L[i] \in Item
    OBVIOUS
  <2>6. v \in Int
    BY <1>13, <2>5 DEF Item
  <2>7. v <= w /\ w <= v
    BY <1>13, <2>4
  <2> QED BY <2>3, <2>6, <2>7
<1>14. ASSUME NEW v, \A i \in G : L[i].gas = v PROVE a.gas = v
  <2>1. PICK g, S : g = FieldOf(s, "gas") /\ S = 0 .. MaxUint32
    OBVIOUS
  <2>2. \A j \in H : g[j] = v
    BY <1>6, <1>7, <1>14, <2>1
  <2>3. g \in Seq(S) /\ H \subseteq 1 .. Len(g) /\ 2 * Cardinality(H) > Len(g)
    BY <1>6, <1>7, <2>1
  <2>4. aggregateMode(g) = v
    BY <2>2, <2>3, ModeOfMajority
  <2> QED BY <1>9, <2>1, <2>4
<1>15. ASSUME NEW v, \A i \in G : L[i].coordinator = v PROVE a.coordinator = v
  <2>1. PICK g : g = FieldOf(s, "coordinator")
    OBVIOUS
  <2>2. \A j \in H : g[j] = v
    BY <1>6, <1>7, <1>15, <2>1
  <2>3. g \in Seq(Coordinators) /\ H \subseteq 1 .. Len(g) /\ 2 * Cardinality(H) > Len(g)
    BY <1>6, <1>7, <2>1
  <2>4. aggregateMode(g) = v
    BY <2>2, <2>3, ModeOfMajority
  <2> QED BY <1>9, <2>1, <2>4
<1>16. \A v : (\A i \in G : L[i].value = v) => a.value = v
  BY <1>9, <1>10, <1>11, <1>13
<1>17. f \/ method = "MODE" \/
         \E i, j \in G : L[i].value <= a.value /\ a.value <= L[j].value
  BY <1>9, <1>10, <1>12
<1>18. a.failed = f
  BY <1>9
<1>19. Follows(a, method, L, G, f)
  BY <1>14, <1>15, <1>16, <1>17, <1>18 DEF Follows
<1> QED BY <1>8, <1>19
-----------------------------------------------------------------------------
\* One more entry adds itself to the total of a list of bounded numbers.
LEMMA TotalGrows ==
  ASSUME NEW m \in Nat, NEW B \in Nat,
         NEW f \in [1 .. m -> 0 .. B], NEW g \in [1 .. m + 1 -> 0 .. B],
         \A i \in 1 .. m : g[i] = f[i]
  PROVE  /\ Total(f) \in Nat
         /\ Total(g) = Total(f) + g[m + 1]
<1>1. IsFiniteSet(1 .. m) /\ IsFiniteSet(1 .. B)
  BY IntervalSize
<1>2. PICK I, J : I = 1 .. m /\ J = 1 .. B
  OBVIOUS
<1>3. IsFiniteSet(I \X J)
  BY <1>1, <1>2, FS_Product, Zenon
<1>4. Coins(f) \subseteq I \X J
  BY <1>2 DEF Coins, CoinsOf
<1>5. IsFiniteSet(Coins(f)) /\ Cardinality(Coins(f)) \in Nat
  BY <1>3, <1>4, FS_Subset, FS_CardinalityType, Zenon
<1>6. PICK a, b : a = m + 1 /\ b = g[m + 1]
  OBVIOUS
<1>7. b \in Nat /\ a \in 1 .. m + 1 /\ a \notin 1 .. m
  BY <1>6
<1>8. IsFiniteSet(CoinsOf(g, a)) /\ Cardinality(CoinsOf(g, a)) = b
  <2>1. CoinsOf(g, a) = {a} \X (1 .. b)
    BY <1>6 DEF CoinsOf
  <2>2. PICK S, T : S = {a} /\ T = 1 .. b
    OBVIOUS
  <2>3. IsFiniteSet(S) /\ Cardinality(S) = 1
    BY <2>2, FS_Singleton
  <2>4. IsFiniteSet(T) /\ Cardinality(T) = b
    BY <1>7, <2>2, IntervalSize
  <2>5. IsFiniteSet(S \X T) /\ Cardinality(S \X T) = Cardinality(S) * Cardinality(T)
    BY <2>3, <2>4, FS_Product, Zenon
  <2> QED BY <1>7, <2>1, <2>2, <2>3, <2>4, <2>5
<1>9. Coins(g) = Coins(f) \cup CoinsOf(g, a)
  <2>1. \A i \in 1 .. m : CoinsOf(g, i) = CoinsOf(f, i)
    BY DEF CoinsOf
  <2>2. 1 .. m + 1 = (1 .. m) \cup {a}
    BY <1>6
  <2>3. Coins(f) = UNION {CoinsOf(f, i) : i \in 1 .. m}
    BY DEF Coins
  <2>4. Coins(g) = UNION {CoinsOf(g, i) : i \in (1 .. m) \cup {a}}
    BY <2>2 DEF Coins
  <2> QED BY <2>1, <2>3, <2>4
<1>10. Coins(f) \cap CoinsOf(g, a) = {}
  BY <1>7 DEF Coins, CoinsOf
<1>11. Cardinality(Coins(g)) = Cardinality(Coins(f)) + b
  <2>1. Cardinality(Coins(f) \cup CoinsOf(g, a)) =
          Cardinality(Coins(f)) + Cardinality(CoinsOf(g, a)) - Cardinality(Coins(f) \cap CoinsOf(g, a))
    BY <1>5, <1>8, FS_Union
  <2>2. Cardinality(Coins(f) \cap CoinsOf(g, a)) = 0
    BY <1>10, FS_EmptySet
  <2> QED BY <1>5, <1>7, <1>8, <1>9, <2>1, <2>2
<1> QED BY <1>5, <1>6, <1>11 DEF Total

\* The ids of the query, each once.
LEMMA IdsOnce ==
  ASSUME RoundInv
  PROVE  /\ uniqueQueryIds \in Seq(Ids)
         /\ \A i, j \in 1 .. Len(uniqueQueryIds) :
              uniqueQueryIds[i] = uniqueQueryIds[j] => i = j
<1>1. PICK l \in Nat : l = Len(query)
  BY DEF RoundInv
<1>2. firstPlaces \subseteq 1 .. l
  BY <1>1 DEF firstPlaces
<1>3. /\ Cardinality(firstPlaces) \in Nat
      /\ \E place \in Bijection(1 .. Cardinality(firstPlaces), firstPlaces) :
           ItemsAt(query, firstPlaces) = Listing(query, place, Cardinality(firstPlaces))
  BY <1>2, ItemsAtPlaces
<1>4. PICK m \in Nat : m = Cardinality(firstPlaces)
  BY <1>3
<1>5. PICK place \in Bijection(1 .. m, firstPlaces) :
        uniqueQueryIds = Listing(query, place, m)
  BY <1>3, <1>4 DEF uniqueQueryIds
<1>6. place \in [1 .. m -> firstPlaces] /\ \A i, j \in 1 .. m : place[i] = place[j] => i = j
  BY <1>5 DEF Bijection, Injection, IsInjective
<1>7. uniqueQueryIds = [j \in 1 .. m |-> query[place[j]]]
  BY <1>5 DEF Listing
<1>8. \A j \in 1 .. m : place[j] \in 1 .. l
  BY <1>2, <1>6
<1>9. \A j \in 1 .. m : query[place[j]] \in Ids
  BY <1>1, <1>8 DEF RoundInv
<1>10. uniqueQueryIds \in [1 .. m -> Ids]
  BY <1>7, <1>9
<1>11. uniqueQueryIds \in Seq(Ids) /\ Len(uniqueQueryIds) = m
  BY <1>10, FunctionIsSequence
<1>12. ASSUME NEW i \in 1 .. m, NEW j \in 1 .. m, uniqueQueryIds[i] = uniqueQueryIds[j]
       PROVE  i = j
  <2>1. query[place[i]] = query[place[j]]
    BY <1>7, <1>12
  <2>2. \A p, q \in firstPlaces : p < q => query[p] # query[q]
    BY <1>1 DEF firstPlaces
  <2>3. place[i] \in firstPlaces /\ place[j] \in firstPlaces
    BY <1>6
  <2>4. PICK p \in firstPlaces, q \in firstPlaces : p = place[i] /\ q = place[j]
    BY <2>3
  <2>5. ~(p < q) /\ ~(q < p)
    BY <2>1, <2>2, <2>4
  <2>6. p = q
    BY <1>2, <2>5
  <2> QED BY <1>6, <2>4, <2>6
<1> QED BY <1>11, <1>12

\* The gas of an aggregate is that of some observation, and its value is a number.
LEMMA AggregateTyped ==
  ASSUME NEW method, NEW L \in Seq(Item), Len(L) >= 1
  PROVE  /\ \E i \in 1 .. Len(L) : Aggregate(method, L).gas = L[i].gas
         /\ Aggregate(method, L).failed \in BOOLEAN
         /\ Aggregate(method, L).value \in Int
<1> DEFINE T == PlacesOf(TRUE, L)
           E == PlacesOf(FALSE, L)
<1>1. PICK m \in Nat : m = Len(L)
  OBVIOUS
<1>2. T \subseteq 1 .. m /\ E \subseteq 1 .. m /\ 1 .. m = T \cup E
  <2>1. \A i \in 1 .. m : L[i].failed \in BOOLEAN
    <3>1. \A i \in 1 .. m : L[i] \in Item
      BY <1>1
    <3> QED BY <3>1 DEF Item
  <2> QED BY <1>1, <2>1 DEF PlacesOf
<1>3. /\ IsFiniteSet(T) /\ Cardinality(T) \in Nat
      /\ IsFiniteSet(E) /\ Cardinality(E) \in Nat
  <2> HIDE DEF T, E
  <2>1. IsFiniteSet(T) /\ Cardinality(T) \in 0 .. m /\ IsFiniteSet(E) /\ Cardinality(E) \in 0 .. m
    BY <1>1, <1>2, PlacesCounted
  <2> QED BY <2>1
<1>4. PICK P : P = PlacesOf(ResultIsError(L), L)
  OBVIOUS
<1>5. P # {} /\ P \subseteq 1 .. m
  <2>1. ResultIsError(L) <=> Cardinality(T) > Cardinality(E)
    BY DEF ResultIsError
  <2>2. CASE ResultIsError(L)
    <3>1. ResultIsError(L) = TRUE
      BY <2>2, Zenon
    <3>2. P = T
      BY <1>4, <3>1
    <3> HIDE DEF T, E
    <3>3. Cardinality(T) # 0
      BY <1>3, <2>1, <2>2
    <3>4. T # {}
      BY <3>3, FS_EmptySet
    <3> QED BY <1>2, <3>2, <3>4
  <2>3. CASE ~ResultIsError(L)
    <3>1. ResultIsError(L) \in BOOLEAN
      BY DEF ResultIsError
    <3>2. ResultIsError(L) = FALSE
      BY <2>3, <3>1, Zenon
    <3>3. P = E
      BY <1>4, <3>2
    <3> HIDE DEF T, E
    <3>4. E # {}
      <4> SUFFICES ASSUME E = {} PROVE FALSE
        OBVIOUS
      <4>1. Cardinality(E) = 0
        BY FS_EmptySet
      <4>2. T # {}
        BY <1>1, <1>2
      <4>3. Cardinality(T) # 0
        BY <1>3, <4>2, FS_EmptySet
      <4> QED BY <1>3, <2>1, <2>3, <4>1, <4>3
    <3> QED BY <1>2, <3>3, <3>4
  <2> QED BY <2>2, <2>3
<1> HIDE DEF T, E
<1>6. PICK c \in Nat : c = Cardinality(P)
  <2>1. Cardinality(P) \in 0 .. m
    BY <1>1, <1>5, PlacesCounted
  <2> QED BY <2>1
<1>7. PICK place \in Bijection(1 .. c, P) : ItemsAt(L, P) = Listing(L, place, c)
  <2>1. \E place \in Bijection(1 .. Cardinality(P), P) :
          ItemsAt(L, P) = Listing(L, place, Cardinality(P))
    BY <1>5, ItemsAtPlaces
  <2> QED BY <1>6, <2>1
<1>8. place \in [1 .. c -> P] /\ c >= 1
  <2>1. place \in [1 .. c -> P]
    BY <1>7 DEF Bijection, Injection
  <2>2. c # 0
    <3>1. IsFiniteSet(P)
      BY <1>1, <1>5, PlacesCounted
    <3> QED BY <1>5, <1>6, <3>1, FS_EmptySet
  <2> QED BY <1>6, <2>1, <2>2
<1>9. PICK s : s = ItemsAt(L, P)
  OBVIOUS
<1>10. s = [j \in 1 .. c |-> L[place[j]]]
  BY <1>7, <1>9 DEF Listing
<1>11. \A j \in 1 .. c : place[j] \in 1 .. m
  BY <1>5, <1>8
<1>12. \A i \in 1 .. m : L[i] \in Item
  BY <1>1
<1>13. s \in [1 .. c -> Item]
  BY <1>10, <1>11, <1>12
<1>14. s \in Seq(Item) /\ Len(s) = c
  BY <1>13, FunctionIsSequence
<1>15. PICK g, S : g = FieldOf(s, "gas") /\ S = 0 .. MaxUint32
  OBVIOUS
<1>16. g \in Seq(S) /\ Len(g) = c /\ \A j \in 1 .. c : g[j] = s[j].gas
  BY <1>14, <1>15, FieldsAreSequences
<1>17. PICK j \in 1 .. c : aggregateMode(g) = g[j]
  BY <1>8, <1>16, ModeIsItem
<1>18. Aggregate(method, L).gas = aggregateMode(g)
  BY <1>4, <1>9, <1>15 DEF Aggregate
<1>19. aggregateMode(g) = L[place[j]].gas /\ place[j] \in 1 .. Len(L)
  BY <1>1, <1>10, <1>11, <1>16, <1>17
<1>20. PICK values : values = FieldOf(s, "value")
  OBVIOUS
<1>21. aggregateMode(values) \in Int /\ aggregateMedian(values) \in Int
  <2>1. values \in Seq(Int) /\ Len(values) = c
    BY <1>14, <1>20, FieldsAreSequences
  <2>2. \E f \in 1 .. Len(values) : aggregateMode(values) = values[f]
    BY <1>8, <2>1, ModeIsItem
  <2>3. 1 .. c \subseteq 1 .. Len(values) /\ 2 * Cardinality(1 .. c) > Len(values)
    BY <1>8, <2>1, IntervalSize
  <2>4. aggregateMedian(values) \in Int
    BY <2>1, <2>3, MedianOfMajority
  <2> QED BY <2>1, <2>2, <2>4
<1>22. Aggregate(method, L).value \in {aggregateMode(values), aggregateMedian(values)}
  BY <1>4, <1>9, <1>20 DEF Aggregate
<1>23. Aggregate(method, L).failed \in BOOLEAN
  BY DEF Aggregate, ResultIsError
<1> HIDE DEF Aggregate
<1> QED BY <1>18, <1>19, <1>21, <1>22, <1>23

-----------------------------------------------------------------------------
AggregateOf(id) == Aggregate(DefaultAggregationMethod, reqIdToObservationList[id])

Aggregates == {AggregateOf(id) : id \in Ids}

IsReportOf(item, id) ==
  CanAggregate(N, F, reqIdToObservationList[id]) /\ item = AggregateOf(id)

GasFits ==
  \A id \in Ids : \A p \in ToSet(reqIdToObservationList[id]) :
    p.gas + MaxReportTotalCallbackGas <= MaxUint32

GasOf(list) == [i \in 1 .. Len(list) |-> list[i].gas]

\* The report R after so many passes: what it has is about requests passed.
PassOK(R, passes) ==
  /\ R = [items |-> R.items, gas |-> R.gas, coordinator |-> R.coordinator]
  /\ R.items \in Seq(Aggregates)
  /\ \A i \in 1 .. Len(R.items) :
       \E j \in 1 .. passes : IsReportOf(R.items[i], uniqueQueryIds[j])
  /\ \A i, j \in 1 .. Len(R.items) : R.items[i].id = R.items[j].id => i = j
  /\ \A i \in 1 .. Len(R.items) :
       R.items[i].coordinator = R.coordinator /\ R.coordinator # ZeroCoordinator
  /\ R.gas \in 0 .. MaxUint32
  /\ \A i \in 1 .. Len(R.items) : R.items[i].gas \in 0 .. MaxUint32
  /\ Total(GasOf(R.items)) \in Nat
  /\ GasFits => Total(GasOf(R.items)) <= R.gas /\ R.gas <= MaxReportTotalCallbackGas

\* What a report says of a request is the request's own, with an observed gas.
LEMMA ReportsItsRequest ==
  ASSUME RoundInv, NEW id \in Ids, NEW item, IsReportOf(item, id)
  PROVE  /\ item.id = id
         /\ item.gas \in 0 .. MaxUint32
         /\ GasFits => item.gas + MaxReportTotalCallbackGas <= MaxUint32
<1>1. PICK L : L = reqIdToObservationList[id]
  OBVIOUS
<1>2. ListOK(L, id) /\ CanAggregate(N, F, L)
        /\ item = Aggregate(DefaultAggregationMethod, L)
  BY <1>1 DEF RoundInv, IsReportOf, AggregateOf
<1>3. L \in Seq(Item) /\ Len(L) >= 1
  BY <1>2 DEF ListOK, CanAggregate
<1>4. item.id = L[1].id
  BY <1>2 DEF Aggregate
<1>5. L[1].id = id
  BY <1>2, <1>3 DEF ListOK
<1>6. PICK i \in 1 .. Len(L) : item.gas = L[i].gas
  BY <1>2, <1>3, AggregateTyped
<1>7. L[i] \in Item /\ L[i] \in ToSet(L)
  BY <1>3 DEF ToSet
<1>8. L[i].gas \in 0 .. MaxUint32
  BY <1>7 DEF Item
<1>9. GasFits => L[i].gas + MaxReportTotalCallbackGas <= MaxUint32
  BY <1>1, <1>7 DEF GasFits
<1> QED BY <1>4, <1>5, <1>6, <1>8, <1>9

LEMMA Uint32Range ==
  ASSUME NEW n1 \in Nat
  PROVE  /\ uint32(n1) \in 0 .. MaxUint32
         /\ n1 <= MaxUint32 => uint32(n1) = n1
<1>1. PICK m \in Nat : m = MaxUint32
  BY ReportAssumption
<1>2. n1 % (m + 1) \in 0 .. m /\ (n1 <= m => n1 % (m + 1) = n1)
  BY SMT
<1> QED BY <1>1, <1>2 DEF uint32

\* A pass that includes nothing.
LEMMA PassSkips ==
  ASSUME NEW R, NEW passes \in Nat, PassOK(R, passes), NEW g, g \in 0 .. MaxUint32,
         GasFits => R.gas <= g /\ g <= MaxReportTotalCallbackGas
  PROVE  PassOK([R EXCEPT !.gas = g], passes + 1)
<1>1. PICK is, co, h : R = [items |-> is, gas |-> h, coordinator |-> co]
  BY DEF PassOK
<1>2. PICK S : S = [R EXCEPT !.gas = g]
  OBVIOUS
<1>3. S = [items |-> is, gas |-> g, coordinator |-> co]
  BY <1>1, <1>2
<1>4. S.items = R.items /\ S.coordinator = R.coordinator /\ S.gas = g
  BY <1>1, <1>3
<1>5. S = [items |-> S.items, gas |-> S.gas, coordinator |-> S.coordinator]
  BY <1>3
<1>6. \A i \in 1 .. Len(R.items) :
        \E j \in 1 .. passes + 1 : IsReportOf(R.items[i], uniqueQueryIds[j])
  BY DEF PassOK
<1>7. GasFits => Total(GasOf(R.items)) <= g /\ g <= MaxReportTotalCallbackGas
  <2> SUFFICES ASSUME GasFits PROVE Total(GasOf(R.items)) <= g
    OBVIOUS
  <2>1. Total(GasOf(R.items)) <= R.gas /\ R.gas <= g /\ R.gas \in 0 .. MaxUint32
    BY DEF PassOK
  <2>2. Total(GasOf(R.items)) \in Nat
    BY DEF PassOK
  <2> QED BY <2>1, <2>2, ReportAssumption
<1> QED BY <1>2, <1>4, <1>5, <1>6, <1>7 DEF PassOK


\* A pass that includes the request: no other item is about it.
LEMMA PassIncludes ==
  ASSUME RoundInv, NEW R, NEW passes \in Nat, PassOK(R, passes), passes + 1 <= Len(uniqueQueryIds),
         NEW item, IsReportOf(item, uniqueQueryIds[passes + 1]),
         item.coordinator # ZeroCoordinator,
         R.coordinator \in {ZeroCoordinator, item.coordinator},
         NEW g, g \in 0 .. MaxUint32,
         GasFits => g = R.gas + item.gas /\ g <= MaxReportTotalCallbackGas,
         NEW Q, Q = [items |-> Append(R.items, item), gas |-> g,
                     coordinator |-> item.coordinator]
  PROVE  PassOK(Q, passes + 1)
<1>1. PICK q : q = uniqueQueryIds[passes + 1]
  OBVIOUS
<1>2. q \in Ids /\ IsReportOf(item, q)
  <2>1. uniqueQueryIds \in Seq(Ids)
    BY IdsOnce
  <2> QED BY <1>1, <2>1
<1>3. item \in Aggregates
  BY <1>2 DEF IsReportOf, Aggregates
<1>4. PICK old : old = R.items
  OBVIOUS
<1>5. old \in Seq(Aggregates)
  BY <1>4 DEF PassOK
<1>6. PICK m \in Nat : m = Len(old)
  BY <1>5
<1>7. PICK new : new = Append(old, item)
  OBVIOUS
<1>8. /\ new \in Seq(Aggregates) /\ Len(new) = m + 1 /\ new[m + 1] = item
      /\ \A i \in 1 .. m : new[i] = old[i]
  BY <1>3, <1>5, <1>6, <1>7
<1>9. Q.items = new /\ Q.gas = g /\ Q.coordinator = item.coordinator
  BY <1>4, <1>7
<1>10. Q = [items |-> Q.items, gas |-> Q.gas, coordinator |-> Q.coordinator]
  BY <1>9, <1>4, <1>7
<1>11. \A i \in 1 .. m + 1 : i \in 1 .. m \/ i = m + 1
  OBVIOUS
<1>12. ASSUME NEW i \in 1 .. m
       PROVE  /\ \E j \in 1 .. passes : IsReportOf(old[i], uniqueQueryIds[j])
              /\ old[i].coordinator = R.coordinator /\ R.coordinator # ZeroCoordinator
              /\ old[i].gas \in 0 .. MaxUint32
  BY <1>4, <1>6 DEF PassOK
<1>13. ASSUME NEW i \in 1 .. m + 1
       PROVE  /\ \E j \in 1 .. passes + 1 : IsReportOf(new[i], uniqueQueryIds[j])
              /\ new[i].coordinator = item.coordinator
              /\ new[i].gas \in 0 .. MaxUint32
  <2>1. CASE i \in 1 .. m
    <3>1. new[i] = old[i]
      BY <1>8, <2>1
    <3>2. PICK j \in 1 .. passes : IsReportOf(old[i], uniqueQueryIds[j])
      BY <1>12, <2>1
    <3>3. j \in 1 .. passes + 1
      OBVIOUS
    <3>4. old[i].coordinator = item.coordinator /\ old[i].gas \in 0 .. MaxUint32
      <4>1. old[i].coordinator = R.coordinator /\ R.coordinator # ZeroCoordinator
        BY <1>12, <2>1
      <4>2. old[i].gas \in 0 .. MaxUint32
        BY <1>12, <2>1
      <4> QED BY <4>1, <4>2
    <3> QED BY <3>1, <3>2, <3>3, <3>4
  <2>2. CASE i = m + 1
    <3>1. item.gas \in 0 .. MaxUint32
      BY <1>2, ReportsItsRequest
    <3>2. passes + 1 \in 1 .. passes + 1
      OBVIOUS
    <3> QED BY <1>8, <2>2, <3>1, <3>2
  <2> QED BY <1>11, <2>1, <2>2
<1>14. item.id = q
  BY <1>2, ReportsItsRequest
<1>15. ASSUME NEW i \in 1 .. m PROVE old[i].id # q
  <2>1. PICK j \in 1 .. passes : IsReportOf(old[i], uniqueQueryIds[j])
    BY <1>12
  <2>2. uniqueQueryIds \in Seq(Ids) /\ j \in 1 .. Len(uniqueQueryIds)
        /\ passes + 1 \in 1 .. Len(uniqueQueryIds) /\ j # passes + 1
    BY IdsOnce
  <2>3. uniqueQueryIds[j] \in Ids /\ uniqueQueryIds[j] # q
    BY <1>1, <2>2, IdsOnce
  <2>4. old[i].id = uniqueQueryIds[j]
    BY <2>1, <2>3, ReportsItsRequest
  <2> QED BY <2>3, <2>4
<1>16. ASSUME NEW i \in 1 .. m + 1, NEW j \in 1 .. m + 1, new[i].id = new[j].id
       PROVE  i = j
  <2>1. CASE i \in 1 .. m /\ j \in 1 .. m
    BY <1>4, <1>6, <1>8, <1>16, <2>1 DEF PassOK
  <2>2. CASE i \in 1 .. m /\ j = m + 1
    BY <1>8, <1>14, <1>15, <1>16, <2>2
  <2>3. CASE i = m + 1 /\ j \in 1 .. m
    BY <1>8, <1>14, <1>15, <1>16, <2>3
  <2>4. CASE i = m + 1 /\ j = m + 1
    BY <2>4
  <2> QED BY <1>11, <2>1, <2>2, <2>3, <2>4
<1>17. Total(GasOf(new)) = Total(GasOf(old)) + item.gas /\ Total(GasOf(old)) \in Nat
  <2>1. PICK x, y : x = GasOf(old) /\ y = GasOf(new)
    OBVIOUS
  <2>2. x = [i \in 1 .. m |-> old[i].gas] /\ y = [i \in 1 .. m + 1 |-> new[i].gas]
    BY <1>6, <1>8, <2>1 DEF GasOf
  <2>3. \A i \in 1 .. m : x[i] = old[i].gas
    BY <2>2
  <2>4. \A i \in 1 .. m + 1 : y[i] = new[i].gas
    BY <2>2
  <2>5. \A i \in 1 .. m : y[i] = x[i]
    BY <1>8, <2>3, <2>4
  <2>6. \A i \in 1 .. m + 1 : y[i] \in 0 .. MaxUint32
    BY <1>13, <2>4
  <2>7. Total(x) \in Nat /\ Total(y) = Total(x) + y[m + 1]
    <3>1. PICK B \in Nat : B = MaxUint32
      BY ReportAssumption
    <3>2. y \in [1 .. m + 1 -> 0 .. B]
      BY <2>2, <2>6, <3>1
    <3>3. \A i \in 1 .. m : x[i] \in 0 .. B
      <4> TAKE i \in 1 .. m
      <4>1. i \in 1 .. m + 1
        OBVIOUS
      <4>2. y[i] \in 0 .. B
        BY <2>6, <3>1, <4>1
      <4> QED BY <2>5, <4>2
    <3>4. x \in [1 .. m -> 0 .. B]
      BY <2>2, <3>3
    <3> QED BY <2>5, <3>2, <3>4, TotalGrows
  <2>8. y[m + 1] = item.gas
    BY <1>8, <2>4
  <2> QED BY <2>1, <2>7, <2>8
<1>18. item.gas \in Nat
  BY <1>8, <1>13
<1>19. Total(GasOf(new)) \in Nat
  BY <1>17, <1>18
<1>20. GasFits => Total(GasOf(new)) <= g /\ g <= MaxReportTotalCallbackGas
  <2> SUFFICES ASSUME GasFits PROVE Total(GasOf(new)) <= g
    OBVIOUS
  <2>1. Total(GasOf(old)) <= R.gas /\ R.gas \in 0 .. MaxUint32
    BY <1>4 DEF PassOK
  <2>2. g = R.gas + item.gas
    OBVIOUS
  <2> QED BY <1>17, <1>18, <2>1, <2>2
<1>21. /\ Q.items \in Seq(Aggregates)
       /\ Q.gas \in 0 .. MaxUint32
       /\ Total(GasOf(Q.items)) \in Nat
       /\ GasFits => Total(GasOf(Q.items)) <= Q.gas /\ Q.gas <= MaxReportTotalCallbackGas
  BY <1>8, <1>9, <1>19, <1>20
<1>22. \A i \in 1 .. Len(Q.items) :
         \E j \in 1 .. passes + 1 : IsReportOf(Q.items[i], uniqueQueryIds[j])
  BY <1>8, <1>9, <1>13
<1>23. /\ \A i, j \in 1 .. Len(Q.items) : Q.items[i].id = Q.items[j].id => i = j
       /\ \A i \in 1 .. Len(Q.items) :
            Q.items[i].coordinator = Q.coordinator /\ Q.coordinator # ZeroCoordinator
       /\ \A i \in 1 .. Len(Q.items) : Q.items[i].gas \in 0 .. MaxUint32
  <2>1. Len(Q.items) = m + 1 /\ Q.items = new /\ Q.coordinator = item.coordinator
    BY <1>8, <1>9
  <2>2. \A i \in 1 .. m + 1 : new[i].coordinator = item.coordinator
                               /\ new[i].gas \in 0 .. MaxUint32
    BY <1>13
  <2>3. \A i, j \in 1 .. m + 1 : new[i].id = new[j].id => i = j
    BY <1>16
  <2> QED BY <2>1, <2>2, <2>3
<1> QED BY <1>10, <1>21, <1>22, <1>23 DEF PassOK

LEMMA PassKeeps ==
  ASSUME RoundInv, NEW R, NEW passes \in Nat, PassOK(R, passes), passes + 1 <= Len(uniqueQueryIds)
  PROVE  PassOK(Include(R, uniqueQueryIds[passes + 1]), passes + 1)
<1>1. PICK q \in Ids : q = uniqueQueryIds[passes + 1]
  BY IdsOnce
<1>2. PICK L : L = reqIdToObservationList[q]
  OBVIOUS
<1>3. PICK item : item = AggregateOf(q)
  OBVIOUS
<1>4. PICK is, co, h : R = [items |-> is, gas |-> h, coordinator |-> co]
  BY DEF PassOK
<1>5. PICK g : g = uint32(h + item.gas)
  OBVIOUS
<1>6. Include(R, q) =
        IF ~CanAggregate(N, F, L) \/ exceedsLimit(h, item.gas)
        THEN R
        ELSE IF ShouldIncludeCoordinator(item.coordinator, co)
        THEN [items |-> Append(is, item), gas |-> g, coordinator |-> item.coordinator]
        ELSE [items |-> is, gas |-> g, coordinator |-> co]
  <2>1. PICK charged : charged = [R EXCEPT !.gas = uint32(@ + item.gas)]
    OBVIOUS
  <2>2. charged = [items |-> is, gas |-> g, coordinator |-> co]
    BY <1>4, <1>5, <2>1
  <2>3. [charged EXCEPT !.coordinator = item.coordinator, !.items = Append(@, item)] =
          [items |-> Append(is, item), gas |-> g, coordinator |-> item.coordinator]
    <3>1. PICK x, y : x = item.coordinator /\ y = Append(is, item)
      OBVIOUS
    <3>2. charged.items = is
      BY <2>2
    <3>3. PICK d : d = [charged EXCEPT !.coordinator = x]
      OBVIOUS
    <3>4. d = [items |-> is, gas |-> g, coordinator |-> x]
      BY <2>2, <3>3
    <3>5. [d EXCEPT !.items = y] = [items |-> y, gas |-> g, coordinator |-> x]
      BY <3>4
    <3> QED BY <3>1, <3>2, <3>3, <3>5
  <2>4. Include(R, q) =
          IF ~CanAggregate(N, F, L) \/ exceedsLimit(R.gas, item.gas)
          THEN R
          ELSE IF ShouldIncludeCoordinator(item.coordinator, R.coordinator)
          THEN [charged EXCEPT !.coordinator = item.coordinator, !.items = Append(@, item)]
          ELSE charged
    BY <1>2, <1>3, <2>1 DEF Include, AggregateOf
  <2>5. R.gas = h /\ R.coordinator = co
    BY <1>4
  <2> QED BY <2>2, <2>3, <2>4, <2>5
<1>7. h \in 0 .. MaxUint32 /\ h = R.gas
  BY <1>4 DEF PassOK
<1>8. CASE ~CanAggregate(N, F, L) \/ exceedsLimit(h, item.gas)
  <2>1. R = [R EXCEPT !.gas = h]
    BY <1>4
  <2>2. GasFits => R.gas <= h /\ h <= MaxReportTotalCallbackGas
    BY <1>7 DEF PassOK
  <2>3. PassOK([R EXCEPT !.gas = h], passes + 1)
    BY <1>7, <2>2, PassSkips
  <2>4. Include(R, q) = R
    BY <1>6, <1>8
  <2> QED BY <1>1, <2>1, <2>3, <2>4
<1>9. CASE CanAggregate(N, F, L) /\ ~exceedsLimit(h, item.gas)
  <2>1. IsReportOf(item, q)
    BY <1>2, <1>3, <1>9 DEF IsReportOf
  <2>2. item.gas \in 0 .. MaxUint32 /\ MaxUint32 \in Nat /\ MaxReportTotalCallbackGas \in Nat
    BY <2>1, ReportsItsRequest, ReportAssumption
  <2>3. h + item.gas \in Nat
    BY <1>7, <2>2
  <2>4. g \in 0 .. MaxUint32 /\ (h + item.gas <= MaxUint32 => g = h + item.gas)
    BY <1>5, <2>3, Uint32Range
  <2>5. ~(g > MaxReportTotalCallbackGas)
    BY <1>5, <1>9 DEF exceedsLimit
  <2>6. GasFits => g = R.gas + item.gas /\ g <= MaxReportTotalCallbackGas /\ R.gas <= g
    <3> SUFFICES ASSUME GasFits
                 PROVE  g = R.gas + item.gas /\ g <= MaxReportTotalCallbackGas /\ R.gas <= g
      OBVIOUS
    <3>1. item.gas + MaxReportTotalCallbackGas <= MaxUint32
      BY <2>1, ReportsItsRequest
    <3>2. R.gas <= MaxReportTotalCallbackGas
      BY DEF PassOK
    <3> QED BY <1>7, <2>2, <2>4, <2>5, <3>1, <3>2
  <2>7. CASE ShouldIncludeCoordinator(item.coordinator, co)
    <3>1. Include(R, q) = [items |-> Append(R.items, item), gas |-> g,
                           coordinator |-> item.coordinator]
      BY <1>4, <1>6, <1>9, <2>7
    <3>2. item.coordinator # ZeroCoordinator /\ R.coordinator \in {ZeroCoordinator, item.coordinator}
      BY <1>4, <2>7 DEF ShouldIncludeCoordinator
    <3> QED BY <1>1, <2>1, <2>4, <2>6, <3>1, <3>2, PassIncludes
  <2>8. CASE ~ShouldIncludeCoordinator(item.coordinator, co)
    <3>1. Include(R, q) = [R EXCEPT !.gas = g]
      BY <1>4, <1>6, <1>9, <2>8
    <3>2. PassOK([R EXCEPT !.gas = g], passes + 1)
      BY <2>4, <2>6, PassSkips
    <3> QED BY <1>1, <3>1, <3>2
  <2> QED BY <2>7, <2>8
<1> QED BY <1>8, <1>9
-----------------------------------------------------------------------------
EmptyReport == [items |-> <<>>, gas |-> 0, coordinator |-> ZeroCoordinator]

\* f is the report after each of so many passes.
ArePasses(f, passes) ==
  f = [i \in 0 .. passes |-> IF i = 0 THEN EmptyReport
                                      ELSE Include(f[i - 1], uniqueQueryIds[i])]

\* There is one for each number of passes: each pass rests on the one before.
LEMMA PassesExist ==
  ASSUME NEW passes \in Nat
  PROVE  \E f : ArePasses(f, passes)
<1> DEFINE S == {i \in Nat : ~\E f : ArePasses(f, i)}
<1> SUFFICES ASSUME S # {} PROVE FALSE
  OBVIOUS
<1>1. PICK i \in S : \A j \in S : i <= j
  <2>1. S \subseteq Nat
    OBVIOUS
  <2> HIDE DEF S
  <2> QED BY <2>1, LeastOf
<1>2. i \in Nat /\ ~\E f : ArePasses(f, i)
  OBVIOUS
<1>3. CASE i = 0
  <2> DEFINE f == [j \in 0 .. 0 |-> EmptyReport]
  <2>1. f = [j \in 0 .. 0 |-> IF j = 0 THEN EmptyReport
                                       ELSE Include(f[j - 1], uniqueQueryIds[j])]
    OBVIOUS
  <2>2. ArePasses(f, 0)
    <3> HIDE DEF f
    <3> QED BY <2>1 DEF ArePasses
  <2> QED BY <1>2, <1>3, <2>2
<1>4. CASE i # 0
  <2>1. i - 1 \in Nat /\ i - 1 \notin S
    BY <1>1, <1>2, <1>4
  <2>2. PICK h : ArePasses(h, i - 1)
    BY <2>1
  <2> DEFINE step(g, j) == Include(g[j - 1], uniqueQueryIds[j])
             f == [j \in 0 .. i |-> IF j < i THEN h[j] ELSE step(h, i)]
  <2>3. h = [j \in 0 .. i - 1 |-> IF j = 0 THEN EmptyReport ELSE step(h, j)]
    BY <2>2 DEF ArePasses
  <2>4. ASSUME NEW j \in 0 .. i
        PROVE  f[j] = IF j = 0 THEN EmptyReport ELSE step(f, j)
    <3>1. j # 0 => j - 1 \in 0 .. i /\ j - 1 < i
      BY <1>2
    <3>2. j # 0 => f[j - 1] = h[j - 1]
      BY <3>1
    <3>3. j # 0 => step(f, j) = step(h, j)
      BY <3>2
    <3>4. CASE j < i
      <4>1. f[j] = h[j] /\ j \in 0 .. i - 1
        BY <1>2, <3>4
      <4> HIDE DEF step, f
      <4>2. h[j] = IF j = 0 THEN EmptyReport ELSE step(h, j)
        BY <2>3, <4>1
      <4> QED BY <3>3, <4>1, <4>2
    <3>5. CASE j = i
      <4>1. f[j] = step(h, j)
        BY <1>2, <3>5
      <4> HIDE DEF step, f
      <4> QED BY <1>4, <3>3, <3>5, <4>1
    <3> QED BY <1>2, <3>4, <3>5
  <2>5. f = [j \in 0 .. i |-> f[j]]
    OBVIOUS
  <2>6. f = [j \in 0 .. i |-> IF j = 0 THEN EmptyReport ELSE step(f, j)]
    <3> HIDE DEF f, step
    <3> QED BY <2>4, <2>5
  <2>7. ArePasses(f, i)
    <3> HIDE DEF f
    <3> QED BY <2>6 DEF ArePasses
  <2> QED BY <1>2, <2>7
<1> QED BY <1>3, <1>4

\* Every pass keeps the report in order.
LEMMA ReportOK ==
  ASSUME RoundInv
  PROVE  \E passes \in Nat : passes <= Len(uniqueQueryIds) /\ PassOK(Report, passes)
<1>1. PICK m \in Nat : m = Len(uniqueQueryIds)
  BY IdsOnce
<1>2. PICK f : f = reportAfter
  OBVIOUS
<1>3. ArePasses(f, m)
  <2>1. \E g : ArePasses(g, m)
    BY PassesExist
  <2>2. reportAfter = CHOOSE g : ArePasses(g, m)
    BY <1>1 DEF reportAfter, ArePasses, EmptyReport
  <2> QED BY <1>2, <2>1, <2>2
<1>4. \A i \in 0 .. m : f[i] = IF i = 0 THEN EmptyReport
                                        ELSE Include(f[i - 1], uniqueQueryIds[i])
  BY <1>3 DEF ArePasses
<1>5. PassOK(EmptyReport, 0)
  <2>1. PICK R : R = EmptyReport
    OBVIOUS
  <2>2. R.items = <<>> /\ R.gas = 0 /\ R.coordinator = ZeroCoordinator
        /\ R = [items |-> R.items, gas |-> R.gas, coordinator |-> R.coordinator]
    BY <2>1 DEF EmptyReport
  <2>3. Len(R.items) = 0 /\ R.items \in Seq(Aggregates)
    BY <2>2
  <2>4. Total(GasOf(R.items)) = 0
    <3>1. Coins(GasOf(R.items)) = {}
      BY <2>3 DEF Coins, GasOf
    <3> QED BY <3>1, FS_EmptySet DEF Total
  <2>5. 0 \in 0 .. MaxUint32 /\ 0 <= MaxReportTotalCallbackGas
    BY ReportAssumption
  <2> QED BY <2>1, <2>2, <2>3, <2>4, <2>5 DEF PassOK
<1>6. ASSUME NEW passes \in Nat, passes <= m PROVE PassOK(f[passes], passes)
  <2> DEFINE S == {i \in 0 .. m : ~PassOK(f[i], i)}
  <2> SUFFICES ASSUME S # {} PROVE FALSE
    BY <1>6
  <2>1. PICK i \in S : \A j \in S : i <= j
    <3>1. S \subseteq Nat
      OBVIOUS
    <3> HIDE DEF S
    <3> QED BY <3>1, LeastOf
  <2>2. i \in 0 .. m /\ ~PassOK(f[i], i)
    OBVIOUS
  <2>3. i # 0
    <3>1. 0 \in 0 .. m
      OBVIOUS
    <3> QED BY <1>4, <1>5, <2>2, <3>1
  <2>4. i - 1 \in 0 .. m /\ i - 1 \notin S
    BY <2>1, <2>2, <2>3
  <2>5. PICK l \in Nat : l = i - 1
    BY <2>4
  <2>6. PassOK(f[l], l) /\ l + 1 = i /\ l + 1 <= Len(uniqueQueryIds)
    BY <1>1, <2>2, <2>4, <2>5
  <2>7. PassOK(Include(f[l], uniqueQueryIds[l + 1]), l + 1)
    BY <2>6, PassKeeps
  <2>8. f[i] = Include(f[l], uniqueQueryIds[l + 1])
    BY <1>4, <2>2, <2>3, <2>5, <2>6
  <2> QED BY <2>2, <2>6, <2>7, <2>8
<1>7. Report = f[m]
  BY <1>1, <1>2 DEF Report
<1>8. PassOK(Report, m)
  BY <1>6, <1>7
<1> QED BY <1>1, <1>8

\* What is in the report is the aggregate of 2F+1 observations of its request.
LEMMA IncludedIsReported ==
  ASSUME RoundInv, NEW item \in Included
  PROVE  \E id \in Ids : IsReportOf(item, id) /\ item.id = id
<1>1. PICK passes \in Nat : passes <= Len(uniqueQueryIds) /\ PassOK(Report, passes)
  BY ReportOK
<1>2. PICK i \in DOMAIN Report.items : item = Report.items[i]
  BY DEF Included, ToSet
<1>3. i \in 1 .. Len(Report.items)
  BY <1>1 DEF PassOK
<1>4. PICK j \in 1 .. passes : IsReportOf(item, uniqueQueryIds[j])
  BY <1>1, <1>2, <1>3 DEF PassOK
<1>5. uniqueQueryIds[j] \in Ids
  <2>1. uniqueQueryIds \in Seq(Ids) /\ j \in 1 .. Len(uniqueQueryIds)
    BY <1>1, IdsOnce
  <2> QED BY <2>1
<1>6. item.id = uniqueQueryIds[j]
  BY <1>4, <1>5, ReportsItsRequest
<1> QED BY <1>4, <1>5, <1>6

\* The item aggregates L, whose places G are honest: a majority, with the
\* metadata of the request.
RestsOn(item, L, G) ==
  /\ L \in Seq(Item)
  /\ item = Aggregate(DefaultAggregationMethod, L)
  /\ G \subseteq 1 .. Len(L) /\ IsFiniteSet(G) /\ Cardinality(G) \in Nat
  /\ Cardinality(G) >= F + 1 /\ 2 * Cardinality(G) > Len(L)
  /\ \A i \in G : /\ L[i].gas = CallbackGasLimit[item.id]
                  /\ L[i].coordinator = CoordinatorContract[item.id]

LEMMA HonestReport ==
  ASSUME RoundInv, NEW item \in Included,
         NEW L, L = reqIdToObservationList[item.id],
         NEW speaker, SpokenBy(L, speaker, item.id, observed),
         NEW G, G = HonestPlaces(L, speaker)
  PROVE  item.id \in Ids /\ RestsOn(item, L, G)
<1>1. PICK id \in Ids : IsReportOf(item, id) /\ item.id = id
  BY IncludedIsReported
<1>2. CanAggregate(N, F, L) /\ item = Aggregate(DefaultAggregationMethod, L)
  BY <1>1 DEF IsReportOf, AggregateOf
<1>3. L \in Seq(Item)
  BY <1>1 DEF RoundInv, ListOK
<1>4. /\ G \subseteq 1 .. Len(L) /\ IsFiniteSet(G) /\ Cardinality(G) \in Nat
      /\ Cardinality(G) >= F + 1 /\ 2 * Cardinality(G) > Len(L)
  BY <1>2, <1>3, HonestMajority
<1>5. \A i \in G : /\ L[i].gas = CallbackGasLimit[item.id]
                   /\ L[i].coordinator = CoordinatorContract[item.id]
  BY <1>4 DEF SpokenBy, HonestPlaces
<1> QED BY <1>1, <1>2, <1>3, <1>4, <1>5 DEF RestsOn

\* What the honest places agree on is what the item says.
LEMMA HonestAgreement ==
  ASSUME NEW item, NEW L, NEW G, RestsOn(item, L, G), NEW f, NEW v,
         \A i \in G : L[i].failed = f /\ L[i].value = v
  PROVE  /\ item.failed = f /\ item.value = v
         /\ item.gas = CallbackGasLimit[item.id]
         /\ item.coordinator = CoordinatorContract[item.id]
<1>1. \E i \in G : TRUE
  <2>1. G # {}
    BY FS_EmptySet, FaultyFew DEF RestsOn
  <2> QED BY <2>1
<1>2. f \in BOOLEAN
  <2>1. PICK i \in G : i \in 1 .. Len(L) /\ L[i].failed = f
    BY <1>1 DEF RestsOn
  <2>2. L[i] \in Item
    BY <2>1 DEF RestsOn
  <2> QED BY <2>1, <2>2 DEF Item
<1>3. PICK g, c : g = CallbackGasLimit[item.id] /\ c = CoordinatorContract[item.id]
  OBVIOUS
<1>4. \A i \in G : L[i].gas = g /\ L[i].coordinator = c
  BY <1>3 DEF RestsOn
<1>5. PICK a, method : a = Aggregate(method, L) /\ method = DefaultAggregationMethod
  OBVIOUS
<1>6. /\ L \in Seq(Item) /\ G \subseteq 1 .. Len(L) /\ 2 * Cardinality(G) > Len(L)
  BY DEF RestsOn
<1>7. Follows(Aggregate(method, L), method, L, G, f)
  BY <1>2, <1>6, AggregateOfMajority
<1>8. /\ a.failed = f
      /\ \A w : (\A i \in G : L[i].value = w) => a.value = w
      /\ \A w : (\A i \in G : L[i].gas = w) => a.gas = w
      /\ \A w : (\A i \in G : L[i].coordinator = w) => a.coordinator = w
  BY <1>5, <1>7 DEF Follows
<1>9. a.value = v /\ a.gas = g /\ a.coordinator = c
  BY <1>4, <1>8
<1>10. item = a
  BY <1>5 DEF RestsOn
<1> QED BY <1>3, <1>8, <1>9, <1>10

\* Different places have different speakers.
SpeakersAt(speaker, G) == {speaker[i] : i \in G}

SomeOf(L, G) == G \subseteq 1 .. Len(L) /\ IsFiniteSet(G)

LEMMA SpeakersCounted ==
  ASSUME NEW L, NEW speaker, NEW id, NEW heard, SpokenBy(L, speaker, id, heard),
         NEW G, SomeOf(L, G)
  PROVE  Cardinality(SpeakersAt(speaker, G)) = Cardinality(G)
<1> DEFINE who == [i \in G |-> speaker[i]]
<1>0. PICK S : S = SpeakersAt(speaker, G)
  OBVIOUS
<1>1. who \in [G -> S] /\ \A x \in S : \E i \in G : who[i] = x
  BY <1>0 DEF SpeakersAt
<1>2. \A i, j \in G : who[i] = who[j] => i = j
  BY DEF SpokenBy, SomeOf
<1>3. who \in Bijection(G, S)
  <2> HIDE DEF who
  <2> QED BY <1>1, <1>2 DEF Bijection, Injection, Surjection, IsInjective
<1>4. ExistsBijection(G, S) /\ who \in Surjection(G, S)
  <2> HIDE DEF who
  <2> QED BY <1>3 DEF ExistsBijection, Bijection
<1> HIDE DEF who
<1> QED BY <1>0, <1>4, FS_Bijection, FS_Surjection DEF SomeOf
-----------------------------------------------------------------------------
\* A round: its lists, and who made them.
SpokenInv ==
  /\ RoundInv
  /\ DOMAIN speakers = Ids
  /\ \A id \in Ids : SpokenBy(reqIdToObservationList[id], speakers[id], id, observed)

LEMMA SpeaksKeeps ==
  ASSUME SpokenInv, NEW o \in Observers, NEW processed, NEW m \in Nat, Len(processed) = m,
         \A i \in 1 .. m : Said(o, processed[i]),
         Speaks(o, processed)
  PROVE  SpokenInv'
<1>1. /\ RoundInv' /\ o \notin observed /\ observed' = observed \cup {o}
      /\ \A id \in Ids : Takes(reqIdToObservationList[id], reqIdToObservationList'[id],
                               processed, m, id)
  BY ConsiderTakes DEF SpokenInv, Speaks
<1>2. speakers' = [id \in Ids |-> NextSpeaker(reqIdToObservationList[id],
                                    reqIdToObservationList'[id], speakers[id], o)]
  BY DEF Speaks, NextSpeaker
<1>3. ASSUME NEW id \in Ids
      PROVE  SpokenBy(reqIdToObservationList'[id], speakers'[id], id, observed')
  <2>1. PICK list, longer, speaker : /\ list = reqIdToObservationList[id]
                                     /\ longer = reqIdToObservationList'[id]
                                     /\ speaker = speakers[id]
    OBVIOUS
  <2>2. /\ ListOK(list, id) /\ SpokenBy(list, speaker, id, observed)
        /\ Takes(list, longer, processed, m, id)
    BY <1>1, <2>1 DEF SpokenInv, RoundInv
  <2>3. SpokenBy(longer, NextSpeaker(list, longer, speaker, o), id, observed \cup {o})
    BY <1>1, <2>2, SpeakersGrow
  <2> QED BY <1>1, <1>2, <2>1, <2>3
<1> QED BY <1>1, <1>2, <1>3 DEF SpokenInv

LEMMA SpokenInvariance == RoundSpec => []SpokenInv
<1>1. RoundInit => SpokenInv
  <2> SUFFICES ASSUME RoundInit PROVE SpokenInv
    OBVIOUS
  <2>1. query \in Seq(Ids) /\ observed = {}
    BY ReportAssumption DEF RoundInit
  <2>2. \A id \in Ids : reqIdToObservationList[id] = <<>> /\ speakers[id] = <<>>
    BY DEF RoundInit
  <2>3. \A id \in Ids : ListOK(<<>>, id) /\ SpokenBy(<<>>, <<>>, id, observed)
    BY DEF ListOK, SpokenBy
  <2> QED BY <2>1, <2>2, <2>3 DEF RoundInit, RoundInv, SpokenInv
<1>2. SpokenInv /\ [RoundNext]_spokenVars => SpokenInv'
  <2> SUFFICES ASSUME SpokenInv, [RoundNext]_spokenVars PROVE SpokenInv'
    OBVIOUS
  <2>1. CASE HonestObserves
    <3>1. PICK o \in Observers \ Faulty, outcome \in Computed :
            Speaks(o, Observation(outcome))
      BY <2>1 DEF HonestObserves
    <3>2. DOMAIN outcome \subseteq ToSet(query)
          /\ \A id \in DOMAIN outcome : outcome[id] \in OutcomesOf[id]
      BY DEF Computed
    <3>3. DOMAIN outcome \subseteq Ids
      BY <3>2 DEF SpokenInv, RoundInv, ToSet
    <3>4. \A id \in DOMAIN outcome : outcome[id] \in [failed : BOOLEAN, value : Int]
      BY <3>2, <3>3, OutcomesAssumption
    <3>5. PICK m \in Nat :
           /\ Len(Observation(outcome)) = m
           /\ \A i \in 1 .. m : Said(o, Observation(outcome)[i])
      BY <3>3, <3>4, HonestSays DEF SpokenInv
    <3> QED BY <3>1, <3>5, SpeaksKeeps
  <2>2. CASE FaultyObserves
    <3>1. PICK o \in Faulty, lie \in BoundedSeq(Forgeries, 2) : Speaks(o, lie)
      BY <2>2 DEF FaultyObserves
    <3>2. PICK m \in 0 .. 2 : lie \in [1 .. m -> Forgeries]
      BY DEF BoundedSeq, SeqOf
    <3>3. m \in Nat /\ Len(lie) = m
      BY <3>2
    <3>4. \A i \in 1 .. m : Said(o, lie[i])
      BY <3>2, FaultySays, ReportAssumption
    <3>5. o \in Observers
      BY ReportAssumption
    <3> QED BY <3>1, <3>3, <3>4, <3>5, SpeaksKeeps
  <2>3. CASE UNCHANGED spokenVars
    BY <2>3 DEF spokenVars, roundVars, SpokenInv, RoundInv
  <2> QED BY <2>1, <2>2, <2>3 DEF RoundNext
<1> QED BY <1>1, <1>2, PTL DEF RoundSpec

\* What is reported rests on honest places.
LEMMA ReportRests ==
  ASSUME SpokenInv, NEW item \in Included, NEW L, L = reqIdToObservationList[item.id]
  PROVE  /\ SpokenBy(L, speakers[item.id], item.id, observed)
         /\ RestsOn(item, L, HonestOf(item.id))
<1>1. item.id \in Ids
  BY IncludedIsReported DEF SpokenInv
<1>2. PICK speaker, G : speaker = speakers[item.id] /\ G = HonestPlaces(L, speaker)
  OBVIOUS
<1>3. SpokenBy(L, speaker, item.id, observed)
  BY <1>1, <1>2 DEF SpokenInv
<1>4. RestsOn(item, L, G)
  BY <1>2, <1>3, HonestReport DEF SpokenInv
<1>5. G = HonestOf(item.id)
  BY <1>2 DEF HonestPlaces, HonestOf
<1> QED BY <1>2, <1>3, <1>4, <1>5
-----------------------------------------------------------------------------
\* Whatever the faulty observers say, more than F others observed what is
\* reported.
THEOREM ReportsRestOnHonest == RoundSpec => []ReportedByHonest
<1>1. SpokenInv => ReportedByHonest
  <2> SUFFICES ASSUME SpokenInv, NEW item \in Included
               PROVE  Cardinality({speakers[item.id][i] : i \in HonestOf(item.id)}) >= F + 1
    BY DEF ReportedByHonest
  <2>1. PICK L, speaker, G : /\ L = reqIdToObservationList[item.id]
                             /\ speaker = speakers[item.id] /\ G = HonestOf(item.id)
    OBVIOUS
  <2>2. SpokenBy(L, speaker, item.id, observed) /\ RestsOn(item, L, G)
    BY <2>1, ReportRests
  <2>3. SomeOf(L, G)
    BY <2>2 DEF RestsOn, SomeOf
  <2>4. Cardinality(SpeakersAt(speaker, G)) = Cardinality(G)
    BY <2>2, <2>3, SpeakersCounted
  <2> QED BY <2>1, <2>2, <2>4 DEF RestsOn, SpeakersAt
<1> QED BY <1>1, SpokenInvariance, PTL

\* Honest observers who agree are reported with what they agree on, for any
\* number of observers and any lies.
THEOREM AgreementsAreReported == RoundSpec => []AgreementIsReported
<1>1. SpokenInv => AgreementIsReported
  <2> SUFFICES ASSUME SpokenInv, NEW item \in Included, NEW L,
                      L = reqIdToObservationList[item.id],
                      \A i, j \in HonestOf(item.id) :
                        L[i].failed = L[j].failed /\ L[i].value = L[j].value,
                      NEW i \in HonestOf(item.id)
               PROVE  /\ item.failed = L[i].failed
                      /\ item.value = L[i].value
                      /\ item.gas = CallbackGasLimit[item.id]
                      /\ item.coordinator = CoordinatorContract[item.id]
    BY DEF AgreementIsReported
  <2>1. PICK G : G = HonestOf(item.id)
    OBVIOUS
  <2>2. RestsOn(item, L, G)
    BY <2>1, ReportRests
  <2>3. PICK f, v : f = L[i].failed /\ v = L[i].value
    OBVIOUS
  <2>4. \A j \in G : L[j].failed = f /\ L[j].value = v
    BY <2>1, <2>3
  <2> QED BY <2>2, <2>3, <2>4, HonestAgreement
<1> QED BY <1>1, SpokenInvariance, PTL

\* The median of results is between two honest ones, for any number of
\* observers and however far off the lies are.
THEOREM MediansAreBetween == RoundSpec => []MedianIsBetweenHonest
<1>1. SpokenInv => MedianIsBetweenHonest
  <2> SUFFICES ASSUME SpokenInv, NEW item \in Included, NEW L,
                      L = reqIdToObservationList[item.id],
                      DefaultAggregationMethod = "MEDIAN",
                      \A i \in HonestOf(item.id) : ~L[i].failed
               PROVE  /\ ~item.failed
                      /\ \E i, j \in HonestOf(item.id) :
                           L[i].value <= item.value /\ item.value <= L[j].value
    BY DEF MedianIsBetweenHonest
  <2>1. PICK G : G = HonestOf(item.id)
    OBVIOUS
  <2>2. RestsOn(item, L, G)
    BY <2>1, ReportRests
  <2>3. PICK f \in BOOLEAN : f = FALSE
    OBVIOUS
  <2>4. ASSUME NEW i \in G PROVE L[i].failed = f
    <3>1. L[i] \in Item
      BY <2>2 DEF RestsOn
    <3>2. ~L[i].failed /\ L[i].failed \in BOOLEAN
      BY <2>1, <3>1 DEF Item
    <3> QED BY <2>3, <3>2
  <2>5. PICK method, a : method = DefaultAggregationMethod /\ a = Aggregate(method, L)
    OBVIOUS
  <2>6. /\ L \in Seq(Item) /\ G \subseteq 1 .. Len(L) /\ 2 * Cardinality(G) > Len(L)
        /\ item = a
    BY <2>2, <2>5 DEF RestsOn
  <2>7. Follows(Aggregate(method, L), method, L, G, f)
    BY <2>4, <2>6, AggregateOfMajority
  <2>8. /\ a.failed = f
        /\ f \/ method = "MODE" \/
             \E i, j \in G : L[i].value <= a.value /\ a.value <= L[j].value
    BY <2>5, <2>7 DEF Follows
  <2>9. method # "MODE"
    BY <2>5
  <2> QED BY <2>1, <2>3, <2>6, <2>8, <2>9
<1> QED BY <1>1, SpokenInvariance, PTL

\* A report fits one transaction: for any query and any limits.
THEOREM ReportsAreDeliverable == RoundSpec => []ReportIsDeliverable
<1>1. SpokenInv => ReportIsDeliverable
  <2> SUFFICES ASSUME SpokenInv PROVE ReportIsDeliverable
    OBVIOUS
  <2>1. PICK passes \in Nat : PassOK(Report, passes)
    BY ReportOK DEF SpokenInv
  <2>2. PICK R : R = Report
    OBVIOUS
  <2>3. \A i, j \in 1 .. Len(R.items) : R.items[i].id = R.items[j].id => i = j
    BY <2>1, <2>2 DEF PassOK
  <2>4. \A i, j \in 1 .. Len(R.items) : R.items[i].coordinator = R.items[j].coordinator
    BY <2>1, <2>2 DEF PassOK
  <2>5. GasFits => Total(GasOf(R.items)) <= MaxReportTotalCallbackGas
    <3> SUFFICES ASSUME GasFits PROVE Total(GasOf(R.items)) <= MaxReportTotalCallbackGas
      OBVIOUS
    <3>1. /\ Total(GasOf(R.items)) \in Nat /\ R.gas \in 0 .. MaxUint32
          /\ Total(GasOf(R.items)) <= R.gas /\ R.gas <= MaxReportTotalCallbackGas
      BY <2>1, <2>2 DEF PassOK
    <3> QED BY <3>1, ReportAssumption
  <2> HIDE DEF Report
  <2> QED BY <2>2, <2>3, <2>4, <2>5 DEF ReportIsDeliverable, GasFits, GasOf
<1> QED BY <1>1, SpokenInvariance, PTL
=============================================================================
