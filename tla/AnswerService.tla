---------------------------- MODULE AnswerService ----------------------------
(***************************************************************************)
(* What the Functions network promises whoever sends it a request: some    *)
(* nodes compute it, each of them once, and an answer, when there is one,  *)
(* rests on more than F of them and is final.  Lies, leaders, rounds,      *)
(* reports and transactions are not in it.                                 *)
(***************************************************************************)
EXTENDS Integers, FiniteSets

CONSTANTS Nodes, F, Requests, Outcomes, NoOutcome

VARIABLES
  asked,      \* the requests made so far
  answer,     \* of each request
  computed    \* of each node: what it computed for each request

answerVars == <<asked, answer, computed>>

Unanswered == [r \in Requests |-> NoOutcome]

AnswerInit ==
  /\ asked = {}
  /\ answer = Unanswered
  /\ computed = [n \in Nodes |-> Unanswered]

Ask(r) ==
  /\ r \notin asked
  /\ asked' = asked \cup {r}
  /\ UNCHANGED <<answer, computed>>

Compute(n, r, outcome) ==
  /\ r \in asked
  /\ computed[n][r] = NoOutcome
  /\ computed' = [computed EXCEPT ![n][r] = outcome]
  /\ UNCHANGED <<asked, answer>>

ComputersOf(r) == {n \in Nodes : computed[n][r] # NoOutcome}

\* What the nodes that computed a request allow as its answer: any, unless they
\* agree.
Supported(r, given) ==
  /\ Cardinality(ComputersOf(r)) > F
  /\ given \in [failed : BOOLEAN, value : Int]
  /\ \A outcome \in Outcomes :
       (\A n \in ComputersOf(r) : computed[n][r] = outcome) => given = outcome

\* Requests are answered several at once, each for the first time.
Answer ==
  /\ answer' = [r \in Requests |-> answer'[r]]
  /\ \A r \in Requests :
       \/ answer'[r] = answer[r]
       \/ r \in asked /\ answer[r] = NoOutcome /\ Supported(r, answer'[r])
  /\ UNCHANGED <<asked, computed>>

AnswerNext ==
  \/ \E r \in Requests :
       \/ Ask(r)
       \/ \E n \in Nodes, outcome \in Outcomes : Compute(n, r, outcome)
  \/ Answer

AnswerSpec == AnswerInit /\ [][AnswerNext]_answerVars
=============================================================================
