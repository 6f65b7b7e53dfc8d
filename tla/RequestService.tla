--------------------------- MODULE RequestService ---------------------------
(***************************************************************************)
(* What a service for scores promises: a request is asked once, about one  *)
(* subject, and ends once, with an answer or without; only an answer       *)
(* changes what is recorded of a subject, and of its own subject alone.    *)
(***************************************************************************)
CONSTANTS Requests, Subjects, Answers

VARIABLES
  asked,     \* the requests made so far
  open,      \* those not yet ended
  subject,   \* of each request
  recorded   \* the answer last recorded of each subject

serviceVars == <<asked, open, subject, recorded>>

ServiceInit ==
  /\ asked = {}
  /\ open = {}
  /\ subject \in [Requests -> Subjects]
  /\ recorded \in [Subjects -> Answers]

Ask(r, s) ==
  /\ r \notin asked
  /\ asked' = asked \cup {r}
  /\ open' = open \cup {r}
  /\ subject' = [subject EXCEPT ![r] = s]
  /\ UNCHANGED recorded

End(r) ==
  /\ r \in open
  /\ open' = open \ {r}
  /\ UNCHANGED <<asked, subject>>

Answer(r, a) ==
  /\ End(r)
  /\ recorded' = [recorded EXCEPT ![subject[r]] = a]

Close(r) ==
  /\ End(r)
  /\ UNCHANGED recorded

ServiceNext ==
  \E r \in Requests :
    \/ \E s \in Subjects : Ask(r, s)
    \/ End(r) /\ \E a \in Answers : Answer(r, a)
    \/ Close(r)

ServiceSpec == ServiceInit /\ [][ServiceNext]_serviceVars
=============================================================================
