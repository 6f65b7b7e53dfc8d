--------------------------- MODULE FunctionsRouter ---------------------------
(***************************************************************************)
(* Chainlink's router, as far as its client can see it: a request is a     *)
(* commitment until it is fulfilled or timed out, and both delete it.      *)
(* Subscriptions and billing are left out: a request they refuse is not    *)
(* sent, a report they refuse is not processed.                            *)
(***************************************************************************)
EXTENDS Naturals

CONSTANT MaxRequests   \* bound on the requests that are sent

ASSUME RouterAssumption == MaxRequests \in Nat

VARIABLES
  commitments,       \* s_requestCommitments
  initiatedRequests  \* the consumer's count, which makes request ids unique

routerVars == <<commitments, initiatedRequests>>

RequestIds == 0 .. MaxRequests - 1

NoCommitment == [committed |-> FALSE]

inFlight == {id \in RequestIds : commitments[id].committed}

RouterInit ==
  /\ commitments = [id \in RequestIds |-> NoCommitment]
  /\ initiatedRequests = 0

router_sendRequest(commitment) ==
  /\ commitments' = [commitments EXCEPT ![initiatedRequests] = commitment]
  /\ initiatedRequests' = initiatedRequests + 1

\* A mistake the properties must catch: the commitment outlives its answer.
closeRequestKept(id) ==
  /\ id \in inFlight
  /\ UNCHANGED routerVars

\* What fulfill and timeoutRequests do to a request before anything else.
closeRequest(id) ==
  /\ id \in inFlight
  /\ commitments' = [commitments EXCEPT ![id] = NoCommitment]
  /\ UNCHANGED initiatedRequests
=============================================================================
