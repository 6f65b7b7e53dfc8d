---------------------- MODULE MCSubmissionAndDashboard ----------------------
(***************************************************************************)
(* The NGO's submission of projects, and the administrator's dashboard;    *)
(* each is explored while the other has not begun.                         *)
(*                                                                         *)
(* One NGO has the submit page open in two tabs, while the owner raises    *)
(* the minimum stake and suspends it.  The dashboard shows two projects    *)
(* and two scores; of its two fetches and two requests, three are begun.   *)
(***************************************************************************)
EXTENDS SubmitFlow, AdminDashboard

CONSTANTS zero, deployer, ngo, registry, manager, vault, verification,
          one, two, p1, p2, r1, r2, low, high,
          MaxBegun   \* bound on the fetches and the requests together

MCAccounts == {zero, deployer, ngo, registry, manager, vault, verification}
MCNGOOf == [t \in Tabs |-> ngo]

VARIABLE part   \* what is explored: it never changes

MCVars == <<submitVars, dashboardVars, part>>

MCInit ==
  /\ SubmitInit /\ DashboardInit
  /\ subject = [r \in Requests |-> p1]      \* means nothing before it is asked
  /\ recorded = [p \in Subjects |-> low]    \* the contract's zero
  /\ part \in {"submission", "dashboard"}

MCNext ==
  \/ part = "submission" /\ SubmitNext /\ UNCHANGED <<dashboardVars, part>>
  \/ /\ part = "dashboard"
     /\ DashboardNext
     /\ fetches' + Cardinality(asked') <= MaxBegun
     /\ UNCHANGED <<submitVars, part>>

\* In the part that stands still, no action with a fairness condition is
\* enabled: no attempt has begun and nothing was asked.
MCSpec == MCInit /\ [][MCNext]_MCVars /\ SubmitFairness /\ DashboardFairness
=============================================================================
