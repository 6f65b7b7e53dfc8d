--------------------------- MODULE AdminDashboard ---------------------------
(***************************************************************************)
(* admindashboard/page.js: the administrator's page asks for weather       *)
(* scores and shows them.  The score oracle is the abstract service that   *)
(* WeatherSurvival implements: a request ends with an answer, and then a   *)
(* ScoreReceived event reaches the page, or ends without, and then none    *)
(* does.  Every call of the node is awaited, so the fetches of the whole   *)
(* dashboard, the handlers of events and the requests of the page          *)
(* interleave, and several of each may be under way.                       *)
(***************************************************************************)
EXTENDS RequestService, Naturals

CONSTANTS
  NoScore,       \* undefined, or the null of a read that failed
  Fetches,       \* bound on the runs of fetchDashboardData that overlap
  MaxFetches,    \* bound on all of them: at load and when contracts change
  MaxPresses,    \* bound on a project's requests not yet mined
  MaxFailures    \* bound on the calls that fail

ASSUME DashboardAssumption ==
  /\ NoScore \notin Answers
  /\ {"none", "projects", "event", "asked"} \cap (Answers \cup {NoScore}) = {}
  /\ Fetches \cap Requests = {}
  /\ MaxFetches \in Nat /\ MaxPresses \in Nat /\ MaxFailures \in Nat

VARIABLES
  weatherScores,   \* shown per project
  loadingScore,    \* per project: the button says "Fetching..."
  isLoading,       \* the table is not shown
  allProjects,     \* whether the projects, and their buttons, are known
  sending,         \* runs of handleGetWeatherScore: those that read the
                   \* coordinates, and the transactions not yet mined
  handlers,        \* handleScoreReceived, per event, that is, per request
  fetch,           \* how far each fetchDashboardData is, per project
  fetches, failures,
  unsure           \* for the properties: the projects whose scores crossed

pageVars == <<weatherScores, loadingScore, isLoading, allProjects, sending, handlers, fetch>>
dashboardCounters == <<fetches, failures>>
dashboardVars == <<pageVars, dashboardCounters, unsure, serviceVars>>

NoFetch == [p \in Subjects |-> "none"]
Fetching(f) == fetch[f] # NoFetch

\* The reads of a project's score that are under way.
Fetched(p) == {f \in Fetches : fetch[f][p] \notin {"none", "projects"}}
Handling(p) == {r \in Requests : handlers[r] \notin {"none", "event"} /\ subject[r] = p}
Reads(p) == Fetched(p) \cup Handling(p)

DashboardInit ==
  /\ ServiceInit
  /\ weatherScores = [p \in Subjects |-> NoScore]
  /\ loadingScore = [p \in Subjects |-> FALSE]
  /\ isLoading = TRUE /\ allProjects = FALSE
  /\ sending = [p \in Subjects |-> [reading |-> 0, sent |-> 0]]
  /\ handlers = [r \in Requests |-> "none"]
  /\ fetch = [f \in Fetches |-> NoFetch]
  /\ fetches = 0 /\ failures = 0
  /\ unsure = {}
-----------------------------------------------------------------------------
\* A read that begins while no other is under way makes its project sure again,
\* one that begins beside another makes it unsure.
readsBegin(projects) ==
  unsure' = (unsure \ projects) \cup {p \in projects : Reads(p) # {}}

failsOnce ==
  /\ failures < MaxFailures
  /\ failures' = failures + 1

\* Mistakes the properties must catch: the flag is not cleared by the event, and
\* an event that comes while the dashboard is loading is ignored.
scoreReadWaiting(p, score) ==
  /\ weatherScores' = [weatherScores EXCEPT ![p] = score]
  /\ UNCHANGED loadingScore

HandleScoreReceivedIdle(r) ==
  /\ handlers[r] = "event"
  /\ IF isLoading
     THEN handlers' = [handlers EXCEPT ![r] = "none"] /\ UNCHANGED unsure
     ELSE handlers' = [handlers EXCEPT ![r] = "asked"] /\ readsBegin({subject[r]})
  /\ UNCHANGED <<weatherScores, loadingScore, isLoading, allProjects, sending, fetch,
                 dashboardCounters, serviceVars>>

\* The handler's two updates after its read.
scoreRead(p, score) ==
  /\ weatherScores' = [weatherScores EXCEPT ![p] = score]
  /\ loadingScore' = [loadingScore EXCEPT ![p] = FALSE]
-----------------------------------------------------------------------------
\* The effect runs: it reads the projects first.
FetchDashboardData ==
  /\ fetches < MaxFetches
  /\ fetches' = fetches + 1
  /\ \E f \in Fetches :
       ~Fetching(f) /\ fetch' = [fetch EXCEPT ![f] = [p \in Subjects |-> "projects"]]
  /\ isLoading' = TRUE
  /\ UNCHANGED <<weatherScores, loadingScore, allProjects, sending, handlers, failures,
                 unsure, serviceVars>>

\* They are shown, and their scores are asked for.
ProjectsRead(f) ==
  /\ fetch[f] = [p \in Subjects |-> "projects"]
  /\ fetch' = [fetch EXCEPT ![f] = [p \in Subjects |-> "asked"]]
  /\ allProjects' = TRUE
  /\ readsBegin(Subjects)
  /\ UNCHANGED <<weatherScores, loadingScore, isLoading, sending, handlers,
                 dashboardCounters, serviceVars>>

\* One of the reads is answered; the others go on.
FetchAnswered(f, p) ==
  /\ fetch[f][p] = "asked"
  /\ fetch' = [fetch EXCEPT ![f][p] = recorded[p]]
  /\ UNCHANGED <<weatherScores, loadingScore, isLoading, allProjects, sending, handlers,
                 dashboardCounters, unsure, serviceVars>>

\* The whole map is replaced once every read is answered.
FetchEnds(f) ==
  /\ Fetching(f)
  /\ \A p \in Subjects : fetch[f][p] \notin {"projects", "asked"}
  /\ weatherScores' = fetch[f]
  /\ fetch' = [fetch EXCEPT ![f] = NoFetch]
  /\ isLoading' = FALSE
  /\ UNCHANGED <<loadingScore, allProjects, sending, handlers, dashboardCounters,
                 unsure, serviceVars>>

\* A read of the projects fails, and the fetch with it; a read of a score
\* fails alone, and its score is null.
FetchFails ==
  /\ failsOnce
  /\ \E f \in Fetches :
       \/ /\ fetch[f] = [p \in Subjects |-> "projects"]
          /\ fetch' = [fetch EXCEPT ![f] = NoFetch]
          /\ isLoading' = FALSE
       \/ /\ \E p \in Subjects :
              fetch[f][p] = "asked" /\ fetch' = [fetch EXCEPT ![f][p] = NoScore]
          /\ UNCHANGED isLoading
  /\ UNCHANGED <<weatherScores, loadingScore, allProjects, sending, handlers, fetches,
                 unsure, serviceVars>>
-----------------------------------------------------------------------------
\* The administrator presses Get Score.
HandleGetWeatherScore ==
  /\ ~isLoading /\ allProjects
  /\ \E p \in Subjects :
       /\ ~loadingScore[p]
       /\ sending[p].reading + sending[p].sent < MaxPresses
       /\ loadingScore' = [loadingScore EXCEPT ![p] = TRUE]
       /\ sending' = [sending EXCEPT ![p].reading = @ + 1]
  /\ UNCHANGED <<weatherScores, isLoading, allProjects, handlers, fetch,
                 dashboardCounters, unsure, serviceVars>>

\* The coordinates are read and the transaction is sent: the handler ends here.
RequestSent(p) ==
  /\ sending[p].reading > 0
  /\ sending' = [sending EXCEPT ![p] = [reading |-> @.reading - 1, sent |-> @.sent + 1]]
  /\ UNCHANGED <<weatherScores, loadingScore, isLoading, allProjects, handlers, fetch,
                 dashboardCounters, unsure, serviceVars>>

\* The read fails, or the wallet refuses the transaction.
RequestFails ==
  /\ failsOnce
  /\ \E p \in Subjects :
       /\ sending[p].reading > 0
       /\ sending' = [sending EXCEPT ![p].reading = @ - 1]
       /\ loadingScore' = [loadingScore EXCEPT ![p] = FALSE]
  /\ UNCHANGED <<weatherScores, isLoading, allProjects, handlers, fetch, fetches,
                 unsure, serviceVars>>

RequestMined(p) ==
  /\ sending[p].sent > 0
  /\ sending' = [sending EXCEPT ![p].sent = @ - 1]
  /\ \E r \in Requests : Ask(r, p)
  /\ UNCHANGED <<weatherScores, loadingScore, isLoading, allProjects, handlers, fetch,
                 dashboardCounters, unsure>>

\* The transaction is dropped or reverts: nobody waits for its receipt.
RequestDropped ==
  /\ failsOnce
  /\ \E p \in Subjects :
       /\ sending[p].sent > 0
       /\ sending' = [sending EXCEPT ![p].sent = @ - 1]
  /\ UNCHANGED <<weatherScores, loadingScore, isLoading, allProjects, handlers, fetch,
                 fetches, unsure, serviceVars>>
-----------------------------------------------------------------------------
\* The owner's script asks too.
OthersAsk ==
  /\ \E r \in Requests, p \in Subjects : Ask(r, p)
  /\ UNCHANGED <<pageVars, dashboardCounters, unsure>>

Answered(r) ==
  /\ \E a \in Answers : Answer(r, a)
  /\ handlers' = [handlers EXCEPT ![r] = "event"]
  /\ UNCHANGED <<weatherScores, loadingScore, isLoading, allProjects, sending, fetch,
                 dashboardCounters, unsure>>

\* An error, a reverted callback or a time-out: no ScoreReceived.
Unanswered ==
  /\ \E r \in Requests : Close(r)
  /\ UNCHANGED <<pageVars, dashboardCounters, unsure>>

HandleScoreReceived(r) ==
  /\ handlers[r] = "event"
  /\ handlers' = [handlers EXCEPT ![r] = "asked"]
  /\ readsBegin({subject[r]})
  /\ UNCHANGED <<weatherScores, loadingScore, isLoading, allProjects, sending, fetch,
                 dashboardCounters, serviceVars>>

HandlerAnswered(r) ==
  /\ handlers[r] = "asked"
  /\ handlers' = [handlers EXCEPT ![r] = recorded[subject[r]]]
  /\ UNCHANGED <<weatherScores, loadingScore, isLoading, allProjects, sending, fetch,
                 dashboardCounters, unsure, serviceVars>>

HandlerEnds(r) ==
  /\ handlers[r] \in Answers
  /\ handlers' = [handlers EXCEPT ![r] = "none"]
  /\ scoreRead(subject[r], handlers[r])
  /\ UNCHANGED <<isLoading, allProjects, sending, fetch, dashboardCounters, unsure, serviceVars>>

\* The score shown stays as it was.
HandlerFails ==
  /\ failsOnce
  /\ \E r \in Requests :
       /\ handlers[r] = "asked"
       /\ handlers' = [handlers EXCEPT ![r] = "none"]
       /\ loadingScore' = [loadingScore EXCEPT ![subject[r]] = FALSE]
       /\ unsure' = unsure \cup {subject[r]}
  /\ UNCHANGED <<weatherScores, isLoading, allProjects, sending, fetch, fetches, serviceVars>>

DashboardNext ==
  \/ FetchDashboardData
  \/ \E f \in Fetches :
       \/ ProjectsRead(f)
       \/ \E p \in Subjects : FetchAnswered(f, p)
       \/ FetchEnds(f)
  \/ FetchFails
  \/ HandleGetWeatherScore
  \/ \E p \in Subjects : RequestSent(p) \/ RequestMined(p)
  \/ RequestFails
  \/ RequestDropped
  \/ OthersAsk
  \/ \E r \in Requests :
       Answered(r) \/ HandleScoreReceived(r) \/ HandlerAnswered(r) \/ HandlerEnds(r)
  \/ Unanswered
  \/ HandlerFails

\* The node answers every call and delivers every event.  That a transaction is
\* mined or a request answered is not assumed.
DashboardFairness ==
  \A r \in Requests :
    WF_dashboardVars(HandleScoreReceived(r) \/ HandlerAnswered(r) \/ HandlerEnds(r))

DashboardSpec == DashboardInit /\ [][DashboardNext]_dashboardVars /\ DashboardFairness
-----------------------------------------------------------------------------
\* Nothing of a project's score is on its way to the page.
Settled(p) ==
  /\ Fetched(p) = {}
  /\ \A r \in Requests : subject[r] = p => handlers[r] = "none"

\* Once what is under way has arrived, a score on the page is the one the
\* contract holds, however fetches, events and requests of several projects
\* interleave: no event is lost, not even one that overtakes a fetch.  Left out
\* are the projects of which two reads crossed, or a handler's read failed, and
\* no read was made alone since: there the page does show an older score.
ScoresAreCurrent ==
  \A p \in Subjects \ unsure :
    Settled(p) /\ weatherScores[p] # NoScore => weatherScores[p] = recorded[p]

\* A button waits forever only if some request ended without an answer, or a
\* transaction was lost, or a request stays unanswered: every answer releases
\* the button of its project, also when the read of the score then fails.
AnsweredReleasesButton ==
  \A r \in Requests :
    handlers[r] # "none" ~> ~loadingScore[subject[r]]
=============================================================================
