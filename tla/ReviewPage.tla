----------------------------- MODULE ReviewPage -----------------------------
(***************************************************************************)
(* review/[id]/page.js: the administrator decides one project, over the    *)
(* deployed contracts.  The page shows a status it read earlier, and its   *)
(* buttons depend on it.  The effect reads the status when the contracts   *)
(* are there and again whenever the session replaces them, handleDecision  *)
(* reads it after its transaction, and all these reads may overlap.        *)
(* Several sessions may review the same project, and the score oracle      *)
(* changes it too.                                                         *)
(***************************************************************************)
EXTENDS BlueCarbon

CONSTANTS
  Pages,           \* the review pages of the project
  Reviewer,        \* the account signed in on them
  Uploader,        \* the NGO whose project it is
  EffectReads,     \* bound on the reads of a page's effect that overlap
  MaxMishaps       \* bound on the reconnections, refused prompts, lost
                   \* receipts and failed reads

ASSUME ReviewAssumption ==
  /\ "decision" \notin EffectReads
  /\ Reviewer \in Senders
  /\ Uploader \in Senders \ {Deployer}
  /\ MaxMishaps \in Nat

VARIABLES
  page,        \* what each page shows and waits for
  reads,       \* its calls of fetchProjectDetails
  mishaps

reviewVars == <<page, reads, mishaps, systemVars>>

projectId == 0

\* The effect does not wait for its reads; handleDecision waits for its own.
Readers == EffectReads \cup {"decision"}
NotFound == "Project not found."

\* decision is the argument of the handleDecision under way, loaded whether the
\* session has the contracts.  For the properties: whether the receipt of a
\* decision has arrived, and whether what is shown since may be older, because
\* a read was under way then or one has failed.
ClosedPage ==
  [project |-> NotFound, pageLoading |-> TRUE, isSubmitting |-> FALSE,
   decision |-> "none", loaded |-> FALSE, decided |-> FALSE, unsure |-> FALSE,
   open |-> FALSE]

\* The deployed contracts once the owner has admitted the NGO and sent it the
\* tokens, and the NGO has approved and staked them: it is about to register.
Admitted ==
  /\ WiredRegistry
  /\ managerOwner = Deployer
  /\ ngos = [a \in Accounts |-> IF a = Uploader
       THEN [walletAddress |-> a, status |-> "Whitelisted", exists |-> TRUE]
       ELSE NoNGO]
  /\ ngoList = <<Uploader>>
  /\ VerificationInit(InitialAdmin, InitialOracle)

Staked ==
  /\ tokenOwner = Deployer
  /\ balance = [a \in Accounts |-> IF a = Vault THEN InitialMint ELSE 0]
  /\ allowance = [a \in Accounts |-> [b \in Accounts |-> 0]]
  /\ totalSupply = InitialMint
  /\ stakeOwner = Deployer
  /\ verificationContract = VerificationAddress
  /\ stakedAmount = [a \in Accounts |-> IF a = Uploader THEN InitialMint ELSE 0]
  /\ reputationScore = [a \in Accounts |-> 0]
  /\ minimumStake = InitialMinimumStake
  /\ penaltyRate = 25

ReviewInit ==
  /\ Admitted /\ Staked
  /\ page = [p \in Pages |-> ClosedPage]
  /\ reads = [p \in Pages |-> [k \in Readers |-> "none"]]
  /\ mishaps = 0
-----------------------------------------------------------------------------
\* What the chain answers; getPlantation reverts for an id nobody registered.
getPlantation ==
  IF Registered(projectId) THEN plantations[projectId].status ELSE NotFound

\* The transaction a page sent, with the contracts' guard.
approved ==
  /\ submitAdminVerification(Reviewer, projectId, TRUE)
  /\ UNCHANGED <<verificationConfigVars, hasPeerVerified, stakedAmount, reputationScore>>
  /\ callFrame

rejected ==
  /\ submitAdminVerification(Reviewer, projectId, FALSE)
  /\ UNCHANGED <<verificationConfigVars, hasPeerVerified>>
  /\ callFrame

mined(p) ==
  \/ page[p].decision = "approve" /\ approved
  \/ page[p].decision = "reject" /\ rejected

\* The first, synchronous part of fetchProjectDetails for a reader k.
asks(p, k) == reads' = [reads EXCEPT ![p][k] = "asked"]

\* The effect, when the contracts are there or have been replaced.
effectReads(p) ==
  LET idle == {k \in EffectReads : reads[p][k] = "none"}
  IN
    /\ idle # {}
    /\ asks(p, CHOOSE k \in idle : TRUE)
    /\ page' = [page EXCEPT ![p].open = TRUE, ![p].loaded = TRUE, ![p].pageLoading = TRUE]

effectsUnderWay(p) == \E k \in EffectReads : reads[p][k] # "none"

\* Mistakes the properties must catch: the page is released without reading the
\* status again; a decision the contracts refuse, or the read after one, leaves
\* the page submitting.
receiptUnread(p) ==
  /\ page' = [page EXCEPT ![p].decision = "none", ![p].decided = TRUE,
                          ![p].unsure = effectsUnderWay(p), ![p].isSubmitting = FALSE]
  /\ UNCHANGED reads

decisionFailsSubmitting(p) ==
  page' = [page EXCEPT ![p].decision = "none"]

readEndsSubmitting(p, k, shown, failed) ==
  /\ reads' = [reads EXCEPT ![p][k] = "none"]
  /\ page' = [page EXCEPT ![p].project = shown, ![p].pageLoading = FALSE,
                          ![p].unsure = @ \/ failed]

\* handleDecision when its receipt arrives: it calls fetchProjectDetails.
receipt(p) ==
  /\ page' = [page EXCEPT ![p].decision = "none", ![p].decided = TRUE,
                          ![p].unsure = effectsUnderWay(p), ![p].pageLoading = TRUE]
  /\ asks(p, "decision")

\* Its catch and finally clauses.
decisionFails(p) ==
  page' = [page EXCEPT ![p].decision = "none", ![p].isSubmitting = FALSE]

\* The end of a read: an error leaves the project shown as it is, and the
\* decision that awaited the read is over.
readEnds(p, k, shown, failed) ==
  /\ reads' = [reads EXCEPT ![p][k] = "none"]
  /\ page' = [page EXCEPT ![p].project = shown, ![p].pageLoading = FALSE,
                          ![p].unsure = @ \/ failed,
                          ![p].isSubmitting = @ /\ k # "decision"]
-----------------------------------------------------------------------------
\* The page is visited in a session that has the contracts, or before it has
\* them: then fetchProjectDetails returns at once.
Open ==
  /\ \E p \in Pages :
       /\ ~page[p].open
       /\ \/ effectReads(p)
          \/ page' = [page EXCEPT ![p].open = TRUE] /\ UNCHANGED reads
  /\ UNCHANGED <<mishaps, systemVars>>

\* connectWallet sets the contracts, and the effect runs again.  (logout leaves
\* the page.)
ContractsLoaded ==
  /\ \E p \in Pages : page[p].open /\ ~page[p].loaded /\ effectReads(p)
  /\ UNCHANGED <<mishaps, systemVars>>

mishap == mishaps < MaxMishaps /\ mishaps' = mishaps + 1

Reconnect ==
  /\ mishap
  /\ \E p \in Pages : page[p].loaded /\ effectReads(p)
  /\ UNCHANGED systemVars

ReadAnswered(p, k) ==
  /\ reads[p][k] = "asked"
  /\ reads' = [reads EXCEPT ![p][k] = getPlantation]
  /\ UNCHANGED <<page, mishaps, systemVars>>

ReadShown(p, k) ==
  /\ reads[p][k] \notin {"none", "asked"}
  /\ readEnds(p, k, IF reads[p][k] = NotFound THEN page[p].project ELSE reads[p][k], FALSE)
  /\ UNCHANGED <<mishaps, systemVars>>

\* The administrator presses one of the buttons.
HandleDecision ==
  /\ \E p \in Pages, d \in {"approve", "reject"} :
       /\ ~page[p].pageLoading
       /\ page[p].project = "Submitted"
       /\ ~page[p].isSubmitting
       /\ page' = [page EXCEPT ![p].isSubmitting = TRUE, ![p].decision = d]
  /\ UNCHANGED <<reads, mishaps, systemVars>>

DecisionMined(p) ==
  /\ mined(p)
  /\ receipt(p)
  /\ UNCHANGED mishaps

DecisionReverted(p) ==
  /\ page[p].decision # "none"
  /\ ~ENABLED mined(p)
  /\ decisionFails(p)
  /\ UNCHANGED <<reads, mishaps, systemVars>>

\* A refused prompt, a receipt that is lost, a read that fails.
AnswerLost ==
  /\ mishap
  /\ \E p \in Pages :
       \/ /\ page[p].decision # "none"
          /\ decisionFails(p)
          /\ UNCHANGED <<reads, systemVars>>
       \/ /\ mined(p)
          /\ decisionFails(p)
          /\ UNCHANGED reads
       \/ /\ \E k \in Readers : reads[p][k] # "none" /\ readEnds(p, k, page[p].project, TRUE)
          /\ UNCHANGED systemVars

\* The NGO registers its project, and may withdraw its stake; the oracle scores.
OthersAct ==
  /\ \/ Withdraw /\ UNCHANGED <<verificationVars, registryVars, managerVars>>
     \/ RegisterPlantation /\ UNCHANGED <<verificationVars, stakeVars>>
     \/ OracleScores
  /\ UNCHANGED <<page, reads, mishaps>>

ReviewNext ==
  \/ Open
  \/ ContractsLoaded
  \/ Reconnect
  \/ HandleDecision
  \/ \E p \in Pages :
       \/ \E k \in Readers : ReadAnswered(p, k) \/ ReadShown(p, k)
       \/ DecisionMined(p)
       \/ DecisionReverted(p)
  \/ AnswerLost
  \/ OthersAct

\* Every promise is settled: the node answers, the user answers the prompt,
\* and the chain mines or refuses what was sent.
ReviewFairness ==
  \A p \in Pages :
    /\ WF_reviewVars(\E k \in Readers : ReadAnswered(p, k) \/ ReadShown(p, k))
    /\ WF_reviewVars(DecisionMined(p) \/ DecisionReverted(p))

ReviewSpec == ReviewInit /\ [][ReviewNext]_reviewVars /\ ReviewFairness
-----------------------------------------------------------------------------
\* A page that submits waits for its decision or for the read after it, and a
\* page that loads for a read, or for the session to connect: once it has the
\* contracts, neither message stays for nothing.
WaitingIsForSomething ==
  \A p \in Pages :
    /\ page[p].isSubmitting = (page[p].decision # "none" \/ reads[p]["decision"] # "none")
    /\ page[p].pageLoading /\ page[p].loaded => \E k \in Readers : reads[p][k] # "none"

\* A page whose decision was confirmed offers no second one, whatever the
\* oracle and other pages do meanwhile: the status it shows was read after the
\* decision.  Two things may make it show an older one, and then it does offer
\* a second: a read of the effect that was under way when the receipt arrived,
\* and a read that failed since.
DecidedOffersNoDecision ==
  \A p \in Pages :
    page[p].decided /\ ~page[p].unsure /\ ~page[p].pageLoading
      => page[p].project # "Submitted"

\* The buttons are released in the end, by the outcome of the decision and of
\* the read after it, also when the contracts refuse the decision.
SubmittingEnds == \A p \in Pages : page[p].isSubmitting ~> ~page[p].isSubmitting
=============================================================================
