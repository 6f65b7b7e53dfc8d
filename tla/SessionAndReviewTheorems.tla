---------------------- MODULE SessionAndReviewTheorems ----------------------
(***************************************************************************)
(* The wallet session and the review page, for any accounts, any number of *)
(* calls at once, any plantations and any bounds.  The session is all of   *)
(* one account because a call keeps account and role together from the     *)
(* moment the role is read.  The review page, once connected, waits only   *)
(* for calls under way, and no other actor makes it offer a decision again *)
(* that it has seen confirmed: the answers it gets after one are given by  *)
(* a registry that has judged and takes no judgement back.                 *)
(***************************************************************************)
EXTENDS WalletSession, ReviewPage, BlueCarbonTheorems

\* A call that asks the chain has its account, and one that was answered has
\* that account's role.
CallsAreOfOneAccount ==
  \A c \in Calls :
    /\ calls[c].pc \in {"reading", "answered"} => calls[c].account \in WalletAccounts
    /\ calls[c].pc = "answered" =>
         (calls[c].role = "ADMIN") = (calls[c].account \in ADMIN_ADDRESSES)

SessionInv ==
  /\ SessionTypeOK
  /\ CallsAreOfOneAccount
  /\ SessionIsOneAccounts
  /\ LoadingIsConnecting

\* The roles connectWallet finds: an administrator's for administrators only.
LEMMA RoleOfAccount ==
  ASSUME NEW a
  PROVE  roleOf(a) \in Roles /\ (roleOf(a) = "ADMIN") = (a \in ADMIN_ADDRESSES)
BY DEF roleOf, Roles

\* No call is under way.
LEMMA NoCalls ==
  LET none == [c \in Calls |-> Idle]
  IN  /\ none \in [Calls -> [pc : {"idle", "asking", "reading", "answered"},
                              account : Exposed, role : Roles]]
      /\ \A c \in Calls : none[c].pc = "idle"
BY DEF Idle, Exposed, Roles

LEMMA NoEvents == << >> \in Seq(Exposed) /\ Len(<< >>) <= MaxEvents
BY SessionAssumption

LEMMA SessionInitially == ASSUME SessionInit PROVE SessionInv
<1>1. SessionTypeOK
  BY NoCalls, NoEvents DEF SessionInit, SessionTypeOK, Exposed, Roles
<1>2. CallsAreOfOneAccount /\ SessionIsOneAccounts /\ LoadingIsConnecting
  BY NoCalls DEF SessionInit, CallsAreOfOneAccount, SessionIsOneAccounts, LoadingIsConnecting
<1> QED BY <1>1, <1>2 DEF SessionInv

\* The steps that change no call: those of the wallet, the chain and the user.
LEMMA OthersKeepSession ==
  ASSUME SessionInv, Logout \/ SwitchAccount \/ ChangeWhitelist
  PROVE  SessionInv'
<1>1. calls' = calls /\ loading' = loading
  BY DEF Logout, SwitchAccount, ChangeWhitelist
<1>2. CallsAreOfOneAccount' /\ LoadingIsConnecting'
  BY <1>1 DEF SessionInv, CallsAreOfOneAccount, LoadingIsConnecting, InFlight
<1>3. CASE Logout
  <2>1. SessionTypeOK'
    BY <1>3 DEF SessionInv, SessionTypeOK, Logout, logout, outsideVars, counterVars, Exposed, Roles
  <2>2. SessionIsOneAccounts'
    BY <1>3 DEF SessionIsOneAccounts, Logout, logout
  <2> QED BY <1>2, <2>1, <2>2 DEF SessionInv
<1>4. CASE SwitchAccount
  <2>1. wallet' \in Exposed /\ events' \in Seq(Exposed) /\ Len(events') <= MaxEvents
    BY <1>4, SessionAssumption DEF SessionInv, SessionTypeOK, SwitchAccount
  <2>2. SessionTypeOK'
    BY <1>4, <2>1 DEF SessionInv, SessionTypeOK, SwitchAccount, sessionVars, counterVars
  <2>3. SessionIsOneAccounts'
    BY <1>4 DEF SessionInv, SessionIsOneAccounts, SwitchAccount, sessionVars
  <2> QED BY <1>2, <2>2, <2>3 DEF SessionInv
<1>5. CASE ChangeWhitelist
  <2>1. SessionTypeOK'
    BY <1>5 DEF SessionInv, SessionTypeOK, ChangeWhitelist, sessionVars, counterVars
  <2>2. SessionIsOneAccounts'
    BY <1>5 DEF SessionInv, SessionIsOneAccounts, ChangeWhitelist, sessionVars
  <2> QED BY <1>2, <2>1, <2>2 DEF SessionInv
<1> QED BY <1>3, <1>4, <1>5

\* A call that begins.
LEMMA ConnectingKeepsSession ==
  ASSUME SessionInv, NEW c \in Calls, connectWallet(c), UNCHANGED sessionVars
  PROVE  /\ calls' \in [Calls -> [pc : {"idle", "asking", "reading", "answered"},
                                  account : Exposed, role : Roles]]
         /\ loading' \in BOOLEAN
         /\ CallsAreOfOneAccount' /\ SessionIsOneAccounts' /\ LoadingIsConnecting'
<1>1. /\ calls' = [calls EXCEPT ![c].pc = "asking"] /\ loading' = TRUE
      /\ calls \in [Calls -> [pc : {"idle", "asking", "reading", "answered"},
                              account : Exposed, role : Roles]]
  BY DEF connectWallet, SessionInv, SessionTypeOK
<1>2. c \in InFlight'
  BY <1>1 DEF InFlight
<1>3. CallsAreOfOneAccount'
  BY <1>1 DEF SessionInv, CallsAreOfOneAccount
<1>4. SessionIsOneAccounts'
  BY DEF SessionInv, SessionIsOneAccounts, sessionVars
<1> QED BY <1>1, <1>2, <1>3, <1>4 DEF LoadingIsConnecting

\* The steps of a call that is under way.
LEMMA CallKeepsSession ==
  ASSUME SessionInv, NEW c \in Calls, AccountsAnswered(c) \/ RoleRead(c) \/ SessionSet(c)
  PROVE  SessionInv'
<1> DEFINE Record == [pc : {"idle", "asking", "reading", "answered"},
                      account : Exposed, role : Roles]
<1>1. /\ calls \in [Calls -> Record] /\ wallet \in Exposed /\ events \in Seq(Exposed)
      /\ Len(events) <= MaxEvents
      /\ UNCHANGED <<wallet, events>>
  BY DEF SessionInv, SessionTypeOK, AccountsAnswered, RoleRead, SessionSet, outsideVars
<1>2. CASE AccountsAnswered(c)
  <2>1. /\ calls' = [calls EXCEPT ![c].pc = "reading", ![c].account = wallet]
        /\ wallet \in WalletAccounts /\ calls[c].pc = "asking"
        /\ UNCHANGED <<sessionVars, loading>>
    BY <1>1, <1>2 DEF AccountsAnswered, accountsAnswered, Exposed
  <2>2. calls' \in [Calls -> Record]
    BY <1>1, <2>1
  <2>3. SessionTypeOK'
    BY <1>1, <2>1, <2>2 DEF SessionInv, SessionTypeOK, sessionVars
  <2>4. CallsAreOfOneAccount'
    BY <1>1, <2>1 DEF SessionInv, CallsAreOfOneAccount
  <2>5. SessionIsOneAccounts'
    BY <2>1 DEF SessionInv, SessionIsOneAccounts, sessionVars
  <2>6. c \in InFlight'
    BY <1>1, <2>1 DEF InFlight
  <2> QED BY <2>3, <2>4, <2>5, <2>6 DEF SessionInv, LoadingIsConnecting
<1>3. CASE RoleRead(c)
  <2>1. /\ calls' = [calls EXCEPT ![c].pc = "answered", ![c].role = roleOf(calls[c].account)]
        /\ calls[c].pc = "reading"
        /\ UNCHANGED <<sessionVars, loading>>
    BY <1>3 DEF RoleRead, roleRead
  <2>2. calls' \in [Calls -> Record]
    BY <1>1, <2>1, RoleOfAccount
  <2>3. SessionTypeOK'
    BY <1>1, <2>1, <2>2 DEF SessionInv, SessionTypeOK, sessionVars
  <2>4. CallsAreOfOneAccount'
    <3> SUFFICES ASSUME NEW d \in Calls
                 PROVE  /\ calls'[d].pc \in {"reading", "answered"} => calls'[d].account \in WalletAccounts
                        /\ calls'[d].pc = "answered" =>
                             (calls'[d].role = "ADMIN") = (calls'[d].account \in ADMIN_ADDRESSES)
      BY DEF CallsAreOfOneAccount
    <3>1. CASE d = c
      <4>1. /\ calls'[d].account = calls[c].account
            /\ calls'[d].role = roleOf(calls[c].account)
            /\ calls[c].account \in WalletAccounts
        BY <1>1, <2>1, <3>1 DEF SessionInv, CallsAreOfOneAccount
      <4> QED BY <4>1, RoleOfAccount
    <3>2. CASE d # c
      BY <1>1, <2>1, <3>2 DEF SessionInv, CallsAreOfOneAccount
    <3> QED BY <3>1, <3>2
  <2>5. SessionIsOneAccounts'
    BY <2>1 DEF SessionInv, SessionIsOneAccounts, sessionVars
  <2>6. c \in InFlight'
    BY <1>1, <2>1 DEF InFlight
  <2> QED BY <2>3, <2>4, <2>5, <2>6 DEF SessionInv, LoadingIsConnecting
<1>4. CASE SessionSet(c)
  <2>1. /\ calls[c].pc = "answered"
        /\ userAddress' = calls[c].account /\ userRole' = calls[c].role
        /\ connectedWallet' = TRUE /\ loading' = FALSE
        /\ calls' = [calls EXCEPT ![c] = Idle]
    BY <1>4 DEF SessionSet, sessionSet
  <2>2. calls' \in [Calls -> Record]
    BY <1>1, <2>1 DEF Idle, Exposed, Roles
  <2>3. SessionTypeOK'
    BY <1>1, <2>1, <2>2 DEF SessionTypeOK
  <2>4. CallsAreOfOneAccount'
    BY <1>1, <2>1 DEF SessionInv, CallsAreOfOneAccount, Idle
  <2>5. SessionIsOneAccounts'
    BY <2>1, SessionAssumption DEF SessionInv, SessionIsOneAccounts, CallsAreOfOneAccount
  <2> QED BY <2>1, <2>3, <2>4, <2>5 DEF SessionInv, LoadingIsConnecting
<1> QED BY <1>2, <1>3, <1>4

LEMMA FailureKeepsSession == ASSUME SessionInv, ConnectFails PROVE SessionInv'
<1>1. PICK c \in Calls : connectFails(c)
  BY DEF ConnectFails
<1>2. /\ calls' = [calls EXCEPT ![c] = Idle] /\ loading' = FALSE
      /\ UNCHANGED <<wallet, events, sessionVars>>
  BY <1>1 DEF ConnectFails, connectFails, outsideVars
<1>3. SessionTypeOK'
  BY <1>2 DEF SessionInv, SessionTypeOK, Idle, Exposed, Roles, sessionVars
<1>4. CallsAreOfOneAccount'
  BY <1>2 DEF SessionInv, SessionTypeOK, CallsAreOfOneAccount, Idle
<1>5. SessionIsOneAccounts'
  BY <1>2 DEF SessionInv, SessionIsOneAccounts, sessionVars
<1> QED BY <1>2, <1>3, <1>4, <1>5 DEF SessionInv, LoadingIsConnecting

LEMMA EventKeepsSession == ASSUME SessionInv, HandleAccountsChanged PROVE SessionInv'
<1>1. /\ events \in Seq(Exposed) /\ events # << >> /\ events' = Tail(events)
      /\ Len(events) <= MaxEvents /\ MaxEvents \in Nat /\ wallet' = wallet
  BY SessionAssumption DEF SessionInv, SessionTypeOK, HandleAccountsChanged
<1>2. events' \in Seq(Exposed) /\ Len(events') <= MaxEvents
  BY <1>1
<1>3. CASE \E c \in Calls : connectWallet(c) /\ UNCHANGED sessionVars
  BY <1>1, <1>2, <1>3, ConnectingKeepsSession
     DEF SessionInv, SessionTypeOK, sessionVars
<1>4. CASE logout /\ UNCHANGED <<calls, loading>>
  <2>1. SessionTypeOK'
    BY <1>1, <1>2, <1>4 DEF SessionInv, SessionTypeOK, logout, Exposed, Roles
  <2> QED
    BY <1>4, <2>1 DEF SessionInv, CallsAreOfOneAccount, SessionIsOneAccounts,
                      LoadingIsConnecting, InFlight, logout
<1> QED BY <1>3, <1>4 DEF HandleAccountsChanged

LEMMA LoadKeepsSession == ASSUME SessionInv, PageLoad PROVE SessionInv'
<1>1. /\ events' = << >> /\ userAddress' = NoAccount /\ userRole' = "PUBLIC"
      /\ UNCHANGED <<wallet, connectedWallet>> /\ pageLoad /\ MaxEvents \in Nat
  BY SessionAssumption DEF PageLoad
<1>2. CASE connectedWallet
  <2>1. PICK c \in Calls :
          /\ calls' = [d \in Calls |-> IF d = c THEN [Idle EXCEPT !.pc = "asking"] ELSE Idle]
          /\ loading' = TRUE
    BY <1>1, <1>2 DEF pageLoad
  <2>2. SessionTypeOK'
    BY <1>1, <2>1 DEF SessionInv, SessionTypeOK, Idle, Exposed, Roles
  <2>3. c \in InFlight'
    BY <2>1 DEF InFlight, Idle
  <2>4. CallsAreOfOneAccount'
    BY <2>1 DEF CallsAreOfOneAccount, Idle
  <2> QED BY <1>1, <2>2, <2>3, <2>4 DEF SessionInv, SessionIsOneAccounts, LoadingIsConnecting
<1>3. CASE ~connectedWallet
  <2>1. calls' = [c \in Calls |-> Idle] /\ loading' = FALSE
    BY <1>1, <1>3 DEF pageLoad
  <2>2. SessionTypeOK'
    BY <1>1, <2>1, NoCalls, NoEvents DEF SessionInv, SessionTypeOK, Exposed, Roles
  <2>3. CallsAreOfOneAccount'
    BY <2>1 DEF CallsAreOfOneAccount, Idle
  <2> QED BY <1>1, <2>1, <2>2, <2>3 DEF SessionInv, SessionIsOneAccounts, LoadingIsConnecting
<1> QED BY <1>2, <1>3

LEMMA SessionStep == ASSUME SessionInv, [SessionNext]_walletVars PROVE SessionInv'
<1>1. CASE Connect
  <2>1. PICK c \in Calls : connectWallet(c)
    BY <1>1 DEF Connect
  <2> QED
    BY <1>1, <2>1, ConnectingKeepsSession
       DEF Connect, SessionInv, SessionTypeOK, outsideVars, sessionVars
<1>2. CASE UNCHANGED walletVars
  BY <1>2 DEF SessionInv, SessionTypeOK, CallsAreOfOneAccount, SessionIsOneAccounts,
              LoadingIsConnecting, InFlight, walletVars, outsideVars, sessionVars
<1> QED
  BY <1>1, <1>2, OthersKeepSession, CallKeepsSession, FailureKeepsSession,
     EventKeepsSession, LoadKeepsSession DEF SessionNext

\* Whatever calls of connectWallet overlap, however many accounts and calls
\* there are: the address, the role and the flag are all of one account, and
\* the page is never loading for nothing.
THEOREM SessionSafety ==
  SessionSpec => [](SessionTypeOK /\ SessionIsOneAccounts /\ LoadingIsConnecting)
<1>1. SessionInit => SessionInv
  BY SessionInitially
<1>2. SessionInv /\ [SessionNext]_walletVars => SessionInv'
  BY SessionStep
<1>3. SessionInv => SessionTypeOK /\ SessionIsOneAccounts /\ LoadingIsConnecting
  BY DEF SessionInv
<1> QED BY <1>1, <1>2, <1>3, PTL DEF SessionSpec
-----------------------------------------------------------------------------
\* What getPlantation may say, and the answers given after a decision.
Shown == VerificationStatus \cup {NotFound}
Judged(s) == s \notin {NotFound, "Submitted"}

PageRecord ==
  [project : Shown, pageLoading : BOOLEAN, isSubmitting : BOOLEAN,
   decision : {"none", "approve", "reject"}, loaded : BOOLEAN, decided : BOOLEAN,
   unsure : BOOLEAN, open : BOOLEAN]
ReadsRecord == [Readers -> {"none", "asked"} \cup Shown]

\* A page waits for something; its decision comes before the read after it.
Waits(g, d) ==
  /\ g.isSubmitting = (g.decision # "none" \/ d["decision"] # "none")
  /\ g.pageLoading /\ g.loaded => \E k \in Readers : d[k] # "none"
  /\ g.decision # "none" => d["decision"] = "none"

\* A page that is sure of what it shows: the chain, s, has judged, so has every
\* answer that is on its way, and what is shown is one of them or about to be.
Sure(g, d, s) ==
  g.decided /\ ~g.unsure =>
    /\ Judged(s)
    /\ \A k \in Readers : d[k] \in {"none", "asked"} \/ Judged(d[k])
    /\ g.pageLoading \/ g.project # "Submitted"

ReviewInv ==
  /\ RegistryInv /\ RegistryListens
  /\ page \in [Pages -> PageRecord]
  /\ reads \in [Pages -> ReadsRecord]
  /\ mishaps \in Nat
  /\ \A p \in Pages : Waits(page[p], reads[p]) /\ Sure(page[p], reads[p], getPlantation)

-----------------------------------------------------------------------------
\* What the chain says of the project: a status or that there is none.
LEMMA ProjectRead ==
  ASSUME RegistryInv
  PROVE  getPlantation \in Shown
<1>1. Registered(projectId) => projectId \in Slots
  BY RegistryAssumption DEF RegistryInv, RegistryTypeOK, Registered, projectId, Slots
<1>2. plantations \in [Slots -> Plantation]
  BY DEF RegistryInv, RegistryTypeOK
<1> QED BY <1>1, <1>2 DEF getPlantation, Shown, Plantation

\* A decision that is mined is one about the project.
LEMMA DecisionJudges ==
  ASSUME RegistryInv, NEW p \in Pages, mined(p)
  PROVE  /\ RegistryInv'
         /\ Judged(getPlantation')
         /\ UNCHANGED registryConfigVars
<1>1. UNCHANGED <<registryConfigVars, plantationIdCounter, plantationsByUploader>>
  BY DEF mined, approved, rejected, callFrame
<1>2. setStatus(projectId, "AdminVerified") \/ setStatus(projectId, "Rejected")
  <2>1. CASE approved
    BY <2>1, Zenon DEF approved, submitAdminVerification
  <2>2. CASE rejected
    BY <2>2, Zenon DEF rejected, submitAdminVerification, flagFakeSubmission
  <2> QED BY <2>1, <2>2 DEF mined
<1>3. PICK st \in {"AdminVerified", "Rejected"} : setStatus(projectId, st)
  BY <1>2
<1>4. projectId \in PlantationIds /\ st \in VerificationStatus /\ RegistryTypeOK
  BY RegistryAssumption DEF projectId, PlantationIds, VerificationStatus, RegistryInv
<1>5. RegistryInv'
  BY <1>1, <1>3, <1>4, RegistryAssumption, StatusKeepsRegistry
<1>6. projectId \in Slots /\ plantations'[projectId].status = st
  BY <1>3, <1>4, RegistryAssumption, StatusSet
<1>7. Registered(projectId)'
  BY <1>1, <1>3 DEF setStatus, updateVerificationStatus, Registered
<1>8. st # NotFound /\ st # "Submitted"
  BY DEF NotFound
<1> QED BY <1>1, <1>5, <1>6, <1>7, <1>8 DEF getPlantation, Judged

\* What the NGO and the oracle do meanwhile takes no decision back.
LEMMA OthersJudge ==
  ASSUME RegistryInv, RegistryListens, OthersAct
  PROVE  /\ RegistryInv'
         /\ Judged(getPlantation) => Judged(getPlantation')
         /\ UNCHANGED registryConfigVars
<1>1. RegistryTypeOK /\ projectId \in PlantationIds /\ MaxPlantations \in Nat
      /\ plantationIdCounter \in Nat /\ (Registered(projectId) => projectId \in Slots)
  BY RegistryAssumption DEF RegistryInv, RegistryTypeOK, projectId, PlantationIds, Slots, Registered
<1>2. CASE Withdraw /\ UNCHANGED <<verificationVars, registryVars, managerVars>>
  <2>1. UNCHANGED registryVars
    BY <1>2
  <2>2. UNCHANGED <<registryConfigVars, plantationIdCounter, plantations>>
    BY <2>1 DEF registryVars, plantationVars
  <2> QED BY <2>1, <2>2, OthersKeep DEF getPlantation, Registered
<1>3. CASE RegisterPlantation
  <2>1. /\ \A i \in Slots : plantations'[i].status = plantations[i].status
        /\ \/ plantationIdCounter' = plantationIdCounter
           \/ plantationIdCounter' = plantationIdCounter + 1
    BY <1>1, <1>3, RegistryAssumption, StatusesStay
  <2>2. Registered(projectId) => Registered(projectId)'
    BY <1>1, <2>1 DEF Registered, projectId
  <2>3. UNCHANGED registryConfigVars
    BY <1>3 DEF RegisterPlantation
  <2>4. RegistryInv'
    BY <1>3, AddressAssumption, RegistryAssumption, RegisterKeeps
  <2> QED BY <1>1, <2>1, <2>2, <2>3, <2>4 DEF Judged, getPlantation
<1>4. CASE OracleScores
  <2>1. PICK id \in PlantationIds, st \in {"AIVerified", "Disputed"} : setStatus(id, st)
    BY <1>4 DEF OracleScores, submitAIScore, flagProjectAsDisputed
  <2>2. UNCHANGED <<registryConfigVars, plantationIdCounter, plantationsByUploader>>
    BY <1>4 DEF OracleScores, callFrame
  <2>3. st \in VerificationStatus /\ Judged(st)
    BY DEF VerificationStatus, Judged, NotFound
  <2>4. RegistryInv'
    BY <2>1, <2>2, <2>3, RegistryAssumption, StatusKeepsRegistry
  <2>5. \A i \in Slots : plantations'[i].status = IF i = id THEN st ELSE plantations[i].status
    BY <1>1, <2>1, <2>3, RegistryAssumption, StatusSet
  <2>6. Registered(projectId)' = Registered(projectId)
    BY <2>2 DEF Registered
  <2> QED BY <1>1, <2>2, <2>3, <2>4, <2>5, <2>6 DEF Judged, getPlantation
<1> QED BY <1>2, <1>3, <1>4 DEF OthersAct

-----------------------------------------------------------------------------
LEMMA ReviewInitially == ASSUME ReviewInit PROVE ReviewInv
<1>1. RegistryInv /\ RegistryListens
  BY AddressAssumption, TokenAssumption, RegistryAssumption, VerificationAssumption,
     WiredRegistryInv DEF ReviewInit, Admitted, RegistryListens, WiredRegistry
<1>2. ClosedPage \in PageRecord
  BY DEF ClosedPage, PageRecord, Shown
<1>3. [k \in Readers |-> "none"] \in ReadsRecord
  BY DEF ReadsRecord
<1>4. Waits(ClosedPage, [k \in Readers |-> "none"])
  BY DEF Waits, ClosedPage, Readers
<1>5. \A s : Sure(ClosedPage, [k \in Readers |-> "none"], s)
  BY DEF Sure, ClosedPage
<1> QED BY <1>1, <1>2, <1>3, <1>4, <1>5 DEF ReviewInit, ReviewInv

\* One page moves: what is shown of it alone makes the invariant hold again.
LEMMA OnePageMoves ==
  ASSUME ReviewInv, NEW p \in Pages, NEW q \in PageRecord, NEW r \in ReadsRecord,
         page' = [page EXCEPT ![p] = q], reads' = [reads EXCEPT ![p] = r],
         Waits(q, r), Sure(q, r, getPlantation'),
         RegistryInv', UNCHANGED registryConfigVars,
         Judged(getPlantation) => Judged(getPlantation'),
         mishaps' \in Nat
  PROVE  ReviewInv'
<1>1. /\ page' \in [Pages -> PageRecord] /\ reads' \in [Pages -> ReadsRecord]
      /\ \A o \in Pages : page'[o] = (IF o = p THEN q ELSE page[o])
                       /\ reads'[o] = (IF o = p THEN r ELSE reads[o])
  BY DEF ReviewInv
<1>2. \A g, d : Sure(g, d, getPlantation) => Sure(g, d, getPlantation')
  BY DEF Sure
<1>3. \A o \in Pages : Waits(page'[o], reads'[o]) /\ Sure(page'[o], reads'[o], getPlantation')
  BY <1>1, <1>2 DEF ReviewInv
<1>4. RegistryListens'
  BY DEF ReviewInv, RegistryListens, registryConfigVars
<1> QED BY <1>1, <1>3, <1>4 DEF ReviewInv

\* The reads of a page: asked, answered, and over.
LEMMA ReadTyped ==
  ASSUME NEW d \in ReadsRecord, NEW k \in Readers, NEW v \in {"none", "asked"} \cup Shown
  PROVE  /\ [d EXCEPT ![k] = v] \in ReadsRecord
         /\ [d EXCEPT ![k] = v][k] = v
         /\ \A j \in Readers \ {k} : [d EXCEPT ![k] = v][j] = d[j]
BY DEF ReadsRecord

LEMMA ShownIsAnAnswer == \A s \in Shown : s # "none" /\ s # "asked"
BY DEF Shown, VerificationStatus, NotFound

\* The chain stands still.
LEMMA ChainStands ==
  ASSUME ReviewInv, UNCHANGED systemVars
  PROVE  RegistryInv' /\ UNCHANGED registryConfigVars /\ getPlantation' = getPlantation
BY OthersKeep DEF systemVars, registryVars, plantationVars, getPlantation, Registered, ReviewInv

LEMMA MishapsCounted == ASSUME ReviewInv, mishap PROVE mishaps' \in Nat
BY DEF ReviewInv, mishap

\* The effect reads, because the contracts are there or have been replaced.
LEMMA EffectKeeps ==
  ASSUME ReviewInv, NEW p \in Pages, effectReads(p), UNCHANGED systemVars, mishaps' \in Nat
  PROVE  ReviewInv'
<1> DEFINE idle == {j \in EffectReads : reads[p][j] = "none"}
           g == page[p]
           d == reads[p]
           q == [[[g EXCEPT !.open = TRUE] EXCEPT !.loaded = TRUE] EXCEPT !.pageLoading = TRUE]
<1>1. PICK k \in EffectReads : reads' = [reads EXCEPT ![p][k] = "asked"]
  <2>1. idle # {} /\ asks(p, CHOOSE j \in idle : TRUE)
    BY DEF effectReads
  <2>2. (CHOOSE j \in idle : TRUE) \in EffectReads
    BY <2>1
  <2> HIDE DEF idle
  <2> QED BY <2>1, <2>2 DEF asks
<1> DEFINE r == [d EXCEPT ![k] = "asked"]
<1>2. g \in PageRecord /\ d \in ReadsRecord /\ k \in Readers /\ k # "decision"
  BY <1>1, ReviewAssumption DEF ReviewInv, Readers
<1>3. q \in PageRecord /\ q.pageLoading = TRUE
      /\ q.isSubmitting = g.isSubmitting /\ q.decision = g.decision
      /\ q.decided = g.decided /\ q.unsure = g.unsure
  BY <1>2 DEF PageRecord
<1>4. r \in ReadsRecord /\ r[k] = "asked" /\ \A j \in Readers \ {k} : r[j] = d[j]
  BY <1>2, ReadTyped
<1>5. page' = [page EXCEPT ![p] = q] /\ reads' = [reads EXCEPT ![p] = r]
  BY <1>1 DEF effectReads, ReviewInv, PageRecord
<1> HIDE DEF q, r
<1>6. Waits(g, d) /\ Sure(g, d, getPlantation)
  BY DEF ReviewInv
<1>7. Waits(q, r)
  BY <1>2, <1>3, <1>4, <1>6 DEF Waits, Readers
<1>8. RegistryInv' /\ UNCHANGED registryConfigVars /\ getPlantation' = getPlantation
  BY ChainStands
<1>9. Sure(q, r, getPlantation)
  BY <1>3, <1>4, <1>6 DEF Sure
<1> QED BY <1>3, <1>4, <1>5, <1>7, <1>8, <1>9, OnePageMoves

\* The page is visited before the session has the contracts.
LEMMA VisitKeeps ==
  ASSUME ReviewInv, NEW p \in Pages, page' = [page EXCEPT ![p].open = TRUE],
         UNCHANGED <<reads, mishaps, systemVars>>
  PROVE  ReviewInv'
<1> DEFINE g == page[p]
           d == reads[p]
           q == [g EXCEPT !.open = TRUE]
<1>1. g \in PageRecord /\ d \in ReadsRecord
  BY DEF ReviewInv
<1>2. q \in PageRecord /\ q.isSubmitting = g.isSubmitting /\ q.decision = g.decision
      /\ q.pageLoading = g.pageLoading /\ q.loaded = g.loaded /\ q.project = g.project
      /\ q.decided = g.decided /\ q.unsure = g.unsure
  BY <1>1 DEF PageRecord
<1>3. page' = [page EXCEPT ![p] = q] /\ reads' = [reads EXCEPT ![p] = d]
  BY DEF ReviewInv, PageRecord
<1> HIDE DEF q
<1>4. Waits(g, d) /\ Sure(g, d, getPlantation)
  BY DEF ReviewInv
<1>5. Waits(q, d) /\ Sure(q, d, getPlantation)
  BY <1>2, <1>4 DEF Waits, Sure
<1>6. RegistryInv' /\ UNCHANGED registryConfigVars /\ getPlantation' = getPlantation
  BY ChainStands
<1>7. mishaps' \in Nat
  BY DEF ReviewInv
<1> QED BY <1>1, <1>2, <1>3, <1>5, <1>6, <1>7, OnePageMoves

\* The chain answers a read.
LEMMA AnswerKeeps ==
  ASSUME ReviewInv, NEW p \in Pages, NEW k \in Readers, ReadAnswered(p, k)
  PROVE  ReviewInv'
<1>1. reads[p][k] = "asked" /\ reads' = [reads EXCEPT ![p][k] = getPlantation]
  BY DEF ReadAnswered
<1>2. UNCHANGED <<page, mishaps, systemVars>>
  BY DEF ReadAnswered
<1>3. PICK v : v = getPlantation
  OBVIOUS
<1> DEFINE g == page[p]
           d == reads[p]
           r == [d EXCEPT ![k] = v]
<1>4. g \in PageRecord /\ d \in ReadsRecord /\ v \in Shown
  BY <1>3, ProjectRead DEF ReviewInv
<1>5. /\ r \in ReadsRecord /\ r[k] = v /\ r[k] # "none"
      /\ \A j \in Readers \ {k} : r[j] = d[j]
  <2>1. v \in {"none", "asked"} \cup Shown /\ v # "none"
    BY <1>4, ShownIsAnAnswer
  <2>2. d \in ReadsRecord
    BY <1>4
  <2> HIDE DEF d
  <2> QED BY <2>1, <2>2, ReadTyped
<1>6. page' = [page EXCEPT ![p] = g] /\ reads' = [reads EXCEPT ![p] = r]
  BY <1>1, <1>2, <1>3 DEF ReviewInv
<1>7. Waits(g, d) /\ Sure(g, d, v) /\ d[k] = "asked"
  BY <1>1, <1>3 DEF ReviewInv
<1> HIDE DEF g, d, r
<1>8. Waits(g, r)
  BY <1>5, <1>7 DEF Waits, Readers
<1>9. Sure(g, r, v)
  BY <1>5, <1>7 DEF Sure
<1>10. RegistryInv' /\ UNCHANGED registryConfigVars /\ getPlantation' = getPlantation
  BY <1>2, ChainStands
<1>11. mishaps' \in Nat
  BY <1>2 DEF ReviewInv
<1> QED BY <1>3, <1>4, <1>5, <1>6, <1>8, <1>9, <1>10, <1>11, OnePageMoves

\* A read is over: with an answer, or without one, which makes the page unsure.
LEMMA ReadEndsKeeps ==
  ASSUME ReviewInv, NEW p \in Pages, NEW k \in Readers, NEW shown \in Shown,
         NEW failed \in BOOLEAN,
         readEnds(p, k, shown, failed), reads[p][k] # "none", UNCHANGED systemVars,
         mishaps' \in Nat,
         ~failed => /\ reads[p][k] # "asked"
                    /\ shown = IF reads[p][k] = NotFound THEN page[p].project ELSE reads[p][k]
  PROVE  ReviewInv'
<1> DEFINE g == page[p]
           d == reads[p]
           b == g.isSubmitting /\ k # "decision"
           u == g.unsure \/ failed
           q == [[[[g EXCEPT !.project = shown] EXCEPT !.pageLoading = FALSE]
                    EXCEPT !.unsure = u] EXCEPT !.isSubmitting = b]
           r == [d EXCEPT ![k] = "none"]
<1>1. g \in PageRecord /\ d \in ReadsRecord
  BY DEF ReviewInv
<1>2. q \in PageRecord /\ q.pageLoading = FALSE /\ q.isSubmitting = b /\ q.unsure = u
      /\ q.decision = g.decision /\ q.decided = g.decided /\ q.project = shown
  BY <1>1 DEF PageRecord
<1>3. r \in ReadsRecord /\ r[k] = "none" /\ \A j \in Readers \ {k} : r[j] = d[j]
  BY <1>1, ReadTyped
<1>4. Waits(g, d) /\ Sure(g, d, getPlantation)
  BY DEF ReviewInv
<1>5. page' = [page EXCEPT ![p] = q] /\ reads' = [reads EXCEPT ![p] = r]
  BY DEF readEnds, ReviewInv, PageRecord
<1> HIDE DEF q, r
<1>6. Waits(q, r)
  BY <1>2, <1>3, <1>4 DEF Waits, Readers
<1>7. RegistryInv' /\ UNCHANGED registryConfigVars /\ getPlantation' = getPlantation
  BY ChainStands
<1>8. Sure(q, r, getPlantation)
  <2> SUFFICES ASSUME g.decided, ~g.unsure, ~failed
               PROVE  /\ Judged(getPlantation)
                      /\ \A j \in Readers : r[j] \in {"none", "asked"} \/ Judged(r[j])
                      /\ shown # "Submitted"
    BY <1>2 DEF Sure
  <2>1. Judged(getPlantation) /\ \A j \in Readers : d[j] \in {"none", "asked"} \/ Judged(d[j])
    BY <1>4 DEF Sure
  <2>2. Judged(d[k]) /\ shown = d[k]
    BY <2>1 DEF Judged
  <2> QED BY <1>3, <2>1, <2>2 DEF Judged
<1> QED BY <1>2, <1>3, <1>5, <1>6, <1>7, <1>8, OnePageMoves

LEMMA ShownKeeps ==
  ASSUME ReviewInv, NEW p \in Pages, NEW k \in Readers, ReadShown(p, k)
  PROVE  ReviewInv'
<1>1. PICK shown : shown = IF reads[p][k] = NotFound THEN page[p].project ELSE reads[p][k]
  OBVIOUS
<1>2. reads[p][k] \notin {"none", "asked"} /\ readEnds(p, k, shown, FALSE)
      /\ UNCHANGED <<mishaps, systemVars>>
  BY <1>1 DEF ReadShown, readEnds
<1>3. shown \in Shown
  BY <1>1, <1>2 DEF ReviewInv, PageRecord, ReadsRecord
<1> QED BY <1>1, <1>2, <1>3, ReadEndsKeeps DEF ReviewInv

\* The administrator decides.
LEMMA DecisionKeeps ==
  ASSUME ReviewInv, HandleDecision
  PROVE  ReviewInv'
<1>1. PICK p \in Pages, c \in {"approve", "reject"} :
        /\ ~page[p].isSubmitting
        /\ page' = [page EXCEPT ![p].isSubmitting = TRUE, ![p].decision = c]
  BY DEF HandleDecision
<1>2. UNCHANGED <<reads, mishaps, systemVars>>
  BY DEF HandleDecision
<1> DEFINE g == page[p]
           d == reads[p]
           q == [[g EXCEPT !.isSubmitting = TRUE] EXCEPT !.decision = c]
<1>3. g \in PageRecord /\ d \in ReadsRecord
  BY DEF ReviewInv
<1>4. q \in PageRecord /\ q.isSubmitting = TRUE /\ q.decision = c
      /\ q.pageLoading = g.pageLoading /\ q.loaded = g.loaded /\ q.project = g.project
      /\ q.decided = g.decided /\ q.unsure = g.unsure
  BY <1>3 DEF PageRecord
<1>5. page' = [page EXCEPT ![p] = q] /\ reads' = [reads EXCEPT ![p] = d]
  BY <1>1, <1>2 DEF ReviewInv, PageRecord
<1> HIDE DEF q
<1>6. Waits(g, d) /\ Sure(g, d, getPlantation)
  BY DEF ReviewInv
<1>7. Waits(q, d) /\ Sure(q, d, getPlantation)
  BY <1>1, <1>4, <1>6 DEF Waits, Sure
<1>8. RegistryInv' /\ UNCHANGED registryConfigVars /\ getPlantation' = getPlantation
  BY <1>2, ChainStands
<1>9. mishaps' \in Nat
  BY <1>2 DEF ReviewInv
<1> QED BY <1>3, <1>4, <1>5, <1>7, <1>8, <1>9, OnePageMoves

\* A decision is over without a receipt.
LEMMA FailedKeeps ==
  ASSUME ReviewInv, NEW p \in Pages, decisionFails(p), UNCHANGED reads,
         page[p].decision # "none",
         RegistryInv', UNCHANGED registryConfigVars,
         Judged(getPlantation) => Judged(getPlantation'),
         mishaps' \in Nat
  PROVE  ReviewInv'
<1> DEFINE g == page[p]
           d == reads[p]
           q == [[g EXCEPT !.decision = "none"] EXCEPT !.isSubmitting = FALSE]
<1>1. g \in PageRecord /\ d \in ReadsRecord
  BY DEF ReviewInv
<1>2. q \in PageRecord /\ q.isSubmitting = FALSE /\ q.decision = "none"
      /\ q.pageLoading = g.pageLoading /\ q.loaded = g.loaded /\ q.project = g.project
      /\ q.decided = g.decided /\ q.unsure = g.unsure
  BY <1>1 DEF PageRecord
<1>3. page' = [page EXCEPT ![p] = q] /\ reads' = [reads EXCEPT ![p] = d]
  BY DEF decisionFails, ReviewInv, PageRecord
<1> HIDE DEF q
<1>4. Waits(g, d) /\ Sure(g, d, getPlantation)
  BY DEF ReviewInv
<1>5. Waits(q, d) /\ Sure(q, d, getPlantation')
  BY <1>2, <1>4 DEF Waits, Sure
<1> QED BY <1>1, <1>2, <1>3, <1>5, OnePageMoves

\* The receipt of a decision: the page is decided, and reads what became of it.
LEMMA ReceiptKeeps ==
  ASSUME ReviewInv, NEW p \in Pages, DecisionMined(p)
  PROVE  ReviewInv'
<1>1. mined(p) /\ receipt(p) /\ UNCHANGED mishaps
  BY DEF DecisionMined
<1>2. RegistryInv' /\ Judged(getPlantation') /\ UNCHANGED registryConfigVars
  BY <1>1, DecisionJudges DEF ReviewInv
<1>3. page[p].decision # "none"
  BY <1>1 DEF mined
<1> DEFINE g == page[p]
           d == reads[p]
           u == \E k \in EffectReads : d[k] # "none"
           q == [[[[g EXCEPT !.decision = "none"] EXCEPT !.decided = TRUE]
                    EXCEPT !.unsure = u] EXCEPT !.pageLoading = TRUE]
           r == [d EXCEPT !["decision"] = "asked"]
<1>4. g \in PageRecord /\ d \in ReadsRecord
  BY DEF ReviewInv
<1>5. q \in PageRecord /\ q.decision = "none" /\ q.unsure = u /\ q.pageLoading = TRUE
      /\ q.isSubmitting = g.isSubmitting
  BY <1>4 DEF PageRecord
<1>6. r \in ReadsRecord /\ r["decision"] = "asked" /\ \A k \in EffectReads : r[k] = d[k]
  BY <1>4, ReadTyped, ReviewAssumption DEF Readers
<1>7. page' = [page EXCEPT ![p] = q] /\ reads' = [reads EXCEPT ![p] = r]
  BY <1>1 DEF receipt, asks, effectsUnderWay, ReviewInv, PageRecord
<1> HIDE DEF q, r
<1>8. Waits(g, d)
  BY DEF ReviewInv
<1>9. Waits(q, r)
  BY <1>3, <1>5, <1>6, <1>8 DEF Waits, Readers
<1>10. Sure(q, r, getPlantation')
  BY <1>2, <1>5, <1>6 DEF Sure, Readers
<1>11. mishaps' \in Nat
  BY <1>1 DEF ReviewInv
<1> QED BY <1>2, <1>5, <1>6, <1>7, <1>9, <1>10, <1>11, OnePageMoves

\* An answer that is lost.
LEMMA LostKeeps ==
  ASSUME ReviewInv, AnswerLost
  PROVE  ReviewInv'
<1>1. mishaps' \in Nat
  BY MishapsCounted DEF AnswerLost
<1>2. PICK p \in Pages :
        \/ page[p].decision # "none" /\ decisionFails(p) /\ UNCHANGED <<reads, systemVars>>
        \/ mined(p) /\ decisionFails(p) /\ UNCHANGED reads
        \/ /\ \E k \in Readers : reads[p][k] # "none" /\ readEnds(p, k, page[p].project, TRUE)
           /\ UNCHANGED systemVars
  BY Zenon DEF AnswerLost
<1>3. CASE page[p].decision # "none" /\ decisionFails(p) /\ UNCHANGED <<reads, systemVars>>
  BY <1>1, <1>3, ChainStands, FailedKeeps
<1>4. CASE mined(p) /\ decisionFails(p) /\ UNCHANGED reads
  <2>1. page[p].decision # "none"
    BY <1>4 DEF mined
  <2>2. RegistryInv' /\ Judged(getPlantation') /\ UNCHANGED registryConfigVars
    BY <1>4, DecisionJudges DEF ReviewInv
  <2> QED BY <1>1, <1>4, <2>1, <2>2, FailedKeeps
<1>5. CASE /\ \E k \in Readers : reads[p][k] # "none" /\ readEnds(p, k, page[p].project, TRUE)
           /\ UNCHANGED systemVars
  <2>1. PICK k \in Readers : reads[p][k] # "none" /\ readEnds(p, k, page[p].project, TRUE)
    BY <1>5
  <2>2. PICK shown : shown = page[p].project
    OBVIOUS
  <2>3. shown \in Shown
    BY <2>2 DEF ReviewInv, PageRecord
  <2>4. readEnds(p, k, shown, TRUE)
    BY <2>1, <2>2 DEF readEnds
  <2> QED BY <1>1, <1>5, <2>1, <2>3, <2>4, ReadEndsKeeps
<1> QED BY <1>2, <1>3, <1>4, <1>5

LEMMA ReviewStep ==
  ASSUME ReviewInv, [ReviewNext]_reviewVars
  PROVE  ReviewInv'
<1>1. CASE Open \/ ContractsLoaded
  <2>1. UNCHANGED <<mishaps, systemVars>> /\ mishaps' \in Nat
    BY <1>1 DEF Open, ContractsLoaded, ReviewInv
  <2>2. PICK p \in Pages :
          effectReads(p) \/ (page' = [page EXCEPT ![p].open = TRUE] /\ UNCHANGED reads)
    BY <1>1, Zenon DEF Open, ContractsLoaded
  <2> QED BY <2>1, <2>2, EffectKeeps, VisitKeeps
<1>2. CASE Reconnect
  BY <1>2, EffectKeeps, MishapsCounted DEF Reconnect
<1>3. CASE HandleDecision
  BY <1>3, DecisionKeeps
<1>4. CASE \E p \in Pages :
             (\E k \in Readers : ReadAnswered(p, k) \/ ReadShown(p, k)) \/ DecisionMined(p)
  BY <1>4, AnswerKeeps, ShownKeeps, ReceiptKeeps
<1>5. CASE \E p \in Pages : DecisionReverted(p)
  <2>1. PICK p \in Pages : page[p].decision # "none" /\ decisionFails(p)
                           /\ UNCHANGED <<reads, mishaps, systemVars>>
    BY <1>5 DEF DecisionReverted
  <2> QED BY <2>1, ChainStands, FailedKeeps DEF ReviewInv
<1>6. CASE AnswerLost
  BY <1>6, LostKeeps
<1>7. CASE OthersAct
  <2>1. /\ RegistryInv' /\ (Judged(getPlantation) => Judged(getPlantation'))
        /\ UNCHANGED registryConfigVars
    BY <1>7, OthersJudge DEF ReviewInv
  <2>2. UNCHANGED <<page, reads, mishaps>>
    BY <1>7 DEF OthersAct
  <2>3. \A g, d : Sure(g, d, getPlantation) => Sure(g, d, getPlantation')
    BY <2>1 DEF Sure
  <2> QED BY <2>1, <2>2, <2>3 DEF ReviewInv, RegistryListens, registryConfigVars
<1>8. CASE UNCHANGED reviewVars
  <2>1. UNCHANGED <<page, reads, mishaps, systemVars>>
    BY <1>8 DEF reviewVars
  <2>2. RegistryInv' /\ UNCHANGED registryConfigVars /\ getPlantation' = getPlantation
    BY <2>1, ChainStands
  <2> QED BY <2>1, <2>2 DEF ReviewInv, RegistryListens, registryConfigVars
<1> QED BY <1>1, <1>2, <1>3, <1>4, <1>5, <1>6, <1>7, <1>8 DEF ReviewNext

LEMMA ReviewInvariance == ReviewSpec => []ReviewInv
<1>1. ReviewInit => ReviewInv
  BY ReviewInitially
<1>2. ReviewInv /\ [ReviewNext]_reviewVars => ReviewInv'
  BY ReviewStep
<1> QED BY <1>1, <1>2, PTL DEF ReviewSpec

\* Once its session has connected, a page that submits or loads has a call under
\* way that will end it, however its reads, its decision and the session's
\* reconnections overlap.
THEOREM PagesNeverHang == ReviewSpec => []WaitingIsForSomething
<1>1. ReviewInv => WaitingIsForSomething
  BY DEF ReviewInv, Waits, WaitingIsForSomething
<1> QED BY <1>1, ReviewInvariance, PTL

\* A page is not made to offer a decision again by anything but its own stale or
\* failed reads: if no read of its effect was under way when the receipt of its
\* last decision arrived, and none failed since, then whatever other pages,
\* oracle and NGO did meanwhile it shows a status that can no longer be decided.
THEOREM DecisionsAreFinal == ReviewSpec => []DecidedOffersNoDecision
<1>1. ReviewInv => DecidedOffersNoDecision
  BY DEF ReviewInv, Sure, DecidedOffersNoDecision
<1> QED BY <1>1, ReviewInvariance, PTL
=============================================================================
