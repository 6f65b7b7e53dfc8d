--------------------------- MODULE OracleTheorems ---------------------------
(***************************************************************************)
(* The two score oracles.  WeatherSurvival and Verification never disagree *)
(* on a score, and WeatherSurvival with the router behind it implements    *)
(* RequestService, whatever the order, loss and failure of answers.        *)
(* VerificationOracle has on record exactly what it delivered.             *)
(***************************************************************************)
EXTENDS WeatherSurvival, VerificationOracle, TLAPS

\* Verification is only ever configured with oracles that send no transactions
\* themselves: the contract, or one that was retired.
SoleOracle ==
  /\ InitialOracle \notin Senders
  /\ \A a \in Oracles : a \notin Senders

SettingsTyped == idealTemperature \in Int /\ scoreSensitivity \in Nat

RequestsTyped ==
  /\ requestIdToProjectId \in [RequestIds -> PlantationIds]
  /\ \A id \in inFlight :
       commitments[id].ideal \in Int /\ commitments[id].sensitivity \in Nat

ScoresTyped ==
  /\ projectToScore \in [PlantationIds -> 0 .. 100]
  /\ verificationRecords \in [PlantationIds -> VerificationRecord]

\* The strengthening that is inductive: what an answer is computed from, and
\* that no sender but the oracles may score.
ScoreInv ==
  /\ scoreOracleAddress \notin Senders
  /\ SettingsTyped
  /\ RequestsTyped
  /\ ScoresTyped
  /\ ScoresAgree

\* The script's score is a percentage for every weather and every setting, so
\* the cast to uint8 keeps it (WeatherSurvival.sol:39-53, 118).
LEMMA ScoreBound ==
  ASSUME NEW ideal \in Int, NEW sensitivity \in Nat, NEW temperature \in Int
  PROVE  /\ survivalScore(ideal, sensitivity, temperature) \in 0 .. 100
         /\ uint8(survivalScore(ideal, sensitivity, temperature))
              = survivalScore(ideal, sensitivity, temperature)
<1> DEFINE d == distance(10 * ideal, temperature)
           p == d * sensitivity
           score == 1000 - p
<1>1. d \in Nat
  BY DEF distance
<1>2. p \in Nat
  <2>1. \A x, y \in Nat : x * y \in Nat
    OBVIOUS
  <2> QED BY <1>1, <2>1
<1> HIDE DEF d
<1>3. score \in Int /\ score <= 1000
  <2> HIDE DEF p
  <2> QED BY <1>2
<1>4. survivalScore(ideal, sensitivity, temperature)
        = IF score < 0 THEN 0 ELSE (score + 5) \div 10
  BY DEF survivalScore, d
<1> HIDE DEF score
<1>5. survivalScore(ideal, sensitivity, temperature) \in 0 .. 100
  BY <1>3, <1>4
<1> QED BY <1>5 DEF uint8

\* A record stays one, and its score follows, when a verdict is written into it.
LEMMA RecordScored ==
  ASSUME ScoresTyped, NEW project \in PlantationIds, NEW score \in 0 .. 100,
         NEW v \in BOOLEAN, recordScore(project, score, v)
  PROVE  /\ verificationRecords' \in [PlantationIds -> VerificationRecord]
         /\ \A p \in PlantationIds :
              verificationRecords'[p].survivalPredictionScore =
                IF p = project THEN score ELSE verificationRecords[p].survivalPredictionScore
<1> DEFINE r == verificationRecords[project]
           q == [r EXCEPT !.survivalPredictionScore = score, !.aiVerified = v]
<1>1. verificationRecords \in [PlantationIds -> VerificationRecord]
  BY DEF ScoresTyped
<1>2. verificationRecords' = [verificationRecords EXCEPT ![project] = q]
  BY <1>1 DEF recordScore
<1>3. r \in VerificationRecord /\ score \in 0 .. 255
  BY <1>1
<1> HIDE DEF r
<1>4. [r EXCEPT !.survivalPredictionScore = score] \in VerificationRecord
  BY <1>3 DEF VerificationRecord
<1>5. q \in VerificationRecord
  <2> DEFINE scored == [r EXCEPT !.survivalPredictionScore = score]
  <2> HIDE DEF scored
  <2>1. [scored EXCEPT !.aiVerified = v] \in VerificationRecord
    BY <1>4 DEF VerificationRecord, scored
  <2> QED BY <2>1 DEF scored
<1>6. q.survivalPredictionScore = score
  BY <1>3 DEF VerificationRecord
<1> HIDE DEF q
<1> QED BY <1>1, <1>2, <1>5, <1>6

\* Requests that were in flight keep what they were sent with.
LEMMA CloseKeepsTypes ==
  ASSUME RequestsTyped, NEW id \in inFlight, closeRequest(id), UNCHANGED requestIdToProjectId
  PROVE  RequestsTyped'
<1>1. \A i \in inFlight' : i \in inFlight /\ commitments'[i] = commitments[i]
  BY DEF closeRequest, inFlight, NoCommitment
<1> QED BY <1>1 DEF RequestsTyped

\* What an answer does: Verification's record takes the score WeatherSurvival
\* stores, in the same transaction.
LEMMA AnswerKeepsInv ==
  ASSUME Temperatures \subseteq Int, ScoreInv, FulfillScore
  PROVE  ScoreInv'
<1>1. PICK id \in inFlight, t \in Temperatures :
        /\ _fulfillRequest(id, survivalScore(commitments[id].ideal,
                                            commitments[id].sensitivity, t))
        /\ closeRequest(id)
  BY Zenon DEF FulfillScore
<1> DEFINE score == survivalScore(commitments[id].ideal, commitments[id].sensitivity, t)
           project == requestIdToProjectId[id]
<1>2. /\ commitments[id].ideal \in Int
      /\ commitments[id].sensitivity \in Nat
      /\ t \in Int
      /\ project \in PlantationIds
  BY DEF ScoreInv, RequestsTyped, inFlight
<1>3. score \in 0 .. 100 /\ uint8(score) = score
  BY <1>2, ScoreBound, Zenon
<1>4. _fulfillRequest(id, score)
  BY <1>1, Zenon
<1> HIDE DEF score
<1>5. UNCHANGED <<idealTemperature, scoreSensitivity, requestIdToProjectId, scoreOracleAddress>>
  BY DEF FulfillScore, answerFrame, scoringVars, verificationConfigVars
<1>6. projectToScore' = [projectToScore EXCEPT ![project] = score]
  BY <1>4 DEF _fulfillRequest
<1>7. \/ recordScore(project, uint8(score), TRUE)
      \/ recordScore(project, uint8(score), FALSE)
  BY <1>4, Zenon DEF _fulfillRequest, submitVerdict, submitAIScore, flagProjectAsDisputed
<1>8. PICK v \in BOOLEAN : recordScore(project, score, v)
  BY <1>3, <1>7
<1> HIDE DEF project
<1>9. /\ verificationRecords' \in [PlantationIds -> VerificationRecord]
      /\ \A p \in PlantationIds :
           verificationRecords'[p].survivalPredictionScore =
             IF p = project THEN score ELSE verificationRecords[p].survivalPredictionScore
  BY <1>2, <1>3, <1>8, RecordScored DEF ScoreInv
<1>10. ScoresAgree'
  BY <1>2, <1>6, <1>9 DEF ScoresAgree, ScoreInv, ScoresTyped
<1>11. ScoresTyped'
  BY <1>2, <1>3, <1>6, <1>9 DEF ScoresTyped, ScoreInv
<1>12. RequestsTyped'
  BY <1>1, <1>5, CloseKeepsTypes DEF ScoreInv
<1>13. scoreOracleAddress' \notin Senders /\ SettingsTyped'
  BY <1>5 DEF ScoreInv, SettingsTyped
<1> QED BY <1>10, <1>11, <1>12, <1>13 DEF ScoreInv

\* A request commits to the settings of the moment.
LEMMA SendKeepsInv ==
  ASSUME MaxRequests \in Nat, ScoreInv, SendRequest
  PROVE  ScoreInv'
<1>1. PICK s \in Senders, p \in PlantationIds : sendRequest(s, p)
  BY Zenon DEF SendRequest
<1>2. \A i \in inFlight' :
        \/ i \in inFlight /\ commitments'[i] = commitments[i]
        \/ /\ commitments'[i].ideal = idealTemperature
           /\ commitments'[i].sensitivity = scoreSensitivity
  BY <1>1 DEF sendRequest, router_sendRequest, inFlight
<1>3. requestIdToProjectId' \in [RequestIds -> PlantationIds]
  BY <1>1 DEF sendRequest, ScoreInv, RequestsTyped
<1>4. UNCHANGED <<scoreOracleAddress, verificationRecords, idealTemperature,
                  scoreSensitivity, projectToScore>>
  BY DEF SendRequest, systemVars, verificationVars, verificationConfigVars, scoringVars
<1>5. RequestsTyped'
  BY <1>2, <1>3 DEF RequestsTyped, ScoreInv, SettingsTyped
<1>6. /\ scoreOracleAddress' \notin Senders
      /\ SettingsTyped' /\ ScoresTyped' /\ ScoresAgree'
  BY <1>4 DEF ScoreInv, SettingsTyped, ScoresTyped, ScoresAgree
<1> QED BY <1>5, <1>6 DEF ScoreInv

\* An answer that is lost, refused or an error only closes its request.
LEMMA ClosingKeepsInv ==
  ASSUME ScoreInv, FulfillReverted \/ CloseUnanswered
  PROVE  ScoreInv'
<1>1. PICK id \in inFlight : closeRequest(id)
  BY Zenon DEF FulfillReverted, CloseUnanswered
<1>2. UNCHANGED <<scoreOracleAddress, verificationRecords, idealTemperature,
                  scoreSensitivity, projectToScore, requestIdToProjectId>>
  BY DEF FulfillReverted, CloseUnanswered, answerFrame, keepVerdicts,
         verificationConfigVars, scoringVars
<1>3. RequestsTyped'
  BY <1>1, <1>2, CloseKeepsTypes DEF ScoreInv
<1>4. /\ scoreOracleAddress' \notin Senders
      /\ SettingsTyped' /\ ScoresTyped' /\ ScoresAgree'
  BY <1>2 DEF ScoreInv, SettingsTyped, ScoresTyped, ScoresAgree
<1> QED BY <1>3, <1>4 DEF ScoreInv

\* The setters change what later requests are sent with, and no score.
LEMMA ConfiguringKeepsInv ==
  ASSUME IdealTemperatures \subseteq Int, Sensitivities \subseteq Nat,
         ScoreInv, ConfigureWeather
  PROVE  ScoreInv'
<1>1. \/ \E n \in IdealTemperatures : idealTemperature' = n
      \/ UNCHANGED idealTemperature
  BY DEF ConfigureWeather, setIdealTemperature, scoringVars
<1>2. \/ \E n \in Sensitivities : scoreSensitivity' = n
      \/ UNCHANGED scoreSensitivity
  BY DEF ConfigureWeather, setScoreSensitivity, scoringVars
<1>3. SettingsTyped'
  BY <1>1, <1>2 DEF SettingsTyped, ScoreInv
<1>4. UNCHANGED <<scoreOracleAddress, verificationRecords, commitments,
                  projectToScore, requestIdToProjectId>>
  BY DEF ConfigureWeather, systemVars, verificationVars, verificationConfigVars, routerVars
<1>5. /\ scoreOracleAddress' \notin Senders
      /\ RequestsTyped' /\ ScoresTyped' /\ ScoresAgree'
  BY <1>4 DEF ScoreInv, RequestsTyped, ScoresTyped, ScoresAgree, inFlight
<1> QED BY <1>3, <1>5 DEF ScoreInv

\* Of Verification's own handlers only the oracle's write scores, and no sender
\* is the oracle; the rest of the system does not write records at all.
LEMMA RecordsKeepScores ==
  ASSUME SoleOracle, ScoreInv, Next
  PROVE  /\ scoreOracleAddress' \notin Senders
         /\ verificationRecords' \in [PlantationIds -> VerificationRecord]
         /\ \A p \in PlantationIds :
              verificationRecords'[p].survivalPredictionScore
                = verificationRecords[p].survivalPredictionScore
<1>1. /\ verificationRecords \in [PlantationIds -> VerificationRecord]
      /\ scoreOracleAddress \notin Senders
  BY DEF ScoreInv, ScoresTyped
<1>2. ASSUME NEW id \in PlantationIds, NEW q \in VerificationRecord,
             q.survivalPredictionScore = verificationRecords[id].survivalPredictionScore,
             verificationRecords' = [verificationRecords EXCEPT ![id] = q],
             UNCHANGED scoreOracleAddress
      PROVE  /\ scoreOracleAddress' \notin Senders
             /\ verificationRecords' \in [PlantationIds -> VerificationRecord]
             /\ \A p \in PlantationIds :
                  verificationRecords'[p].survivalPredictionScore
                    = verificationRecords[p].survivalPredictionScore
  BY <1>1, <1>2
<1>3. CASE AdminApproves
  <2>1. PICK s \in Senders, id \in PlantationIds : submitAdminVerification(s, id, TRUE)
    BY <1>3, Zenon DEF AdminApproves
  <2> DEFINE r == verificationRecords[id]
             q == [r EXCEPT !.adminVerified = TRUE, !.adminTimestamped = TRUE]
  <2>2. verificationRecords' = [verificationRecords EXCEPT ![id] = q]
    BY <1>1, <2>1 DEF submitAdminVerification
  <2>3. UNCHANGED scoreOracleAddress
    BY <1>3 DEF AdminApproves, verificationConfigVars
  <2>4. r \in VerificationRecord
    BY <1>1
  <2>5. q \in VerificationRecord /\ q.survivalPredictionScore = r.survivalPredictionScore
    BY <2>4 DEF VerificationRecord
  <2> HIDE DEF q
  <2> QED BY <1>2, <2>2, <2>3, <2>5
<1>4. CASE AdminRejects
  <2>1. PICK s \in Senders, id \in PlantationIds : submitAdminVerification(s, id, FALSE)
    BY <1>4, Zenon DEF AdminRejects
  <2> DEFINE r == verificationRecords[id]
             q == [r EXCEPT !.adminVerified = FALSE]
  <2>2. verificationRecords' = [verificationRecords EXCEPT ![id] = q]
    BY <1>1, <2>1 DEF submitAdminVerification
  <2>3. UNCHANGED scoreOracleAddress
    BY <1>4 DEF AdminRejects, verificationConfigVars
  <2>4. r \in VerificationRecord
    BY <1>1
  <2>5. q \in VerificationRecord /\ q.survivalPredictionScore = r.survivalPredictionScore
    BY <2>4 DEF VerificationRecord
  <2> HIDE DEF q
  <2> QED BY <1>2, <2>2, <2>3, <2>5
<1>5. CASE OracleScores
  BY <1>1, <1>5 DEF OracleScores, submitAIScore, flagProjectAsDisputed
<1>6. CASE PeerConfirms
  <2>1. PICK s \in Peers, id \in PlantationIds : submitPeerVerification(s, id)
    BY <1>6, Zenon DEF PeerConfirms
  <2> DEFINE r == verificationRecords[id]
             q == [r EXCEPT !.peerConfirmations = @ + 1]
  <2>2. verificationRecords' = [verificationRecords EXCEPT ![id] = q]
    BY <1>1, <2>1 DEF submitPeerVerification
  <2>3. UNCHANGED scoreOracleAddress
    BY <1>6 DEF PeerConfirms, verificationConfigVars
  <2>4. r \in VerificationRecord
    BY <1>1
  <2>5. q \in VerificationRecord /\ q.survivalPredictionScore = r.survivalPredictionScore
    BY <2>4 DEF VerificationRecord
  <2> HIDE DEF q
  <2> QED BY <1>2, <2>2, <2>3, <2>5
<1>7. CASE ConfigureVerification
  <2>1. scoreOracleAddress' \notin Senders
    BY <1>1, <1>7 DEF ConfigureVerification, setScoreOracleAddress, SoleOracle
  <2>2. UNCHANGED verificationRecords
    BY <1>7 DEF ConfigureVerification
  <2> QED BY <1>1, <2>1, <2>2
<1>8. CASE UNCHANGED verificationVars
  BY <1>1, <1>8 DEF verificationVars, verificationConfigVars
<1>9. \/ AdminApproves \/ AdminRejects \/ OracleScores \/ PeerConfirms
      \/ ConfigureVerification \/ UNCHANGED verificationVars
  BY Zenon DEF Next, VerificationNext, AdminFlagsFake
<1> QED BY <1>3, <1>4, <1>5, <1>6, <1>7, <1>8, <1>9

LEMMA SystemKeepsInv ==
  ASSUME SoleOracle, ScoreInv, Next, UNCHANGED weatherVars
  PROVE  ScoreInv'
<1>1. UNCHANGED <<idealTemperature, scoreSensitivity, requestIdToProjectId,
                  projectToScore, commitments>>
  BY DEF weatherVars, scoringVars, routerVars
<1>2. SettingsTyped' /\ RequestsTyped'
  BY <1>1 DEF ScoreInv, SettingsTyped, RequestsTyped, inFlight
<1>3. scoreOracleAddress' \notin Senders /\ ScoresTyped' /\ ScoresAgree'
  BY <1>1, RecordsKeepScores DEF ScoreInv, ScoresTyped, ScoresAgree
<1> QED BY <1>2, <1>3 DEF ScoreInv

LEMMA ScoreInitInv ==
  ASSUME SoleOracle, Init, WeatherInit
  PROVE  ScoreInv
<1>1. /\ verificationRecords = [id \in PlantationIds |-> NoRecord]
      /\ scoreOracleAddress = InitialOracle
  BY DEF Init, VerificationInit
<1>2. NoRecord \in VerificationRecord /\ NoRecord.survivalPredictionScore = 0
  BY DEF NoRecord, VerificationRecord
<1>3. inFlight = {}
  BY DEF WeatherInit, RouterInit, inFlight, NoCommitment
<1>4. 0 \in PlantationIds
  BY RegistryAssumption DEF PlantationIds
<1> QED BY <1>1, <1>2, <1>3, <1>4
        DEF WeatherInit, ScoreInv, SettingsTyped, RequestsTyped, ScoresTyped, ScoresAgree, SoleOracle

LEMMA ScoreStep ==
  ASSUME SoleOracle, ScoreInv, ScoredNext,
         Temperatures \subseteq Int, IdealTemperatures \subseteq Int,
         Sensitivities \subseteq Nat, MaxRequests \in Nat
  PROVE  ScoreInv'
<1>1. CASE SendRequest
  BY <1>1, SendKeepsInv
<1>2. CASE FulfillScore
  BY <1>2, AnswerKeepsInv
<1>3. CASE FulfillReverted \/ CloseUnanswered
  BY <1>3, ClosingKeepsInv
<1>4. CASE ConfigureWeather
  BY <1>4, ConfiguringKeepsInv
<1>5. CASE Next /\ UNCHANGED weatherVars
  BY <1>5, SystemKeepsInv
<1> QED BY <1>1, <1>2, <1>3, <1>4, <1>5, Zenon DEF ScoredNext, WeatherNext

LEMMA ScoreStutter ==
  ASSUME ScoreInv, UNCHANGED scoredSystemVars
  PROVE  ScoreInv'
<1>1. UNCHANGED <<verificationRecords, scoreOracleAddress, projectToScore, commitments,
                  idealTemperature, scoreSensitivity, requestIdToProjectId>>
  BY DEF scoredSystemVars, systemVars, verificationVars, verificationConfigVars,
         weatherVars, scoringVars, routerVars
<1> QED BY <1>1 DEF ScoreInv, SettingsTyped, RequestsTyped, ScoresTyped, ScoresAgree, inFlight

LEMMA ScoreConstants ==
  /\ Temperatures \subseteq Int
  /\ IdealTemperatures \subseteq Int
  /\ Sensitivities \subseteq Nat
  /\ MaxRequests \in Nat
BY WeatherAssumption, RouterAssumption

\* The score WeatherSurvival keeps for a plantation is, in every state, the
\* score Verification recorded of it (WeatherSurvival.sol:106-122).
THEOREM ScoresAlwaysAgree ==
  ASSUME SoleOracle
  PROVE  ScoredSpec => []ScoresAgree
<1>1. Init /\ WeatherInit => ScoreInv
  BY ScoreInitInv
<1>2. ScoreInv /\ [ScoredNext]_scoredSystemVars => ScoreInv'
  BY ScoreConstants, ScoreStep, ScoreStutter
<1>3. ScoreInv => ScoresAgree
  BY DEF ScoreInv
<1> QED BY <1>1, <1>2, <1>3, PTL DEF ScoredSpec
-----------------------------------------------------------------------------
\* WeatherTypeOK is inductive together with what a commitment holds: an answer
\* is computed from it after the setters have moved on.
Committed ==
  /\ DOMAIN commitments = RequestIds
  /\ \A i \in inFlight : commitments[i].ideal \in Int /\ commitments[i].sensitivity \in Nat

WeatherInv == WeatherTypeOK /\ Committed

\* A request ends: it is in flight no more, and no other is concerned.
LEMMA ClosingEnds ==
  ASSUME Committed, NEW id \in inFlight, closeRequest(id)
  PROVE  /\ inFlight' = inFlight \ {id}
         /\ Committed'
         /\ initiatedRequests' = initiatedRequests
<1>1. /\ commitments' = [commitments EXCEPT ![id] = NoCommitment]
      /\ initiatedRequests' = initiatedRequests
      /\ DOMAIN commitments = RequestIds /\ id \in RequestIds
  BY DEF closeRequest, Committed, inFlight
<1>2. /\ DOMAIN commitments' = RequestIds
      /\ commitments'[id] = NoCommitment
      /\ \A i \in RequestIds \ {id} : commitments'[i] = commitments[i]
  BY <1>1
<1>3. ~NoCommitment.committed
  BY DEF NoCommitment
<1>4. inFlight' = inFlight \ {id}
  BY <1>2, <1>3 DEF inFlight
<1>5. \A i \in inFlight' : commitments'[i] = commitments[i]
  BY <1>2, <1>4 DEF inFlight
<1> QED BY <1>1, <1>2, <1>4, <1>5 DEF Committed

\* A request is sent under a number that was never used.
LEMMA SendingOpens ==
  ASSUME WeatherInv, NEW s, NEW p \in PlantationIds, sendRequest(s, p),
         initiatedRequests < MaxRequests
  PROVE  /\ initiatedRequests \in RequestIds
         /\ initiatedRequests' = initiatedRequests + 1
         /\ inFlight' = inFlight \cup {initiatedRequests}
         /\ requestIdToProjectId' = [requestIdToProjectId EXCEPT ![initiatedRequests] = p]
         /\ Committed'
<1> DEFINE n == initiatedRequests
           c == [committed |-> TRUE, ideal |-> idealTemperature,
                 sensitivity |-> scoreSensitivity, callbackGasLimit |-> gasLimit]
<1>1. /\ n \in RequestIds /\ DOMAIN commitments = RequestIds
      /\ idealTemperature \in Int /\ scoreSensitivity \in Nat
  BY RouterAssumption DEF WeatherInv, WeatherTypeOK, Committed, RequestIds
<1>2. /\ commitments' = [commitments EXCEPT ![n] = c]
      /\ n' = n + 1
      /\ requestIdToProjectId' = [requestIdToProjectId EXCEPT ![n] = p]
  BY DEF sendRequest, router_sendRequest
<1>3. c.committed /\ c.ideal \in Int /\ c.sensitivity \in Nat
  BY <1>1
<1> HIDE DEF c
<1>4. /\ DOMAIN commitments' = RequestIds
      /\ commitments'[n] = c
      /\ \A i \in RequestIds \ {n} : commitments'[i] = commitments[i]
  BY <1>1, <1>2
<1>5. inFlight' = inFlight \cup {n}
  BY <1>1, <1>3, <1>4 DEF inFlight
<1>6. \A i \in inFlight' : commitments'[i].ideal \in Int /\ commitments'[i].sensitivity \in Nat
  BY <1>3, <1>4, <1>5 DEF WeatherInv, Committed, inFlight
<1> QED BY <1>1, <1>2, <1>4, <1>5, <1>6 DEF Committed

\* An answer is a percentage, and is recorded of the request's plantation.
LEMMA AnswerIsRecorded ==
  ASSUME WeatherInv, FulfillScore
  PROVE  \E id \in inFlight, score \in 0 .. 100 :
           /\ closeRequest(id)
           /\ projectToScore' = [projectToScore EXCEPT ![requestIdToProjectId[id]] = score]
<1>1. PICK id \in inFlight, t \in Temperatures :
        /\ _fulfillRequest(id, survivalScore(commitments[id].ideal,
                                            commitments[id].sensitivity, t))
        /\ closeRequest(id)
  BY Zenon DEF FulfillScore
<1>2. /\ commitments[id].ideal \in Int /\ commitments[id].sensitivity \in Nat
      /\ t \in Int
  BY WeatherAssumption DEF WeatherInv, Committed
<1>3. survivalScore(commitments[id].ideal, commitments[id].sensitivity, t) \in 0 .. 100
  BY <1>2, ScoreBound, Zenon
<1> DEFINE score == survivalScore(commitments[id].ideal, commitments[id].sensitivity, t)
<1>4. _fulfillRequest(id, score)
  BY <1>1, Zenon
<1> HIDE DEF score
<1>5. projectToScore' = [projectToScore EXCEPT ![requestIdToProjectId[id]] = score]
  BY <1>4 DEF _fulfillRequest
<1>6. score \in 0 .. 100
  BY <1>3 DEF score
<1> QED BY <1>1, <1>5, <1>6, Zenon

\* The owner's calls keep the settings within their types and the setters'
\* bounds.
LEMMA SettersKeepTypes ==
  ASSUME WeatherTypeOK, ConfigureWeather
  PROVE  /\ weatherOwner' \in Accounts /\ pendingOwner' \in Accounts
         /\ scoreThreshold' \in 0 .. 100
         /\ idealTemperature' \in -128 .. 127
         /\ scoreSensitivity' \in 1 .. 255
         /\ gasLimit' \in Nat \ {0}
<1>1. PICK s \in Senders :
        \/ /\ \E n \in Thresholds : setScoreThreshold(s, n)
           /\ UNCHANGED <<weatherOwnerVars, idealTemperature, scoreSensitivity, gasLimit>>
        \/ /\ \E n \in IdealTemperatures : setIdealTemperature(s, n)
           /\ UNCHANGED <<weatherOwnerVars, scoreThreshold, scoreSensitivity, gasLimit>>
        \/ /\ \E n \in Sensitivities : setScoreSensitivity(s, n)
           /\ UNCHANGED <<weatherOwnerVars, scoreThreshold, idealTemperature, gasLimit>>
        \/ /\ \E n \in GasLimits : setGasLimit(s, n)
           /\ UNCHANGED <<weatherOwnerVars, scoreThreshold, idealTemperature, scoreSensitivity>>
        \/ /\ \/ \E a \in WeatherOwners : WeatherOwnable!transferOwnership(s, a)
              \/ WeatherOwnable!acceptOwnership(s)
           /\ UNCHANGED scoringVars
  BY DEF ConfigureWeather
<1> USE WeatherAssumption DEF WeatherTypeOK, weatherOwnerVars, scoringVars
<1>2. CASE /\ \E n \in Thresholds : setScoreThreshold(s, n)
           /\ UNCHANGED <<weatherOwnerVars, idealTemperature, scoreSensitivity, gasLimit>>
  BY <1>2 DEF setScoreThreshold
<1>3. CASE /\ \E n \in IdealTemperatures : setIdealTemperature(s, n)
           /\ UNCHANGED <<weatherOwnerVars, scoreThreshold, scoreSensitivity, gasLimit>>
  BY <1>3 DEF setIdealTemperature
<1>4. CASE /\ \E n \in Sensitivities : setScoreSensitivity(s, n)
           /\ UNCHANGED <<weatherOwnerVars, scoreThreshold, idealTemperature, gasLimit>>
  BY <1>4 DEF setScoreSensitivity
<1>5. CASE /\ \E n \in GasLimits : setGasLimit(s, n)
           /\ UNCHANGED <<weatherOwnerVars, scoreThreshold, idealTemperature, scoreSensitivity>>
  BY <1>5 DEF setGasLimit
<1>6. CASE /\ \/ \E a \in WeatherOwners : WeatherOwnable!transferOwnership(s, a)
              \/ WeatherOwnable!acceptOwnership(s)
           /\ UNCHANGED scoringVars
  BY <1>6, AddressAssumption DEF WeatherOwnable!transferOwnership,
              WeatherOwnable!acceptOwnership
<1> QED BY <1>1, <1>2, <1>3, <1>4, <1>5, <1>6

LEMMA WeatherInitially ==
  ASSUME WeatherInit
  PROVE  WeatherInv
<1>1. inFlight = {} /\ DOMAIN commitments = RequestIds /\ initiatedRequests = 0
  BY DEF WeatherInit, RouterInit, inFlight, NoCommitment
<1>2. 0 \in PlantationIds
  BY RegistryAssumption DEF PlantationIds
<1> QED BY <1>1, <1>2, AddressAssumption, RouterAssumption
        DEF WeatherInit, WeatherInv, WeatherTypeOK, Committed

\* One step: the types are kept, and the service takes a step or none.
LEMMA WeatherStep ==
  ASSUME WeatherInv, ScoredNext
  PROVE  WeatherInv' /\ [Service!ServiceNext]_(Service!serviceVars)
<1>1. /\ WeatherTypeOK /\ Committed
      /\ initiatedRequests \in Nat /\ initiatedRequests <= MaxRequests /\ MaxRequests \in Nat
      /\ requestIdToProjectId \in [RequestIds -> PlantationIds]
      /\ projectToScore \in [PlantationIds -> 0 .. 100]
      /\ \A i \in inFlight : i \in RequestIds /\ i < initiatedRequests
  BY RouterAssumption DEF WeatherInv, WeatherTypeOK, inFlight
<1>2. CASE SendRequest
  <2>1. PICK s \in Senders, p \in PlantationIds : sendRequest(s, p)
    BY <1>2 DEF SendRequest
  <2> DEFINE n == initiatedRequests
  <2>2. /\ n \in RequestIds /\ n' = n + 1 /\ n < MaxRequests
        /\ inFlight' = inFlight \cup {n}
        /\ requestIdToProjectId' = [requestIdToProjectId EXCEPT ![n] = p]
        /\ Committed'
    BY <1>2, <2>1, SendingOpens DEF SendRequest
  <2>3. UNCHANGED <<weatherOwnerVars, scoringVars, projectToScore>>
    BY <1>2 DEF SendRequest
  <2>4. WeatherTypeOK'
    <3>1. requestIdToProjectId' \in [RequestIds -> PlantationIds]
      BY <1>1, <2>2
    <3>2. initiatedRequests' \in 0 .. MaxRequests /\ \A i \in inFlight' : i < initiatedRequests'
      BY <1>1, <2>2 DEF RequestIds
    <3> QED BY <1>1, <2>3, <3>1, <3>2 DEF WeatherTypeOK, weatherOwnerVars, scoringVars
  <2>5. 0 .. n' - 1 = (0 .. n - 1) \cup {n} /\ n \notin 0 .. n - 1
    BY <1>1, <2>2
  <2>6. Service!Ask(n, p)
    BY <2>2, <2>3, <2>5 DEF Service!Ask
  <2>7. \E r \in RequestIds : \E q \in PlantationIds : Service!Ask(r, q)
    <3>1. PICK r : r = n
      OBVIOUS
    <3> QED BY <2>2, <2>3, <2>5, <3>1 DEF Service!Ask
  <2>8. Service!ServiceNext
    BY <2>7, Zenon DEF Service!ServiceNext
  <2>9. WeatherInv'
    BY <2>2, <2>4 DEF WeatherInv
  <2> QED BY <2>8, <2>9
<1>3. ASSUME NEW id \in inFlight, closeRequest(id), answerFrame,
             projectToScore' \in [PlantationIds -> 0 .. 100]
      PROVE  WeatherInv' /\ Service!End(id) /\ id \in RequestIds
  <2>1. /\ inFlight' = inFlight \ {id} /\ Committed'
        /\ initiatedRequests' = initiatedRequests
    BY <1>1, <1>3, ClosingEnds
  <2>2. UNCHANGED <<weatherOwnerVars, scoringVars, requestIdToProjectId>>
    BY <1>3 DEF answerFrame
  <2>3. WeatherTypeOK'
    BY <1>1, <1>3, <2>1, <2>2 DEF WeatherTypeOK, weatherOwnerVars, scoringVars
  <2>4. Service!End(id)
    BY <1>3, <2>1, <2>2 DEF Service!End
  <2> QED BY <1>1, <2>1, <2>3, <2>4 DEF WeatherInv
<1>4. CASE FulfillScore
  <2>1. PICK id \in inFlight, score \in 0 .. 100 :
          /\ closeRequest(id)
          /\ projectToScore' = [projectToScore EXCEPT ![requestIdToProjectId[id]] = score]
    BY <1>4, AnswerIsRecorded
  <2>2. projectToScore' \in [PlantationIds -> 0 .. 100]
    BY <1>1, <2>1
  <2>3. WeatherInv' /\ Service!End(id) /\ id \in RequestIds
    BY <1>3, <1>4, <2>1, <2>2 DEF FulfillScore
  <2>4. Service!Answer(id, score)
    BY <2>1, <2>3 DEF Service!Answer
  <2> QED BY <2>3, <2>4 DEF Service!ServiceNext
<1>5. CASE FulfillReverted \/ CloseUnanswered
  <2>1. PICK id \in inFlight : closeRequest(id)
    BY <1>5 DEF FulfillReverted, CloseUnanswered
  <2>2. UNCHANGED projectToScore /\ answerFrame
    BY <1>5 DEF FulfillReverted, CloseUnanswered, keepVerdicts
  <2>3. WeatherInv' /\ Service!End(id) /\ id \in RequestIds
    BY <1>1, <1>3, <2>1, <2>2
  <2>4. Service!Close(id)
    BY <2>2, <2>3 DEF Service!Close
  <2> QED BY <2>3, <2>4 DEF Service!ServiceNext
<1>6. CASE UNCHANGED <<requestIdToProjectId, projectToScore, routerVars>>
           /\ (ConfigureWeather \/ UNCHANGED <<weatherOwnerVars, scoringVars>>)
  <2>1. inFlight' = inFlight /\ Committed' /\ initiatedRequests' = initiatedRequests
    BY <1>1, <1>6 DEF routerVars, inFlight, Committed
  <2>2. /\ weatherOwner' \in Accounts /\ pendingOwner' \in Accounts
        /\ scoreThreshold' \in 0 .. 100
        /\ idealTemperature' \in -128 .. 127
        /\ scoreSensitivity' \in 1 .. 255
        /\ gasLimit' \in Nat \ {0}
    BY <1>1, <1>6, SettersKeepTypes DEF WeatherTypeOK, weatherOwnerVars, scoringVars
  <2>3. WeatherTypeOK'
    BY <1>1, <1>6, <2>1, <2>2 DEF WeatherTypeOK
  <2>4. UNCHANGED Service!serviceVars
    BY <1>6, <2>1 DEF Service!serviceVars
  <2> QED BY <2>1, <2>3, <2>4 DEF WeatherInv
<1> QED
  BY <1>2, <1>4, <1>5, <1>6
     DEF ScoredNext, WeatherNext, ConfigureWeather, weatherVars

LEMMA WeatherStutter ==
  ASSUME WeatherInv, UNCHANGED scoredSystemVars
  PROVE  WeatherInv' /\ UNCHANGED Service!serviceVars
BY DEF WeatherInv, WeatherTypeOK, Committed, inFlight, scoredSystemVars, weatherVars,
       weatherOwnerVars, scoringVars, routerVars, Service!serviceVars

LEMMA WeatherInvariance == ScoredSpec => []WeatherInv
<1>1. Init /\ WeatherInit => WeatherInv
  BY WeatherInitially
<1>2. WeatherInv /\ [ScoredNext]_scoredSystemVars => WeatherInv'
  BY WeatherStep, WeatherStutter
<1> QED BY <1>1, <1>2, PTL DEF ScoredSpec

\* The contract's settings stay within the setters' bounds, every request in
\* flight was initiated, and no score exceeds 100, for any weather.
THEOREM WeatherTypes == ScoredSpec => []WeatherTypeOK
<1>1. WeatherInv => WeatherTypeOK
  BY DEF WeatherInv
<1> QED BY <1>1, WeatherInvariance, PTL

\* sendRequest, the callback and the router implement the service: a request is
\* asked once and ends once, and an answer reaches its own plantation alone.
THEOREM WeatherImplementsService == ScoredSpec => ImplementsService
<1>1. Init /\ WeatherInit => Service!ServiceInit
  <2> SUFFICES ASSUME WeatherInit PROVE Service!ServiceInit
    OBVIOUS
  <2>1. WeatherTypeOK /\ inFlight = {} /\ initiatedRequests = 0
    BY WeatherInitially
       DEF WeatherInv, WeatherInit, RouterInit, inFlight, NoCommitment
  <2>2. 0 .. initiatedRequests - 1 = {}
    BY <2>1
  <2> QED BY <2>1, <2>2 DEF WeatherTypeOK, Service!ServiceInit
<1>2. WeatherInv /\ [ScoredNext]_scoredSystemVars
        => [Service!ServiceNext]_(Service!serviceVars)
  BY WeatherStep, WeatherStutter
<1> QED
  BY <1>1, <1>2, WeatherInvariance, PTL DEF ScoredSpec, ImplementsService, Service!ServiceSpec
-----------------------------------------------------------------------------
\* VerificationOracle: a result that was written carries its provider, so it is
\* never taken for none.
DeliveryInv ==
  /\ DOMAIN oracleResults = Plantations
  /\ DOMAIN received = Plantations
  /\ ResultsAreDelivered

\* What the oracle has on record is what the contract behind it was told, for
\* either of the contracts it may be given.
THEOREM ResultsAlwaysDelivered == OracleSpec => []ResultsAreDelivered
<1>1. OracleInit => DeliveryInv
  BY DEF OracleInit, DeliveryInv, ResultsAreDelivered
<1>2. DeliveryInv /\ [OracleNext]_oracleVars => DeliveryInv'
  <2> SUFFICES ASSUME DeliveryInv, [OracleNext]_oracleVars PROVE DeliveryInv'
    OBVIOUS
  <2>1. CASE SubmitOracleResult
    <3>1. PICK s \in Senders, id \in Plantations, a \in BOOLEAN, c \in Confidences :
            submitOracleResult(s, id, a, c)
      BY <2>1 DEF SubmitOracleResult
    <3> DEFINE result == [approved |-> a, confidenceScore |-> c, provider |-> s]
    <3>2. /\ oracleResults' = [oracleResults EXCEPT ![id] = result]
          /\ received' = [received EXCEPT ![id] = {a}]
      BY <3>1 DEF submitOracleResult, submitAIVerification
    <3>3. result.approved = a /\ result.provider = s
      OBVIOUS
    <3>4. result # NoResult
      <4>1. s # ZeroAddress
        BY AddressAssumption
      <4>2. NoResult.provider = ZeroAddress
        BY DEF NoResult
      <4> QED BY <3>3, <4>1, <4>2
    <3> HIDE DEF result
    <3>5. /\ DOMAIN oracleResults' = Plantations /\ DOMAIN received' = Plantations
          /\ \A i \in Plantations :
               /\ oracleResults'[i] = IF i = id THEN result ELSE oracleResults[i]
               /\ received'[i] = IF i = id THEN {a} ELSE received[i]
      BY <3>2 DEF DeliveryInv
    <3> QED BY <3>3, <3>4, <3>5 DEF DeliveryInv, ResultsAreDelivered
  <2>2. CASE UNCHANGED <<oracleResults, received>>
    BY <2>2 DEF DeliveryInv, ResultsAreDelivered
  <2> QED
    BY <2>1, <2>2 DEF OracleNext, SetOracleProvider, ChangeOracleOwner, oracleVars
<1>3. DeliveryInv => ResultsAreDelivered
  BY DEF DeliveryInv
<1> QED BY <1>1, <1>2, <1>3, PTL DEF OracleSpec
=============================================================================
