--------------------------- MODULE WeatherSurvival ---------------------------
(***************************************************************************)
(* WeatherSurvival.sol, the score oracle, over the deployed system: its    *)
(* owner requests a score, the network of oracles computes it from the     *)
(* weather, and the router calls back with it.  Requests are answered in   *)
(* any order, with an error, or never; the router swallows a callback that *)
(* reverts, so that answer is lost and its request spent.                  *)
(*                                                                         *)
(* The contract knows Verification from its constructor, Verification      *)
(* learns of it by setScoreOracleAddress: InitialOracle is whatever was    *)
(* deployed before.                                                        *)
(***************************************************************************)
EXTENDS BlueCarbon, FunctionsRouter

CONSTANTS
  WeatherAddress,   \* the contract's own address
  WeatherOwners,    \* to whom the ownership is offered
  Temperatures,     \* what the weather service answers, in tenths of a degree
  Thresholds,       \* the values setScoreThreshold is called with
  IdealTemperatures, Sensitivities, GasLimits,  \* likewise of the other setters
  CallbackGas       \* the gas a callback with a score takes

ASSUME WeatherAssumption ==
  /\ WeatherAddress \in Accounts \ (Senders \cup {ZeroAddress})
  /\ WeatherOwners \subseteq Accounts
  /\ Temperatures \subseteq Int
  /\ Thresholds \subseteq 0 .. 255
  /\ IdealTemperatures \subseteq -128 .. 127
  /\ Sensitivities \subseteq 0 .. 255
  /\ GasLimits \subseteq Nat
  /\ CallbackGas \in Nat /\ 0 < CallbackGas /\ CallbackGas <= 300000

VARIABLES
  weatherOwner, pendingOwner,   \* s_owner, s_pendingOwner
  scoreThreshold, idealTemperature, scoreSensitivity, gasLimit,
  requestIdToProjectId,
  projectToScore

weatherOwnerVars == <<weatherOwner, pendingOwner>>
scoringVars == <<scoreThreshold, idealTemperature, scoreSensitivity, gasLimit>>
weatherVars == <<weatherOwnerVars, scoringVars, requestIdToProjectId,
                 projectToScore, routerVars>>
scoredSystemVars == <<systemVars, weatherVars>>

WeatherOwnable == INSTANCE ConfirmedOwner WITH owner <- weatherOwner

WeatherInit ==
  /\ weatherOwner = Deployer
  /\ pendingOwner = ZeroAddress
  /\ scoreThreshold = 70
  /\ idealTemperature = 25
  /\ scoreSensitivity = 2
  /\ gasLimit = 300000
  /\ requestIdToProjectId = [id \in RequestIds |-> 0]
  /\ projectToScore = [p \in PlantationIds |-> 0]
  /\ RouterInit
-----------------------------------------------------------------------------
distance(a, b) == IF a >= b THEN a - b ELSE b - a

\* A mistake the properties must catch: the score of a hot place without abs.
survivalScoreSigned(ideal, sensitivity, temperature) ==
  LET score == 1000 - (10 * ideal - temperature) * sensitivity
  IN  IF score < 0 THEN 0 ELSE (score + 5) \div 10

\* The script the network runs: 100 less sensitivity times the distance from
\* the ideal, at least 0, rounded; computed here in tenths.
survivalScore(ideal, sensitivity, temperature) ==
  LET score == 1000 - distance(10 * ideal, temperature) * sensitivity
  IN  IF score < 0 THEN 0 ELSE (score + 5) \div 10

uint8(n) == n % 256

\* The commitment holds what the request was sent with, also after the setters
\* have changed it.
sendRequest(sender, projectId) ==
  /\ WeatherOwnable!onlyOwner(sender)
  /\ requestIdToProjectId' =
       [requestIdToProjectId EXCEPT ![initiatedRequests] = projectId]
  /\ router_sendRequest(
       [committed |-> TRUE, ideal |-> idealTemperature,
        sensitivity |-> scoreSensitivity, callbackGasLimit |-> gasLimit])

\* What Verification and the registry ask of the callback's two calls.
accepted(projectId) ==
  /\ scoreOracleAddress = WeatherAddress
  /\ verificationContractAddress = VerificationAddress
  /\ Registered(projectId)

submitVerdict(projectId, score) ==
  \/ /\ score >= scoreThreshold
     /\ submitAIScore(WeatherAddress, projectId, uint8(score))
  \/ /\ score < scoreThreshold
     /\ flagProjectAsDisputed(WeatherAddress, projectId, uint8(score))

\* A mistake the properties must catch: a refused verdict keeps the score.
_fulfillRequestCatching(requestId, score) ==
  LET projectId == requestIdToProjectId[requestId]
  IN  /\ projectToScore' = [projectToScore EXCEPT ![projectId] = score]
      /\ \/ submitVerdict(projectId, score)
         \/ ~accepted(projectId) /\ UNCHANGED <<verificationRecords, plantations>>

\* The callback with a score; with an error it changes nothing.
_fulfillRequest(requestId, score) ==
  LET projectId == requestIdToProjectId[requestId]
  IN  /\ projectToScore' = [projectToScore EXCEPT ![projectId] = score]
      /\ submitVerdict(projectId, score)

callbackReverts(requestId) ==
  \/ commitments[requestId].callbackGasLimit < CallbackGas
  \/ ~accepted(requestIdToProjectId[requestId])

setScoreThreshold(sender, newThreshold) ==
  /\ WeatherOwnable!onlyOwner(sender)
  /\ newThreshold <= 100
  /\ scoreThreshold' = newThreshold

setIdealTemperature(sender, newTemp) ==
  /\ WeatherOwnable!onlyOwner(sender)
  /\ idealTemperature' = newTemp

setScoreSensitivity(sender, newSensitivity) ==
  /\ WeatherOwnable!onlyOwner(sender)
  /\ newSensitivity > 0
  /\ scoreSensitivity' = newSensitivity

setGasLimit(sender, newGasLimit) ==
  /\ WeatherOwnable!onlyOwner(sender)
  /\ newGasLimit > 0
  /\ gasLimit' = newGasLimit
-----------------------------------------------------------------------------
SendRequest ==
  /\ initiatedRequests < MaxRequests
  /\ \E s \in Senders, p \in PlantationIds : sendRequest(s, p)
  /\ UNCHANGED <<systemVars, weatherOwnerVars, scoringVars, projectToScore>>

\* What no answer touches, and what an answer without effect leaves alone.
answerFrame ==
  /\ UNCHANGED <<verificationConfigVars, hasPeerVerified, stakedAmount, reputationScore>>
  /\ UNCHANGED <<weatherOwnerVars, scoringVars, requestIdToProjectId>>
  /\ callFrame

keepVerdicts == UNCHANGED <<projectToScore, verificationRecords, plantations>>

FulfillScore ==
  /\ \E id \in inFlight, t \in Temperatures :
       LET c == commitments[id]
       IN  /\ c.callbackGasLimit >= CallbackGas
           /\ _fulfillRequest(id, survivalScore(c.ideal, c.sensitivity, t))
           /\ closeRequest(id)
  /\ answerFrame

FulfillReverted ==
  /\ \E id \in inFlight : callbackReverts(id) /\ closeRequest(id)
  /\ keepVerdicts
  /\ answerFrame

\* The answer is an error, or there is none and somebody times the request out.
CloseUnanswered ==
  /\ \E id \in inFlight : closeRequest(id)
  /\ keepVerdicts
  /\ answerFrame

ConfigureWeather ==
  /\ \E s \in Senders :
       \/ /\ \E n \in Thresholds : setScoreThreshold(s, n)
          /\ UNCHANGED <<weatherOwnerVars, idealTemperature, scoreSensitivity, gasLimit>>
       \/ /\ \E n \in IdealTemperatures : setIdealTemperature(s, n)
          /\ UNCHANGED <<weatherOwnerVars, scoreThreshold, scoreSensitivity, gasLimit>>
       \/ /\ \E n \in Sensitivities : setScoreSensitivity(s, n)
          /\ UNCHANGED <<weatherOwnerVars, scoreThreshold, idealTemperature, gasLimit>>
       \/ /\ \E n \in GasLimits : setGasLimit(s, n)
          /\ UNCHANGED <<weatherOwnerVars, scoreThreshold, idealTemperature, scoreSensitivity>>
       \/ /\ \/ \E a \in WeatherOwners : WeatherOwnable!transferOwnership(s, a)
             \/ WeatherOwnable!acceptOwnership(s)
          /\ UNCHANGED scoringVars
  /\ UNCHANGED <<systemVars, requestIdToProjectId, projectToScore, routerVars>>

WeatherNext ==
  \/ SendRequest
  \/ FulfillScore
  \/ FulfillReverted
  \/ CloseUnanswered
  \/ ConfigureWeather

ScoredNext == WeatherNext \/ (Next /\ UNCHANGED weatherVars)

ScoredSpec == Init /\ WeatherInit /\ [][ScoredNext]_scoredSystemVars
-----------------------------------------------------------------------------
\* Every variable holds a value of its type, and no score exceeds 100: neither
\* the contract nor Verification checks what the network computed.
WeatherTypeOK ==
  /\ weatherOwner \in Accounts
  /\ pendingOwner \in Accounts
  /\ scoreThreshold \in 0 .. 100
  /\ idealTemperature \in -128 .. 127
  /\ scoreSensitivity \in 1 .. 255
  /\ gasLimit \in Nat \ {0}
  /\ requestIdToProjectId \in [RequestIds -> PlantationIds]
  /\ projectToScore \in [PlantationIds -> 0 .. 100]
  /\ initiatedRequests \in 0 .. MaxRequests
  /\ \A id \in inFlight : id < initiatedRequests

\* The score the dashboard reads here is the score Verification recorded, for
\* every plantation: an answer Verification or the registry refuses leaves no
\* score behind, and the cast to uint8 loses nothing.
ScoresAgree ==
  \A p \in PlantationIds :
    projectToScore[p] = verificationRecords[p].survivalPredictionScore

\* What the contract promises, in the terms of a service: its requests are
\* about plantations, and what it records is the plantation's score.
Service == INSTANCE RequestService WITH
  Requests <- RequestIds,
  Subjects <- PlantationIds,
  Answers  <- 0 .. 100,
  asked    <- 0 .. initiatedRequests - 1,
  open     <- inFlight,
  subject  <- requestIdToProjectId,
  recorded <- projectToScore

\* The contract and the router behind it implement the service: whatever the
\* order of answers, errors and reverts, a request ends once and reaches the
\* plantation it was made for, and nothing else moves a score.
ImplementsService == Service!ServiceSpec
=============================================================================
