---------------------------- MODULE Verification ----------------------------
(***************************************************************************)
(* Verification.sol: the admin's decision, the score oracle's verdict and  *)
(* the peers' confirmations.  Every decision is one transaction over three *)
(* contracts: the record kept here, the status in MRVRegistry, and on a    *)
(* rejection the stake and the reputation in StakeReputation; a revert in  *)
(* any of them undoes it all, so the guards of the callees are conjoined.  *)
(***************************************************************************)
EXTENDS StakeReputation, MRVRegistry

CONSTANTS
  VerificationAddress,   \* the contract's own address
  VerificationOwners,    \* the addresses ownership passes to
  Admins,                \* the values setAdminAddress is called with
  Oracles,               \* the values setScoreOracleAddress is called with
  Peers,                 \* who submits peer verifications
  Scores                 \* the survival scores of the oracle

ASSUME VerificationAssumption ==
  /\ VerificationAddress \in Accounts \ (Senders \cup {ZeroAddress})
  /\ VerificationOwners \subseteq Accounts
  /\ Admins \subseteq Accounts
  /\ Oracles \subseteq Accounts
  /\ Peers \subseteq Senders
  /\ Scores \subseteq 0 .. 255

VARIABLES
  verificationOwner,     \* Ownable._owner
  adminAddress,
  scoreOracleAddress,
  hasPeerVerified,       \* per id, the set of addresses mapped to true
  verificationRecords

verificationConfigVars == <<verificationOwner, adminAddress, scoreOracleAddress>>
verificationVars ==
  <<verificationConfigVars, hasPeerVerified, verificationRecords>>
systemVars == <<verificationVars, registryVars, managerVars, stakeVars, tokenVars>>

VerificationOwnable == INSTANCE Ownable WITH owner <- verificationOwner

\* Of the time of the admin's approval only whether there is one is kept.
VerificationRecord ==
  [adminVerified : BOOLEAN, aiVerified : BOOLEAN, peerConfirmations : Nat,
   survivalPredictionScore : 0 .. 255, adminTimestamped : BOOLEAN]

NoRecord ==
  [adminVerified |-> FALSE, aiVerified |-> FALSE, peerConfirmations |-> 0,
   survivalPredictionScore |-> 0, adminTimestamped |-> FALSE]

VerificationInit(admin, oracle) ==
  /\ verificationOwner = Deployer
  /\ adminAddress = admin
  /\ scoreOracleAddress = oracle
  /\ hasPeerVerified = [id \in PlantationIds |-> {}]
  /\ verificationRecords = [id \in PlantationIds |-> NoRecord]
-----------------------------------------------------------------------------
\* The registry's updateVerificationStatus, called by this contract.
setStatus(id, newStatus) ==
  updateVerificationStatus(VerificationAddress, id, newStatus)

\* Mistakes the properties must catch: the score is stored unscaled, a dispute
\* keeps the old verdict, a rejection forgets the reputation.
recordScoreUnscaled(id, score, verified) ==
  verificationRecords' = [verificationRecords EXCEPT
    ![id].survivalPredictionScore = score * 100, ![id].aiVerified = verified]

disputeKeepingVerdict(sender, id, score) ==
  /\ sender = scoreOracleAddress
  /\ verificationRecords' =
       [verificationRecords EXCEPT ![id].survivalPredictionScore = score]
  /\ setStatus(id, "Disputed")

flagFakeForgettingReputation(sender, id) ==
  /\ sender = adminAddress
  /\ setStatus(id, "Rejected")
  /\ slashStake(VerificationAddress, getPlantationUploader(id))
  /\ UNCHANGED reputationScore
-----------------------------------------------------------------------------
flagFakeSubmission(sender, id) ==
  /\ sender = adminAddress
  /\ setStatus(id, "Rejected")
  /\ LET uploader == getPlantationUploader(id)
     IN  /\ slashStake(VerificationAddress, uploader)
         /\ decreaseReputation(VerificationAddress, uploader)

submitAdminVerification(sender, id, approved) ==
  /\ sender = adminAddress
  /\ \/ /\ approved
        /\ verificationRecords' = [verificationRecords EXCEPT
             ![id].adminVerified = TRUE, ![id].adminTimestamped = TRUE]
        /\ setStatus(id, "AdminVerified")
     \/ /\ ~approved
        /\ verificationRecords' =
             [verificationRecords EXCEPT ![id].adminVerified = FALSE]
        /\ flagFakeSubmission(sender, id)

recordScore(id, score, verified) ==
  verificationRecords' = [verificationRecords EXCEPT
    ![id].survivalPredictionScore = score, ![id].aiVerified = verified]

submitAIScore(sender, id, score) ==
  /\ sender = scoreOracleAddress
  /\ recordScore(id, score, TRUE)
  /\ setStatus(id, "AIVerified")

flagProjectAsDisputed(sender, id, score) ==
  /\ sender = scoreOracleAddress
  /\ recordScore(id, score, FALSE)
  /\ setStatus(id, "Disputed")

submitPeerVerification(sender, id) ==
  /\ sender \notin hasPeerVerified[id]
  /\ hasPeerVerified' = [hasPeerVerified EXCEPT ![id] = @ \cup {sender}]
  /\ verificationRecords' =
       [verificationRecords EXCEPT ![id].peerConfirmations = @ + 1]

setAdminAddress(sender, newAdminAddress) ==
  /\ VerificationOwnable!onlyOwner(sender)
  /\ adminAddress' = newAdminAddress

setScoreOracleAddress(sender, newOracleAddress) ==
  /\ VerificationOwnable!onlyOwner(sender)
  /\ scoreOracleAddress' = newOracleAddress
-----------------------------------------------------------------------------
\* What no call of the verification contract touches.
callFrame == UNCHANGED <<registryConfigVars, plantationIdCounter,
  plantationsByUploader, managerVars, configVars, tokenVars>>

AdminApproves ==
  /\ \E s \in Senders, id \in PlantationIds : submitAdminVerification(s, id, TRUE)
  /\ UNCHANGED <<verificationConfigVars, hasPeerVerified, stakedAmount, reputationScore>>
  /\ callFrame

AdminRejects ==
  /\ \E s \in Senders, id \in PlantationIds : submitAdminVerification(s, id, FALSE)
  /\ UNCHANGED <<verificationConfigVars, hasPeerVerified>>
  /\ callFrame

AdminFlagsFake ==
  /\ \E s \in Senders, id \in PlantationIds : flagFakeSubmission(s, id)
  /\ UNCHANGED verificationVars
  /\ callFrame

OracleScores ==
  /\ \E s \in Senders, id \in PlantationIds, n \in Scores :
        submitAIScore(s, id, n) \/ flagProjectAsDisputed(s, id, n)
  /\ UNCHANGED <<verificationConfigVars, hasPeerVerified, stakedAmount, reputationScore>>
  /\ callFrame

PeerConfirms ==
  /\ \E s \in Peers, id \in PlantationIds : submitPeerVerification(s, id)
  /\ UNCHANGED <<verificationConfigVars, plantations, stakedAmount, reputationScore>>
  /\ callFrame

ConfigureVerification ==
  /\ \E s \in Senders :
       \/ /\ \E a \in Admins : setAdminAddress(s, a)
          /\ UNCHANGED <<verificationOwner, scoreOracleAddress>>
       \/ /\ \E a \in Oracles : setScoreOracleAddress(s, a)
          /\ UNCHANGED <<verificationOwner, adminAddress>>
       \/ /\ \E a \in VerificationOwners : VerificationOwnable!passOwnership(s, a)
          /\ UNCHANGED <<adminAddress, scoreOracleAddress>>
  /\ UNCHANGED <<hasPeerVerified, verificationRecords, plantations, stakedAmount,
                 reputationScore>>
  /\ callFrame

VerificationNext ==
  \/ AdminApproves
  \/ AdminRejects
  \/ AdminFlagsFake
  \/ OracleScores
  \/ PeerConfirms
  \/ ConfigureVerification
=============================================================================
