----------------------------- MODULE BlueCarbon -----------------------------
(***************************************************************************)
(* The five contracts together, from the state their deployment leaves:    *)
(* DeployRegistry.s.sol mints the deployer's tokens and makes Verification *)
(* the verification contract of registry and stake; NGOManager is linked   *)
(* by setNGOManager.  Any transaction of any sender may come next.         *)
(***************************************************************************)
EXTENDS Verification

CONSTANTS
  InitialMint,    \* the tokens minted to the deployer, 1000 * 1e18
  InitialAdmin,   \* Verification's constructor arguments
  InitialOracle

ASSUME DeploymentAssumption ==
  /\ InitialMint \in Uint
  /\ InitialAdmin \in Accounts
  /\ InitialOracle \in Accounts

\* What StakeReputation, MRVRegistry and NGOManager are after the scripts.
WiredStake ==
  /\ stakeOwner = Deployer
  /\ verificationContract = VerificationAddress
  /\ stakedAmount = [a \in Accounts |-> 0]
  /\ reputationScore = [a \in Accounts |-> 0]
  /\ minimumStake = InitialMinimumStake
  /\ penaltyRate = 25

WiredRegistry ==
  /\ registryOwner = Deployer
  /\ verificationContractAddress = VerificationAddress
  /\ ngoManager = ManagerAddress
  /\ plantationIdCounter = 0
  /\ plantations = [i \in Slots |-> NoPlantation]
  /\ plantationsByUploader = [a \in Accounts |-> << >>]

DeployedToken ==
  /\ tokenOwner = Deployer
  /\ balance = [a \in Accounts |-> IF a = Deployer THEN InitialMint ELSE 0]
  /\ allowance = [a \in Accounts |-> [s \in Accounts |-> 0]]
  /\ totalSupply = InitialMint

Init ==
  /\ DeployedToken
  /\ WiredStake
  /\ WiredRegistry
  /\ ManagerInit
  /\ VerificationInit(InitialAdmin, InitialOracle)

Next ==
  \/ VerificationNext
  \/ StakeNext /\ UNCHANGED <<verificationVars, registryVars, managerVars>>
  \/ /\ \/ RegisterPlantation
        \/ UpdatePlantation
        \/ AssignCredits
        \/ ConfigureRegistry
     /\ UNCHANGED <<verificationVars, stakeVars>>
  \/ /\ ManagerNext
     /\ UNCHANGED <<verificationVars, registryVars, stakeVars, tokenVars>>

Spec == Init /\ [][Next]_systemVars
-----------------------------------------------------------------------------
\* Verification's own variables; its callees' invariants are theirs.
TypeOK ==
  /\ verificationOwner \in Accounts
  /\ adminAddress \in Accounts
  /\ scoreOracleAddress \in Accounts
  /\ hasPeerVerified \in [PlantationIds -> SUBSET Accounts]
  /\ verificationRecords \in [PlantationIds -> VerificationRecord]

\* While the registry takes statuses from Verification only, the status of a
\* plantation and the record kept of it agree, in whatever order admin and
\* oracle act: an approved plantation carries the approval and its time, one
\* the oracle scored or disputed carries that verdict.  And a record counts
\* every peer that confirmed it once, whatever admin and oracle write meanwhile.
RecordsAgree ==
  /\ \A i \in 0 .. plantationIdCounter - 1 :
       LET r == verificationRecords[i]
           s == plantations[i].status
       IN  /\ s = "AdminVerified" => r.adminVerified /\ r.adminTimestamped
           /\ s = "AIVerified" => r.aiVerified
           /\ s = "Disputed" => ~r.aiVerified
           /\ r.adminVerified => r.adminTimestamped
  /\ \A id \in PlantationIds :
       verificationRecords[id].peerConfirmations = Cardinality(hasPeerVerified[id])

\* The plantations a step rejects, and whose stakes it takes without paying out.
rejectedNow ==
  {i \in Slots : plantations'[i].status = "Rejected" /\ plantations[i].status # "Rejected"}
penalisedNow ==
  {a \in Accounts : stakedAmount'[a] < stakedAmount[a] /\ balance'[a] = balance[a]}

\* Rejection and penalty are one transaction while both contracts listen to
\* Verification: the uploader of a plantation that becomes rejected has a stake,
\* loses the penalty rate of it and twenty points of reputation, and nobody is
\* penalised but the uploader of a plantation that stands rejected.
PenaltyOf(u) ==
  /\ stakedAmount[u] > 0
  /\ stakedAmount[u] - stakedAmount'[u] = slashAmount(u)
  /\ \/ reputationScore[u] - reputationScore'[u] = 20
     \/ reputationScore[u] < 20 /\ reputationScore'[u] = 0

StandsRejected(a) ==
  \E i \in 0 .. plantationIdCounter - 1 :
    plantations[i].uploader = a /\ plantations'[i].status = "Rejected"

RejectionIsAtomic ==
  [][verificationContract = VerificationAddress =>
       /\ \A i \in rejectedNow : PenaltyOf(plantations[i].uploader)
       /\ \A a \in penalisedNow : StandsRejected(a)
    ]_systemVars
=============================================================================
