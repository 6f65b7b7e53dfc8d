------------------------- MODULE BlueCarbonTheorems -------------------------
(***************************************************************************)
(* The five contracts together.  What each contract's own proof shows of   *)
(* it holds of the composition: Verification's decisions and the issue of  *)
(* credits keep the vault solvent and the registry's index exact.  On top  *)
(* of that, plantations and verification records agree, and rejection and  *)
(* penalty are one transaction.                                            *)
(***************************************************************************)
EXTENDS BlueCarbon, StakeReputationTheorems, MRVRegistryTheorems

\* The registry is only ever configured with verification contracts that send
\* no transactions themselves: Verification, or one that replaces it.  Without
\* it an account writes statuses past Verification's records.
OnlyContractsVerify == RegistryVerifiers \cap Senders = {}

RegistryListens == verificationContractAddress \notin Senders

\* What a record says of itself, and of the status of its plantation.
Agrees(r, s) ==
  /\ s = "AdminVerified" => r.adminVerified /\ r.adminTimestamped
  /\ s = "AIVerified" => r.aiVerified
  /\ s = "Disputed" => ~r.aiVerified

Stamped(r) == r.adminVerified => r.adminTimestamped

\* RecordsAgree speaks of registered plantations; the inductive form also of the
\* records of the next one.
RecordsInv ==
  /\ \A i \in 0 .. plantationIdCounter - 1 :
       Agrees(verificationRecords[i], plantations[i].status)
  /\ \A id \in PlantationIds :
       /\ Stamped(verificationRecords[id])
       /\ verificationRecords[id].peerConfirmations = Cardinality(hasPeerVerified[id])

SystemInv ==
  /\ TypeOK
  /\ StakeInv
  /\ RegistryInv
  /\ ManagerInv

DecisionInv == SystemInv /\ RegistryListens /\ RecordsInv
-----------------------------------------------------------------------------
\* The state the deployment leaves.
LEMMA DeployedTokenInv ==
  ASSUME AddressAssumption, TokenAssumption, StakeAssumption, DeploymentAssumption,
         DeployedToken
  PROVE  TokenInv /\ balance[Vault] \in Nat /\ \A a \in Accounts : allowance[Vault][a] = 0
<1> DEFINE zeros == [a \in Accounts |-> 0]
<1>1. /\ IsFiniteSet(Accounts) /\ MaxUint \in Nat /\ InitialMint \in 0 .. MaxUint
      /\ Deployer \in Accounts /\ Vault \in Accounts
  BY DEF AddressAssumption, TokenAssumption, StakeAssumption, DeploymentAssumption, Uint
<1>2. /\ zeros \in [Accounts -> 0 .. MaxUint] /\ zeros[Deployer] = 0
      /\ balance \in [Accounts -> 0 .. MaxUint] /\ balance[Deployer] = InitialMint
      /\ \A b \in Accounts \ {Deployer} : balance[b] = zeros[b]
  BY <1>1 DEF DeployedToken
<1>3. Total(zeros) = 0
  BY TotalOfZero
<1> HIDE DEF zeros
<1>4. Total(balance) = Total(zeros) - zeros[Deployer] + balance[Deployer]
  BY <1>1, <1>2, TotalUpdate
<1>5. Total(balance) = totalSupply
  BY <1>1, <1>2, <1>3, <1>4 DEF DeployedToken
<1>6. TokenTypeOK
  BY <1>1, <1>2 DEF DeployedToken, TokenTypeOK, Uint
<1>7. \A a \in Accounts : allowance[Vault][a] = 0
  BY <1>1 DEF DeployedToken
<1> QED BY <1>1, <1>2, <1>5, <1>6, <1>7 DEF TokenInv, SupplyIsBacked

\* The registry after the scripts, with nothing registered.
LEMMA WiredRegistryInv ==
  ASSUME AddressAssumption, TokenAssumption, RegistryAssumption, VerificationAssumption,
         WiredRegistry
  PROVE  RegistryInv
<1>1. NoPlantation \in Plantation
  BY DEF AddressAssumption, TokenAssumption, NoPlantation, Plantation, Uint,
         VerificationStatus
<1>2. RegistryTypeOK
  BY <1>1 DEF AddressAssumption, RegistryAssumption, VerificationAssumption, WiredRegistry,
              RegistryTypeOK
<1>3. \A a \in Accounts : IndexOf(a)
  BY DEF WiredRegistry, IndexOf, Range
<1>4. \A i \in 0 .. plantationIdCounter - 1 : plantations[i].id = i
  BY DEF WiredRegistry
<1> QED BY <1>2, <1>3, <1>4, IndexIsExact DEF RegistryInv

LEMMA DeployedInv ==
  ASSUME AddressAssumption, TokenAssumption, StakeAssumption, NGOAssumption,
         RegistryAssumption, VerificationAssumption, DeploymentAssumption, Init
  PROVE  DecisionInv
<1> USE DEF Init
<1>1. TypeOK
  BY FS_EmptySet DEF VerificationInit, TypeOK, NoRecord, VerificationRecord,
     AddressAssumption, DeploymentAssumption
<1>2. StakeInv
  <2>1. /\ TokenInv /\ balance[Vault] \in Nat
        /\ \A a \in Accounts : allowance[Vault][a] = 0
    BY DeployedTokenInv
  <2>2. /\ Vault \in Accounts /\ Deployer \in Accounts /\ VerificationAddress \in Accounts
        /\ InitialMinimumStake \in Uint /\ 0 \in Uint
    BY DEF AddressAssumption, TokenAssumption, StakeAssumption, VerificationAssumption, Uint
  <2>3. StakeTypeOK
    BY <2>2 DEF WiredStake, StakeTypeOK
  <2>4. Total(stakedAmount) = 0 /\ stakedAmount[Vault] = 0
    BY <2>2, TotalOfZero DEF WiredStake
  <2> QED BY <2>1, <2>3, <2>4 DEF StakeInv, Solvent
<1>3. RegistryInv
  BY WiredRegistryInv
<1>4. ManagerInv
  BY ManagerInitially
<1>5. RegistryListens
  BY DEF WiredRegistry, VerificationAssumption, RegistryListens
<1>6. RecordsInv
  BY FS_EmptySet DEF WiredRegistry, VerificationInit, RecordsInv, NoRecord, Stamped, Agrees
<1> QED BY <1>1, <1>2, <1>3, <1>4, <1>5, <1>6 DEF DecisionInv, SystemInv
-----------------------------------------------------------------------------
\* What Verification's call of the registry does: one plantation takes the
\* status, and nothing else of it changes.
LEMMA StatusSet ==
  ASSUME RegistryAssumption, RegistryTypeOK, NEW id \in PlantationIds,
         NEW st \in VerificationStatus, setStatus(id, st)
  PROVE  /\ id \in 0 .. plantationIdCounter - 1
         /\ id \in Slots
         /\ plantations[id] \in Plantation
         /\ \A i \in Slots :
              plantations'[i].status = IF i = id THEN st ELSE plantations[i].status
         /\ \E q \in Plantation :
              /\ plantations' = [plantations EXCEPT ![id] = q]
              /\ q.id = plantations[id].id
              /\ q.uploader = plantations[id].uploader
<1>1. /\ id \in 0 .. plantationIdCounter - 1 /\ id \in Slots
      /\ plantations \in [Slots -> Plantation]
  BY DEF setStatus, updateVerificationStatus, Registered, PlantationIds, Slots,
         RegistryTypeOK, RegistryAssumption
<1>2. plantations[id] \in Plantation
  BY <1>1
<1> DEFINE q == [plantations[id] EXCEPT !.status = st]
<1>3. plantations' = [plantations EXCEPT ![id] = q]
  BY DEF setStatus, updateVerificationStatus
<1>4. /\ q \in Plantation /\ q.id = plantations[id].id
      /\ q.uploader = plantations[id].uploader /\ q.status = st
  BY <1>2 DEF Plantation
<1> HIDE DEF q
<1>5. \A i \in Slots :
        plantations'[i].status = IF i = id THEN st ELSE plantations[i].status
  BY <1>1, <1>3, <1>4
<1> QED BY <1>1, <1>2, <1>3, <1>4, <1>5

LEMMA StatusKeepsRegistry ==
  ASSUME RegistryAssumption, RegistryInv, NEW id \in PlantationIds,
         NEW st \in VerificationStatus, setStatus(id, st),
         UNCHANGED <<registryConfigVars, plantationIdCounter, plantationsByUploader>>
  PROVE  RegistryInv'
<1>1. RegistryTypeOK /\ MaxPlantations \in Nat
  BY DEF RegistryInv, RegistryAssumption
<1> QED BY <1>1, StatusSet, RewriteKeeps

\* The slash and the loss of reputation of a rejection.
LEMMA RejectionEffect ==
  ASSUME AddressAssumption, TokenAssumption, StakeAssumption, RegistryAssumption,
         StakeInv, RegistryTypeOK, NEW s, NEW id \in PlantationIds, flagFakeSubmission(s, id)
  PROVE  LET u == plantations[id].uploader
         IN  /\ setStatus(id, "Rejected")
             /\ u \in Accounts
             /\ slashStake(VerificationAddress, u)
             /\ decreaseReputation(VerificationAddress, u)
<1>1. setStatus(id, "Rejected") /\ "Rejected" \in VerificationStatus
  BY DEF flagFakeSubmission, VerificationStatus
<1>2. plantations[id] \in Plantation
  BY <1>1, StatusSet
<1>3. plantations[id].uploader \in Accounts
  BY <1>2 DEF Plantation
<1> QED BY <1>1, <1>3 DEF flagFakeSubmission, getPlantationUploader

LEMMA RejectionKeepsStakes ==
  ASSUME AddressAssumption, TokenAssumption, StakeAssumption, StakeInv,
         NEW u \in Accounts, slashStake(VerificationAddress, u),
         decreaseReputation(VerificationAddress, u), UNCHANGED <<configVars, tokenVars>>
  PROVE  StakeInv'
<1>1. /\ slashAmount(u) \in 0 .. stakedAmount[u]
      /\ stakedAmount' = Debit(stakedAmount, u, slashAmount(u))
      /\ stakedAmount' \in [Accounts -> Uint]
      /\ Total(stakedAmount') = Total(stakedAmount) - slashAmount(u)
      /\ u # Vault
  BY SlashStakeEffect
<1>2. /\ StakeTypeOK /\ TokenInv /\ Vault \in Accounts
      /\ stakedAmount \in [Accounts -> 0 .. MaxUint] /\ balance \in [Accounts -> 0 .. MaxUint]
      /\ MaxUint \in Nat
      /\ Total(stakedAmount) \in Nat /\ Total(stakedAmount) <= balance[Vault]
      /\ stakedAmount[Vault] = 0
      /\ \A a \in Accounts : allowance[Vault][a] = 0
  BY StakeFacts DEF StakeInv
<1>3. reputationScore' \in [Accounts -> Uint]
  BY <1>2, ReputationEffect
<1>4. slashAmount(u) \in Nat /\ balance[Vault] \in Nat
  BY <1>1, <1>2
<1>5. StakeTypeOK'
  BY <1>1, <1>2, <1>3 DEF StakeTypeOK, configVars
<1>6. Solvent'
  BY <1>1, <1>2, <1>4 DEF Solvent, tokenVars
<1>7. TokenInv'
  BY <1>2, TokenUntouched
<1>8. stakedAmount'[Vault] = 0
  BY <1>1, <1>2 DEF Debit
<1> QED BY <1>2, <1>5, <1>6, <1>7, <1>8 DEF StakeInv, tokenVars

\* Whoever is paid, the vault does not lose by it.
LEMMA MintingKeepsStakes ==
  ASSUME AddressAssumption, TokenAssumption, StakeAssumption, RegistryAssumption,
         StakeInv, RegistryTypeOK, AssignCredits, UNCHANGED stakeVars
  PROVE  StakeInv'
<1>1. PICK s \in Senders, id \in PlantationIds : assignCredits(s, id)
  BY DEF AssignCredits
<1> DEFINE u == plantations[id].uploader
           n == plantations[id].treeCount
<1>2. /\ TokenInv' /\ plantations[id] \in Plantation
      /\ balance' = Credit(balance, u, n)
  BY <1>1, MintingKeepsToken DEF AssignCredits, StakeInv
<1>3. u \in Accounts /\ n \in Nat
  <2>1. u \in Accounts /\ n \in Uint
    BY <1>2 DEF Plantation
  <2> HIDE DEF u, n
  <2> QED BY <2>1 DEF TokenAssumption, Uint
<1> HIDE DEF u, n
<1>4. /\ Vault \in Accounts /\ balance \in [Accounts -> Nat] /\ Total(stakedAmount) \in Nat
      /\ Total(stakedAmount) <= balance[Vault]
  BY StakeFacts
<1>5. balance'[Vault] \in Nat /\ balance'[Vault] >= balance[Vault]
  BY <1>2, <1>3, <1>4 DEF Credit
<1>6. stakedAmount' = stakedAmount /\ balance[Vault] \in Nat
  BY <1>4 DEF stakeVars
<1>7. Solvent'
  BY <1>4, <1>5, <1>6 DEF Solvent
<1>8. StakeTypeOK'
  BY DEF StakeInv, StakeTypeOK, stakeVars, configVars
<1> QED BY <1>2, <1>7, <1>8 DEF StakeInv, AssignCredits, stakeVars

LEMMA StakesUntouched ==
  ASSUME StakeInv, UNCHANGED <<stakeVars, tokenVars>>
  PROVE  StakeInv'
BY DEF stakeVars, configVars, tokenVars, StakeInv, TokenInv, TokenTypeOK, SupplyIsBacked,
       StakeTypeOK, Solvent

LEMMA ManagerUntouched ==
  ASSUME ManagerInv, UNCHANGED managerVars
  PROVE  ManagerInv'
BY DEF ManagerInv, ManagerTypeOK, NGOListExact, managerVars

-----------------------------------------------------------------------------
\* What the registry's own calls do to the statuses: nothing, once it listens
\* to a contract; and a new plantation is submitted.
LEMMA StatusesStay ==
  ASSUME RegistryAssumption, RegistryTypeOK, RegistryListens,
         \/ RegisterPlantation
         \/ UpdatePlantation
         \/ AssignCredits
         \/ ConfigureRegistry
  PROVE  /\ \A i \in Slots : plantations'[i].status = plantations[i].status
         /\ \/ plantationIdCounter' = plantationIdCounter
            \/ /\ plantationIdCounter' = plantationIdCounter + 1
               /\ plantationIdCounter \in Slots
               /\ plantations[plantationIdCounter].status = "Submitted"
<1>1. /\ plantations \in [Slots -> Plantation] /\ MaxPlantations \in Nat
      /\ plantationIdCounter \in 0 .. MaxPlantations
      /\ \A i \in Slots : i >= plantationIdCounter => plantations[i] = NoPlantation
      /\ 0 .. plantationIdCounter - 1 \subseteq Slots
  BY DEF RegistryTypeOK, RegistryAssumption, Slots
<1>2. CASE RegisterPlantation
  <2>1. PICK q : /\ q.status = "Submitted"
                 /\ plantations' = [plantations EXCEPT ![plantationIdCounter] = q]
    <3>1. PICK s \in Senders, n \in TreeCounts, h \in Hashes : registerPlantation(s, n, h)
      BY <1>2 DEF RegisterPlantation
    <3>2. newPlantation(s, n, h).status = "Submitted"
      BY DEF newPlantation
    <3> QED BY <3>1, <3>2 DEF registerPlantation
  <2>2. /\ plantationIdCounter \in Slots
        /\ plantationIdCounter' = plantationIdCounter + 1
    BY <1>1, <1>2 DEF RegisterPlantation, registerPlantation, Slots
  <2>3. plantations[plantationIdCounter].status = "Submitted"
    <3>1. plantations[plantationIdCounter] = NoPlantation
      BY <1>1, <2>2
    <3>2. NoPlantation.status = "Submitted"
      BY DEF NoPlantation
    <3> QED BY <3>1, <3>2
  <2> QED BY <1>1, <2>1, <2>2, <2>3
<1>3. CASE UpdatePlantation
  <2>1. plantationIdCounter' = plantationIdCounter
    BY <1>3 DEF UpdatePlantation
  <2>2. PICK id \in 0 .. plantationIdCounter - 1, q \in Plantation :
          /\ plantations' = [plantations EXCEPT ![id] = q]
          /\ q.status = plantations[id].status
    BY <1>3, UpdateRewrites DEF RegistryListens
  <2> QED BY <1>1, <2>1, <2>2
<1>4. CASE AssignCredits
  <2>1. plantationIdCounter' = plantationIdCounter
    BY <1>4 DEF AssignCredits
  <2>2. PICK id \in Slots, q \in Plantation :
          /\ plantations' = [plantations EXCEPT ![id] = q]
          /\ q.status = plantations[id].status
    BY <1>4, AssignRewrites DEF AssignCredits
  <2> QED BY <1>1, <2>1, <2>2
<1>5. CASE ConfigureRegistry
  BY <1>5 DEF ConfigureRegistry, plantationVars
<1> QED BY <1>2, <1>3, <1>4, <1>5

LEMMA ListensOn ==
  ASSUME OnlyContractsVerify, RegistryListens,
         \/ UNCHANGED verificationContractAddress
         \/ ConfigureRegistry
  PROVE  RegistryListens'
BY DEF OnlyContractsVerify, RegistryListens, ConfigureRegistry,
       registry_setVerificationContract

\* The contracts' calls that leave Verification's variables alone.
LEMMA RecordsStay ==
  ASSUME RegistryAssumption, RegistryTypeOK, RecordsInv, UNCHANGED verificationVars,
         \A i \in Slots : plantations'[i].status = plantations[i].status,
         \/ plantationIdCounter' = plantationIdCounter
         \/ /\ plantationIdCounter' = plantationIdCounter + 1
            /\ plantationIdCounter \in Slots
            /\ plantations[plantationIdCounter].status = "Submitted"
  PROVE  RecordsInv'
<1>1. /\ plantationIdCounter \in Nat /\ 0 .. plantationIdCounter - 1 \subseteq Slots
      /\ MaxPlantations \in Nat
  BY DEF RegistryTypeOK, RegistryAssumption, Slots
<1>2. /\ verificationRecords' = verificationRecords
      /\ hasPeerVerified' = hasPeerVerified
  BY DEF verificationVars
<1>3. ASSUME NEW i \in 0 .. plantationIdCounter' - 1
      PROVE  Agrees(verificationRecords[i], plantations'[i].status)
  <2>1. i \in Slots /\ plantations'[i].status = plantations[i].status
    BY <1>1, <1>3
  <2>2. CASE i \in 0 .. plantationIdCounter - 1
    BY <2>1, <2>2 DEF RecordsInv
  <2>3. CASE i = plantationIdCounter /\ plantations[i].status = "Submitted"
    BY <2>1, <2>3 DEF Agrees
  <2> QED BY <1>1, <1>3, <2>2, <2>3
<1> QED BY <1>2, <1>3 DEF RecordsInv

LEMMA TypeStays ==
  ASSUME TypeOK, UNCHANGED verificationVars
  PROVE  TypeOK'
BY DEF TypeOK, verificationVars, verificationConfigVars

\* A decision about one plantation writes its record and its status.
LEMMA DecisionAgrees ==
  ASSUME RegistryAssumption, RegistryTypeOK, TypeOK,
         NEW id \in PlantationIds, NEW st \in VerificationStatus, setStatus(id, st),
         NEW r \in VerificationRecord,
         verificationRecords' = [verificationRecords EXCEPT ![id] = r],
         RecordsInv => Agrees(r, st) /\ Stamped(r),
         r.peerConfirmations = verificationRecords[id].peerConfirmations,
         UNCHANGED <<verificationConfigVars, hasPeerVerified, plantationIdCounter>>
  PROVE  TypeOK' /\ (RecordsInv => RecordsInv')
<1>1. /\ id \in Slots
      /\ \A i \in Slots : plantations'[i].status = IF i = id THEN st ELSE plantations[i].status
      /\ 0 .. plantationIdCounter - 1 \subseteq Slots
      /\ 0 .. plantationIdCounter - 1 \subseteq PlantationIds
  BY StatusSet DEF Slots, PlantationIds, RegistryTypeOK, RegistryAssumption
<1>2. /\ verificationRecords \in [PlantationIds -> VerificationRecord]
      /\ verificationRecords' \in [PlantationIds -> VerificationRecord]
      /\ \A i \in PlantationIds :
           verificationRecords'[i] = IF i = id THEN r ELSE verificationRecords[i]
  BY DEF TypeOK
<1>3. TypeOK'
  BY <1>2 DEF TypeOK, verificationConfigVars
<1>4. ASSUME RecordsInv PROVE RecordsInv'
  <2>1. \A i \in 0 .. plantationIdCounter - 1 :
          Agrees(verificationRecords'[i], plantations'[i].status)
    BY <1>1, <1>2, <1>4 DEF RecordsInv
  <2>2. \A i \in PlantationIds :
          /\ Stamped(verificationRecords'[i])
          /\ verificationRecords'[i].peerConfirmations = Cardinality(hasPeerVerified[i])
    BY <1>2, <1>4 DEF RecordsInv
  <2> QED BY <2>1, <2>2 DEF RecordsInv
<1> QED BY <1>3, <1>4

LEMMA ApprovalAgrees ==
  ASSUME RegistryAssumption, RegistryTypeOK, TypeOK, AdminApproves
  PROVE  TypeOK' /\ (RecordsInv => RecordsInv')
<1>1. PICK s \in Senders, id \in PlantationIds : submitAdminVerification(s, id, TRUE)
  BY DEF AdminApproves
<1> DEFINE r == [verificationRecords[id] EXCEPT !.adminVerified = TRUE,
                                                !.adminTimestamped = TRUE]
<1>2. verificationRecords[id] \in VerificationRecord
  BY DEF TypeOK
<1>3. /\ verificationRecords' = [verificationRecords EXCEPT ![id] = r]
      /\ setStatus(id, "AdminVerified")
  BY <1>1 DEF submitAdminVerification, TypeOK
<1>4. /\ r \in VerificationRecord /\ Agrees(r, "AdminVerified") /\ Stamped(r)
      /\ r.peerConfirmations = verificationRecords[id].peerConfirmations
  BY <1>2 DEF VerificationRecord, Agrees, Stamped
<1> HIDE DEF r
<1>5. "AdminVerified" \in VerificationStatus
  BY DEF VerificationStatus
<1> QED
  BY <1>3, <1>4, <1>5, DecisionAgrees DEF AdminApproves, callFrame

LEMMA RejectionAgrees ==
  ASSUME RegistryAssumption, RegistryTypeOK, TypeOK,
         NEW s, NEW id \in PlantationIds,
         \/ submitAdminVerification(s, id, FALSE)
         \/ flagFakeSubmission(s, id) /\ UNCHANGED verificationRecords,
         UNCHANGED <<verificationConfigVars, hasPeerVerified, plantationIdCounter>>
  PROVE  TypeOK' /\ (RecordsInv => RecordsInv')
<1>1. verificationRecords[id] \in VerificationRecord
  BY DEF TypeOK
<1>2. setStatus(id, "Rejected") /\ "Rejected" \in VerificationStatus
  BY DEF submitAdminVerification, flagFakeSubmission, VerificationStatus
<1>3. CASE verificationRecords' = verificationRecords
  <2>1. verificationRecords' = [verificationRecords EXCEPT ![id] = verificationRecords[id]]
    BY <1>3 DEF TypeOK
  <2>2. RecordsInv =>
          Stamped(verificationRecords[id]) /\ Agrees(verificationRecords[id], "Rejected")
    BY DEF RecordsInv, Agrees
  <2> QED BY <1>1, <1>2, <2>1, <2>2, DecisionAgrees
<1>4. CASE submitAdminVerification(s, id, FALSE)
  <2> DEFINE r == [verificationRecords[id] EXCEPT !.adminVerified = FALSE]
  <2>1. verificationRecords' = [verificationRecords EXCEPT ![id] = r]
    BY <1>4 DEF submitAdminVerification
  <2>2. /\ r \in VerificationRecord /\ Agrees(r, "Rejected") /\ Stamped(r)
        /\ r.peerConfirmations = verificationRecords[id].peerConfirmations
    BY <1>1 DEF VerificationRecord, Agrees, Stamped
  <2> HIDE DEF r
  <2> QED BY <1>2, <2>1, <2>2, DecisionAgrees
<1> QED BY <1>3, <1>4

LEMMA ScoreAgrees ==
  ASSUME RegistryAssumption, VerificationAssumption, RegistryTypeOK, TypeOK,
         OracleScores
  PROVE  TypeOK' /\ (RecordsInv => RecordsInv')
<1>1. PICK s \in Senders, id \in PlantationIds, n \in Scores :
        submitAIScore(s, id, n) \/ flagProjectAsDisputed(s, id, n)
  BY DEF OracleScores
<1>2. PICK v \in BOOLEAN : /\ recordScore(id, n, v)
                           /\ setStatus(id, IF v THEN "AIVerified" ELSE "Disputed")
  BY <1>1 DEF submitAIScore, flagProjectAsDisputed
<1> DEFINE r == [verificationRecords[id] EXCEPT !.survivalPredictionScore = n,
                                                !.aiVerified = v]
           st == IF v THEN "AIVerified" ELSE "Disputed"
<1>3. /\ verificationRecords[id] \in VerificationRecord
      /\ RecordsInv => Stamped(verificationRecords[id])
  BY DEF TypeOK, RecordsInv
<1>4. verificationRecords' = [verificationRecords EXCEPT ![id] = r]
  BY <1>2 DEF recordScore, TypeOK
<1>5. /\ r \in VerificationRecord /\ Agrees(r, st)
      /\ RecordsInv => Stamped(r)
      /\ r.peerConfirmations = verificationRecords[id].peerConfirmations
  BY <1>3 DEF VerificationRecord, Agrees, Stamped, VerificationAssumption
<1>6. st \in VerificationStatus /\ setStatus(id, st)
  BY <1>2 DEF VerificationStatus
<1> HIDE DEF r, st
<1> QED
  BY <1>4, <1>5, <1>6, DecisionAgrees DEF OracleScores, callFrame

\* A peer that confirms is counted once.
LEMMA ConfirmationAgrees ==
  ASSUME AddressAssumption, VerificationAssumption, RegistryAssumption, RegistryTypeOK,
         TypeOK, PeerConfirms
  PROVE  TypeOK' /\ (RecordsInv => RecordsInv')
<1>1. PICK s \in Peers, id \in PlantationIds : submitPeerVerification(s, id)
  BY DEF PeerConfirms
<1> DEFINE old == verificationRecords[id]
           r == [old EXCEPT !.peerConfirmations = @ + 1]
           peers == hasPeerVerified[id]
<1>2. /\ s \in Accounts /\ s \notin peers /\ peers \subseteq Accounts /\ IsFiniteSet(peers)
      /\ old \in VerificationRecord
  BY <1>1, FS_Subset DEF AddressAssumption, VerificationAssumption, TypeOK,
                         submitPeerVerification
<1>3. Cardinality(peers \cup {s}) = Cardinality(peers) + 1
  BY <1>2, FS_AddElement
<1>4. /\ hasPeerVerified' = [hasPeerVerified EXCEPT ![id] = peers \cup {s}]
      /\ verificationRecords' = [verificationRecords EXCEPT ![id] = r]
  BY <1>1 DEF submitPeerVerification
<1>5. /\ r \in VerificationRecord
      /\ r.peerConfirmations = old.peerConfirmations + 1
      /\ r.adminVerified = old.adminVerified
      /\ r.adminTimestamped = old.adminTimestamped
      /\ r.aiVerified = old.aiVerified
  BY <1>2 DEF VerificationRecord
<1> HIDE DEF old, r, peers
<1>6. /\ \A i \in PlantationIds :
           /\ verificationRecords'[i] = IF i = id THEN r ELSE verificationRecords[i]
           /\ hasPeerVerified'[i] = IF i = id THEN peers \cup {s} ELSE hasPeerVerified[i]
      /\ verificationRecords' \in [PlantationIds -> VerificationRecord]
      /\ hasPeerVerified' \in [PlantationIds -> SUBSET Accounts]
  BY <1>2, <1>4, <1>5 DEF TypeOK
<1>7. UNCHANGED <<plantationIdCounter, plantations, verificationConfigVars>>
  BY DEF PeerConfirms, callFrame
<1>8. TypeOK'
  BY <1>6, <1>7 DEF TypeOK, verificationConfigVars
<1>9. 0 .. plantationIdCounter - 1 \subseteq PlantationIds
  BY DEF PlantationIds, RegistryTypeOK, RegistryAssumption
<1>10. ASSUME RecordsInv PROVE RecordsInv'
  <2>1. /\ old.peerConfirmations = Cardinality(peers) /\ Stamped(old)
        /\ \A st : Agrees(old, st) => Agrees(r, st)
        /\ Stamped(r)
    BY <1>5, <1>10 DEF RecordsInv, Stamped, Agrees, old, peers
  <2>2. \A i \in 0 .. plantationIdCounter - 1 :
          Agrees(verificationRecords'[i], plantations[i].status)
    BY <1>6, <1>9, <1>10, <2>1 DEF RecordsInv, old
  <2>3. \A i \in PlantationIds :
          /\ Stamped(verificationRecords'[i])
          /\ verificationRecords'[i].peerConfirmations = Cardinality(hasPeerVerified'[i])
    BY <1>3, <1>5, <1>6, <1>10, <2>1 DEF RecordsInv
  <2> QED BY <1>7, <2>2, <2>3 DEF RecordsInv
<1> QED BY <1>8, <1>10
-----------------------------------------------------------------------------
\* Each contract's invariant holds of the composition.
LEMMA SystemStep ==
  ASSUME AddressAssumption, TokenAssumption, StakeAssumption, NGOAssumption,
         RegistryAssumption, VerificationAssumption, StakeInv, RegistryInv, ManagerInv, Next
  PROVE  StakeInv' /\ RegistryInv' /\ ManagerInv'
<1>1. RegistryTypeOK
  BY DEF RegistryInv
<1>2. CASE VerificationNext
  <2>1. ManagerInv'
    BY <1>2, ManagerUntouched
       DEF VerificationNext, AdminApproves, AdminRejects, AdminFlagsFake, OracleScores,
           PeerConfirms, ConfigureVerification, callFrame
  <2>2. CASE AdminApproves \/ OracleScores
    <3>1. \E id \in PlantationIds, st \in VerificationStatus : setStatus(id, st)
      BY <2>2 DEF AdminApproves, OracleScores, submitAdminVerification, submitAIScore,
                  flagProjectAsDisputed, VerificationStatus
    <3>2. RegistryInv'
      BY <2>2, <3>1, StatusKeepsRegistry DEF AdminApproves, OracleScores, callFrame
    <3>3. StakeInv'
      BY <2>2, StakesUntouched DEF AdminApproves, OracleScores, callFrame, stakeVars
    <3> QED BY <2>1, <3>2, <3>3
  <2>3. CASE AdminRejects \/ AdminFlagsFake
    <3>1. PICK s \in Senders, id \in PlantationIds : flagFakeSubmission(s, id)
      BY <2>3 DEF AdminRejects, AdminFlagsFake, submitAdminVerification
    <3>2. setStatus(id, "Rejected") /\ "Rejected" \in VerificationStatus
      BY <3>1 DEF flagFakeSubmission, VerificationStatus
    <3>3. RegistryInv'
      BY <2>3, <3>2, StatusKeepsRegistry DEF AdminRejects, AdminFlagsFake, callFrame
    <3>4. StakeInv'
      BY <1>1, <2>3, <3>1, RejectionEffect, RejectionKeepsStakes
         DEF AdminRejects, AdminFlagsFake, callFrame
    <3> QED BY <2>1, <3>3, <3>4
  <2>4. CASE PeerConfirms \/ ConfigureVerification
    <3>1. StakeInv'
      BY <2>4, StakesUntouched DEF PeerConfirms, ConfigureVerification, callFrame, stakeVars
    <3>2. RegistryInv'
      BY <2>4, OthersKeep DEF PeerConfirms, ConfigureVerification, callFrame, registryVars,
                              plantationVars
    <3> QED BY <2>1, <3>1, <3>2
  <2> QED BY <1>2, <2>2, <2>3, <2>4 DEF VerificationNext
<1>3. CASE StakeNext /\ UNCHANGED <<verificationVars, registryVars, managerVars>>
  BY <1>3, StakeStep, OthersKeep, ManagerUntouched
<1>4. CASE RegisterPlantation /\ UNCHANGED stakeVars
  BY <1>4, RegisterKeeps, StakesUntouched, ManagerUntouched DEF RegisterPlantation
<1>5. CASE UpdatePlantation /\ UNCHANGED stakeVars
  BY <1>5, UpdateKeeps, StakesUntouched, ManagerUntouched DEF UpdatePlantation
<1>6. CASE AssignCredits /\ UNCHANGED stakeVars
  BY <1>1, <1>6, AssignKeeps, MintingKeepsStakes, ManagerUntouched DEF AssignCredits
<1>7. CASE ConfigureRegistry /\ UNCHANGED stakeVars
  BY <1>7, ConfigureKeeps, StakesUntouched, ManagerUntouched DEF ConfigureRegistry
<1>8. CASE ManagerNext /\ UNCHANGED <<verificationVars, registryVars, stakeVars, tokenVars>>
  <2>1. ManagerInv'
    BY <1>8, WhitelistKeeps, SetStatusKeeps, OwnerChangeKeeps DEF ManagerNext
  <2> QED BY <1>8, <2>1, StakesUntouched, OthersKeep
<1> QED BY <1>2, <1>3, <1>4, <1>5, <1>6, <1>7, <1>8 DEF Next

LEMMA SystemStutter ==
  ASSUME StakeInv, RegistryInv, ManagerInv, UNCHANGED systemVars
  PROVE  StakeInv' /\ RegistryInv' /\ ManagerInv'
BY StakesUntouched, OthersKeep, ManagerUntouched DEF systemVars

\* Verification's calls: they leave the registry's settings alone.
LEMMA VerificationStep ==
  ASSUME AddressAssumption, VerificationAssumption, RegistryAssumption, RegistryTypeOK,
         TypeOK, VerificationNext
  PROVE  TypeOK' /\ (RecordsInv => RecordsInv')
<1>1. CASE AdminApproves
  BY <1>1, ApprovalAgrees
<1>2. CASE AdminRejects
  BY <1>2, RejectionAgrees DEF AdminRejects, callFrame
<1>3. CASE AdminFlagsFake
  BY <1>3, RejectionAgrees DEF AdminFlagsFake, callFrame, verificationVars
<1>4. CASE OracleScores
  BY <1>4, ScoreAgrees
<1>5. CASE PeerConfirms
  BY <1>5, ConfirmationAgrees
<1>6. CASE ConfigureVerification
  <2>1. /\ verificationOwner' \in Accounts
        /\ adminAddress' \in Accounts
        /\ scoreOracleAddress' \in Accounts
    BY <1>6 DEF ConfigureVerification, setAdminAddress, setScoreOracleAddress,
                VerificationOwnable!passOwnership, VerificationOwnable!transferOwnership,
                VerificationOwnable!renounceOwnership, VerificationAssumption, TypeOK
  <2>2. UNCHANGED <<hasPeerVerified, verificationRecords, plantations, plantationIdCounter>>
    BY <1>6 DEF ConfigureVerification, callFrame
  <2> QED BY <2>1, <2>2 DEF TypeOK, RecordsInv
<1> QED BY <1>1, <1>2, <1>3, <1>4, <1>5, <1>6 DEF VerificationNext

\* No other call writes a record, and while the registry listens to a contract
\* none writes a status.
LEMMA OthersAgree ==
  ASSUME RegistryAssumption, RegistryTypeOK, TypeOK, Next, ~VerificationNext
  PROVE  TypeOK' /\ (RegistryListens /\ RecordsInv => RecordsInv')
<1>1. UNCHANGED verificationVars
  BY DEF Next
<1>2. ASSUME RegistryListens, RecordsInv PROVE RecordsInv'
  <2>1. CASE \/ RegisterPlantation
             \/ UpdatePlantation
             \/ AssignCredits
             \/ ConfigureRegistry
    BY <1>1, <1>2, <2>1, StatusesStay, RecordsStay
  <2>2. CASE UNCHANGED registryVars
    BY <1>1, <1>2, <2>2, RecordsStay DEF registryVars, plantationVars
  <2> QED BY <2>1, <2>2 DEF Next
<1> QED BY <1>1, <1>2, TypeStays

LEMMA ListensStep ==
  ASSUME OnlyContractsVerify, RegistryListens, Next
  PROVE  RegistryListens'
<1>1. UNCHANGED verificationContractAddress \/ ConfigureRegistry
  BY DEF Next, VerificationNext, AdminApproves, AdminRejects, AdminFlagsFake, OracleScores,
         PeerConfirms, ConfigureVerification, callFrame, RegisterPlantation, UpdatePlantation,
         AssignCredits, registryConfigVars, registryVars
<1> QED BY <1>1, ListensOn

LEMMA ConstantsAssumed ==
  /\ AddressAssumption /\ TokenAssumption /\ StakeAssumption /\ NGOAssumption
  /\ RegistryAssumption /\ VerificationAssumption /\ DeploymentAssumption
BY AddressAssumption, TokenAssumption, StakeAssumption, NGOAssumption, RegistryAssumption,
   VerificationAssumption, DeploymentAssumption

LEMMA SystemInvariance == Spec => []SystemInv
<1>1. Init => SystemInv
  BY ConstantsAssumed, DeployedInv DEF DecisionInv
<1>2. SystemInv /\ [Next]_systemVars => SystemInv'
  <2> SUFFICES ASSUME SystemInv, [Next]_systemVars PROVE SystemInv'
    OBVIOUS
  <2>1. /\ StakeInv /\ RegistryInv /\ ManagerInv /\ TypeOK /\ RegistryTypeOK
    BY DEF SystemInv, RegistryInv
  <2>2. CASE Next
    BY <2>1, <2>2, ConstantsAssumed, SystemStep, OthersAgree, VerificationStep DEF SystemInv
  <2>3. CASE UNCHANGED systemVars
    BY <2>1, <2>3, SystemStutter, TypeStays DEF SystemInv, systemVars
  <2> QED BY <2>2, <2>3
<1> QED BY <1>1, <1>2, PTL DEF Spec

\* After the deployment, whatever anybody calls on any of the five contracts:
\* Verification's variables keep their types, the token's balances add up to its
\* supply, the vault can pay every stake, and the registry's and the manager's
\* lists match their mappings.  A rejection slashes and assignCredits mints
\* across contracts, which the proofs of the single contracts do not see.
THEOREM SystemSafety ==
  Spec => [](TypeOK /\ SupplyIsBacked /\ Solvent /\ UploaderIndexExact /\ NGOListExact)
<1>1. SystemInv => TypeOK /\ SupplyIsBacked /\ Solvent /\ UploaderIndexExact /\ NGOListExact
  BY DEF SystemInv, StakeInv, TokenInv, RegistryInv, ManagerInv
<1> QED BY <1>1, SystemInvariance, PTL

LEMMA DecisionInvariance ==
  ASSUME OnlyContractsVerify
  PROVE  Spec => []DecisionInv
<1>1. Init => DecisionInv
  BY ConstantsAssumed, DeployedInv
<1>2. SystemInv /\ DecisionInv /\ [Next]_systemVars => RegistryListens' /\ RecordsInv'
  <2> SUFFICES ASSUME DecisionInv, [Next]_systemVars PROVE RegistryListens' /\ RecordsInv'
    OBVIOUS
  <2>1. /\ TypeOK /\ RegistryTypeOK /\ RegistryListens /\ RecordsInv
    BY DEF DecisionInv, SystemInv, RegistryInv
  <2>2. CASE Next
    BY <2>1, <2>2, ConstantsAssumed, ListensStep, OthersAgree, VerificationStep
  <2>3. CASE UNCHANGED systemVars
    <3>1. RegistryListens'
      BY <2>1, <2>3, ListensOn DEF systemVars, registryVars, registryConfigVars
    <3>2. RecordsInv'
      BY <2>1, <2>3, ConstantsAssumed, RecordsStay DEF systemVars, registryVars, plantationVars
    <3> QED BY <3>1, <3>2
  <2> QED BY <2>2, <2>3
<1>3. SystemInv' /\ RegistryListens' /\ RecordsInv' => DecisionInv'
  BY DEF DecisionInv
<1> QED BY <1>1, <1>2, <1>3, SystemInvariance, PTL DEF Spec

\* The status of a plantation and the record of its verification agree in every
\* state (Verification.sol writes the one, MRVRegistry the other), and a record
\* counts every peer once.
THEOREM RecordsAlwaysAgree ==
  ASSUME OnlyContractsVerify
  PROVE  Spec => []RecordsAgree
<1>1. DecisionInv => RecordsAgree
  <2> SUFFICES ASSUME DecisionInv PROVE RecordsAgree
    OBVIOUS
  <2>1. RecordsInv /\ 0 .. plantationIdCounter - 1 \subseteq PlantationIds
    BY ConstantsAssumed DEF DecisionInv, SystemInv, RegistryInv, RegistryTypeOK,
                            RegistryAssumption, PlantationIds
  <2> QED BY <2>1 DEF RecordsInv, RecordsAgree, Agrees, Stamped
<1> QED BY <1>1, DecisionInvariance, PTL
-----------------------------------------------------------------------------
\* A rejection's penalty, in the words of RejectionIsAtomic.
LEMMA PenaltyExact ==
  ASSUME AddressAssumption, TokenAssumption, StakeAssumption, StakeInv,
         NEW u \in Accounts, slashStake(VerificationAddress, u),
         decreaseReputation(VerificationAddress, u)
  PROVE  /\ PenaltyOf(u)
         /\ \A a \in Accounts : stakedAmount'[a] < stakedAmount[a] => a = u
<1>1. /\ slashAmount(u) \in 0 .. stakedAmount[u]
      /\ stakedAmount' = Debit(stakedAmount, u, slashAmount(u))
  BY SlashStakeEffect
<1>2. /\ stakedAmount \in [Accounts -> 0 .. MaxUint] /\ MaxUint \in Nat
      /\ reputationScore \in [Accounts -> 0 .. MaxUint]
  BY StakeFacts DEF StakeInv, StakeTypeOK, Uint
<1>3. stakedAmount[u] > 0
  BY DEF slashStake
<1> DEFINE n == slashAmount(u)
<1>4. n \in Int /\ stakedAmount[u] \in Int
  BY <1>1, <1>2
<1> HIDE DEF n
<1>5. /\ stakedAmount'[u] = stakedAmount[u] - n
      /\ \A a \in Accounts : a # u => stakedAmount'[a] = stakedAmount[a]
  BY <1>1, <1>2 DEF Debit, n
<1>6. stakedAmount[u] - stakedAmount'[u] = n
  BY <1>4, <1>5
<1>7. \/ reputationScore[u] - reputationScore'[u] = 20
      \/ reputationScore[u] < 20 /\ reputationScore'[u] = 0
  BY <1>2 DEF decreaseReputation, reputationPenalty, Debit
<1>8. \A a \in Accounts : stakedAmount'[a] < stakedAmount[a] => a = u
  BY <1>2, <1>5
<1> QED BY <1>3, <1>6, <1>7, <1>8 DEF PenaltyOf, n

\* What RejectionIsAtomic says of one step.
PenalisedTogether ==
  /\ \A i \in rejectedNow : PenaltyOf(plantations[i].uploader)
  /\ \A a \in penalisedNow : StandsRejected(a)

LEMMA RejectionPenalises ==
  ASSUME AddressAssumption, TokenAssumption, StakeAssumption, RegistryAssumption,
         StakeInv, RegistryTypeOK, NEW s, NEW id \in PlantationIds, flagFakeSubmission(s, id)
  PROVE  PenalisedTogether
<1>1. /\ setStatus(id, "Rejected") /\ "Rejected" \in VerificationStatus
      /\ plantations[id].uploader \in Accounts
      /\ slashStake(VerificationAddress, plantations[id].uploader)
      /\ decreaseReputation(VerificationAddress, plantations[id].uploader)
  BY RejectionEffect DEF VerificationStatus
<1>2. /\ id \in 0 .. plantationIdCounter - 1 /\ id \in Slots
      /\ \A i \in Slots :
           plantations'[i].status = IF i = id THEN "Rejected" ELSE plantations[i].status
  BY <1>1, StatusSet
<1>3. \A i \in rejectedNow : i = id
  BY <1>2 DEF rejectedNow
<1>4. /\ PenaltyOf(plantations[id].uploader)
      /\ \A a \in Accounts :
           stakedAmount'[a] < stakedAmount[a] => a = plantations[id].uploader
  BY <1>1, PenaltyExact
<1>5. \A a \in penalisedNow : StandsRejected(a)
  BY <1>2, <1>4 DEF penalisedNow, StandsRejected
<1> QED BY <1>3, <1>4, <1>5 DEF PenalisedTogether

\* A step that rejects nothing and takes no stake, or pays out what it takes.
LEMMA NothingRejected ==
  ASSUME \A i \in Slots : plantations'[i].status = "Rejected" => plantations[i].status = "Rejected",
         \A a \in Accounts : stakedAmount'[a] < stakedAmount[a] => balance'[a] # balance[a]
  PROVE  PenalisedTogether
BY DEF PenalisedTogether, rejectedNow, penalisedNow

LEMMA NoStakeTaken ==
  ASSUME TokenAssumption, StakeInv, UNCHANGED stakedAmount
  PROVE  \A a \in Accounts : ~(stakedAmount'[a] < stakedAmount[a])
BY DEF StakeInv, StakeTypeOK, TokenAssumption, Uint

\* The vault's calls: only a withdrawal takes stake, and it pays it out; a slash
\* needs the verification contract, which sends no transactions itself.
LEMMA StakeCallsPayOut ==
  ASSUME AddressAssumption, TokenAssumption, StakeAssumption, VerificationAssumption, StakeInv,
         verificationContract = VerificationAddress, StakeNext, NEW a \in Accounts,
         stakedAmount'[a] < stakedAmount[a]
  PROVE  balance'[a] # balance[a]
<1>1. /\ stakedAmount \in [Accounts -> Nat] /\ balance \in [Accounts -> Nat]
      /\ Vault \in Accounts /\ Vault \notin Senders /\ Senders \subseteq Accounts
  BY StakeFacts
<1>2. ~Slash
  BY DEF VerificationAssumption, Slash, slashStake
<1>3. ~(stakedAmount' = stakedAmount)
  BY NoStakeTaken
<1>4. ~Stake
  <2> SUFFICES ASSUME Stake PROVE FALSE
    OBVIOUS
  <2>1. PICK s \in Senders, n \in Amounts : stakeTokens(s, n)
    BY DEF Stake
  <2>2. n \in Nat /\ stakedAmount' = Credit(stakedAmount, s, n)
    BY <2>1, StakeTokensEffect
  <2> QED BY <1>1, <2>2 DEF Credit
<1>5. Withdraw
  BY <1>2, <1>3, <1>4 DEF StakeNext, IncreaseReputation, DecreaseReputation, ConfigureStake,
                          stakeVars
<1>6. PICK s \in Senders, n \in Amounts : withdrawStake(s, n)
  BY <1>5 DEF Withdraw
<1>7. /\ n \in Nat
      /\ balance' = Credit(Debit(balance, Vault, n), s, n)
      /\ stakedAmount' = Debit(stakedAmount, s, n)
  BY <1>6, WithdrawStakeEffect
<1>8. a = s /\ n # 0 /\ s # Vault
  BY <1>1, <1>7 DEF Debit
<1>9. balance'[a] = balance[a] + n
  BY <1>1, <1>7, <1>8 DEF Credit, Debit
<1> QED BY <1>1, <1>7, <1>8, <1>9

LEMMA StepIsAtomic ==
  ASSUME AddressAssumption, TokenAssumption, StakeAssumption, RegistryAssumption,
         VerificationAssumption, StakeInv, RegistryTypeOK, RegistryListens,
         verificationContract = VerificationAddress, Next
  PROVE  PenalisedTogether
<1>1. CASE AdminRejects \/ AdminFlagsFake
  BY <1>1, RejectionPenalises DEF AdminRejects, AdminFlagsFake, submitAdminVerification
<1>2. CASE AdminApproves \/ OracleScores
  <2>1. PICK id \in PlantationIds, st \in VerificationStatus \ {"Rejected"} : setStatus(id, st)
    BY <1>2 DEF AdminApproves, OracleScores, submitAdminVerification, submitAIScore,
                flagProjectAsDisputed, VerificationStatus
  <2>2. \A i \in Slots :
          plantations'[i].status = "Rejected" => plantations[i].status = "Rejected"
    BY <2>1, StatusSet
  <2>3. UNCHANGED stakedAmount
    BY <1>2 DEF AdminApproves, OracleScores
  <2> QED BY <2>2, <2>3, NoStakeTaken, NothingRejected
<1>3. CASE UNCHANGED <<plantations, stakedAmount>>
  BY <1>3, NoStakeTaken, NothingRejected
<1>4. CASE /\ \/ RegisterPlantation
              \/ UpdatePlantation
              \/ AssignCredits
              \/ ConfigureRegistry
           /\ UNCHANGED stakeVars
  <2>1. UNCHANGED stakedAmount
    BY <1>4 DEF stakeVars
  <2> QED BY <1>4, <2>1, StatusesStay, NoStakeTaken, NothingRejected
<1>5. CASE StakeNext /\ UNCHANGED registryVars
  BY <1>5, StakeCallsPayOut, NothingRejected DEF registryVars, plantationVars
<1> QED
  BY <1>1, <1>2, <1>3, <1>4, <1>5
     DEF Next, VerificationNext, PeerConfirms, ConfigureVerification, stakeVars, registryVars,
         plantationVars

\* A plantation is rejected only together with the penalty of its uploader, and
\* no staker is penalised otherwise, while both contracts take their orders from
\* Verification (Verification.sol's flagFakeSubmission).
THEOREM RejectionsAreAtomic ==
  ASSUME OnlyContractsVerify
  PROVE  Spec => RejectionIsAtomic
<1>1. DecisionInv /\ [Next]_systemVars
        => [verificationContract = VerificationAddress =>
              /\ \A i \in rejectedNow : PenaltyOf(plantations[i].uploader)
              /\ \A a \in penalisedNow : StandsRejected(a)]_systemVars
  BY ConstantsAssumed, StepIsAtomic DEF DecisionInv, SystemInv, RegistryInv, PenalisedTogether
<1> QED BY <1>1, DecisionInvariance, PTL DEF Spec, RejectionIsAtomic
=============================================================================
