---------------------------- MODULE MRVRegistry ----------------------------
(***************************************************************************)
(* MRVRegistry.sol: plantations, their verification status, and the issue  *)
(* of carbon credits.  It asks NGOManager who may register and mints on    *)
(* CarbonCredit, when it has been made the token's owner.                  *)
(*                                                                         *)
(* Of a plantation's texts only the IPFS hash is kept, since it alone      *)
(* changes after registration.                                             *)
(***************************************************************************)
EXTENDS CarbonCredit, NGOManager

CONSTANTS
  Registry,            \* the contract's own address
  ManagerAddress,      \* the address of NGOManager
  RegistryOwners,      \* the addresses ownership passes to, ZeroAddress by renouncing
  RegistryVerifiers,   \* the values setVerificationContract is called with
  Managers,            \* the values setNGOManager is called with
  TreeCounts,          \* the tree counts of submissions
  Hashes,              \* the IPFS hashes of submissions and reports
  MaxPlantations       \* bound on the plantations that are registered

ASSUME RegistryAssumption ==
  /\ Registry \in Accounts \ (Senders \cup {ZeroAddress})
  /\ ManagerAddress \in Accounts \ {ZeroAddress}
  /\ RegistryOwners \subseteq Accounts
  /\ RegistryVerifiers \subseteq Accounts
  /\ Managers \subseteq Accounts
  /\ TreeCounts \subseteq Uint
  /\ Hashes # {}
  /\ MaxPlantations \in Nat

VARIABLES
  registryOwner,               \* Ownable._owner
  verificationContractAddress,
  ngoManager,
  plantationIdCounter,         \* _plantationIdCounter
  plantations,
  plantationsByUploader        \* _plantationsByUploader

registryConfigVars == <<registryOwner, verificationContractAddress, ngoManager>>
plantationVars == <<plantationIdCounter, plantations, plantationsByUploader>>
registryVars == <<registryConfigVars, plantationVars>>
registrySystemVars == <<registryVars, managerVars, tokenVars>>

RegistryOwnable == INSTANCE Ownable WITH owner <- registryOwner

VerificationStatus ==
  {"Submitted", "AIVerified", "AdminVerified", "SurvivalVerified", "Disputed", "Rejected"}

Plantation ==
  [id : Nat, uploader : Accounts, treeCount : Uint, ipfsHash : Hashes \cup {""},
   status : VerificationStatus, creditsIssued : BOOLEAN]

\* What an unwritten entry of the mapping reads as.
NoPlantation ==
  [id |-> 0, uploader |-> ZeroAddress, treeCount |-> 0, ipfsHash |-> "",
   status |-> "Submitted", creditsIssued |-> FALSE]

Slots == 0 .. MaxPlantations - 1

\* The ids transactions carry: every slot, and one that is never registered.
PlantationIds == 0 .. MaxPlantations

RegistryInit ==
  /\ registryOwner = Deployer
  /\ verificationContractAddress = ZeroAddress
  /\ ngoManager = ZeroAddress
  /\ plantationIdCounter = 0
  /\ plantations = [i \in Slots |-> NoPlantation]
  /\ plantationsByUploader = [a \in Accounts |-> << >>]
-----------------------------------------------------------------------------
\* The require of every function that takes an id.
Registered(id) == id < plantationIdCounter

\* A call to an address without the manager's code reverts.
onlyWhitelistedNGO(sender) == ngoManager = ManagerAddress /\ isWhitelisted(sender)

newPlantation(sender, treeCount, ipfsHash) ==
  [id |-> plantationIdCounter, uploader |-> sender, treeCount |-> treeCount,
   ipfsHash |-> ipfsHash, status |-> "Submitted", creditsIssued |-> FALSE]

\* Mistakes the properties must catch: ids counted per uploader, the id indexed
\* after the increment, credits assigned again.
registerPlantationPerUploader(sender, treeCount, ipfsHash) ==
  LET id == Len(plantationsByUploader[sender])
  IN  /\ onlyWhitelistedNGO(sender)
      /\ plantations' = [plantations EXCEPT
           ![id] = [newPlantation(sender, treeCount, ipfsHash) EXCEPT !.id = id]]
      /\ plantationsByUploader' =
           [plantationsByUploader EXCEPT ![sender] = Append(@, id)]
      /\ plantationIdCounter' = plantationIdCounter + 1

registerPlantationIndexedLate(sender, treeCount, ipfsHash) ==
  /\ onlyWhitelistedNGO(sender)
  /\ plantations' = [plantations EXCEPT
       ![plantationIdCounter] = newPlantation(sender, treeCount, ipfsHash)]
  /\ plantationIdCounter' = plantationIdCounter + 1
  /\ plantationsByUploader' =
       [plantationsByUploader EXCEPT ![sender] = Append(@, plantationIdCounter')]

assignCreditsAgain(sender, id) ==
  /\ RegistryOwnable!onlyOwner(sender)
  /\ Registered(id)
  /\ plantations[id].status = "SurvivalVerified"
  /\ plantations' = [plantations EXCEPT ![id].creditsIssued = TRUE]
  /\ mint(Registry, plantations[id].uploader, plantations[id].treeCount)
-----------------------------------------------------------------------------
registerPlantation(sender, treeCount, ipfsHash) ==
  /\ onlyWhitelistedNGO(sender)
  /\ plantations' = [plantations EXCEPT
       ![plantationIdCounter] = newPlantation(sender, treeCount, ipfsHash)]
  /\ plantationsByUploader' =
       [plantationsByUploader EXCEPT ![sender] = Append(@, plantationIdCounter)]
  /\ plantationIdCounter' = plantationIdCounter + 1

updateVerificationStatus(sender, id, newStatus) ==
  /\ sender = verificationContractAddress
  /\ Registered(id)
  /\ plantations' = [plantations EXCEPT ![id].status = newStatus]

recordIPFSHash(sender, id, newHash) ==
  /\ RegistryOwnable!onlyOwner(sender)
  /\ Registered(id)
  /\ plantations' = [plantations EXCEPT ![id].ipfsHash = newHash]

assignCredits(sender, id) ==
  /\ RegistryOwnable!onlyOwner(sender)
  /\ Registered(id)
  /\ plantations[id].status = "SurvivalVerified"
  /\ ~plantations[id].creditsIssued
  /\ plantations' = [plantations EXCEPT ![id].creditsIssued = TRUE]
  /\ mint(Registry, plantations[id].uploader, plantations[id].treeCount)

\* Both call updateVerificationStatus internally: msg.sender is still the owner.
markSurvivalVerified(sender, id) ==
  /\ RegistryOwnable!onlyOwner(sender)
  /\ updateVerificationStatus(sender, id, "SurvivalVerified")

disputePlantation(sender, id) ==
  /\ RegistryOwnable!onlyOwner(sender)
  /\ updateVerificationStatus(sender, id, "Disputed")

registry_setVerificationContract(sender, newAddress) ==
  /\ RegistryOwnable!onlyOwner(sender)
  /\ verificationContractAddress' = newAddress

setNGOManager(sender, managerAddress) ==
  /\ RegistryOwnable!onlyOwner(sender)
  /\ ngoManager' = managerAddress

getPlantationUploader(id) == plantations[id].uploader
-----------------------------------------------------------------------------
RegisterPlantation ==
  /\ plantationIdCounter < MaxPlantations
  /\ \E s \in Senders, n \in TreeCounts, h \in Hashes : registerPlantation(s, n, h)
  /\ UNCHANGED <<registryConfigVars, managerVars, tokenVars>>

\* The handlers that rewrite one registered plantation.  A sender that is not
\* a contract may be the verification contract address.
UpdatePlantation ==
  /\ \E s \in Senders, id \in PlantationIds :
       \/ \E st \in VerificationStatus : updateVerificationStatus(s, id, st)
       \/ \E h \in Hashes : recordIPFSHash(s, id, h)
       \/ markSurvivalVerified(s, id)
       \/ disputePlantation(s, id)
  /\ UNCHANGED <<registryConfigVars, plantationIdCounter, plantationsByUploader,
                 managerVars, tokenVars>>

AssignCredits ==
  /\ \E s \in Senders, id \in PlantationIds : assignCredits(s, id)
  /\ UNCHANGED <<registryConfigVars, plantationIdCounter, plantationsByUploader,
                 managerVars, tokenOwner, allowance>>

ConfigureRegistry ==
  /\ \E s \in Senders :
       \/ /\ \E a \in RegistryVerifiers : registry_setVerificationContract(s, a)
          /\ UNCHANGED <<registryOwner, ngoManager>>
       \/ /\ \E a \in Managers : setNGOManager(s, a)
          /\ UNCHANGED <<registryOwner, verificationContractAddress>>
       \/ /\ \E a \in RegistryOwners : RegistryOwnable!passOwnership(s, a)
          /\ UNCHANGED <<verificationContractAddress, ngoManager>>
  /\ UNCHANGED <<plantationVars, managerVars, tokenVars>>

RegistryNext ==
  \/ RegisterPlantation
  \/ UpdatePlantation
  \/ AssignCredits
  \/ ConfigureRegistry
  \/ ManagerNext /\ UNCHANGED <<registryVars, tokenVars>>
  \/ TokenNext /\ UNCHANGED <<registryVars, managerVars>>

\* The three contracts as constructed.
RegistrySystemInit == TokenInit /\ ManagerInit /\ RegistryInit

RegistrySpec == RegistrySystemInit /\ [][RegistryNext]_registrySystemVars
-----------------------------------------------------------------------------
\* Every variable holds a value of its type, and a slot nobody registered is
\* still empty.
RegistryTypeOK ==
  /\ registryOwner \in Accounts
  /\ verificationContractAddress \in Accounts
  /\ ngoManager \in Accounts
  /\ plantationIdCounter \in 0 .. MaxPlantations
  /\ plantations \in [Slots -> Plantation]
  /\ \A i \in Slots : i >= plantationIdCounter => plantations[i] = NoPlantation
  /\ plantationsByUploader \in [Accounts -> Seq(Nat)]

\* getPlantationsByUploader answers exactly the plantations whose uploader is
\* the address, in the order of registration: the index and the mapping are
\* written by different statements and read by different pages.
UploaderIndexExact ==
  /\ \A i \in 0 .. plantationIdCounter - 1 : plantations[i].id = i
  /\ \A a \in Accounts :
       LET index == plantationsByUploader[a]
       IN  /\ Range(index) =
                {i \in 0 .. plantationIdCounter - 1 : plantations[i].uploader = a}
           /\ \A i, j \in DOMAIN index : i < j => index[i] < index[j]

\* What was registered stays: no later call of anybody's reuses an id, changes
\* its uploader or tree count, or makes its credits assignable again.
RegistrationsStay ==
  \A i \in 0 .. plantationIdCounter - 1 :
    LET p == plantations[i]
        q == plantations'[i]
    IN  /\ <<q.id, q.uploader, q.treeCount>> = <<p.id, p.uploader, p.treeCount>>
        /\ p.creditsIssued => q.creditsIssued

RegistrationIsPermanent == [][RegistrationsStay]_registrySystemVars

\* While the registry owns the token, credits come into being only for one
\* plantation that passed its survival check and had none yet, one per tree,
\* in its uploader's balance; and the registry keeps the token.
issued == {i \in Slots : ~plantations[i].creditsIssued /\ plantations'[i].creditsIssued}

IssueIsBacked ==
  /\ tokenOwner' = Registry
  /\ Cardinality(issued) <= 1
  /\ issued = {} => totalSupply' = totalSupply
  /\ \A i \in issued :
       LET p == plantations[i]
       IN  /\ p.status = "SurvivalVerified"
           /\ totalSupply' = totalSupply + p.treeCount
           /\ balance'[p.uploader] = balance[p.uploader] + p.treeCount

IssuanceIsBacked == [][tokenOwner = Registry => IssueIsBacked]_registrySystemVars
=============================================================================
