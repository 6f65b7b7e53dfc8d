------------------------ MODULE MRVRegistryTheorems ------------------------
(***************************************************************************)
(* NGOManager and MRVRegistry, for any number of addresses, plantations    *)
(* and configurations: the list of NGOs and the mapping of them never      *)
(* part, nor do the registry's index by uploader and its mapping of        *)
(* plantations; what was registered stays; and while the registry owns the *)
(* token, credits come only from it.                                       *)
(***************************************************************************)
EXTENDS MRVRegistry, StakeReputationTheorems, SequenceTheorems

ManagerInv == ManagerTypeOK /\ NGOListExact

\* An address appended to a list that does not name it leaves the list naming
\* each address once.
LEMMA AppendNew ==
  ASSUME NEW S, NEW s \in Seq(S), NEW e \in S, IsInjective(s), e \notin Range(s)
  PROVE  /\ Append(s, e) \in Seq(S)
         /\ IsInjective(Append(s, e))
         /\ Range(Append(s, e)) = Range(s) \cup {e}
<1> DEFINE t == Append(s, e)
<1>1. /\ t \in Seq(S) /\ Len(t) = Len(s) + 1 /\ Len(s) \in Nat
      /\ DOMAIN t = 1 .. Len(s) + 1 /\ DOMAIN s = 1 .. Len(s)
      /\ \A i \in 1 .. Len(s) : t[i] = s[i]
      /\ t[Len(s) + 1] = e
  OBVIOUS
<1>2. \A i \in 1 .. Len(s) : s[i] # e
  BY <1>1 DEF Range
<1>3. ASSUME NEW i \in DOMAIN t, NEW j \in DOMAIN t, t[i] = t[j]
      PROVE  i = j
  <2>1. CASE i \in 1 .. Len(s) /\ j \in 1 .. Len(s)
    BY <1>1, <1>3, <2>1 DEF IsInjective
  <2>2. CASE i = Len(s) + 1 \/ j = Len(s) + 1
    BY <1>1, <1>2, <1>3, <2>2
  <2> QED BY <1>1, <2>1, <2>2
<1>4. IsInjective(t)
  BY <1>3 DEF IsInjective
<1>5. Range(t) = Range(s) \cup {e}
  <2>1. ASSUME NEW x \in Range(t) PROVE x \in Range(s) \cup {e}
    BY <1>1, <2>1 DEF Range
  <2>2. ASSUME NEW x \in Range(s) PROVE x \in Range(t)
    <3>1. PICK i \in 1 .. Len(s) : x = s[i]
      BY <1>1, <2>2 DEF Range
    <3> QED BY <1>1, <3>1 DEF Range
  <2>3. e \in Range(t)
    BY <1>1 DEF Range
  <2> QED BY <2>1, <2>2, <2>3
<1> QED BY <1>1, <1>4, <1>5

LEMMA ManagerInitially ==
  ASSUME AddressAssumption, ManagerInit
  PROVE  ManagerInv
<1>1. ManagerTypeOK
  BY DEF AddressAssumption, ManagerInit, ManagerTypeOK, NoNGO, NGO, NGOStatus
<1>2. Range(ngoList) = {} /\ IsInjective(ngoList)
  BY DEF ManagerInit, Range, IsInjective
<1>3. NGOListExact
  BY <1>2 DEF ManagerInit, NGOListExact, NoNGO
<1> QED BY <1>1, <1>3 DEF ManagerInv

LEMMA WhitelistKeeps ==
  ASSUME AddressAssumption, NGOAssumption, ManagerInv, WhitelistNGO
  PROVE  ManagerInv'
<1>1. PICK a \in Accounts :
        /\ ~ngos[a].exists
        /\ ngos' = [ngos EXCEPT ![a] =
             [walletAddress |-> a, status |-> "Whitelisted", exists |-> TRUE]]
        /\ ngoList' = Append(ngoList, a)
        /\ UNCHANGED managerOwner
  BY DEF NGOAssumption, WhitelistNGO, whitelistNGO
<1>2. /\ ngos \in [Accounts -> NGO] /\ ngoList \in Seq(Accounts)
      /\ IsInjective(ngoList) /\ a \notin Range(ngoList)
  BY <1>1 DEF ManagerInv, ManagerTypeOK, NGOListExact
<1>3. /\ ngoList' \in Seq(Accounts) /\ IsInjective(ngoList')
      /\ Range(ngoList') = Range(ngoList) \cup {a}
  BY <1>1, <1>2, AppendNew
<1>4. ngos' \in [Accounts -> NGO]
  BY <1>1, <1>2 DEF NGO, NGOStatus
<1>5. ManagerTypeOK'
  BY <1>1, <1>2, <1>3, <1>4 DEF ManagerInv, ManagerTypeOK
<1>6. /\ ngos'[a].exists /\ ngos'[a].walletAddress = a
      /\ \A b \in Accounts \ {a} : ngos'[b] = ngos[b]
  BY <1>1, <1>2
<1>7. NGOListExact'
  BY <1>3, <1>6 DEF ManagerInv, NGOListExact
<1> QED BY <1>5, <1>7 DEF ManagerInv

LEMMA SetStatusKeeps ==
  ASSUME AddressAssumption, NGOAssumption, ManagerInv, SetNGOStatus
  PROVE  ManagerInv'
<1>1. PICK a \in Accounts, st \in NGOStatus :
        /\ ngos[a].exists
        /\ ngos' = [ngos EXCEPT ![a].status = st]
        /\ UNCHANGED <<managerOwner, ngoList>>
  BY DEF NGOAssumption, SetNGOStatus, setNGOStatus
<1>2. ngos \in [Accounts -> NGO]
  BY DEF ManagerInv, ManagerTypeOK
<1>3. /\ ngos' \in [Accounts -> NGO]
      /\ \A b \in Accounts : /\ ngos'[b].exists = ngos[b].exists
                             /\ ngos'[b].walletAddress = ngos[b].walletAddress
                             /\ ~ngos[b].exists => ngos'[b] = ngos[b]
  BY <1>1, <1>2 DEF NGO
<1>4. ManagerTypeOK'
  BY <1>1, <1>3 DEF ManagerInv, ManagerTypeOK
<1>5. Range(ngoList) \subseteq Accounts
  BY DEF ManagerInv, NGOListExact
<1>6. NGOListExact'
  BY <1>1, <1>3, <1>5 DEF ManagerInv, NGOListExact
<1> QED BY <1>4, <1>6 DEF ManagerInv

LEMMA OwnerChangeKeeps ==
  ASSUME AddressAssumption, NGOAssumption, ManagerInv, ChangeManagerOwner
  PROVE  ManagerInv'
<1>1. PICK a \in ManagerOwners : managerOwner' = a
  BY DEF ChangeManagerOwner, ManagerOwnable!passOwnership, ManagerOwnable!transferOwnership,
         ManagerOwnable!renounceOwnership
<1>2. UNCHANGED <<ngos, ngoList>>
  BY DEF ChangeManagerOwner
<1> QED
  BY <1>1, <1>2 DEF NGOAssumption, ManagerInv, ManagerTypeOK, NGOListExact

\* The admin's pages walk the list and read the mapping: every NGO of the
\* mapping is on the list once, and nothing else is.
THEOREM NGOListAlwaysExact == ManagerSpec => [](ManagerTypeOK /\ NGOListExact)
<1>1. ManagerInit => ManagerInv
  BY AddressAssumption, ManagerInitially
<1>2. ManagerInv /\ [ManagerNext]_managerVars => ManagerInv'
  <2>1. ManagerInv /\ UNCHANGED managerVars => ManagerInv'
    BY DEF ManagerInv, ManagerTypeOK, NGOListExact, managerVars
  <2> QED
    BY <2>1, AddressAssumption, NGOAssumption, WhitelistKeeps, SetStatusKeeps, OwnerChangeKeeps
       DEF ManagerNext
<1>3. ManagerInv => ManagerTypeOK /\ NGOListExact
  BY DEF ManagerInv
<1> QED BY <1>1, <1>2, <1>3, PTL DEF ManagerSpec
-----------------------------------------------------------------------------
RegistryInv == RegistryTypeOK /\ UploaderIndexExact

\* The part of the invariant that is about the plantations and their index.
IndexOf(a) ==
  /\ Range(plantationsByUploader[a]) =
       {i \in 0 .. plantationIdCounter - 1 : plantations[i].uploader = a}
  /\ \A i, j \in DOMAIN plantationsByUploader[a] :
       i < j => plantationsByUploader[a][i] < plantationsByUploader[a][j]

LEMMA IndexIsExact ==
  UploaderIndexExact <=>
    /\ \A i \in 0 .. plantationIdCounter - 1 : plantations[i].id = i
    /\ \A a \in Accounts : IndexOf(a)
BY DEF UploaderIndexExact, IndexOf

\* A number above all of an increasing sequence may be appended to it.
LEMMA AppendAbove ==
  ASSUME NEW s \in Seq(Nat), NEW e \in Nat,
         \A i, j \in DOMAIN s : i < j => s[i] < s[j],
         \A i \in DOMAIN s : s[i] < e
  PROVE  /\ Append(s, e) \in Seq(Nat)
         /\ Range(Append(s, e)) = Range(s) \cup {e}
         /\ \A i, j \in DOMAIN Append(s, e) : i < j => Append(s, e)[i] < Append(s, e)[j]
<1> DEFINE t == Append(s, e)
<1>1. /\ t \in Seq(Nat) /\ Len(s) \in Nat
      /\ DOMAIN t = 1 .. Len(s) + 1 /\ DOMAIN s = 1 .. Len(s)
      /\ \A i \in 1 .. Len(s) : t[i] = s[i] /\ s[i] \in Nat
      /\ t[Len(s) + 1] = e
  OBVIOUS
<1>2. Range(t) = Range(s) \cup {e}
  <2>1. ASSUME NEW x \in Range(t) PROVE x \in Range(s) \cup {e}
    BY <1>1, <2>1 DEF Range
  <2>2. ASSUME NEW x \in Range(s) PROVE x \in Range(t)
    <3>1. PICK i \in 1 .. Len(s) : x = s[i]
      BY <1>1, <2>2 DEF Range
    <3> QED BY <1>1, <3>1 DEF Range
  <2>3. e \in Range(t)
    BY <1>1 DEF Range
  <2> QED BY <2>1, <2>2, <2>3
<1>3. ASSUME NEW i \in DOMAIN t, NEW j \in DOMAIN t, i < j
      PROVE  t[i] < t[j]
  <2>1. i \in 1 .. Len(s)
    BY <1>1, <1>3
  <2>2. CASE j \in 1 .. Len(s)
    BY <1>1, <1>3, <2>1, <2>2
  <2>3. CASE j = Len(s) + 1
    BY <1>1, <2>1, <2>3
  <2> QED BY <1>1, <2>2, <2>3
<1> QED BY <1>1, <1>2, <1>3

LEMMA RegistryInitially ==
  ASSUME AddressAssumption, RegistryAssumption, TokenAssumption, RegistryInit
  PROVE  RegistryInv
<1>1. NoPlantation \in Plantation
  BY DEF AddressAssumption, TokenAssumption, NoPlantation, Plantation, Uint, VerificationStatus
<1>2. RegistryTypeOK
  BY <1>1 DEF AddressAssumption, RegistryAssumption, RegistryInit, RegistryTypeOK
<1>3. \A a \in Accounts : IndexOf(a)
  BY DEF RegistryInit, IndexOf, Range
<1>4. \A i \in 0 .. plantationIdCounter - 1 : plantations[i].id = i
  BY DEF RegistryInit
<1> QED BY <1>2, <1>3, <1>4, IndexIsExact DEF RegistryInv

\* A registration: the new id is above all that are indexed.
LEMMA RegisterKeeps ==
  ASSUME AddressAssumption, RegistryAssumption, RegistryInv, RegisterPlantation
  PROVE  RegistryInv'
<1> DEFINE c == plantationIdCounter
<1>1. PICK s \in Senders, n \in TreeCounts, h \in Hashes : registerPlantation(s, n, h)
  BY DEF RegisterPlantation
<1> DEFINE p == newPlantation(s, n, h)
<1>2. /\ c \in Nat /\ c < MaxPlantations /\ MaxPlantations \in Nat /\ c \in Slots
      /\ s \in Accounts
      /\ plantations \in [Slots -> Plantation]
      /\ plantationsByUploader \in [Accounts -> Seq(Nat)]
  BY DEF AddressAssumption, RegistryAssumption, RegistryInv, RegistryTypeOK,
         RegisterPlantation, Slots
<1>3. /\ plantations' = [plantations EXCEPT ![c] = p]
      /\ plantationsByUploader' = [plantationsByUploader EXCEPT ![s] = Append(@, c)]
      /\ plantationIdCounter' = c + 1
      /\ UNCHANGED registryConfigVars
  BY <1>1 DEF registerPlantation, RegisterPlantation
<1>4. p \in Plantation /\ p.id = c /\ p.uploader = s
  BY <1>2 DEF newPlantation, Plantation, RegistryAssumption, VerificationStatus
<1>5. /\ \A i \in Slots \ {c} : plantations'[i] = plantations[i]
      /\ plantations'[c] = p
      /\ 0 .. c - 1 \subseteq Slots \ {c}
  BY <1>2, <1>3 DEF Slots
<1>6. \A a \in Accounts : IndexOf(a)
  BY IndexIsExact DEF RegistryInv
<1>7. /\ \A i, j \in DOMAIN plantationsByUploader[s] :
           i < j => plantationsByUploader[s][i] < plantationsByUploader[s][j]
      /\ \A i \in DOMAIN plantationsByUploader[s] : plantationsByUploader[s][i] < c
  <2>1. IndexOf(s)
    BY <1>2, <1>6
  <2>2. \A x \in Range(plantationsByUploader[s]) : x \in 0 .. c - 1
    BY <2>1 DEF IndexOf
  <2>3. ASSUME NEW i \in DOMAIN plantationsByUploader[s]
        PROVE  plantationsByUploader[s][i] < c
    <3>1. plantationsByUploader[s][i] \in Range(plantationsByUploader[s])
      BY DEF Range
    <3> QED BY <1>2, <2>2, <3>1
  <2> QED BY <2>1, <2>3 DEF IndexOf
<1>8. ASSUME NEW a \in Accounts PROVE IndexOf(a)'
  <2>1. CASE a = s
    <3>1. plantationsByUploader'[s] = Append(plantationsByUploader[s], c)
      BY <1>2, <1>3
    <3>2. /\ Range(plantationsByUploader'[s]) = Range(plantationsByUploader[s]) \cup {c}
          /\ \A i, j \in DOMAIN plantationsByUploader'[s] :
               i < j => plantationsByUploader'[s][i] < plantationsByUploader'[s][j]
      BY <1>2, <1>7, <3>1, AppendAbove
    <3>3. {i \in 0 .. c : plantations'[i].uploader = s}
            = {i \in 0 .. c - 1 : plantations[i].uploader = s} \cup {c}
      BY <1>2, <1>4, <1>5
    <3>4. Range(plantationsByUploader[s]) = {i \in 0 .. c - 1 : plantations[i].uploader = s}
      BY <1>2, <1>6 DEF IndexOf
    <3>5. plantationIdCounter' - 1 = c
      BY <1>2, <1>3
    <3> QED BY <2>1, <3>2, <3>3, <3>4, <3>5 DEF IndexOf
  <2>2. CASE a # s
    <3>1. plantationsByUploader'[a] = plantationsByUploader[a]
      BY <1>2, <1>3, <2>2
    <3>2. {i \in 0 .. c : plantations'[i].uploader = a}
            = {i \in 0 .. c - 1 : plantations[i].uploader = a}
      BY <1>2, <1>4, <1>5, <2>2
    <3>3. plantationIdCounter' - 1 = c
      BY <1>2, <1>3
    <3> QED BY <1>6, <3>1, <3>2, <3>3 DEF IndexOf
  <2> QED BY <2>1, <2>2
<1>9. \A i \in 0 .. plantationIdCounter' - 1 : plantations'[i].id = i
  BY <1>2, <1>3, <1>4, <1>5 DEF RegistryInv, UploaderIndexExact
<1>10. UploaderIndexExact'
  BY <1>8, <1>9 DEF UploaderIndexExact, IndexOf
<1>11. /\ plantations' \in [Slots -> Plantation]
       /\ plantationsByUploader' \in [Accounts -> Seq(Nat)]
       /\ plantationIdCounter' \in 0 .. MaxPlantations
  BY <1>2, <1>3, <1>4
<1>12. \A i \in Slots : i >= plantationIdCounter' => plantations'[i] = NoPlantation
  BY <1>2, <1>3, <1>5 DEF RegistryInv, RegistryTypeOK, Slots
<1>13. RegistryTypeOK'
  BY <1>3, <1>11, <1>12 DEF RegistryInv, RegistryTypeOK, registryConfigVars
<1> QED BY <1>10, <1>13 DEF RegistryInv

\* A step that rewrites a registered plantation but not its id or uploader.
LEMMA RewriteKeeps ==
  ASSUME RegistryInv, NEW id \in 0 .. plantationIdCounter - 1, MaxPlantations \in Nat,
         NEW q \in Plantation, q.id = plantations[id].id,
         q.uploader = plantations[id].uploader,
         plantations' = [plantations EXCEPT ![id] = q],
         UNCHANGED <<registryConfigVars, plantationIdCounter, plantationsByUploader>>
  PROVE  RegistryInv'
<1>1. /\ plantations \in [Slots -> Plantation] /\ id \in Slots
      /\ plantationIdCounter \in 0 .. MaxPlantations
      /\ 0 .. plantationIdCounter - 1 \subseteq Slots
  BY DEF RegistryInv, RegistryTypeOK, Slots
<1>2. /\ plantations' \in [Slots -> Plantation]
      /\ \A i \in Slots : /\ plantations'[i].id = plantations[i].id
                          /\ plantations'[i].uploader = plantations[i].uploader
                          /\ i >= plantationIdCounter => plantations'[i] = plantations[i]
  BY <1>1
<1>3. RegistryTypeOK'
  BY <1>1, <1>2 DEF RegistryInv, RegistryTypeOK, registryConfigVars
<1>4. \A a : {i \in 0 .. plantationIdCounter - 1 : plantations'[i].uploader = a}
               = {i \in 0 .. plantationIdCounter - 1 : plantations[i].uploader = a}
  BY <1>1, <1>2
<1>5. UploaderIndexExact'
  BY <1>1, <1>2, <1>4 DEF RegistryInv, UploaderIndexExact
<1> QED BY <1>3, <1>5 DEF RegistryInv

\* Of a registered plantation an update changes the status or the hash alone.
LEMMA UpdateRewrites ==
  ASSUME RegistryAssumption, RegistryTypeOK, UpdatePlantation
  PROVE  \E id \in 0 .. plantationIdCounter - 1, q \in Plantation :
           /\ plantations' = [plantations EXCEPT ![id] = q]
           /\ q.id = plantations[id].id
           /\ q.uploader = plantations[id].uploader
           /\ q.treeCount = plantations[id].treeCount
           /\ q.creditsIssued = plantations[id].creditsIssued
           /\ verificationContractAddress \notin Senders => q.status = plantations[id].status
<1>1. PICK s \in Senders, id \in PlantationIds :
        \/ \E st \in VerificationStatus : updateVerificationStatus(s, id, st)
        \/ \E h \in Hashes : recordIPFSHash(s, id, h)
        \/ markSurvivalVerified(s, id)
        \/ disputePlantation(s, id)
  BY DEF UpdatePlantation
<1>2. /\ id \in 0 .. plantationIdCounter - 1 /\ id \in Slots
      /\ plantations \in [Slots -> Plantation]
  BY <1>1 DEF updateVerificationStatus, recordIPFSHash, markSurvivalVerified,
              disputePlantation, Registered, PlantationIds, Slots, RegistryTypeOK,
              RegistryAssumption
<1>3. plantations[id] \in Plantation
  BY <1>2
<1>4. \/ /\ verificationContractAddress \in Senders
         /\ \E st \in VerificationStatus :
              plantations' = [plantations EXCEPT ![id].status = st]
      \/ \E h \in Hashes : plantations' = [plantations EXCEPT ![id].ipfsHash = h]
  BY <1>1 DEF updateVerificationStatus, recordIPFSHash, markSurvivalVerified,
              disputePlantation, VerificationStatus
<1>5. CASE /\ verificationContractAddress \in Senders
           /\ \E st \in VerificationStatus :
                plantations' = [plantations EXCEPT ![id].status = st]
  <2>1. PICK st \in VerificationStatus :
          plantations' = [plantations EXCEPT ![id] = [plantations[id] EXCEPT !.status = st]]
    BY <1>5
  <2>2. /\ [plantations[id] EXCEPT !.status = st] \in Plantation
        /\ \A q : q = [plantations[id] EXCEPT !.status = st] =>
             /\ q.id = plantations[id].id
             /\ q.uploader = plantations[id].uploader
             /\ q.treeCount = plantations[id].treeCount
             /\ q.creditsIssued = plantations[id].creditsIssued
    BY <1>3 DEF Plantation
  <2> QED BY <1>2, <1>5, <2>1, <2>2
<1>6. CASE \E h \in Hashes : plantations' = [plantations EXCEPT ![id].ipfsHash = h]
  <2>1. PICK h \in Hashes :
          plantations' = [plantations EXCEPT ![id] = [plantations[id] EXCEPT !.ipfsHash = h]]
    BY <1>6
  <2>2. /\ [plantations[id] EXCEPT !.ipfsHash = h] \in Plantation
        /\ \A q : q = [plantations[id] EXCEPT !.ipfsHash = h] =>
             /\ q.id = plantations[id].id
             /\ q.status = plantations[id].status
             /\ q.uploader = plantations[id].uploader
             /\ q.treeCount = plantations[id].treeCount
             /\ q.creditsIssued = plantations[id].creditsIssued
    BY <1>3 DEF Plantation
  <2> QED BY <1>2, <2>1, <2>2
<1> QED BY <1>4, <1>5, <1>6

\* assignCredits changes the mark that the credits were issued alone.
LEMMA AssignRewrites ==
  ASSUME RegistryAssumption, RegistryTypeOK, NEW s, NEW id \in PlantationIds,
         assignCredits(s, id)
  PROVE  /\ id \in 0 .. plantationIdCounter - 1
         /\ id \in Slots
         /\ plantations[id] \in Plantation
         /\ \E q \in Plantation :
              /\ plantations' = [plantations EXCEPT ![id] = q]
              /\ q.id = plantations[id].id
              /\ q.uploader = plantations[id].uploader
              /\ q.treeCount = plantations[id].treeCount
              /\ q.status = plantations[id].status
              /\ q.creditsIssued
<1>1. /\ id \in 0 .. plantationIdCounter - 1 /\ id \in Slots
      /\ plantations \in [Slots -> Plantation]
  BY DEF assignCredits, Registered, PlantationIds, Slots, RegistryTypeOK, RegistryAssumption
<1>2. plantations[id] \in Plantation
  BY <1>1
<1> DEFINE q == [plantations[id] EXCEPT !.creditsIssued = TRUE]
<1>3. plantations' = [plantations EXCEPT ![id] = q]
  BY DEF assignCredits
<1>4. /\ q \in Plantation /\ q.id = plantations[id].id
      /\ q.uploader = plantations[id].uploader
      /\ q.treeCount = plantations[id].treeCount /\ q.creditsIssued
      /\ q.status = plantations[id].status
  BY <1>2 DEF Plantation
<1> HIDE DEF q
<1> QED BY <1>1, <1>2, <1>3, <1>4

LEMMA UpdateKeeps ==
  ASSUME RegistryAssumption, RegistryInv, UpdatePlantation
  PROVE  RegistryInv'
<1>1. /\ MaxPlantations \in Nat /\ RegistryTypeOK
      /\ UNCHANGED <<registryConfigVars, plantationIdCounter, plantationsByUploader>>
  BY DEF RegistryAssumption, RegistryInv, UpdatePlantation
<1> QED BY <1>1, UpdateRewrites, RewriteKeeps

LEMMA AssignKeeps ==
  ASSUME RegistryAssumption, RegistryInv, AssignCredits
  PROVE  RegistryInv'
<1>1. /\ MaxPlantations \in Nat /\ RegistryTypeOK
      /\ UNCHANGED <<registryConfigVars, plantationIdCounter, plantationsByUploader>>
  BY DEF RegistryAssumption, RegistryInv, AssignCredits
<1>2. PICK s \in Senders, id \in PlantationIds : assignCredits(s, id)
  BY DEF AssignCredits
<1> QED BY <1>1, <1>2, AssignRewrites, RewriteKeeps

LEMMA ConfigureKeeps ==
  ASSUME RegistryAssumption, RegistryInv, ConfigureRegistry
  PROVE  RegistryInv'
<1>1. /\ registryOwner' \in Accounts
      /\ verificationContractAddress' \in Accounts
      /\ ngoManager' \in Accounts
  BY DEF RegistryAssumption, RegistryInv, RegistryTypeOK, ConfigureRegistry,
         registry_setVerificationContract, setNGOManager, RegistryOwnable!passOwnership,
         RegistryOwnable!transferOwnership, RegistryOwnable!renounceOwnership
<1>2. UNCHANGED <<plantationIdCounter, plantations, plantationsByUploader>>
  BY DEF ConfigureRegistry, plantationVars
<1> QED BY <1>1, <1>2 DEF RegistryInv, RegistryTypeOK, UploaderIndexExact

LEMMA OthersKeep ==
  ASSUME RegistryInv, UNCHANGED registryVars
  PROVE  RegistryInv'
BY DEF RegistryInv, RegistryTypeOK, UploaderIndexExact, registryVars, registryConfigVars,
       plantationVars
-----------------------------------------------------------------------------
\* A step that rewrites one entry but not what was registered with it.
LEMMA RewriteStays ==
  ASSUME RegistryAssumption, RegistryTypeOK,
         NEW id \in 0 .. plantationIdCounter - 1, NEW q,
         plantations' = [plantations EXCEPT ![id] = q],
         q.id = plantations[id].id,
         q.uploader = plantations[id].uploader,
         q.treeCount = plantations[id].treeCount,
         plantations[id].creditsIssued => q.creditsIssued
  PROVE  RegistrationsStay
<1>1. /\ plantations \in [Slots -> Plantation] /\ id \in Slots
      /\ 0 .. plantationIdCounter - 1 \subseteq Slots
  BY DEF RegistryAssumption, RegistryTypeOK, Slots
<1>2. \A i \in 0 .. plantationIdCounter - 1 :
        plantations'[i] = IF i = id THEN q ELSE plantations[i]
  BY <1>1
<1> QED BY <1>2 DEF RegistrationsStay

LEMMA UnchangedStays ==
  ASSUME UNCHANGED plantations
  PROVE  RegistrationsStay
BY DEF RegistrationsStay

LEMMA RegistryStepStays ==
  ASSUME RegistryAssumption, RegistryTypeOK, RegistryNext
  PROVE  RegistrationsStay
<1>1. CASE RegisterPlantation
  <2>1. plantationIdCounter \in Nat /\ 0 .. plantationIdCounter - 1 \subseteq Slots
    BY DEF RegistryAssumption, RegistryTypeOK, Slots
  <2>2. PICK q : plantations' = [plantations EXCEPT ![plantationIdCounter] = q]
    BY <1>1 DEF RegisterPlantation, registerPlantation
  <2>3. \A i \in 0 .. plantationIdCounter - 1 : plantations'[i] = plantations[i]
    BY <2>1, <2>2 DEF RegistryTypeOK
  <2> QED BY <2>3 DEF RegistrationsStay
<1>2. CASE UpdatePlantation
  BY <1>2, UpdateRewrites, RewriteStays
<1>3. CASE AssignCredits
  BY <1>3, AssignRewrites, RewriteStays DEF AssignCredits
<1>4. CASE UNCHANGED plantations
  BY <1>4, UnchangedStays
<1> QED
  BY <1>1, <1>2, <1>3, <1>4 DEF RegistryNext, ConfigureRegistry, registryVars, plantationVars

LEMMA RegistryInvariance == RegistrySpec => []RegistryInv
<1>1. RegistrySystemInit => RegistryInv
  BY AddressAssumption, RegistryAssumption, TokenAssumption, RegistryInitially
     DEF RegistrySystemInit
<1>2. RegistryInv /\ [RegistryNext]_registrySystemVars => RegistryInv'
  <2>1. UNCHANGED registrySystemVars => UNCHANGED registryVars
    BY DEF registrySystemVars
  <2> QED
    BY <2>1, AddressAssumption, RegistryAssumption, RegisterKeeps, UpdateKeeps, AssignKeeps,
       ConfigureKeeps, OthersKeep DEF RegistryNext
<1> QED BY <1>1, <1>2, PTL DEF RegistrySpec

\* getPlantationsByUploader answers exactly the plantations of the address, in
\* the order of their registration, whatever anybody calls in between.
THEOREM UploaderIndexAlwaysExact == RegistrySpec => [](RegistryTypeOK /\ UploaderIndexExact)
<1>1. RegistryInv => RegistryTypeOK /\ UploaderIndexExact
  BY DEF RegistryInv
<1> QED BY <1>1, RegistryInvariance, PTL

\* An id is never reused, and its uploader, its tree count and the fact that
\* its credits were issued never change again.
THEOREM RegistrationsAreKept == RegistrySpec => RegistrationIsPermanent
<1>1. RegistryInv /\ [RegistryNext]_registrySystemVars
        => [RegistrationsStay]_registrySystemVars
  BY RegistryAssumption, RegistryStepStays DEF RegistryInv
<1> QED BY <1>1, RegistryInvariance, PTL DEF RegistrySpec, RegistrationIsPermanent
-----------------------------------------------------------------------------
\* assignCredits mints through the token's owner: the token's invariant holds
\* of the composition too.
LEMMA MintingKeepsToken ==
  ASSUME AddressAssumption, TokenAssumption, RegistryAssumption, RegistryTypeOK, TokenInv,
         NEW s, NEW id \in PlantationIds, assignCredits(s, id),
         UNCHANGED <<tokenOwner, allowance>>
  PROVE  /\ TokenInv'
         /\ id \in Slots
         /\ plantations[id] \in Plantation
         /\ totalSupply' = totalSupply + plantations[id].treeCount
         /\ balance' = Credit(balance, plantations[id].uploader, plantations[id].treeCount)
<1>1. id \in Slots
  BY AssignRewrites
<1>2. plantations[id] \in Plantation
  BY AssignRewrites
<1>3. plantations[id].uploader \in Accounts /\ plantations[id].treeCount \in Uint
  BY <1>2 DEF Plantation
<1>4. _mint(plantations[id].uploader, plantations[id].treeCount)
  BY DEF assignCredits, mint
<1>5. /\ totalSupply' \in Uint
      /\ totalSupply' = totalSupply + plantations[id].treeCount
      /\ balance' \in [Accounts -> Uint]
      /\ balance' = Credit(balance, plantations[id].uploader, plantations[id].treeCount)
      /\ Total(balance') = totalSupply'
  BY <1>3, <1>4, MintIsExact
<1>6. TokenInv'
  BY <1>5 DEF TokenInv, TokenTypeOK, SupplyIsBacked
<1> QED BY <1>1, <1>2, <1>5, <1>6

LEMMA TokenUntouched ==
  ASSUME TokenInv, UNCHANGED tokenVars
  PROVE  TokenInv'
BY DEF TokenInv, TokenTypeOK, SupplyIsBacked, tokenVars

LEMMA RegistryStepKeepsToken ==
  ASSUME AddressAssumption, TokenAssumption, RegistryAssumption, RegistryTypeOK, TokenInv,
         RegistryNext
  PROVE  TokenInv'
<1>1. CASE AssignCredits
  BY <1>1, MintingKeepsToken DEF AssignCredits
<1>2. CASE TokenNext
  BY <1>2, TokenStep
<1>3. CASE UNCHANGED tokenVars
  BY <1>3, TokenUntouched
<1> QED
  BY <1>1, <1>2, <1>3
     DEF RegistryNext, RegisterPlantation, UpdatePlantation, ConfigureRegistry

LEMMA RegistryTokenInvariance == RegistrySpec => [](RegistryInv /\ TokenInv)
<1>1. RegistrySystemInit => TokenInv
  BY AddressAssumption, TokenAssumption, TokenInitInv DEF RegistrySystemInit
<1>2. RegistryInv /\ TokenInv /\ [RegistryNext]_registrySystemVars => TokenInv'
  <2>1. UNCHANGED registrySystemVars => UNCHANGED tokenVars
    BY DEF registrySystemVars
  <2> QED
    BY <2>1, AddressAssumption, TokenAssumption, RegistryAssumption, RegistryStepKeepsToken,
       TokenUntouched DEF RegistryInv
<1> QED BY <1>1, <1>2, RegistryInvariance, PTL DEF RegistrySpec

\* A step that issues nothing: the plantations stay, or change elsewhere.
LEMMA NothingIssued ==
  ASSUME \A i \in Slots : plantations'[i].creditsIssued => plantations[i].creditsIssued,
         tokenOwner = Registry,
         UNCHANGED <<tokenOwner, totalSupply>>
  PROVE  IssueIsBacked
<1>1. issued = {}
  BY DEF issued
<1>2. Cardinality(issued) <= 1
  BY <1>1, FS_EmptySet
<1> QED BY <1>1, <1>2 DEF IssueIsBacked

\* The issue of credits to one plantation.
LEMMA AssigningIsBacked ==
  ASSUME AddressAssumption, TokenAssumption, RegistryAssumption, RegistryTypeOK, TokenInv,
         tokenOwner = Registry, AssignCredits
  PROVE  IssueIsBacked
<1>1. PICK s \in Senders, id \in PlantationIds : assignCredits(s, id)
  BY DEF AssignCredits
<1>2. /\ id \in Slots /\ plantations[id] \in Plantation
      /\ totalSupply' = totalSupply + plantations[id].treeCount
      /\ balance' = Credit(balance, plantations[id].uploader, plantations[id].treeCount)
  BY <1>1, MintingKeepsToken DEF AssignCredits
<1>3. /\ plantations \in [Slots -> Plantation] /\ balance \in [Accounts -> Uint]
      /\ plantations[id].status = "SurvivalVerified"
      /\ ~plantations[id].creditsIssued
  BY <1>1 DEF RegistryTypeOK, TokenInv, TokenTypeOK, assignCredits
<1>4. plantations'[id].creditsIssued /\ \A i \in Slots \ {id} : plantations'[i] = plantations[i]
  BY <1>1, <1>2, <1>3, AssignRewrites
<1>5. issued = {id}
  BY <1>2, <1>3, <1>4 DEF issued
<1>6. Cardinality(issued) <= 1
  BY <1>5, FS_Singleton
<1>7. balance'[plantations[id].uploader]
        = balance[plantations[id].uploader] + plantations[id].treeCount
  BY <1>2, <1>3 DEF Credit, Plantation
<1> QED BY <1>2, <1>3, <1>5, <1>6, <1>7 DEF IssueIsBacked, AssignCredits

\* No account but the registry can mint or pass the token on, and the registry
\* does so in assignCredits alone.
LEMMA RegistryStepIsBacked ==
  ASSUME AddressAssumption, TokenAssumption, RegistryAssumption, RegistryTypeOK, TokenInv,
         tokenOwner = Registry, RegistryNext
  PROVE  IssueIsBacked
<1>1. CASE RegisterPlantation
  <2>1. /\ plantationIdCounter \in Slots /\ plantations \in [Slots -> Plantation]
    BY <1>1 DEF RegistryTypeOK, RegistryAssumption, Slots, RegisterPlantation
  <2>2. PICK q : ~q.creditsIssued /\ plantations' = [plantations EXCEPT ![plantationIdCounter] = q]
    BY <1>1 DEF RegisterPlantation, registerPlantation, newPlantation
  <2>3. \A i \in Slots : plantations'[i].creditsIssued => plantations[i].creditsIssued
    BY <2>1, <2>2
  <2> QED BY <1>1, <2>3, NothingIssued DEF RegisterPlantation, tokenVars
<1>2. CASE UpdatePlantation
  <2>1. PICK id \in 0 .. plantationIdCounter - 1, q \in Plantation :
          /\ plantations' = [plantations EXCEPT ![id] = q]
          /\ q.creditsIssued = plantations[id].creditsIssued
    BY <1>2, UpdateRewrites
  <2>2. plantations \in [Slots -> Plantation]
    BY DEF RegistryTypeOK
  <2>3. \A i \in Slots : plantations'[i].creditsIssued => plantations[i].creditsIssued
    BY <2>1, <2>2
  <2> QED BY <1>2, <2>3, NothingIssued DEF UpdatePlantation, tokenVars
<1>3. CASE AssignCredits
  BY <1>3, AssigningIsBacked
<1>4. CASE TokenNext /\ UNCHANGED plantations
  <2>1. ~Mint /\ ~ChangeOwner
    BY DEF RegistryAssumption, Mint, mint, ChangeOwner, TokenOwnable!onlyOwner,
           TokenOwnable!passOwnership, TokenOwnable!transferOwnership,
           TokenOwnable!renounceOwnership
  <2>2. UNCHANGED <<tokenOwner, totalSupply>>
    BY <1>4, <2>1 DEF TokenNext, Transfer, Approve, TransferFrom
  <2> QED BY <1>4, <2>2, NothingIssued
<1>5. CASE UNCHANGED <<plantations, tokenVars>>
  BY <1>5, NothingIssued DEF tokenVars
<1> QED
  BY <1>1, <1>2, <1>3, <1>4, <1>5
     DEF RegistryNext, ConfigureRegistry, registryVars, plantationVars

\* Once the registry owns the token it keeps it, and from then on a credit is
\* minted only for a tree of a plantation that survived, once.
THEOREM CreditsAreBacked == RegistrySpec => IssuanceIsBacked
<1>1. /\ RegistryInv /\ TokenInv /\ [RegistryNext]_registrySystemVars
        => [tokenOwner = Registry => IssueIsBacked]_registrySystemVars
  BY AddressAssumption, TokenAssumption, RegistryAssumption, RegistryStepIsBacked
     DEF RegistryInv
<1> QED BY <1>1, RegistryTokenInvariance, PTL DEF RegistrySpec, IssuanceIsBacked
=============================================================================
