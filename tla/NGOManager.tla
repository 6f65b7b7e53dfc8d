----------------------------- MODULE NGOManager -----------------------------
(***************************************************************************)
(* NGOManager.sol: the owner's register of NGOs and their status.  Names,  *)
(* countries and registration dates are left out: nothing reads them.      *)
(***************************************************************************)
EXTENDS Addresses, Sequences, Functions

CONSTANTS
  ManagerOwners,  \* the addresses ownership passes to, ZeroAddress by renouncing
  Candidates,     \* the addresses somebody tries to register
  Statuses        \* the values setNGOStatus is called with

NGOStatus == {"Pending", "Whitelisted", "Blacklisted"}

ASSUME NGOAssumption ==
  /\ ManagerOwners \subseteq Accounts
  /\ Candidates \subseteq Accounts
  /\ Statuses \subseteq NGOStatus

VARIABLES
  managerOwner,  \* Ownable._owner
  ngos,
  ngoList

managerVars == <<managerOwner, ngos, ngoList>>

ManagerOwnable == INSTANCE Ownable WITH owner <- managerOwner

NGO == [walletAddress : Accounts, status : NGOStatus, exists : BOOLEAN]

\* What an unwritten entry of the mapping reads as.
NoNGO == [walletAddress |-> ZeroAddress, status |-> "Pending", exists |-> FALSE]

ManagerInit ==
  /\ managerOwner = Deployer
  /\ ngos = [a \in Accounts |-> NoNGO]
  /\ ngoList = << >>
-----------------------------------------------------------------------------
isWhitelisted(a) == ngos[a].exists /\ ngos[a].status = "Whitelisted"

\* A mistake the properties must catch: the check that the NGO is not yet
\* registered is forgotten.
whitelistNGOAgain(sender, a) ==
  /\ ManagerOwnable!onlyOwner(sender)
  /\ ngos' = [ngos EXCEPT ![a] =
       [walletAddress |-> a, status |-> "Whitelisted", exists |-> TRUE]]
  /\ ngoList' = Append(ngoList, a)

whitelistNGO(sender, a) ==
  /\ ManagerOwnable!onlyOwner(sender)
  /\ ~ngos[a].exists
  /\ ngos' = [ngos EXCEPT ![a] =
       [walletAddress |-> a, status |-> "Whitelisted", exists |-> TRUE]]
  /\ ngoList' = Append(ngoList, a)

setNGOStatus(sender, a, newStatus) ==
  /\ ManagerOwnable!onlyOwner(sender)
  /\ ngos[a].exists
  /\ ngos' = [ngos EXCEPT ![a].status = newStatus]

WhitelistNGO ==
  /\ \E s \in Senders, a \in Candidates : whitelistNGO(s, a)
  /\ UNCHANGED managerOwner

SetNGOStatus ==
  /\ \E s \in Senders, a \in Candidates, st \in Statuses : setNGOStatus(s, a, st)
  /\ UNCHANGED <<managerOwner, ngoList>>

ChangeManagerOwner ==
  /\ \E s \in Senders, a \in ManagerOwners : ManagerOwnable!passOwnership(s, a)
  /\ UNCHANGED <<ngos, ngoList>>

ManagerNext == WhitelistNGO \/ SetNGOStatus \/ ChangeManagerOwner

ManagerSpec == ManagerInit /\ [][ManagerNext]_managerVars
-----------------------------------------------------------------------------
\* Every variable holds a value of its type, and an entry nobody registered is
\* still empty.
ManagerTypeOK ==
  /\ managerOwner \in Accounts
  /\ ngos \in [Accounts -> NGO]
  /\ ngoList \in Seq(Accounts)
  /\ \A a \in Accounts : ~ngos[a].exists => ngos[a] = NoNGO

\* The list the admin's pages walk (getNGOCount, ngoList) names every NGO of
\* the mapping exactly once, also after status changes and repeated attempts
\* to register one.
NGOListExact ==
  /\ IsInjective(ngoList)
  /\ Range(ngoList) = {a \in Accounts : ngos[a].exists}
  /\ \A a \in Range(ngoList) : ngos[a].walletAddress = a
=============================================================================
