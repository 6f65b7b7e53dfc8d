----------------------------- MODULE SubmitFlow -----------------------------
(***************************************************************************)
(* Submitting a project through the web application: handleSubmit of       *)
(* submit/page.js and submitNewProject of Web3Context.js, over the         *)
(* deployed contracts.  An attempt uploads the file, reads the minimum     *)
(* stake, and sends three transactions, each awaited before the next; the  *)
(* owner may change the minimum or the NGO's status in between, and the    *)
(* same NGO may have the page open twice.                                  *)
(*                                                                         *)
(* The NGO calls the contracts from this page only: no page of the         *)
(* application withdraws a stake.                                          *)
(***************************************************************************)
EXTENDS BlueCarbon

CONSTANTS
  Tabs,            \* the submit pages that are open
  NGOOf,           \* the NGO signed in on each
  MaxAttempts,     \* bound on the attempts
  MaxLostAnswers   \* bound on prompts that are refused and answers that are lost

ASSUME SubmitAssumption ==
  /\ IsFiniteSet(Tabs)
  /\ NGOOf \in [Tabs -> Senders]
  /\ MaxAttempts \in 0 .. MaxPlantations
  /\ MaxLostAnswers \in Nat

VARIABLES
  tab,          \* where each page stands and the minimum it read
  attempts, lostAnswers

submitVars == <<tab, attempts, lostAnswers, systemVars>>

Form == [step |-> "form", amount |-> 0]

SubmitInit ==
  /\ Init
  /\ tab = [t \in Tabs |-> Form]
  /\ attempts = 0 /\ lostAnswers = 0
-----------------------------------------------------------------------------
at(t, step) == tab[t].step = step

goTo(t, step) == tab' = [tab EXCEPT ![t].step = step]

\* The end of handleSubmit's try, or its catch, and its finally clause.
release(t) == goTo(t, "form")

\* A mistake the properties must catch: the allowance is raised, not set.
approveMinedRaising(t) ==
  /\ at(t, "approve")
  /\ approve(NGOOf[t], Vault, allowance[NGOOf[t]][Vault] + tab[t].amount)
  /\ UNCHANGED <<verificationVars, registryVars, managerVars, stakeVars,
                 tokenOwner, balance, totalSupply>>

\* What the transaction of a step does once it is mined; its guard is the
\* contracts'.
approveMined(t) ==
  /\ at(t, "approve")
  /\ approve(NGOOf[t], Vault, tab[t].amount)
  /\ UNCHANGED <<verificationVars, registryVars, managerVars, stakeVars,
                 tokenOwner, balance, totalSupply>>

stakeMined(t) ==
  /\ at(t, "stake")
  /\ stakeTokens(NGOOf[t], tab[t].amount)
  /\ UNCHANGED <<verificationVars, registryVars, managerVars, configVars,
                 reputationScore, tokenOwner, totalSupply>>

registerMined(t) ==
  /\ at(t, "register")
  /\ \E n \in TreeCounts, h \in Hashes : registerPlantation(NGOOf[t], n, h)
  /\ UNCHANGED <<verificationVars, registryConfigVars, managerVars, stakeVars, tokenVars>>

Mined(t) == approveMined(t) \/ stakeMined(t) \/ registerMined(t)

\* The receipt arrives and the next step begins.
afterReceipt(t) ==
  CASE at(t, "approve")  -> goTo(t, "stake")
    [] at(t, "stake")    -> goTo(t, "register")
    [] at(t, "register") -> release(t)

\* Mistakes the properties must catch: the stake's receipt is not awaited and
\* the page registers whatever became of it; a failed receipt leaves the page
\* submitting.
revertedUnnoticed(t) ==
  \/ at(t, "stake") /\ ~ENABLED stakeMined(t) /\ goTo(t, "register")
  \/ at(t, "register") /\ ~ENABLED registerMined(t) /\ release(t)

revertedSubmitting(t) ==
  \/ at(t, "stake") /\ ~ENABLED stakeMined(t) /\ release(t)
  \/ at(t, "register") /\ ~ENABLED registerMined(t) /\ UNCHANGED tab

\* A transaction the contracts refuse: the promise rejects.
reverted(t) ==
  /\ \/ at(t, "stake") /\ ~ENABLED stakeMined(t)
     \/ at(t, "register") /\ ~ENABLED registerMined(t)
  /\ release(t)
-----------------------------------------------------------------------------
Submit ==
  /\ attempts < MaxAttempts
  /\ attempts' = attempts + 1
  /\ \E t \in Tabs :
       /\ at(t, "form")
       /\ tab' = [tab EXCEPT ![t] = [step |-> "upload", amount |-> 0]]
  /\ UNCHANGED <<lostAnswers, systemVars>>

Upload(t) ==
  /\ at(t, "upload")
  /\ goTo(t, "minimum")
  /\ UNCHANGED <<attempts, lostAnswers, systemVars>>

ReadMinimum(t) ==
  /\ at(t, "minimum")
  /\ tab' = [tab EXCEPT ![t].step = "approve", ![t].amount = minimumStake]
  /\ UNCHANGED <<attempts, lostAnswers, systemVars>>

Transact(t) ==
  /\ Mined(t)
  /\ afterReceipt(t)
  /\ UNCHANGED <<attempts, lostAnswers>>

Reverted(t) ==
  /\ reverted(t)
  /\ UNCHANGED <<attempts, lostAnswers, systemVars>>

\* The upload or a read fails, or the user refuses a transaction.
Refused ==
  /\ lostAnswers < MaxLostAnswers
  /\ lostAnswers' = lostAnswers + 1
  /\ \E t \in Tabs : ~at(t, "form") /\ release(t)
  /\ UNCHANGED <<attempts, systemVars>>

\* The transaction is mined, but its receipt does not reach the page.
ReceiptLost ==
  /\ lostAnswers < MaxLostAnswers
  /\ lostAnswers' = lostAnswers + 1
  /\ \E t \in Tabs : Mined(t) /\ release(t)
  /\ UNCHANGED attempts

\* The owner funds and admits NGOs and sets the minimum.
OwnerActs ==
  /\ \/ Transfer /\ UNCHANGED <<verificationVars, registryVars, managerVars, stakeVars>>
     \/ ConfigureStake /\ UNCHANGED <<verificationVars, registryVars, managerVars>>
     \/ /\ WhitelistNGO \/ SetNGOStatus
        /\ UNCHANGED <<verificationVars, registryVars, stakeVars, tokenVars>>
  /\ UNCHANGED <<tab, attempts, lostAnswers>>

SubmitNext ==
  \/ Submit
  \/ \E t \in Tabs : Upload(t) \/ ReadMinimum(t) \/ Transact(t) \/ Reverted(t)
  \/ Refused
  \/ ReceiptLost
  \/ OwnerActs

\* Every promise of an attempt is settled: the user answers the prompts and
\* the chain mines or refuses what was sent.
SubmitFairness ==
  \A t \in Tabs : WF_submitVars(Upload(t) \/ ReadMinimum(t) \/ Transact(t) \/ Reverted(t))

SubmitSpec == SubmitInit /\ [][SubmitNext]_submitVars /\ SubmitFairness
-----------------------------------------------------------------------------
projectsOf(a) == Len(plantationsByUploader[a])

\* The lowest and the highest stake that was ever asked for.
StakesAsked == Minimums \cup {InitialMinimumStake}
LowestStake == CHOOSE n \in StakesAsked : \A k \in StakesAsked : n <= k
HighestStake == CHOOSE n \in StakesAsked : \A k \in StakesAsked : n >= k

\* Every project that reached the registry through the application is staked
\* for, by a stake of its own, however attempts on two pages interleave,
\* whatever receipts are lost, and while the owner moves the minimum: a page
\* registers only after the stake it read was taken.
EveryProjectIsStaked ==
  \A t \in Tabs :
    stakedAmount[NGOOf[t]] >= projectsOf(NGOOf[t]) * LowestStake

\* The NGO pays at most one stake for an attempt, and what the pages may still
\* pull for it is no more than one stake: attempts overwrite one another's
\* allowance and cannot add theirs up.
StakesAreBounded ==
  \A t \in Tabs :
    /\ stakedAmount[NGOOf[t]] <= attempts * HighestStake
    /\ allowance[NGOOf[t]][Vault] <= HighestStake

\* The page is released in the end: an attempt does not hang, whichever of its
\* transactions the contracts refuse.
AttemptsEnd == \A t \in Tabs : ~at(t, "form") ~> at(t, "form")
=============================================================================
