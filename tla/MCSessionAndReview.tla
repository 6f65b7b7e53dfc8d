------------------------- MODULE MCSessionAndReview -------------------------
(***************************************************************************)
(* Who is signed in, and the page on which the administrator decides; each *)
(* is explored while the other has not begun.                              *)
(*                                                                         *)
(* The wallet has two accounts, one of them the administrator's, and       *)
(* connectWallet runs twice at once.  One project of one NGO is reviewed   *)
(* on two pages, while the score oracle is at work and the NGO may         *)
(* withdraw its stake.                                                     *)
(***************************************************************************)
EXTENDS WalletSession, ReviewPage

CONSTANTS zero, deployer, ngo, oracle, registry, manager, vault, verification,
          one, two

MCAccounts == {zero, deployer, ngo, oracle, registry, manager, vault, verification}

VARIABLE part   \* what is explored: it never changes

MCVars == <<walletVars, reviewVars, part>>

MCInit ==
  /\ SessionInit /\ ReviewInit
  /\ \/ part = "session"
     \/ part = "review" /\ wallet = NoAccount /\ whitelisted = {}

MCNext ==
  \/ part = "session" /\ SessionNext /\ UNCHANGED <<reviewVars, part>>
  \/ part = "review" /\ ReviewNext /\ UNCHANGED <<walletVars, part>>

\* In the part that stands still, no action with a fairness condition is
\* enabled: no call has begun and no page is open.
MCSpec == MCInit /\ [][MCNext]_MCVars /\ SessionFairness /\ ReviewFairness
=============================================================================
