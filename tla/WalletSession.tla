--------------------------- MODULE WalletSession ---------------------------
(***************************************************************************)
(* Web3Context.js: who the web application believes is using it.           *)
(*                                                                         *)
(* connectWallet awaits the wallet and then the chain, and may run several *)
(* times at once: from the connect button, from a change of accounts and   *)
(* from the reconnection at page load.  A call is a record of where it     *)
(* stands and of the account it was given.  The wallet is the browser's:   *)
(* its announcements of a change reach the page later, in order.           *)
(***************************************************************************)
EXTENDS Naturals, Sequences

CONSTANTS
  WalletAccounts,  \* the wallet's accounts
  NoAccount,       \* no account exposed, or nobody signed in
  ADMIN_ADDRESSES,
  Calls,           \* bound on the calls of connectWallet that run at once
  MaxEvents,       \* bound on the announcements that are under way
  MaxFailures,     \* bound on the awaits that fail
  MaxLoads         \* bound on how often the page is loaded again

ASSUME SessionAssumption ==
  /\ NoAccount \notin WalletAccounts
  /\ ADMIN_ADDRESSES \subseteq WalletAccounts
  /\ MaxEvents \in Nat /\ MaxFailures \in Nat /\ MaxLoads \in Nat

VARIABLES
  wallet,           \* the account the wallet exposes
  events,           \* the accountsChanged events not yet delivered
  whitelisted,      \* NGOManager's answers to isWhitelisted
  calls,            \* the calls of connectWallet
  userAddress,      \* with signer and contracts, which are set beside it
  userRole,
  loading,
  connectedWallet,  \* the flag in localStorage, which survives the page
  failures, loads   \* counters of the bounds

outsideVars == <<wallet, events, whitelisted>>
sessionVars == <<userAddress, userRole, connectedWallet>>
counterVars == <<failures, loads>>
walletVars == <<outsideVars, calls, sessionVars, loading, counterVars>>

Roles == {"PUBLIC", "ADMIN", "NGO"}
Exposed == WalletAccounts \cup {NoAccount}

\* asking: eth_requestAccounts; reading: the calls to the contracts;
\* answered: their answers are on the way to the page.
Idle == [pc |-> "idle", account |-> NoAccount, role |-> "PUBLIC"]
InFlight == {c \in Calls : calls[c].pc # "idle"}

SessionInit ==
  /\ wallet \in Exposed
  /\ events = << >>
  /\ whitelisted \in SUBSET WalletAccounts
  /\ calls = [c \in Calls |-> Idle]
  /\ userAddress = NoAccount /\ userRole = "PUBLIC"
  /\ loading = FALSE
  /\ connectedWallet = FALSE
  /\ failures = 0 /\ loads = 0
-----------------------------------------------------------------------------
\* Mistakes the properties must catch: the address shown before its role is
\* known; the flag taken for a session.
accountsAnsweredEarly(c) ==
  /\ calls[c].pc = "asking"
  /\ wallet # NoAccount
  /\ calls' = [calls EXCEPT ![c].pc = "reading", ![c].account = wallet]
  /\ userAddress' = wallet
  /\ UNCHANGED <<userRole, connectedWallet, loading>>

pageLoadForgetful ==
  /\ calls' = [c \in Calls |-> Idle]
  /\ loading' = FALSE
-----------------------------------------------------------------------------
\* The first, synchronous part of connectWallet.
connectWallet(c) ==
  /\ c \notin InFlight
  /\ calls' = [calls EXCEPT ![c].pc = "asking"]
  /\ loading' = TRUE

\* The wallet answers at once when it exposes an account.
accountsAnswered(c) ==
  /\ calls[c].pc = "asking"
  /\ wallet # NoAccount
  /\ calls' = [calls EXCEPT ![c].pc = "reading", ![c].account = wallet]
  /\ UNCHANGED <<sessionVars, loading>>

roleOf(account) ==
  IF account \in ADMIN_ADDRESSES THEN "ADMIN"
  ELSE IF account \in whitelisted THEN "NGO" ELSE "PUBLIC"

roleRead(c) ==
  /\ calls[c].pc = "reading"
  /\ calls' = [calls EXCEPT ![c].pc = "answered", ![c].role = roleOf(calls[c].account)]

\* The part after the last await: all of the session is set at once.
sessionSet(c) ==
  /\ calls[c].pc = "answered"
  /\ userAddress' = calls[c].account
  /\ userRole' = calls[c].role
  /\ connectedWallet' = TRUE
  /\ loading' = FALSE
  /\ calls' = [calls EXCEPT ![c] = Idle]

\* The catch and finally clauses, whichever await failed.
connectFails(c) ==
  /\ c \in InFlight
  /\ calls' = [calls EXCEPT ![c] = Idle]
  /\ loading' = FALSE

logout ==
  /\ userAddress' = NoAccount
  /\ userRole' = "PUBLIC"
  /\ connectedWallet' = FALSE

\* A new page: nothing but localStorage is left, and the effect reconnects.
pageLoad ==
  IF connectedWallet
  THEN \E c \in Calls :
         /\ calls' = [d \in Calls |-> IF d = c THEN [Idle EXCEPT !.pc = "asking"] ELSE Idle]
         /\ loading' = TRUE
  ELSE /\ calls' = [c \in Calls |-> Idle]
       /\ loading' = FALSE
-----------------------------------------------------------------------------
Connect ==
  /\ \E c \in Calls : connectWallet(c)
  /\ UNCHANGED <<outsideVars, sessionVars, counterVars>>

AccountsAnswered(c) ==
  /\ accountsAnswered(c)
  /\ UNCHANGED <<outsideVars, counterVars>>

RoleRead(c) ==
  /\ roleRead(c)
  /\ UNCHANGED <<outsideVars, sessionVars, loading, counterVars>>

SessionSet(c) ==
  /\ sessionSet(c)
  /\ UNCHANGED <<outsideVars, counterVars>>

ConnectFails ==
  /\ failures < MaxFailures
  /\ failures' = failures + 1
  /\ \E c \in Calls : connectFails(c)
  /\ UNCHANGED <<outsideVars, sessionVars, loads>>

Logout ==
  /\ userAddress # NoAccount
  /\ logout
  /\ UNCHANGED <<outsideVars, calls, loading, counterVars>>

\* handleAccountsChanged.
HandleAccountsChanged ==
  /\ events # << >>
  /\ events' = Tail(events)
  /\ \/ /\ Head(events) # NoAccount
        /\ \E c \in Calls : connectWallet(c)
        /\ UNCHANGED sessionVars
     \/ /\ Head(events) = NoAccount
        /\ logout
        /\ UNCHANGED <<calls, loading>>
  /\ UNCHANGED <<wallet, whitelisted, counterVars>>

\* The user reloads, or handleChainChanged does.
PageLoad ==
  /\ loads < MaxLoads
  /\ loads' = loads + 1
  /\ pageLoad
  /\ events' = << >>
  /\ userAddress' = NoAccount /\ userRole' = "PUBLIC"
  /\ UNCHANGED <<wallet, whitelisted, connectedWallet, failures>>

\* The user switches, connects or disconnects accounts in the wallet.
SwitchAccount ==
  /\ Len(events) < MaxEvents
  /\ \E a \in Exposed \ {wallet} : wallet' = a /\ events' = Append(events, a)
  /\ UNCHANGED <<whitelisted, calls, sessionVars, loading, counterVars>>

\* The administrator's calls to NGOManager.
ChangeWhitelist ==
  /\ \E a \in WalletAccounts :
       whitelisted' = IF a \in whitelisted THEN whitelisted \ {a} ELSE whitelisted \cup {a}
  /\ UNCHANGED <<wallet, events, calls, sessionVars, loading, counterVars>>

SessionNext ==
  \/ Connect
  \/ \E c \in Calls : AccountsAnswered(c) \/ RoleRead(c) \/ SessionSet(c)
  \/ ConnectFails
  \/ Logout
  \/ HandleAccountsChanged
  \/ PageLoad
  \/ SwitchAccount
  \/ ChangeWhitelist

\* Each promise is answered in the end: the wallet's when an account is
\* exposed, the node's always.  Nothing is assumed of the user.
SessionFairness ==
  /\ \A c \in Calls : WF_walletVars(AccountsAnswered(c) \/ RoleRead(c) \/ SessionSet(c))
  /\ WF_walletVars(HandleAccountsChanged)

SessionSpec == SessionInit /\ [][SessionNext]_walletVars /\ SessionFairness
-----------------------------------------------------------------------------
\* Every variable holds a value the pages know what to do with.
SessionTypeOK ==
  /\ wallet \in Exposed
  /\ events \in Seq(Exposed) /\ Len(events) <= MaxEvents
  /\ calls \in [Calls -> [pc : {"idle", "asking", "reading", "answered"},
                          account : Exposed, role : Roles]]
  /\ userAddress \in Exposed
  /\ userRole \in Roles
  /\ loading \in BOOLEAN /\ connectedWallet \in BOOLEAN

\* Whatever calls overlap, the session is all of one account: the role shown
\* was read for the address that signs, an administrator's role for no other
\* account, and nobody has a role without an address.
SessionIsOneAccounts ==
  /\ userAddress = NoAccount => userRole = "PUBLIC"
  /\ userAddress # NoAccount => (userRole = "ADMIN") = (userAddress \in ADMIN_ADDRESSES)
  /\ userAddress # NoAccount => connectedWallet

\* The page never stays in its loading state with no call that will end it.
LoadingIsConnecting == loading => InFlight # {}

\* After a reload a user that was signed in is signed in again, unless the
\* wallet is locked, a call failed or the user signed out.
SessionIsRestored ==
  connectedWallet ~> (\/ userAddress # NoAccount \/ wallet = NoAccount
                      \/ ~connectedWallet \/ failures > 0)

\* What the comment at the accountsChanged handler says, "When accounts
\* change, re-run the entire connectWallet logic to update the signer,
\* contracts, and role": once no call is under way and every change was
\* announced, the session is of the account the wallet exposes.  A call that
\* began before the change and ends after the newer one breaks it.
SessionFollowsWallet ==
  InFlight = {} /\ events = << >> /\ failures = 0 /\ wallet # NoAccount
    => userAddress \in {NoAccount, wallet}
=============================================================================
