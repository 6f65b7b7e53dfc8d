------------------- MODULE SubmissionAndDashboardTheorems -------------------
(***************************************************************************)
(* The submit page and the administrator's dashboard, for any pages, NGOs, *)
(* minimums, projects, requests and scores.  The stakes fit the projects   *)
(* because every attempt is counted where it stands: one that has staked   *)
(* is booked like a project, one that may still stake like a stake.  The   *)
(* scores are current because the score the contract holds is shown or on  *)
(* its way, as an event not yet handled or a read that will return it.     *)
(***************************************************************************)
EXTENDS SubmitFlow, AdminDashboard, StakeReputationTheorems, WellFoundedInduction

Steps == {"form", "upload", "minimum", "approve", "stake", "register"}

\* The steps of an attempt that may still stake, and of one that has.
Paying == {"upload", "minimum", "approve", "stake"}
Paid == {"register"}

SubmitTyped ==
  /\ tab \in [Tabs -> [step : Steps, amount : Nat]]
  /\ \A t \in Tabs : tab[t].step \in {"approve", "stake"} => tab[t].amount \in StakesAsked
  /\ attempts \in Nat
  /\ minimumStake \in StakesAsked
  /\ stakedAmount \in [Accounts -> Nat]
  /\ allowance \in [Accounts -> [Accounts -> Nat]]
  /\ plantationsByUploader \in [Accounts -> Seq(Nat)]
  /\ plantationIdCounter \in Nat

\* The pages of an NGO that stand at one of the given steps, counted as coins.
IsAt(g, t, a, S) == IF NGOOf[t] = a /\ g[t].step \in S THEN 1 ELSE 0
PagesAt(g, a, S) == Total([t \in Tabs |-> IsAt(g, t, a, S)])

\* An attempt that has staked is booked like a project, one that may still
\* stake as if it had, at the highest price.
StakesFit(a) ==
  /\ stakedAmount[a] >= (projectsOf(a) + PagesAt(tab, a, Paid)) * LowestStake
  /\ stakedAmount[a] + PagesAt(tab, a, Paying) * HighestStake <= attempts * HighestStake

AllowancesFit == \A a \in Senders : allowance[a][Vault] <= HighestStake

SubmitInv ==
  /\ SubmitTyped
  /\ \A a \in Senders : StakesFit(a)
  /\ AllowancesFit

\* A set of natural numbers has a least element, and a bounded one a greatest.
LEMMA LeastOf ==
  ASSUME NEW S, S \subseteq Nat, S # {}
  PROVE  \E n \in S : \A k \in S : n <= k
<1>1. PICK n \in S : \A k \in S : <<k, n>> \notin OpToRel(<, Nat)
  BY NatLessThanWellFounded, WFMin
<1>2. \A k \in S : ~(k < n)
  BY <1>1 DEF OpToRel
<1> QED BY <1>2

LEMMA GreatestOf ==
  ASSUME NEW N \in Nat, NEW S, S \subseteq 0 .. N, S # {}
  PROVE  \E n \in S : \A k \in S : n >= k
<1> DEFINE T == {N - k : k \in S}
<1>1. T \subseteq Nat
  OBVIOUS
<1>2. T # {}
  OBVIOUS
<1>3. PICK m \in T : \A k \in T : m <= k
  BY <1>1, <1>2, LeastOf
<1>4. PICK n \in S : m = N - n
  OBVIOUS
<1>5. ASSUME NEW k \in S PROVE n >= k
  <2>1. N - k \in T
    OBVIOUS
  <2>2. N - n <= N - k
    BY <1>3, <1>4, <2>1
  <2> QED BY <2>2
<1> QED BY <1>5

\* Every minimum that is ever in force lies between the lowest and the highest.
LEMMA StakeRange ==
  /\ LowestStake \in Nat /\ HighestStake \in Nat /\ LowestStake <= HighestStake
  /\ InitialMinimumStake \in StakesAsked /\ Minimums \subseteq StakesAsked
  /\ \A n \in StakesAsked : n \in Nat /\ LowestStake <= n /\ n <= HighestStake
<1>1. /\ MaxUint \in Nat /\ StakesAsked \subseteq 0 .. MaxUint
      /\ InitialMinimumStake \in StakesAsked /\ Minimums \subseteq StakesAsked
  BY TokenAssumption, StakeAssumption DEF StakesAsked, Uint
<1>2. StakesAsked \subseteq Nat
  BY <1>1
<1>3. \E n \in StakesAsked : \A k \in StakesAsked : n <= k
  BY <1>1, <1>2, LeastOf
<1>4. \E n \in StakesAsked : \A k \in StakesAsked : n >= k
  BY <1>1, GreatestOf
<1>5. LowestStake \in StakesAsked /\ \A k \in StakesAsked : LowestStake <= k
  BY <1>3 DEF LowestStake
<1>6. HighestStake \in StakesAsked /\ \A k \in StakesAsked : HighestStake >= k
  BY <1>4 DEF HighestStake
<1> QED BY <1>1, <1>2, <1>5, <1>6

\* How a count of pages changes with one page.
LEMMA PageMoves ==
  ASSUME NEW g, NEW h, NEW t \in Tabs, \A u \in Tabs \ {t} : h[u] = g[u], NEW a, NEW S
  PROVE  /\ PagesAt(g, a, S) \in Nat
         /\ PagesAt(h, a, S) \in Nat
         /\ PagesAt(h, a, S) = PagesAt(g, a, S) - IsAt(g, t, a, S) + IsAt(h, t, a, S)
<1> DEFINE f == [u \in Tabs |-> IsAt(g, u, a, S)]
           e == [u \in Tabs |-> IsAt(h, u, a, S)]
<1>1. IsFiniteSet(Tabs)
  BY SubmitAssumption
<1>2. f \in [Tabs -> 0 .. 1] /\ e \in [Tabs -> 0 .. 1]
  BY DEF IsAt
<1>3. \A u \in Tabs \ {t} : e[u] = f[u]
  BY DEF IsAt
<1>4. /\ f[t] = IsAt(g, t, a, S) /\ e[t] = IsAt(h, t, a, S)
      /\ PagesAt(g, a, S) = Total(f) /\ PagesAt(h, a, S) = Total(e)
  BY DEF PagesAt
<1> HIDE DEF f, e
<1>5. Total(f) \in Nat /\ Total(e) \in Nat
  BY <1>1, <1>2, CoinsFinite
<1>6. Total(e) = Total(f) - f[t] + e[t]
  BY <1>1, <1>2, <1>3, TotalUpdate
<1> QED BY <1>4, <1>5, <1>6

\* With every page at the form nothing is counted.
LEMMA NoPages ==
  ASSUME NEW g, \A t \in Tabs : g[t].step = "form", NEW a
  PROVE  PagesAt(g, a, Paid) = 0 /\ PagesAt(g, a, Paying) = 0
<1>1. /\ [t \in Tabs |-> IsAt(g, t, a, Paid)] = [t \in Tabs |-> 0]
      /\ [t \in Tabs |-> IsAt(g, t, a, Paying)] = [t \in Tabs |-> 0]
  BY DEF IsAt, Paid, Paying
<1> QED BY <1>1, TotalOfZero DEF PagesAt

LEMMA Monotone ==
  ASSUME NEW x \in Nat, NEW y \in Nat, NEW z \in Nat, x <= y
  PROVE  x * z \in Nat /\ y * z \in Nat /\ x * z <= y * z /\ (x + 1) * z = x * z + z
<1> QED OBVIOUS

\* The two bounds, in numbers: a stake s for x projects at L each, and with p
\* more stakes to come, of m at H each.
LEMMA CoverMoves ==
  ASSUME NEW L \in Nat, NEW s \in Nat, NEW x \in Nat, NEW s2 \in Nat, NEW x2 \in Nat,
         s >= x * L,
         \/ s2 = s /\ x2 <= x
         \/ s2 >= s + L /\ x2 <= x + 1
  PROVE  s2 >= x2 * L
<1>1. /\ x * L \in Nat /\ (x + 1) * L = x * L + L
      /\ x2 * L \in Nat
      /\ x2 <= x => x2 * L <= x * L
      /\ x2 <= x + 1 => x2 * L <= (x + 1) * L
  BY Monotone
<1> QED BY <1>1

LEMMA BoundMoves ==
  ASSUME NEW H \in Nat, NEW s \in Nat, NEW p \in Nat, NEW m \in Nat,
         NEW s2 \in Nat, NEW p2 \in Nat, NEW m2 \in Nat,
         s + p * H <= m * H,
         \/ s2 = s /\ p2 + m <= p + m2
         \/ s2 <= s + H /\ p2 + 1 + m <= p + m2
  PROVE  s2 + p2 * H <= m2 * H
<1>1. /\ p2 * H \in Nat /\ m * H \in Nat /\ p * H \in Nat /\ m2 * H \in Nat
      /\ (p2 + m) * H = p2 * H + m * H /\ (p + m2) * H = p * H + m2 * H
      /\ (p2 + 1 + m) * H = p2 * H + H + m * H
  OBVIOUS
<1>2. /\ p2 + m <= p + m2 => (p2 + m) * H <= (p + m2) * H
      /\ p2 + 1 + m <= p + m2 => (p2 + 1 + m) * H <= (p + m2) * H
  BY Monotone
<1> QED BY <1>1, <1>2

\* What a step of page t does to the NGO on it and to nobody else: an attempt
\* begins, proceeds or is given up, its stake is taken, or its project registered.
PageEffect(t, q) ==
  LET c == NGOOf[t]
      p == tab[t].step
  IN  \/ /\ p = "form" /\ q.step = "upload" /\ attempts' = attempts + 1
         /\ stakedAmount'[c] = stakedAmount[c] /\ projectsOf(c)' = projectsOf(c)
      \/ /\ q.step # "register" /\ (q.step \in Paying => p \in Paying)
         /\ attempts' = attempts
         /\ stakedAmount'[c] = stakedAmount[c] /\ projectsOf(c)' = projectsOf(c)
      \/ /\ p = "stake" /\ q.step \in {"form", "register"} /\ attempts' = attempts
         /\ \E n \in StakesAsked : stakedAmount'[c] = stakedAmount[c] + n
         /\ projectsOf(c)' = projectsOf(c)
      \/ /\ p = "register" /\ q.step = "form" /\ attempts' = attempts
         /\ stakedAmount'[c] = stakedAmount[c] /\ projectsOf(c)' = projectsOf(c) + 1

OthersKeepTheirs(c) ==
  \A a \in Senders \ {c} :
    stakedAmount'[a] = stakedAmount[a] /\ projectsOf(a)' = projectsOf(a)

\* A page's step keeps the two bounds.
LEMMA PageKeepsFit ==
  ASSUME SubmitInv, NEW t \in Tabs, NEW q,
         tab' = [tab EXCEPT ![t] = q], SubmitTyped',
         PageEffect(t, q), OthersKeepTheirs(NGOOf[t])
  PROVE  \A a \in Senders : StakesFit(a)'
<1> SUFFICES ASSUME NEW a \in Senders PROVE StakesFit(a)'
  OBVIOUS
<1>0. a \in Accounts /\ NGOOf[t] \in Senders
  BY AddressAssumption, SubmitAssumption
<1>1. /\ stakedAmount[a] \in Nat /\ stakedAmount'[a] \in Nat
      /\ attempts \in Nat
      /\ tab \in [Tabs -> [step : Steps, amount : Nat]]
      /\ plantationsByUploader[a] \in Seq(Nat) /\ plantationsByUploader'[a] \in Seq(Nat)
  BY <1>0 DEF SubmitInv, SubmitTyped
<1> DEFINE k == projectsOf(a)
           k2 == projectsOf(a)'
           r == PagesAt(tab, a, Paid)
           r2 == PagesAt(tab', a, Paid)
           p == PagesAt(tab, a, Paying)
           p2 == PagesAt(tab', a, Paying)
<1>2. PICK g : g = tab
  OBVIOUS
<1>3. PICK h : h = tab'
  OBVIOUS
<1>4. h[t] = q /\ \A u \in Tabs \ {t} : h[u] = g[u]
  BY <1>1, <1>2, <1>3
<1>5. /\ r \in Nat /\ r2 \in Nat /\ p \in Nat /\ p2 \in Nat
      /\ r2 = r - IsAt(g, t, a, Paid) + IsAt(h, t, a, Paid)
      /\ p2 = p - IsAt(g, t, a, Paying) + IsAt(h, t, a, Paying)
  <2>1. \A S : /\ PagesAt(g, a, S) \in Nat /\ PagesAt(h, a, S) \in Nat
               /\ PagesAt(h, a, S) = PagesAt(g, a, S) - IsAt(g, t, a, S) + IsAt(h, t, a, S)
    BY <1>4, PageMoves
  <2>2. /\ r = PagesAt(g, a, Paid) /\ r2 = PagesAt(h, a, Paid)
        /\ p = PagesAt(g, a, Paying) /\ p2 = PagesAt(h, a, Paying)
    BY <1>2, <1>3
  <2> HIDE DEF r, r2, p, p2
  <2> QED BY <2>1, <2>2
<1>6. /\ IsAt(g, t, a, Paid) = IF NGOOf[t] = a /\ tab[t].step = "register" THEN 1 ELSE 0
      /\ IsAt(h, t, a, Paid) = IF NGOOf[t] = a /\ q.step = "register" THEN 1 ELSE 0
      /\ IsAt(g, t, a, Paying) = IF NGOOf[t] = a /\ tab[t].step \in Paying THEN 1 ELSE 0
      /\ IsAt(h, t, a, Paying) = IF NGOOf[t] = a /\ q.step \in Paying THEN 1 ELSE 0
  BY <1>2, <1>4 DEF IsAt, Paid
<1>7. /\ stakedAmount[a] >= (k + r) * LowestStake
      /\ stakedAmount[a] + p * HighestStake <= attempts * HighestStake
  BY DEF SubmitInv, StakesFit
<1> HIDE DEF k, k2, r, r2, p, p2
<1>8. /\ k \in Nat /\ k2 \in Nat
      /\ stakedAmount[a] \in Nat /\ attempts \in Nat /\ attempts' \in Nat
      /\ r \in Nat /\ r2 \in Nat /\ p \in Nat /\ p2 \in Nat
  BY <1>1, <1>5 DEF k, k2, projectsOf, SubmitTyped
<1>9. \/ /\ stakedAmount'[a] = stakedAmount[a]
         /\ k2 + r2 <= k + r /\ p2 + attempts <= p + attempts'
      \/ /\ stakedAmount'[a] >= stakedAmount[a] + LowestStake
         /\ stakedAmount'[a] <= stakedAmount[a] + HighestStake
         /\ k2 + r2 <= k + r + 1 /\ p2 + 1 + attempts <= p + attempts'
  <2>1. CASE a # NGOOf[t]
    <3>1. stakedAmount'[a] = stakedAmount[a] /\ k2 = k
      BY <2>1 DEF OthersKeepTheirs, k, k2
    <3>2. attempts <= attempts'
      BY <1>8 DEF PageEffect
    <3>3. r2 = r /\ p2 = p
      BY <1>5, <1>6, <1>8, <2>1
    <3> QED BY <1>8, <3>1, <3>2, <3>3
  <2>2. CASE a = NGOOf[t]
    <3>1. CASE /\ tab[t].step = "form" /\ q.step = "upload" /\ attempts' = attempts + 1
               /\ stakedAmount'[a] = stakedAmount[a] /\ k2 = k
      <4>1. r2 = r /\ p2 = p + 1
        BY <1>5, <1>6, <1>8, <2>2, <3>1 DEF Paying
      <4> QED BY <1>8, <3>1, <4>1
    <3>2. CASE /\ q.step # "register" /\ (q.step \in Paying => tab[t].step \in Paying)
               /\ attempts' = attempts
               /\ stakedAmount'[a] = stakedAmount[a] /\ k2 = k
      <4>1. r2 <= r
        BY <1>5, <1>6, <1>8, <2>2, <3>2
      <4>2. p2 <= p
        BY <1>5, <1>6, <1>8, <2>2, <3>2
      <4> QED BY <1>8, <3>2, <4>1, <4>2
    <3>3. CASE /\ tab[t].step = "stake" /\ q.step \in {"form", "register"}
               /\ attempts' = attempts
               /\ \E n \in StakesAsked : stakedAmount'[a] = stakedAmount[a] + n
               /\ k2 = k
      <4>1. /\ stakedAmount'[a] >= stakedAmount[a] + LowestStake
            /\ stakedAmount'[a] <= stakedAmount[a] + HighestStake
        BY <1>8, <3>3, StakeRange
      <4>2. r2 <= r + 1
        BY <1>5, <1>6, <1>8, <2>2, <3>3
      <4>3. p2 + 1 = p
        BY <1>5, <1>6, <1>8, <2>2, <3>3 DEF Paying
      <4> QED BY <1>8, <3>3, <4>1, <4>2, <4>3
    <3>4. CASE /\ tab[t].step = "register" /\ q.step = "form" /\ attempts' = attempts
               /\ stakedAmount'[a] = stakedAmount[a] /\ k2 = k + 1
      <4>1. r2 + 1 = r /\ p2 = p
        BY <1>5, <1>6, <1>8, <2>2, <3>4 DEF Paying
      <4> QED BY <1>8, <3>4, <4>1
    <3> QED BY <2>2, <3>1, <3>2, <3>3, <3>4 DEF PageEffect, k, k2
  <2> QED BY <2>1, <2>2
<1>10. /\ stakedAmount'[a] >= (k2 + r2) * LowestStake
       /\ stakedAmount'[a] + p2 * HighestStake <= attempts' * HighestStake
  <2> DEFINE s == stakedAmount[a]
             s2 == stakedAmount'[a]
             x == k + r
             x2 == k2 + r2
  <2>0. LowestStake \in Nat /\ HighestStake \in Nat /\ LowestStake <= HighestStake
    BY StakeRange
  <2>1. s \in Nat /\ s2 \in Nat /\ x \in Nat /\ x2 \in Nat
    BY <1>1, <1>8
  <2>2. s >= x * LowestStake /\ s + p * HighestStake <= attempts * HighestStake
    BY <1>7
  <2>3. /\ \/ s2 = s /\ x2 <= x
           \/ s2 >= s + LowestStake /\ x2 <= x + 1
        /\ \/ s2 = s /\ p2 + attempts <= p + attempts'
           \/ s2 <= s + HighestStake /\ p2 + 1 + attempts <= p + attempts'
    BY <1>9
  <2> HIDE DEF s, s2, x, x2
  <2>4. s2 >= x2 * LowestStake
    BY <2>0, <2>1, <2>2, <2>3, CoverMoves
  <2>5. s2 + p2 * HighestStake <= attempts' * HighestStake
    BY <1>8, <2>0, <2>1, <2>2, <2>3, BoundMoves
  <2> QED BY <2>4, <2>5 DEF s2, x2
<1> QED BY <1>10 DEF StakesFit, k2, r2, p2

LEMMA SubmitInitially == ASSUME SubmitInit PROVE SubmitInv
<1>1. tab = [t \in Tabs |-> Form] /\ attempts = 0
  BY DEF SubmitInit
<1>2. /\ stakedAmount = [a \in Accounts |-> 0] /\ minimumStake = InitialMinimumStake
      /\ allowance = [a \in Accounts |-> [s \in Accounts |-> 0]]
      /\ plantationsByUploader = [a \in Accounts |-> << >>] /\ plantationIdCounter = 0
  BY DEF SubmitInit, Init, WiredStake, WiredRegistry, DeployedToken
<1>3. SubmitTyped
  BY <1>1, <1>2, StakeRange DEF SubmitTyped, Form, Steps
<1>4. \A a \in Accounts : stakedAmount[a] = 0 /\ projectsOf(a) = 0 /\ allowance[a][Vault] = 0
  BY <1>2, StakeAssumption DEF projectsOf
<1>5. Senders \subseteq Accounts
  BY AddressAssumption
<1>6. PICK g : g = tab
  OBVIOUS
<1>7. \A a : PagesAt(g, a, Paid) = 0 /\ PagesAt(g, a, Paying) = 0
  BY <1>1, <1>6, NoPages DEF Form
<1>8. \A a \in Senders : StakesFit(a)
  BY <1>1, <1>4, <1>5, <1>6, <1>7, StakeRange DEF StakesFit
<1>9. AllowancesFit
  BY <1>4, <1>5, StakeRange DEF AllowancesFit
<1> QED BY <1>3, <1>8, <1>9 DEF SubmitInv

PageRecord == [step : Steps, amount : Nat]

\* A page that goes to a step keeps the minimum it read.
LEMMA GoesTo ==
  ASSUME SubmitTyped, NEW t \in Tabs, NEW st \in Steps, goTo(t, st)
  PROVE  \E q \in PageRecord :
           q.step = st /\ q.amount = tab[t].amount /\ tab' = [tab EXCEPT ![t] = q]
<1> DEFINE q == [tab[t] EXCEPT !.step = st]
<1>1. tab[t] \in PageRecord
  BY DEF SubmitTyped, PageRecord
<1>2. q \in PageRecord /\ q.step = st /\ q.amount = tab[t].amount
  BY <1>1 DEF PageRecord
<1>3. tab' = [tab EXCEPT ![t] = q]
  BY DEF goTo
<1> QED BY <1>2, <1>3

LEMMA PageTyped ==
  ASSUME SubmitTyped, NEW t \in Tabs, NEW q \in PageRecord, tab' = [tab EXCEPT ![t] = q],
         q.step \in {"approve", "stake"} => q.amount \in StakesAsked
  PROVE  /\ tab' \in [Tabs -> [step : Steps, amount : Nat]]
         /\ \A u \in Tabs : tab'[u].step \in {"approve", "stake"} => tab'[u].amount \in StakesAsked
<1>1. \A u \in Tabs : tab'[u] = IF u = t THEN q ELSE tab[u]
  BY DEF SubmitTyped
<1>2. tab' \in [Tabs -> [step : Steps, amount : Nat]]
  BY DEF SubmitTyped, PageRecord
<1>3. ASSUME NEW u \in Tabs, tab'[u].step \in {"approve", "stake"}
      PROVE  tab'[u].amount \in StakesAsked
  BY <1>1, <1>3 DEF SubmitTyped
<1> QED BY <1>2, <1>3

\* The page's steps that leave the contracts alone.
LEMMA SilentStepKeeps ==
  ASSUME SubmitInv, NEW t \in Tabs, NEW q \in PageRecord, tab' = [tab EXCEPT ![t] = q],
         q.step \in {"approve", "stake"} => q.amount \in StakesAsked,
         UNCHANGED systemVars,
         \/ attempts' = attempts + 1 /\ at(t, "form") /\ q.step = "upload"
         \/ /\ attempts' = attempts /\ q.step # "register"
            /\ q.step \in Paying => tab[t].step \in Paying
  PROVE  SubmitInv'
<1>1. UNCHANGED <<minimumStake, stakedAmount, allowance, plantationsByUploader, plantationIdCounter>>
  BY DEF systemVars, stakeVars, configVars, tokenVars, registryVars, plantationVars
<1>2. SubmitTyped
  BY DEF SubmitInv
<1>3. attempts' \in Nat
  BY <1>2 DEF SubmitTyped
<1>4. SubmitTyped'
  BY <1>1, <1>2, <1>3, PageTyped DEF SubmitTyped
<1>5. PageEffect(t, q) /\ OthersKeepTheirs(NGOOf[t])
  BY <1>1 DEF PageEffect, OthersKeepTheirs, projectsOf, at
<1>6. \A a \in Senders : StakesFit(a)'
  BY <1>4, <1>5, PageKeepsFit
<1>7. AllowancesFit'
  BY <1>1 DEF SubmitInv, AllowancesFit
<1> QED BY <1>4, <1>6, <1>7 DEF SubmitInv

\* Approving sets the allowance to the minimum that was read.
LEMMA ApprovingKeeps ==
  ASSUME SubmitInv, NEW t \in Tabs, approveMined(t), NEW st \in {"stake", "form"},
         goTo(t, st), UNCHANGED attempts
  PROVE  SubmitInv'
<1> DEFINE c == NGOOf[t]
           n == tab[t].amount
<1>1. SubmitTyped /\ AllowancesFit
  BY DEF SubmitInv
<1>2. c \in Accounts /\ Vault \in Accounts /\ Senders \subseteq Accounts
  BY AddressAssumption, SubmitAssumption, StakeAssumption
<1>3. tab[t].step = "approve" /\ n \in StakesAsked
  BY <1>1 DEF approveMined, at, SubmitTyped
<1>4. n \in Nat /\ n <= HighestStake
  BY <1>3, StakeRange
<1>5. UNCHANGED <<minimumStake, stakedAmount, plantationsByUploader, plantationIdCounter>>
  BY DEF approveMined, stakeVars, configVars, registryVars, plantationVars
<1>6. allowance' = [allowance EXCEPT ![c] = [allowance[c] EXCEPT ![Vault] = n]]
  BY DEF approveMined, approve
<1> HIDE DEF c, n
<1>7. allowance \in [Accounts -> [Accounts -> Nat]]
  BY <1>1 DEF SubmitTyped
<1>8. allowance' \in [Accounts -> [Accounts -> Nat]]
  BY <1>2, <1>4, <1>6, <1>7
<1>9. \A a \in Accounts : allowance'[a][Vault] = IF a = c THEN n ELSE allowance[a][Vault]
  BY <1>2, <1>6, <1>7
<1>10. AllowancesFit'
  BY <1>1, <1>2, <1>4, <1>9 DEF AllowancesFit
<1>11. PICK q \in PageRecord :
         q.step = st /\ q.amount = tab[t].amount /\ tab' = [tab EXCEPT ![t] = q]
  BY <1>1, GoesTo DEF Steps
<1>12. SubmitTyped'
  BY <1>1, <1>3, <1>5, <1>8, <1>11, PageTyped DEF SubmitTyped, n
<1>13. PageEffect(t, q) /\ OthersKeepTheirs(NGOOf[t])
  BY <1>3, <1>5, <1>11 DEF PageEffect, OthersKeepTheirs, projectsOf, Paying
<1>14. \A a \in Senders : StakesFit(a)'
  BY <1>11, <1>12, <1>13, PageKeepsFit
<1> QED BY <1>10, <1>12, <1>14 DEF SubmitInv

\* Staking books the amount and uses the allowance.
LEMMA StakingKeeps ==
  ASSUME SubmitInv, NEW t \in Tabs, stakeMined(t), NEW st \in {"register", "form"},
         goTo(t, st), UNCHANGED attempts
  PROVE  SubmitInv'
<1> DEFINE c == NGOOf[t]
           n == tab[t].amount
           w == allowance[c][Vault]
<1>1. SubmitTyped /\ AllowancesFit
  BY DEF SubmitInv
<1>2. /\ c \in Accounts /\ c \in Senders /\ Vault \in Accounts /\ Senders \subseteq Accounts
  BY AddressAssumption, SubmitAssumption, StakeAssumption
<1>3. tab[t].step = "stake" /\ n \in StakesAsked
  BY <1>1 DEF stakeMined, at, SubmitTyped
<1>4. n \in Nat
  BY <1>3, StakeRange
<1>5. UNCHANGED <<minimumStake, plantationsByUploader, plantationIdCounter>>
  BY DEF stakeMined, configVars, registryVars, plantationVars
<1>6. stakedAmount' = [stakedAmount EXCEPT ![c] = stakedAmount[c] + n]
  BY <1>1, <1>2 DEF stakeMined, stakeTokens, Credit, SubmitTyped
<1>7. /\ n <= w
      /\ \/ allowance' = allowance
         \/ allowance' = [allowance EXCEPT ![c] = [allowance[c] EXCEPT ![Vault] = w - n]]
  BY DEF stakeMined, stakeTokens, transferFrom, _spendAllowance, Debit
<1>8. /\ allowance \in [Accounts -> [Accounts -> Nat]] /\ stakedAmount \in [Accounts -> Nat]
  BY <1>1 DEF SubmitTyped
<1>9. w \in Nat
  BY <1>2, <1>8
<1> HIDE DEF c, n, w
<1>10. w - n \in Nat /\ w - n <= w
  BY <1>4, <1>7, <1>9
<1>11. allowance' \in [Accounts -> [Accounts -> Nat]]
  BY <1>2, <1>7, <1>8, <1>10
<1>12. \A a \in Accounts : allowance'[a][Vault] <= allowance[a][Vault]
  <2>1. CASE allowance' = allowance
    BY <1>2, <1>8, <2>1
  <2>2. CASE allowance' = [allowance EXCEPT ![c] = [allowance[c] EXCEPT ![Vault] = w - n]]
    BY <1>2, <1>8, <1>10, <2>2 DEF w
  <2> QED BY <1>7, <2>1, <2>2
<1>13. AllowancesFit'
  <2>1. ASSUME NEW a \in Senders PROVE allowance'[a][Vault] <= HighestStake
    <3>1. allowance'[a][Vault] \in Nat /\ allowance[a][Vault] \in Nat /\ HighestStake \in Nat
      BY <1>2, <1>8, <1>11, StakeRange
    <3> QED BY <1>1, <1>2, <1>12, <3>1 DEF AllowancesFit
  <2> QED BY <2>1 DEF AllowancesFit
<1>14. stakedAmount' \in [Accounts -> Nat]
  BY <1>2, <1>4, <1>6, <1>8
<1>15. PICK q \in PageRecord :
         q.step = st /\ q.amount = tab[t].amount /\ tab' = [tab EXCEPT ![t] = q]
  BY <1>1, GoesTo DEF Steps
<1>16. SubmitTyped'
  BY <1>1, <1>5, <1>11, <1>14, <1>15, PageTyped DEF SubmitTyped
<1>17. OthersKeepTheirs(NGOOf[t])
  BY <1>2, <1>5, <1>6, <1>8 DEF OthersKeepTheirs, projectsOf, c
<1>18. stakedAmount'[c] = stakedAmount[c] + n
  BY <1>2, <1>6, <1>8
<1>19. PageEffect(t, q)
  BY <1>3, <1>5, <1>15, <1>18 DEF PageEffect, projectsOf, c
<1>20. \A a \in Senders : StakesFit(a)'
  BY <1>15, <1>16, <1>17, <1>19, PageKeepsFit
<1> QED BY <1>13, <1>16, <1>20 DEF SubmitInv

\* Registering adds one project to the NGO's.
LEMMA RegisteringKeeps ==
  ASSUME SubmitInv, NEW t \in Tabs, registerMined(t), goTo(t, "form"), UNCHANGED attempts
  PROVE  SubmitInv'
<1> DEFINE c == NGOOf[t]
           index == plantationsByUploader[c]
<1>1. SubmitTyped /\ AllowancesFit
  BY DEF SubmitInv
<1>2. c \in Accounts /\ c \in Senders /\ Senders \subseteq Accounts
  BY AddressAssumption, SubmitAssumption
<1>3. tab[t].step = "register"
  BY DEF registerMined, at
<1>4. UNCHANGED <<minimumStake, stakedAmount, allowance>>
  BY DEF registerMined, stakeVars, configVars, tokenVars
<1>5. /\ plantationsByUploader' =
            [plantationsByUploader EXCEPT ![c] = Append(index, plantationIdCounter)]
      /\ plantationIdCounter' = plantationIdCounter + 1
  BY DEF registerMined, registerPlantation
<1>6. /\ plantationsByUploader \in [Accounts -> Seq(Nat)] /\ plantationIdCounter \in Nat
      /\ index \in Seq(Nat)
  BY <1>1, <1>2 DEF SubmitTyped
<1> HIDE DEF c, index
<1>7. /\ Append(index, plantationIdCounter) \in Seq(Nat)
      /\ Len(Append(index, plantationIdCounter)) = Len(index) + 1
  BY <1>6
<1>8. /\ plantationsByUploader' \in [Accounts -> Seq(Nat)]
      /\ plantationsByUploader'[c] = Append(index, plantationIdCounter)
      /\ \A a \in Accounts \ {c} : plantationsByUploader'[a] = plantationsByUploader[a]
  BY <1>2, <1>5, <1>6, <1>7
<1>9. PICK q \in PageRecord :
         q.step = "form" /\ q.amount = tab[t].amount /\ tab' = [tab EXCEPT ![t] = q]
  BY <1>1, GoesTo DEF Steps
<1>10. SubmitTyped'
  <2>1. plantationIdCounter' \in Nat
    BY <1>5, <1>6
  <2>2. /\ tab' \in [Tabs -> [step : Steps, amount : Nat]]
        /\ \A u \in Tabs : tab'[u].step \in {"approve", "stake"} => tab'[u].amount \in StakesAsked
    BY <1>1, <1>9, PageTyped
  <2>3. attempts' \in Nat /\ minimumStake' \in StakesAsked
    BY <1>1, <1>4 DEF SubmitTyped
  <2>4. stakedAmount' \in [Accounts -> Nat] /\ allowance' \in [Accounts -> [Accounts -> Nat]]
    BY <1>1, <1>4 DEF SubmitTyped
  <2> QED BY <1>8, <2>1, <2>2, <2>3, <2>4 DEF SubmitTyped
<1>11. OthersKeepTheirs(NGOOf[t])
  BY <1>2, <1>4, <1>8 DEF OthersKeepTheirs, projectsOf, c
<1>12. projectsOf(c)' = projectsOf(c) + 1
  BY <1>7, <1>8 DEF projectsOf, index
<1>13. PageEffect(t, q)
  BY <1>3, <1>4, <1>9, <1>12 DEF PageEffect, c
<1>14. \A a \in Senders : StakesFit(a)'
  BY <1>9, <1>10, <1>11, <1>13, PageKeepsFit
<1>15. AllowancesFit'
  BY <1>1, <1>4 DEF AllowancesFit
<1> QED BY <1>10, <1>14, <1>15 DEF SubmitInv

\* A transaction is mined, and its receipt arrives or is lost.
LEMMA MinedKeeps ==
  ASSUME SubmitInv, NEW t \in Tabs, Mined(t), afterReceipt(t) \/ release(t), UNCHANGED attempts
  PROVE  SubmitInv'
<1>1. CASE approveMined(t)
  <2>1. tab[t].step = "approve"
    BY <1>1 DEF approveMined, at
  <2>2. goTo(t, "stake") \/ goTo(t, "form")
    BY <2>1 DEF afterReceipt, at, release
  <2> QED BY <1>1, <2>2, ApprovingKeeps
<1>2. CASE stakeMined(t)
  <2>1. tab[t].step = "stake"
    BY <1>2 DEF stakeMined, at
  <2>2. goTo(t, "register") \/ goTo(t, "form")
    BY <2>1 DEF afterReceipt, at, release
  <2> QED BY <1>2, <2>2, StakingKeeps
<1>3. CASE registerMined(t)
  <2>1. tab[t].step = "register"
    BY <1>3 DEF registerMined, at
  <2>2. goTo(t, "form")
    BY <2>1 DEF afterReceipt, at, release
  <2> QED BY <1>3, <2>2, RegisteringKeeps
<1> QED BY <1>1, <1>2, <1>3 DEF Mined

\* The page moves on or gives up, and calls no contract that changes anything.
LEMMA WaitingKeeps ==
  ASSUME SubmitInv, NEW t \in Tabs, UNCHANGED <<attempts, systemVars>>,
         Upload(t) \/ ReadMinimum(t) \/ release(t)
  PROVE  SubmitInv'
<1>1. SubmitTyped
  BY DEF SubmitInv
<1>2. CASE Upload(t)
  <2>1. PICK q \in PageRecord : q.step = "minimum" /\ tab' = [tab EXCEPT ![t] = q]
    BY <1>1, <1>2, GoesTo DEF Upload, Steps
  <2>2. tab[t].step = "upload"
    BY <1>2 DEF Upload, at
  <2> QED BY <2>1, <2>2, SilentStepKeeps DEF Paying
<1>3. CASE ReadMinimum(t)
  <2> DEFINE q == [tab[t] EXCEPT !.step = "approve", !.amount = minimumStake]
  <2>1. tab[t] \in PageRecord /\ minimumStake \in StakesAsked
    BY <1>1 DEF SubmitTyped, PageRecord
  <2>2. q \in PageRecord /\ q.step = "approve" /\ q.amount \in StakesAsked
    BY <2>1, StakeRange DEF PageRecord, Steps
  <2>3. tab' = [tab EXCEPT ![t] = q] /\ tab[t].step = "minimum"
    BY <1>3 DEF ReadMinimum, at
  <2> HIDE DEF q
  <2> QED BY <2>2, <2>3, SilentStepKeeps DEF Paying
<1>4. CASE release(t)
  <2>1. PICK q \in PageRecord : q.step = "form" /\ tab' = [tab EXCEPT ![t] = q]
    BY <1>1, <1>4, GoesTo DEF release, Steps
  <2> QED BY <2>1, SilentStepKeeps DEF Paying
<1> QED BY <1>2, <1>3, <1>4

\* An attempt begins.
LEMMA SubmitKeeps ==
  ASSUME SubmitInv, Submit
  PROVE  SubmitInv'
<1> DEFINE q == [step |-> "upload", amount |-> 0]
<1>1. PICK t \in Tabs : at(t, "form") /\ tab' = [tab EXCEPT ![t] = q]
  BY DEF Submit
<1>2. q \in PageRecord /\ q.step = "upload"
  BY DEF PageRecord, Steps
<1>3. attempts' = attempts + 1 /\ UNCHANGED systemVars
  BY DEF Submit
<1> HIDE DEF q
<1> QED BY <1>1, <1>2, <1>3, SilentStepKeeps

\* The owner's calls and steps of nobody.
LEMMA OwnerKeeps ==
  ASSUME SubmitInv, OwnerActs \/ UNCHANGED submitVars
  PROVE  SubmitInv'
<1>1. /\ UNCHANGED <<tab, attempts, stakedAmount, allowance, plantationsByUploader,
                     plantationIdCounter>>
      /\ minimumStake' \in Minimums \cup {minimumStake}
  <2>1. CASE OwnerActs
    <3>1. UNCHANGED <<tab, attempts>>
      BY <2>1 DEF OwnerActs
    <3>2. CASE Transfer /\ UNCHANGED <<verificationVars, registryVars, managerVars, stakeVars>>
      BY <3>1, <3>2 DEF Transfer, registryVars, plantationVars, stakeVars, configVars
    <3>3. CASE ConfigureStake /\ UNCHANGED <<verificationVars, registryVars, managerVars>>
      BY <3>1, <3>3 DEF ConfigureStake, setMinimumStake, registryVars, plantationVars, tokenVars
    <3>4. CASE /\ WhitelistNGO \/ SetNGOStatus
               /\ UNCHANGED <<verificationVars, registryVars, stakeVars, tokenVars>>
      BY <3>1, <3>4 DEF registryVars, plantationVars, stakeVars, configVars, tokenVars
    <3> QED BY <2>1, <3>2, <3>3, <3>4 DEF OwnerActs
  <2>2. CASE UNCHANGED submitVars
    BY <2>2 DEF submitVars, systemVars, registryVars, plantationVars, stakeVars, configVars,
                tokenVars
  <2> QED BY <2>1, <2>2
<1>2. SubmitTyped'
  BY <1>1, StakeRange DEF SubmitInv, SubmitTyped
<1>3. \A a \in Senders : StakesFit(a)'
  BY <1>1 DEF SubmitInv, StakesFit, projectsOf
<1>4. AllowancesFit'
  BY <1>1 DEF SubmitInv, AllowancesFit
<1> QED BY <1>2, <1>3, <1>4 DEF SubmitInv

LEMMA SubmitStep ==
  ASSUME SubmitInv, [SubmitNext]_submitVars
  PROVE  SubmitInv'
<1>1. CASE Submit
  BY <1>1, SubmitKeeps
<1>2. ASSUME NEW t \in Tabs, Upload(t) \/ ReadMinimum(t) \/ Transact(t) \/ Reverted(t)
      PROVE  SubmitInv'
  <2>1. CASE Upload(t) \/ ReadMinimum(t)
    BY <2>1, WaitingKeeps DEF Upload, ReadMinimum
  <2>2. CASE Transact(t)
    BY <2>2, MinedKeeps DEF Transact
  <2>3. CASE Reverted(t)
    BY <2>3, WaitingKeeps DEF Reverted, reverted
  <2> QED BY <1>2, <2>1, <2>2, <2>3
<1>3. CASE Refused
  BY <1>3, WaitingKeeps DEF Refused
<1>4. CASE ReceiptLost
  BY <1>4, MinedKeeps DEF ReceiptLost
<1>5. CASE OwnerActs \/ UNCHANGED submitVars
  BY <1>5, OwnerKeeps
<1> QED BY <1>1, <1>2, <1>3, <1>4, <1>5 DEF SubmitNext

LEMMA SubmitInvariance == SubmitSpec => []SubmitInv
<1>1. SubmitInit => SubmitInv
  BY SubmitInitially
<1>2. SubmitInv /\ [SubmitNext]_submitVars => SubmitInv'
  BY SubmitStep
<1> QED BY <1>1, <1>2, PTL DEF SubmitSpec

\* However many pages an NGO has open and however their attempts interleave,
\* whatever receipts are lost and wherever the owner moves the minimum: every
\* project handleSubmit registered is paid by a stake of its own.
THEOREM ProjectsAreStaked == SubmitSpec => []EveryProjectIsStaked
<1>1. SubmitInv => EveryProjectIsStaked
  <2> SUFFICES ASSUME SubmitInv, NEW t \in Tabs
               PROVE  stakedAmount[NGOOf[t]] >= projectsOf(NGOOf[t]) * LowestStake
    BY DEF EveryProjectIsStaked
  <2> DEFINE c == NGOOf[t]
             s == stakedAmount[c]
             k == projectsOf(c)
             r == PagesAt(tab, c, Paid)
  <2>1. c \in Senders /\ c \in Accounts
    BY AddressAssumption, SubmitAssumption
  <2>2. s \in Nat /\ k \in Nat
    BY <2>1 DEF SubmitInv, SubmitTyped, projectsOf
  <2>3. PICK g : g = tab
    OBVIOUS
  <2>4. PagesAt(g, c, Paid) \in Nat
    BY PageMoves
  <2>5. r \in Nat
    BY <2>3, <2>4
  <2>6. s >= (k + r) * LowestStake
    BY <2>1 DEF SubmitInv, StakesFit
  <2> HIDE DEF c, s, k, r
  <2>7. (k + r) * LowestStake >= k * LowestStake
    <3>1. k + r \in Nat /\ k <= k + r
      BY <2>2, <2>5
    <3> QED BY <2>2, <3>1, StakeRange, Monotone
  <2>8. /\ k * LowestStake \in Nat /\ (k + r) * LowestStake \in Nat
    BY <2>2, <2>5, StakeRange
  <2>9. s >= k * LowestStake
    BY <2>2, <2>6, <2>7, <2>8
  <2> QED BY <2>9 DEF c, s, k
<1> QED BY <1>1, SubmitInvariance, PTL

\* Nor does an attempt cost the NGO more than one stake, at the highest minimum
\* ever set, and the vault may at no time pull more than one: approve sets the
\* allowance of the attempt before it.
THEOREM StakesStayBounded == SubmitSpec => []StakesAreBounded
<1>1. SubmitInv => StakesAreBounded
  <2> SUFFICES ASSUME SubmitInv, NEW t \in Tabs
               PROVE  /\ stakedAmount[NGOOf[t]] <= attempts * HighestStake
                      /\ allowance[NGOOf[t]][Vault] <= HighestStake
    BY DEF StakesAreBounded
  <2> DEFINE c == NGOOf[t]
             s == stakedAmount[c]
             p == PagesAt(tab, c, Paying)
  <2>1. c \in Senders /\ c \in Accounts
    BY AddressAssumption, SubmitAssumption
  <2>2. s \in Nat /\ attempts \in Nat
    BY <2>1 DEF SubmitInv, SubmitTyped
  <2>3. PICK g : g = tab
    OBVIOUS
  <2>4. PagesAt(g, c, Paying) \in Nat
    BY PageMoves
  <2>5. p \in Nat
    BY <2>3, <2>4
  <2>6. s + p * HighestStake <= attempts * HighestStake
    BY <2>1 DEF SubmitInv, StakesFit
  <2>7. allowance[c][Vault] <= HighestStake
    BY <2>1 DEF SubmitInv, AllowancesFit
  <2> HIDE DEF c, s, p
  <2>8. p * HighestStake \in Nat /\ attempts * HighestStake \in Nat
    BY <2>2, <2>5, StakeRange
  <2>9. s <= attempts * HighestStake
    BY <2>2, <2>6, <2>8
  <2> QED BY <2>7, <2>9 DEF c, s
<1> QED BY <1>1, SubmitInvariance, PTL
-----------------------------------------------------------------------------
\* How far a read is, and what it has returned.
Fetchable == {"none", "projects", "asked", NoScore} \cup Answers

DashboardTyped ==
  /\ subject \in [Requests -> Subjects]
  /\ recorded \in [Subjects -> Answers]
  /\ open \subseteq asked
  /\ handlers \in [Requests -> {"none", "event", "asked"} \cup Answers]
  /\ \A r \in Requests : handlers[r] # "none" => r \in asked \ open
  /\ DOMAIN weatherScores = Subjects
  /\ fetch \in [Fetches -> [Subjects -> Fetchable]]
  /\ \A f \in Fetches : Fetching(f) => \A p \in Subjects : fetch[f][p] # "none"

\* The score the contract holds is on its way to the page, or shown: there is an
\* event not yet handled, or a read that has returned it or will.
EventComes(p) == \E r \in Requests : subject[r] = p /\ handlers[r] = "event"

ScoreIsRead(p) ==
  \/ \E r \in Handling(p) : handlers[r] \in {"asked", recorded[p]}
  \/ \E f \in Fetched(p) : fetch[f][p] \in {"asked", NoScore, recorded[p]}

ScoreIsShown(p) == Reads(p) = {} /\ weatherScores[p] \in {NoScore, recorded[p]}

\* Of a project that is sure one read is under way at most.
ScoreArrives(p) ==
  /\ \A x, y \in Reads(p) : x = y
  /\ EventComes(p) \/ ScoreIsRead(p) \/ ScoreIsShown(p)

DashboardInv ==
  /\ DashboardTyped
  /\ \A p \in Subjects \ unsure : ScoreArrives(p)

\* The words for where a read stands are no scores.
LEMMA WordsAreNoScores ==
  /\ NoScore \notin Answers
  /\ \A w \in {"none", "projects", "event", "asked"} : w \notin Answers /\ w # NoScore
BY DashboardAssumption

LEMMA NoReads ==
  ASSUME NEW p \in Subjects, \A f \in Fetches : fetch[f] = NoFetch,
         \A r \in Requests : handlers[r] = "none"
  PROVE  Reads(p) = {}
BY DEF Reads, Fetched, Handling, NoFetch

LEMMA DashboardInitially == ASSUME DashboardInit PROVE DashboardInv
<1>1. /\ subject \in [Requests -> Subjects] /\ recorded \in [Subjects -> Answers]
      /\ open = {}
      /\ handlers = [r \in Requests |-> "none"] /\ fetch = [f \in Fetches |-> NoFetch]
      /\ weatherScores = [p \in Subjects |-> NoScore]
  BY DEF DashboardInit, ServiceInit
<1>2. NoFetch \in [Subjects -> Fetchable]
  BY DEF NoFetch, Fetchable
<1>3. DashboardTyped
  BY <1>1, <1>2 DEF DashboardTyped, Fetching
<1>4. \A p \in Subjects : ScoreArrives(p)
  BY <1>1, NoReads DEF ScoreArrives, ScoreIsShown
<1> QED BY <1>3, <1>4 DEF DashboardInv

\* What a step does not touch of a project: its events and its reads, and the
\* score that is shown and the one that holds.
Untouched(p) ==
  /\ \A r \in Requests :
       (subject'[r] = p /\ handlers'[r] # "none") = (subject[r] = p /\ handlers[r] # "none")
  /\ \A r \in Requests : subject[r] = p => handlers'[r] = handlers[r]
  /\ \A f \in Fetches : (f \in Fetched(p)') = (f \in Fetched(p))
  /\ \A f \in Fetched(p) : fetch'[f][p] = fetch[f][p]
  /\ weatherScores'[p] = weatherScores[p]
  /\ recorded'[p] = recorded[p]

LEMMA UntouchedArrives ==
  ASSUME NEW p \in Subjects, Untouched(p), ScoreArrives(p)
  PROVE  ScoreArrives(p)'
<1>1. Handling(p)' = Handling(p) /\ Fetched(p)' = Fetched(p)
  BY DEF Untouched, Handling, Fetched
<1>2. Reads(p)' = Reads(p)
  BY <1>1 DEF Reads
<1>3. EventComes(p) => EventComes(p)'
  BY DEF Untouched, EventComes
<1>4. ScoreIsRead(p) => ScoreIsRead(p)'
  BY <1>1 DEF Untouched, ScoreIsRead, Handling
<1>5. ScoreIsShown(p) => ScoreIsShown(p)'
  BY <1>2 DEF Untouched, ScoreIsShown
<1> QED BY <1>2, <1>3, <1>4, <1>5 DEF ScoreArrives

\* A step that touches no project.
LEMMA NothingTouched ==
  ASSUME DashboardInv, DashboardTyped', UNCHANGED unsure,
         \A p \in Subjects : Untouched(p)
  PROVE  DashboardInv'
BY UntouchedArrives DEF DashboardInv

\* A step that touches one project.
LEMMA OneTouched ==
  ASSUME DashboardInv, DashboardTyped', NEW q \in Subjects,
         \A p \in Subjects \ {q} : Untouched(p) /\ (p \in unsure => p \in unsure'),
         q \notin unsure' => ScoreArrives(q)'
  PROVE  DashboardInv'
<1>1. ASSUME NEW p \in Subjects, p \notin unsure'
      PROVE  ScoreArrives(p)'
  <2>1. CASE p = q
    BY <1>1, <2>1
  <2>2. CASE p # q
    BY <1>1, <2>2, UntouchedArrives DEF DashboardInv
  <2> QED BY <2>1, <2>2
<1> QED BY <1>1 DEF DashboardInv

\* The steps that touch neither a read nor a score: the button and its
\* transaction, a request asked by anybody, one that ends without an answer.
LEMMA RequestsKeepScores ==
  ASSUME DashboardInv, UNCHANGED <<weatherScores, handlers, fetch, recorded, unsure>>,
         \/ UNCHANGED serviceVars
         \/ \E r \in Requests, p \in Subjects : Ask(r, p)
         \/ \E r \in Requests : Close(r)
  PROVE  DashboardInv'
<1>1. DashboardTyped /\ (\A r \in Requests : handlers[r] # "none" => subject'[r] = subject[r])
      /\ subject' \in [Requests -> Subjects] /\ open' \subseteq asked'
      /\ (\A r \in asked \ open : r \in asked' \ open')
  <2> USE DEF DashboardInv, DashboardTyped
  <2>1. CASE UNCHANGED serviceVars
    BY <2>1 DEF serviceVars
  <2>2. CASE \E r \in Requests, p \in Subjects : Ask(r, p)
    BY <2>2 DEF Ask
  <2>3. CASE \E r \in Requests : Close(r)
    BY <2>3 DEF Close, End
  <2> QED BY <2>1, <2>2, <2>3
<1>2. DashboardTyped'
  BY <1>1 DEF DashboardTyped, Fetching
<1>3. \A p \in Subjects : Untouched(p)
  BY <1>1 DEF Untouched, Fetched
<1> QED BY <1>2, <1>3, NothingTouched

\* A fetch changes one of its reads.
LEMMA FetchChanges ==
  ASSUME DashboardTyped, NEW f \in Fetches, NEW p \in Subjects, NEW v \in Fetchable,
         fetch[f][p] = "asked", v \notin {"none", "projects"},
         fetch' = [fetch EXCEPT ![f][p] = v],
         UNCHANGED <<weatherScores, handlers, serviceVars>>
  PROVE  /\ DashboardTyped'
         /\ Fetched(p)' = Fetched(p) /\ Handling(p)' = Handling(p) /\ f \in Fetched(p)
         /\ fetch'[f][p] = v /\ recorded' = recorded
         /\ \A q \in Subjects \ {p} : Untouched(q)
<1>1. /\ fetch' \in [Fetches -> [Subjects -> Fetchable]]
      /\ fetch'[f][p] = v
      /\ \A g \in Fetches, q \in Subjects :
           g # f \/ q # p => fetch'[g][q] = fetch[g][q]
  BY DEF DashboardTyped
<1>2. Fetching(f)
  BY DEF DashboardTyped, Fetching, NoFetch
<1>3. \A g \in Fetches : g # f => fetch'[g] = fetch[g]
  BY DEF DashboardTyped
<1>4. DashboardTyped'
  BY <1>1, <1>2, <1>3 DEF DashboardTyped, Fetching, serviceVars
<1>5. f \in Fetched(p)
  BY DEF Fetched
<1>6. \A q \in Subjects, g \in Fetches : (g \in Fetched(q)') = (g \in Fetched(q))
  BY <1>1, <1>5 DEF Fetched
<1>7. Fetched(p)' = Fetched(p)
  BY <1>6 DEF Fetched
<1>8. \A q \in Subjects \ {p} : Untouched(q)
  BY <1>1, <1>6 DEF Untouched, serviceVars, Fetched
<1> QED BY <1>1, <1>4, <1>5, <1>7, <1>8 DEF Handling, serviceVars

\* A fetch's read is answered, or fails.
LEMMA FetchReadKeeps ==
  ASSUME DashboardInv, NEW f \in Fetches, NEW p \in Subjects,
         NEW v \in {NoScore, recorded[p]},
         fetch[f][p] = "asked", fetch' = [fetch EXCEPT ![f][p] = v],
         UNCHANGED <<weatherScores, handlers, unsure, serviceVars>>
  PROVE  DashboardInv'
<1>1. DashboardTyped /\ v \in Fetchable /\ v \notin {"none", "projects"}
  BY WordsAreNoScores DEF DashboardInv, DashboardTyped, Fetchable
<1>2. /\ DashboardTyped'
      /\ Fetched(p)' = Fetched(p) /\ Handling(p)' = Handling(p) /\ f \in Fetched(p)
      /\ fetch'[f][p] = v /\ recorded' = recorded
      /\ \A q \in Subjects \ {p} : Untouched(q)
  BY <1>1, FetchChanges
<1>3. p \notin unsure => ScoreArrives(p)'
  <2> SUFFICES ASSUME p \notin unsure PROVE ScoreArrives(p)'
    OBVIOUS
  <2>1. Reads(p)' = Reads(p)
    BY <1>2 DEF Reads
  <2>2. ScoreIsRead(p)'
    BY <1>2 DEF ScoreIsRead
  <2> QED BY <2>1, <2>2 DEF DashboardInv, ScoreArrives
<1> QED BY <1>2, <1>3, OneTouched

\* A fetch begins, or fails before its reads of scores began.
LEMMA FetchBeginsKeeps ==
  ASSUME DashboardInv, NEW f \in Fetches, NEW w \in {"none", "projects"},
         \A p \in Subjects : fetch[f][p] \in {"none", "projects"},
         fetch' = [fetch EXCEPT ![f] = [p \in Subjects |-> w]],
         UNCHANGED <<weatherScores, handlers, unsure, serviceVars>>
  PROVE  DashboardInv'
<1>1. /\ DashboardTyped /\ [p \in Subjects |-> w] \in [Subjects -> Fetchable]
      /\ \A g \in Fetches : fetch'[g] = IF g = f THEN [p \in Subjects |-> w] ELSE fetch[g]
      /\ fetch' \in [Fetches -> [Subjects -> Fetchable]]
  BY DEF DashboardInv, DashboardTyped, Fetchable
<1>2. \A g \in Fetches : Fetching(g)' => \A p \in Subjects : fetch'[g][p] # "none"
  BY <1>1 DEF Fetching, NoFetch, DashboardTyped
<1>3. DashboardTyped'
  BY <1>1, <1>2 DEF DashboardTyped, serviceVars
<1>4. \A p \in Subjects : Untouched(p)
  BY <1>1 DEF Untouched, Fetched, serviceVars
<1> QED BY <1>3, <1>4, NothingTouched

\* The projects are read: the scores of all of them are asked for.
LEMMA ProjectsReadKeeps ==
  ASSUME DashboardInv, NEW f \in Fetches, ProjectsRead(f)
  PROVE  DashboardInv'
<1>1. /\ DashboardTyped /\ [p \in Subjects |-> "asked"] \in [Subjects -> Fetchable]
      /\ fetch' = [fetch EXCEPT ![f] = [p \in Subjects |-> "asked"]]
      /\ fetch[f] = [p \in Subjects |-> "projects"]
      /\ unsure' = (unsure \ Subjects) \cup {p \in Subjects : Reads(p) # {}}
      /\ UNCHANGED <<weatherScores, handlers, asked, open, subject, recorded>>
  BY DEF DashboardInv, DashboardTyped, Fetchable, ProjectsRead, readsBegin, serviceVars
<1>2. /\ \A g \in Fetches : fetch'[g] = IF g = f THEN [p \in Subjects |-> "asked"] ELSE fetch[g]
      /\ fetch' \in [Fetches -> [Subjects -> Fetchable]]
  BY <1>1 DEF DashboardTyped
<1>3. DashboardTyped'
  BY <1>1, <1>2 DEF DashboardTyped, Fetching
<1>4. ASSUME NEW p \in Subjects, p \notin unsure'
      PROVE  ScoreArrives(p)'
  <2>1. Fetched(p) = {} /\ Handling(p) = {}
    BY <1>1, <1>4 DEF Reads
  <2>2. Fetched(p)' = {f} /\ Handling(p)' = {}
    BY <1>1, <1>2, <2>1 DEF Fetched, Handling
  <2>3. ScoreIsRead(p)'
    BY <1>2, <2>2 DEF ScoreIsRead
  <2> QED BY <2>2, <2>3 DEF ScoreArrives, Reads
<1> QED BY <1>3, <1>4 DEF DashboardInv

\* A sure project has no read beside the one that ends.
LEMMA ReadIsAlone ==
  ASSUME DashboardInv, NEW p \in Subjects \ unsure, NEW x \in Reads(p)
  PROVE  Reads(p) = {x}
BY DEF DashboardInv, ScoreArrives

\* The map is replaced.
LEMMA FetchEndsKeeps ==
  ASSUME DashboardInv, NEW f \in Fetches, FetchEnds(f)
  PROVE  DashboardInv'
<1>1. /\ DashboardTyped /\ NoFetch \in [Subjects -> Fetchable]
      /\ Fetching(f) /\ weatherScores' = fetch[f]
      /\ \A p \in Subjects : fetch[f][p] \notin {"none", "projects", "asked"}
      /\ fetch' = [fetch EXCEPT ![f] = NoFetch]
      /\ UNCHANGED <<handlers, unsure, asked, open, subject, recorded>>
  BY DEF DashboardInv, DashboardTyped, Fetchable, FetchEnds, NoFetch, serviceVars
<1>2. /\ \A g \in Fetches : fetch'[g] = IF g = f THEN NoFetch ELSE fetch[g]
      /\ fetch' \in [Fetches -> [Subjects -> Fetchable]]
  BY <1>1 DEF DashboardTyped
<1>3. DashboardTyped'
  BY <1>1, <1>2 DEF DashboardTyped, Fetching
<1>4. ASSUME NEW p \in Subjects, p \notin unsure
      PROVE  ScoreArrives(p)'
  <2>1. f \in Fetched(p)
    BY <1>1 DEF Fetched
  <2>2. Reads(p) = {f}
    BY <1>4, <2>1, ReadIsAlone DEF Reads
  <2>3. Fetched(p) = {f} /\ Handling(p) = {}
    BY <2>1, <2>2, DashboardAssumption DEF Reads, Fetched, Handling
  <2>4. Reads(p)' = {}
    <3>1. Fetched(p)' = {}
      BY <1>2, <2>3 DEF Fetched, NoFetch
    <3>2. Handling(p)' = {}
      BY <1>1, <2>3 DEF Handling
    <3> QED BY <3>1, <3>2 DEF Reads
  <2>5. CASE EventComes(p)
    BY <1>1, <2>4, <2>5 DEF EventComes, ScoreArrives
  <2>6. CASE ~EventComes(p)
    <3>1. ScoreIsRead(p)
      BY <1>4, <2>2, <2>6 DEF DashboardInv, ScoreArrives, ScoreIsShown
    <3>2. fetch[f][p] \in {NoScore, recorded[p]}
      BY <1>1, <2>3, <3>1 DEF ScoreIsRead
    <3> QED BY <1>1, <2>4, <3>2 DEF ScoreArrives, ScoreIsShown
  <2> QED BY <2>5, <2>6
<1> QED BY <1>1, <1>3, <1>4 DEF DashboardInv

LEMMA FetchKeeps ==
  ASSUME DashboardInv,
         \/ FetchDashboardData
         \/ \E f \in Fetches :
              \/ ProjectsRead(f)
              \/ \E p \in Subjects : FetchAnswered(f, p)
              \/ FetchEnds(f)
         \/ FetchFails
  PROVE  DashboardInv'
<1>1. CASE FetchDashboardData
  <2>1. PICK f \in Fetches :
          ~Fetching(f) /\ fetch' = [fetch EXCEPT ![f] = [p \in Subjects |-> "projects"]]
    BY <1>1 DEF FetchDashboardData
  <2>2. \A p \in Subjects : fetch[f][p] \in {"none", "projects"}
    BY <2>1 DEF Fetching, NoFetch
  <2> QED BY <1>1, <2>1, <2>2, FetchBeginsKeeps DEF FetchDashboardData
<1>2. CASE \E f \in Fetches, p \in Subjects : FetchAnswered(f, p)
  <2>1. PICK f \in Fetches, p \in Subjects : FetchAnswered(f, p)
    BY <1>2
  <2> QED BY <2>1, FetchReadKeeps DEF FetchAnswered
<1>3. CASE FetchFails
  <2>1. UNCHANGED <<weatherScores, handlers, unsure, serviceVars>>
    BY <1>3 DEF FetchFails
  <2>2. PICK f \in Fetches :
          \/ /\ fetch[f] = [p \in Subjects |-> "projects"]
             /\ fetch' = [fetch EXCEPT ![f] = NoFetch]
          \/ \E p \in Subjects :
               fetch[f][p] = "asked" /\ fetch' = [fetch EXCEPT ![f][p] = NoScore]
    BY <1>3, Zenon DEF FetchFails
  <2>3. CASE /\ fetch[f] = [p \in Subjects |-> "projects"]
             /\ fetch' = [fetch EXCEPT ![f] = NoFetch]
    BY <2>1, <2>3, FetchBeginsKeeps DEF NoFetch
  <2>4. CASE \E p \in Subjects :
               fetch[f][p] = "asked" /\ fetch' = [fetch EXCEPT ![f][p] = NoScore]
    BY <2>1, <2>4, FetchReadKeeps
  <2> QED BY <2>2, <2>3, <2>4
<1> QED BY <1>1, <1>2, <1>3, ProjectsReadKeeps, FetchEndsKeeps

\* A handler moves: the other requests' stand still.
LEMMA HandlerMoves ==
  ASSUME DashboardTyped, NEW r \in Requests,
         NEW h \in {"none", "event", "asked"} \cup Answers,
         handlers' = [handlers EXCEPT ![r] = h], r \in asked' \ open',
         UNCHANGED <<asked, subject, fetch>>, open' \subseteq open,
         recorded' \in [Subjects -> Answers],
         \A p \in Subjects \ {subject[r]} : recorded'[p] = recorded[p],
         DOMAIN weatherScores' = Subjects,
         \A p \in Subjects \ {subject[r]} : weatherScores'[p] = weatherScores[p]
  PROVE  /\ DashboardTyped'
         /\ handlers'[r] = h
         /\ \A s \in Requests \ {r} : handlers'[s] = handlers[s]
         /\ Fetched(subject[r])' = Fetched(subject[r])
         /\ \A p \in Subjects \ {subject[r]} : Untouched(p)
<1>1. handlers'[r] = h /\ \A s \in Requests \ {r} : handlers'[s] = handlers[s]
  BY DEF DashboardTyped
<1>2. DashboardTyped'
  BY DEF DashboardTyped, Fetching
<1>3. \A p \in Subjects : Fetched(p)' = Fetched(p)
  BY DEF Fetched
<1>4. \A p \in Subjects \ {subject[r]} : Untouched(p)
  BY <1>1, <1>3 DEF Untouched, Fetched
<1> QED BY <1>1, <1>2, <1>3, <1>4 DEF DashboardTyped

\* An answer is recorded, and its event is sent to the page.
LEMMA AnswerSendsEvent ==
  ASSUME DashboardInv, NEW r \in Requests, Answered(r)
  PROVE  DashboardInv'
<1>1. PICK a \in Answers : Answer(r, a)
  BY DEF Answered
<1>2. /\ DashboardTyped /\ r \in open /\ handlers[r] = "none" /\ subject[r] \in Subjects
      /\ UNCHANGED <<asked, subject, weatherScores, fetch, unsure>>
      /\ open' = open \ {r} /\ open \subseteq asked
      /\ recorded' = [recorded EXCEPT ![subject[r]] = a]
      /\ handlers' = [handlers EXCEPT ![r] = "event"]
  BY <1>1 DEF DashboardInv, DashboardTyped, Answered, Answer, End
<1>3. /\ recorded' \in [Subjects -> Answers]
      /\ \A p \in Subjects \ {subject[r]} : recorded'[p] = recorded[p]
      /\ DOMAIN weatherScores' = Subjects
  BY <1>2 DEF DashboardTyped
<1>4. /\ DashboardTyped' /\ handlers'[r] = "event"
      /\ \A s \in Requests \ {r} : handlers'[s] = handlers[s]
      /\ Fetched(subject[r])' = Fetched(subject[r])
      /\ \A p \in Subjects \ {subject[r]} : Untouched(p)
  BY <1>2, <1>3, HandlerMoves
<1>5. Handling(subject[r])' = Handling(subject[r])
  BY <1>2, <1>4 DEF Handling
<1>6. subject[r] \notin unsure => ScoreArrives(subject[r])'
  BY <1>2, <1>4, <1>5 DEF DashboardInv, ScoreArrives, Reads, EventComes
<1> QED BY <1>2, <1>4, <1>6, OneTouched

\* The page handles an event: it asks for the score.
LEMMA HandlerAsks ==
  ASSUME DashboardInv, NEW r \in Requests, HandleScoreReceived(r)
  PROVE  DashboardInv'
<1> DEFINE own == subject[r]
<1>1. /\ DashboardTyped /\ own \in Subjects /\ handlers[r] = "event" /\ r \in asked \ open
      /\ UNCHANGED <<asked, open, subject, recorded, fetch, weatherScores>>
      /\ handlers' = [handlers EXCEPT ![r] = "asked"]
      /\ unsure' = (unsure \ {own}) \cup {p \in {own} : Reads(p) # {}}
  BY DEF DashboardInv, DashboardTyped, HandleScoreReceived, readsBegin, serviceVars
<1>2. /\ DashboardTyped' /\ handlers'[r] = "asked"
      /\ \A s \in Requests \ {r} : handlers'[s] = handlers[s]
      /\ Fetched(own)' = Fetched(own)
      /\ \A p \in Subjects \ {own} : Untouched(p)
  BY <1>1, HandlerMoves DEF DashboardTyped
<1>3. ASSUME own \notin unsure'
      PROVE  ScoreArrives(own)'
  <2>1. Fetched(own) = {} /\ Handling(own) = {}
    BY <1>1, <1>3 DEF Reads
  <2>2. Handling(own)' = {r}
    BY <1>1, <1>2, <2>1 DEF Handling
  <2>3. Reads(own)' = {r}
    BY <1>2, <2>1, <2>2 DEF Reads
  <2>4. ScoreIsRead(own)'
    BY <1>2, <2>2 DEF ScoreIsRead
  <2> QED BY <2>3, <2>4 DEF ScoreArrives
<1> QED BY <1>1, <1>2, <1>3, OneTouched

\* Its read is answered.
LEMMA HandlerReads ==
  ASSUME DashboardInv, NEW r \in Requests, HandlerAnswered(r)
  PROVE  DashboardInv'
<1> DEFINE own == subject[r]
<1>1. /\ DashboardTyped /\ own \in Subjects /\ handlers[r] = "asked" /\ r \in asked \ open
      /\ recorded[own] \in Answers
      /\ UNCHANGED <<asked, open, subject, recorded, fetch, weatherScores, unsure>>
      /\ handlers' = [handlers EXCEPT ![r] = recorded[own]]
  BY DEF DashboardInv, DashboardTyped, HandlerAnswered, serviceVars
<1>2. /\ DashboardTyped' /\ handlers'[r] = recorded[own]
      /\ \A s \in Requests \ {r} : handlers'[s] = handlers[s]
      /\ Fetched(own)' = Fetched(own)
      /\ \A p \in Subjects \ {own} : Untouched(p)
  BY <1>1, HandlerMoves DEF DashboardTyped
<1>3. Handling(own)' = Handling(own) /\ r \in Handling(own)
  BY <1>1, <1>2, WordsAreNoScores DEF Handling
<1>4. Reads(own)' = Reads(own)
  BY <1>2, <1>3 DEF Reads
<1>5. ScoreIsRead(own)'
  BY <1>1, <1>2, <1>3 DEF ScoreIsRead
<1>6. own \notin unsure => ScoreArrives(own)'
  BY <1>1, <1>4, <1>5 DEF DashboardInv, ScoreArrives
<1> QED BY <1>1, <1>2, <1>6, OneTouched

\* What it has read is shown.
LEMMA HandlerShows ==
  ASSUME DashboardInv, NEW r \in Requests, HandlerEnds(r)
  PROVE  DashboardInv'
<1> DEFINE own == subject[r]
<1>1. /\ DashboardTyped /\ own \in Subjects /\ handlers[r] \in Answers
      /\ handlers[r] \notin {"none", "event", "asked"} /\ r \in asked \ open
      /\ UNCHANGED <<asked, open, subject, recorded, fetch, unsure>>
      /\ handlers' = [handlers EXCEPT ![r] = "none"]
      /\ weatherScores' = [weatherScores EXCEPT ![own] = handlers[r]]
  BY WordsAreNoScores
     DEF DashboardInv, DashboardTyped, HandlerEnds, scoreRead, serviceVars
<1>2. /\ DOMAIN weatherScores' = Subjects /\ weatherScores'[own] = handlers[r]
      /\ \A p \in Subjects \ {own} : weatherScores'[p] = weatherScores[p]
  BY <1>1 DEF DashboardTyped
<1>3. /\ DashboardTyped' /\ handlers'[r] = "none"
      /\ \A s \in Requests \ {r} : handlers'[s] = handlers[s]
      /\ Fetched(own)' = Fetched(own)
      /\ \A p \in Subjects \ {own} : Untouched(p)
  BY <1>1, <1>2, HandlerMoves DEF DashboardTyped
<1>4. ASSUME own \notin unsure
      PROVE  ScoreArrives(own)'
  <2>1. r \in Handling(own)
    BY <1>1 DEF Handling
  <2>2. Reads(own) = {r}
    BY <1>1, <1>4, <2>1, ReadIsAlone DEF Reads
  <2>3. Handling(own) = {r} /\ Fetched(own) = {}
    BY <2>1, <2>2, DashboardAssumption DEF Reads, Fetched, Handling
  <2>4. Reads(own)' = {}
    <3>1. Handling(own)' = {}
      BY <1>1, <1>3, <2>3 DEF Handling
    <3> QED BY <1>3, <2>3, <3>1 DEF Reads
  <2>5. CASE EventComes(own)
    <3>1. EventComes(own)'
      BY <1>1, <1>3, <2>5 DEF EventComes
    <3> QED BY <2>4, <3>1 DEF ScoreArrives
  <2>6. CASE ~EventComes(own)
    <3>1. ScoreIsRead(own)
      BY <1>1, <1>4, <2>2, <2>6 DEF DashboardInv, ScoreArrives, ScoreIsShown
    <3>2. handlers[r] = recorded[own]
      BY <1>1, <2>3, <3>1 DEF ScoreIsRead
    <3> QED BY <1>1, <1>2, <2>4, <3>2 DEF ScoreArrives, ScoreIsShown
  <2> QED BY <2>5, <2>6
<1> QED BY <1>1, <1>3, <1>4, OneTouched

\* Its read fails: nothing is known of the project any more.
LEMMA HandlerFailsKeeps ==
  ASSUME DashboardInv, HandlerFails
  PROVE  DashboardInv'
<1>1. PICK r \in Requests :
        /\ handlers[r] = "asked"
        /\ handlers' = [handlers EXCEPT ![r] = "none"]
        /\ unsure' = unsure \cup {subject[r]}
  BY DEF HandlerFails
<1>2. /\ DashboardTyped /\ subject[r] \in Subjects /\ r \in asked \ open
      /\ UNCHANGED <<asked, open, subject, recorded, fetch, weatherScores>>
  BY <1>1 DEF DashboardInv, DashboardTyped, HandlerFails, serviceVars
<1>3. DashboardTyped' /\ \A p \in Subjects \ {subject[r]} : Untouched(p)
  BY <1>1, <1>2, HandlerMoves DEF DashboardTyped
<1> QED BY <1>1, <1>2, <1>3, OneTouched

LEMMA DashboardStep ==
  ASSUME DashboardInv, [DashboardNext]_dashboardVars
  PROVE  DashboardInv'
<1>1. CASE \/ HandleGetWeatherScore \/ (\E p \in Subjects : RequestSent(p))
           \/ RequestFails \/ RequestDropped
           \/ UNCHANGED dashboardVars
  <2>1. UNCHANGED <<weatherScores, handlers, fetch, unsure, serviceVars>>
    BY <1>1 DEF HandleGetWeatherScore, RequestSent, RequestFails, RequestDropped,
         dashboardVars, pageVars
  <2>2. UNCHANGED recorded
    BY <2>1 DEF serviceVars
  <2> QED BY <2>1, <2>2, RequestsKeepScores
<1>2. CASE (\E p \in Subjects : RequestMined(p)) \/ OthersAsk
  <2>1. \E r \in Requests, p \in Subjects : Ask(r, p)
    BY <1>2, Zenon DEF RequestMined, OthersAsk
  <2>2. UNCHANGED <<weatherScores, handlers, fetch, unsure>>
    BY <1>2 DEF RequestMined, OthersAsk, pageVars
  <2>3. UNCHANGED recorded
    BY <2>1 DEF Ask
  <2> QED BY <2>1, <2>2, <2>3, RequestsKeepScores
<1>3. CASE Unanswered
  BY <1>3, RequestsKeepScores DEF Unanswered, Close, pageVars
<1>4. CASE \E r \in Requests :
             Answered(r) \/ HandleScoreReceived(r) \/ HandlerAnswered(r) \/ HandlerEnds(r)
  BY <1>4, AnswerSendsEvent, HandlerAsks, HandlerReads, HandlerShows
<1> QED BY <1>1, <1>2, <1>3, <1>4, FetchKeeps, HandlerFailsKeeps DEF DashboardNext

\* Once what is under way has arrived, the page shows of a project the score the
\* contract holds, for any number of projects, requests and fetches, unless two
\* reads of it crossed, or a handler's read failed, since one was last made alone.
THEOREM ScoresStayCurrent == DashboardSpec => []ScoresAreCurrent
<1>1. DashboardInit => DashboardInv
  BY DashboardInitially
<1>2. DashboardInv /\ [DashboardNext]_dashboardVars => DashboardInv'
  BY DashboardStep
<1>3. DashboardInv => ScoresAreCurrent
  <2> SUFFICES ASSUME DashboardInv, NEW p \in Subjects \ unsure, Settled(p),
                      weatherScores[p] # NoScore
               PROVE  weatherScores[p] = recorded[p]
    BY DEF ScoresAreCurrent
  <2>1. Fetched(p) = {} /\ Handling(p) = {} /\ ~EventComes(p)
    BY DEF Settled, Handling, EventComes
  <2>2. ScoreIsShown(p)
    BY <2>1 DEF DashboardInv, ScoreArrives, ScoreIsRead
  <2> QED BY <2>2 DEF ScoreIsShown
<1> QED BY <1>1, <1>2, <1>3, PTL DEF DashboardSpec
=============================================================================
