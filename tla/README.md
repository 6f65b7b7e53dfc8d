# Blue Carbon: a TLA+ model of the MRV contracts

The repository is a blockchain system for measuring, reporting and verifying
(MRV) blue-carbon plantations: Solidity contracts (`src/contracts/src`), a Next.js
application over them (`src/frontend`), a script that asks for scores
(`src/chainlink`), and, vendored under `src/contracts/lib`, the Chainlink contracts
and nodes that answer it. This directory models it in TLA+, checks the model with
TLC and proves its central invariants with TLAPS.

## 1. Inventory

| component | state | operations | how it interacts | what makes it correct |
|---|---|---|---|---|
| `CarbonCredit` (ERC20 + Ownable) | balances, allowances, supply, owner | transfer, approve, transferFrom, mint | staked in the vault; minted by its owner | balances add up to the supply, so OpenZeppelin's unchecked additions cannot overflow |
| `StakeReputation` | stakes, reputation, minimum, penalty rate, verification contract | stake, withdraw, slash, reputation up and down, configuration | pulls and pays the token; slashed by `Verification` | it holds at least the stakes, pays whoever asks, never loses its treasury |
| `NGOManager` | NGO records and their list | whitelist, set status | asked by the registry on each submission | list and records agree |
| `MRVRegistry` | plantations, counter, index by uploader, links to manager and verifier | register, status, IPFS hash, assign credits, dispute, survival, configuration | asks `NGOManager`, mints `CarbonCredit`, written by `Verification` | ids and index exact; credits once per surviving plantation |
| `Verification` | verification records, peers, admin and oracle addresses | admin decision, oracle verdict, peer confirmation, configuration | writes the registry; slashes in the vault | a rejection and its penalty happen together; record and status agree |
| `VerificationOracle` | trusted providers, results | set provider, submit result | pushes into the contract it was given | what is on record was delivered |
| `WeatherSurvival` | score parameters, request-to-plantation map, scores | send request, fulfil, configuration | through Chainlink's `FunctionsRouter` to `Verification` | each request answered once, the stored score is the one judged |
| Functions router (vendored) | commitment per request | send, fulfil, time out | calls `WeatherSurvival` back and swallows its reverts | one fulfilment per request |
| Functions node (vendored, Go): request table and listener | rows with their states, cache of detected events, goroutines under way | create, compute, set result or error, finalize, confirm, time out, prune, poll | polls the chain's logs; the plugin reads and finalizes its rows | every row is settled, and its outcome kept |
| Functions reporting plugin (vendored, Go) | the round, reports delivered, accepted, sent | query, observation, report, accept, transmit | libocr runs it; transmits to the router | answers are what honest nodes computed, and come |
| deployment scripts | broadcast transactions | deploy, mint, link | create and wire all contracts | every link set when the last script ends |
| Web3 context | wallet session, calls of `connectWallet` under way | connect, logout, account change, reload, submit (three transactions) | wallet events, calls to all contracts | the session is one account's; a submission is staked for |
| review page | the status shown, reads and decision under way | open, reconnect, decide | reads the registry, sends to `Verification` | once connected it ends waiting, and offers no second decision |
| admin dashboard | scores shown, waiting flags, reads and event handlers under way | fetch, request a score, handle an event | `WeatherSurvival` and its events | the scores shown are the contract's |
| `Trigger.mjs` | none | send a request, wait for its receipt | `WeatherSurvival` | what it asks is answered like any other request |
| IPFS route, other pages, layouts, generated and vendored code | - | pure I/O or presentation | - | - |

What is hard here. The contracts run one transaction at a time, so the concurrency is
in the order of transactions by independent senders: NGO, admin, score oracle,
peers and the owners of five contracts, who may rewire the contracts while work is
in progress. One transaction spans up to three contracts, each with its own access
control. All arithmetic is modular or checked 256-bit. Off the chain, a node of the
Functions network handles events in goroutines that overtake one another, also
between the read and the write of one database transaction, loses its cache in a
crash and keeps its table, and agrees with others of which some lie; and
the pages are made of callbacks that interleave at every `await`, of flows of
several transactions without rollback, and of decisions on what was read earlier.
The list, at the lines where it bites, is
`hazards` in `PROJECT.json`.

## 2. Modules

| module | models | remarks |
|---|---|---|
| `Addresses` | address space | `Senders` (externally owned) are never contracts |
| `Ownable` | OpenZeppelin `Ownable` | instantiated once per contract over its own owner variable |
| `Ledgers` | sums over a function of amounts | `Total` counts coins instead of folding, so that it can be proved about |
| `CarbonCredit` | `CarbonCredit.sol`, `ERC20.sol` | extends `Ledgers`, `Addresses` |
| `StakeVault` | abstract escrow | what the staking contract promises |
| `StakeReputation` | `StakeRepatation.sol` | extends `CarbonCredit`; implements `StakeVault` |
| `NGOManager` | `NGOManager.sol` | |
| `MRVRegistry` | `MRVRegistry.sol` | extends `CarbonCredit`, `NGOManager` |
| `Verification` | `Verification.sol` | extends `StakeReputation`, `MRVRegistry` |
| `BlueCarbon` | the five contracts as deployed | next-state relation of the whole system |
| `ConfirmedOwner` | Chainlink's two-step ownership | instantiated over `weatherOwner` |
| `FunctionsRouter` | Chainlink's router, as its client sees it | external code, from its vendored source: a commitment per request, deleted by a fulfilment or a time-out |
| `WeatherSurvival` | `WeatherSurvival.sol` and the script it sends | extends `BlueCarbon`, `FunctionsRouter`; next-state relation `ScoredNext` |
| `RequestService` | abstract score service | asked once, ended once, answers reach their own subject; implemented by `WeatherSurvival`, used by `AdminDashboard` |
| `VerificationOracle` | `VerificationOrcale.sol` | over the contract its constructor is given |
| `Lists` | lists built with `append` in a loop | such a list is the list of items at some places (`ItemsAt`) |
| `Aggregation` | `aggregation.go` | pure operators: mode, median, errors against results; extends `Lists` |
| `ModeLoop` | the loop of `aggregateMode` | one iteration per step, so that what it computes can be proved |
| `ReportPhase` | `Observation`, `Report` of `reporting.go` | the variables and calls of one round; extends `Aggregation`, `Ledgers` |
| `ReportRound` | a round by itself | extends `ReportPhase`: any query, honest and faulty observers, who said what |
| `FunctionsORM` | `orm.go`, `models.go` | the table of each node; a transaction reads when it begins and writes when it commits, and others may commit in between |
| `FunctionsListener` | `listener.go`, `logpoller_wrapper.go` | extends `FunctionsORM`: polls, goroutines, timers, crashes |
| `AnswerService` | abstract answer service | each node computes a request at most once, an answer rests on more than F of them and is final; implemented by `FunctionsNetwork` |
| `FunctionsNetwork` | `reporting.go` over the tables of several nodes | extends `FunctionsORM`, `ReportPhase`; leaders, transmissions, the router; implements `AnswerService` |
| `WalletSession` | `connectWallet`, `logout`, the effects of `Web3Context.js` | |
| `SubmitFlow` | `submitNewProject`, `submit/page.js` | extends `BlueCarbon` |
| `ReviewPage` | `review/[id]/page.js` | extends `BlueCarbon` |
| `AdminDashboard` | `admindashboard/page.js` | extends `RequestService` |
| `BlueCarbonClaims` | a comment that does not hold | |
| `StakeReputationTheorems`, `MRVRegistryTheorems`, `BlueCarbonTheorems`, `OracleTheorems`, `FunctionsTheorems`, `FunctionsNetworkTheorems`, `SessionAndReviewTheorems`, `SubmissionAndDashboardTheorems` | proofs, each of the component or the components it names | section 5 |
| `MC*` | constants for TLC | four of them explore two or three components that do not meet: a variable chosen at the start says which, and the other stands still |

Correspondence. A Solidity function is an operator of the same name (with the
prefix `stake_` or `registry_` for the two `setVerificationContract`), whose first
argument is `msg.sender`: its `require`s and the checked arithmetic are conjuncts,
its assignments primed variables. A call that reverts changes nothing, so it is a
step that is not enabled. A call into another contract is that contract's operator,
conjoined, with the calling contract's address as sender: a transaction is one step
over all the contracts it reaches, and a revert in a callee disables all of it. A
capitalised action (`Stake`, `AdminRejects`) quantifies the inputs of one
transaction and adds the frame. The order of writes inside a function matters only
where it is read again: a transfer to oneself reads the debited balance
(`_transfer`), and a stake is booked before the tokens are pulled, in a token that
calls nobody back.

Data. Amounts are integers `0 .. MaxUint`: the additions OpenZeppelin marks
`unchecked` wrap (`Wrap`), the others are guards. A plantation keeps its id,
uploader, tree count, IPFS hash, status and the flag of its credits; species,
description and coordinates never change and nothing reads them on chain. A block
timestamp is whether it was set. `hasPeerVerified[id]` is the set of peers mapped
to true. Events are left out: no contract reads them.

A score is computed by a JavaScript program outside the chain, from the temperature
at the plantation's coordinates. The model has the program's arithmetic, in tenths
(temperatures come with one decimal), and chooses the temperature freely. The
answer is one step, as it is one transaction: the router deletes the commitment,
calls back with the request's gas limit, and swallows a revert. So an answer either
writes score, record and status together (`FulfillScore`), or is spent without
effect: because the callback reverts (`FulfillReverted`: too little gas, a
plantation that does not exist, an oracle `Verification` does not know, a registry
that does not listen to it), or because it carries an error or never comes
(`CloseUnanswered`). The script's parameters and the gas limit travel with the
request, the threshold is read when the answer arrives.

`Total(f)` is the number of pairs `<<account, coin number>>` below `f`. It equals
the sum, needs no recursion, and its lemmas follow from the library's theorems on
cardinality.

Off the chain. A JavaScript function runs to its next `await` undisturbed, so each
stretch between two awaits is a step, and a record per call says where it stands
(`calls`, `tab`, `page` and `reads`, `handlers`): the answer of the other side and
its arrival at the page are steps of their own. State that React sets after the
last await is set in one step. A transaction of a page is the contract's operator,
so its guard is the contract's, and a transaction that cannot be mined rejects the
promise (`Reverted`, `DecisionReverted`). The chain, the wallet and the user are the
environment.

In a Functions node, a handler or computation is a goroutine and may come at any
time. A transaction that changes a row's state begins in one step, in which it reads
and checks the state (`begin`), and ends in another, in which it writes by id whatever
is there by now (`commit`): the code takes no lock and does not ask for the state
again (`orm.go:88-98`, `170-202`). Inserting and pruning are a step each. In
`FunctionsNetwork` a transaction that nothing overtakes is one step, and a slow one is
two and counts as a mishap. The cache of detected events is the node's
memory, which `CrashAndRestart` empties, and the table survives. libocr is not in
the repository: a round is a leader's query, observations one by one, and the report
of any 2F+1 of them, delivered to each node in any order. Payloads are abstracted to
whether the computation failed and what it returned.

## 3. Runs

| run | what it explores | shows |
|---|---|---|
| `stake_reputation` | vault and token: two stakers, supply 5, rate 25 or 100, minimum 2 or 0, owner and slasher changing, allowances spent by the vault and by the NGO | balances adding up to the supply; solvency, treasury, payouts never blocked, refinement of `StakeVault` |
| `mrv_registry` | owner and NGO, two plantations, every status of an NGO, token handed to the registry or not, verifier set to the owner or not, owners renouncing | index and list of NGOs exact, registrations permanent, credits issued once and only after survival |
| `blue_carbon` | all contracts from the deployed state, two plantations; stake, payout, approval, rejection, score, dispute, peer confirmation in any order; the administrator replaced, the vault's verification contract moved to the deployer and back | records agree with statuses, peers counted once, rejections atomic |
| `weather_survival` | the score oracle over the deployed system: two plantations, two requests for any of the three identifiers, answers in any order, with an error or none; three temperatures, every parameter changed or not, ownership of `Verification` renounced or not, `Verification` naming a retired oracle until it is configured. Or `VerificationOracle`: two providers, its owner changing, before either contract | both contracts keep the same score; refinement of `RequestService`. What the other oracle has on record was delivered |
| `functions_node` | One node: one request with a fault and a crash, or two with pruning, at most two transactions open at a time. Or four observers, one faulty (F = 1), a query about one request or about three, with duplicates; forged values, metadata and repetitions. Or the loop of `aggregateMode`: lists of up to six items of three values | table consistent, outcomes kept, rows set back only by overtaken transactions and settled in the end, detected requests taken up after a crash, pruning spares the newest; what is reported was said by honest nodes and fits a transaction; an honest majority's value is aggregated |
| `functions_network` | three honest nodes and a faulty one, one request whose computation has one outcome; two mishaps, among them lies, late observations, slow transactions on the table, time-outs and lost transactions | what the router is told was computed by more than F honest nodes; refinement of `AnswerService` |
| `functions_settles` | the same network, the faulty node silent or leading nowhere, one mishap | requests are answered, and in the end nothing is under way |
| `session_and_review` | two accounts, two overlapping calls, one change of accounts under way, one reload and one failure. Or two review pages of one project, opened before or after the contracts are there, two overlapping reads of the effect beside the decision's, one mishap (a reconnection, a refused prompt, a lost receipt or a failed read), oracle and NGO at work | the session is one account's and comes back after a reload; review pages with contracts wait for nothing in vain, and show a status read after their own decision |
| `submission_and_dashboard` | two tabs of one NGO, three attempts, one lost answer, minimum stake 1 or 2, the NGO suspended. Or a dashboard of two projects and two scores, with two fetches and two requests, of which three are begun, and one failure | projects are staked for, attempts end; scores shown are current where no two reads crossed, answers release their buttons |

Where a run explores two or three components, they have no variable in common and do not
meet: the variable `part` (or `deployed`, `made`) is chosen in the initial state and
never changes, and the others keep their initial state. Fairness of the one
that stands still is vacuous, because none of its fair actions is enabled.

Bounds. `SupplyBound`, `MaxPlantations` and `ReputationBound` cap the counters that
would otherwise grow; they are guards of `Mint`, `RegisterPlantation` and
`IncreaseReputation`, named in their modules. In the vault's run `MaxUint` = 499
puts the overflow of `currentStake * penaltyRate` at a stake of 5 with rate 100, and
the rounding of a penalty to nothing at stakes below 4 with rate 25, so both edges
occur; 499 is also the infinite allowance. The supply, at most 5, never fills the
type, so TLC sees no wrapped balance; the proof covers every supply. One plantation identifier more than can
be registered is always among the inputs. In `weather_survival`, `MaxRequests` = 2
lets an answer overtake another, for the same plantation or for a different one;
the temperatures 25 (the ideal), 37.4 and -8.5 degrees give scores above, at and
below the thresholds 70 and 75, and 0 at the sensitivity of 3; the gas limits lie
above and below `CallbackGas`, and 0 is there for the setters that refuse it. An
NGO is suspended only in `mrv_registry` and `submission_and_dashboard`, whose
properties depend on its status. Two plantations suffice for an index or a decision
to hit the wrong one; two stakers for a payout from somebody else's stake.

Four observers with F = 1 is the smallest network the protocol allows, and three
observations the smallest report: a lie, a silent node and a late one occur in each
position. `MaxUint32` = 15 and a limit of 4 let gas be forged, added up and cut at
the limit, and a forged 13 wrap the counter. The report's gas is counted in a `uint32`
(`reporting.go:325`), so `ReportIsDeliverable` promises the sum of the gas only where
no observed gas wraps when the limit is added to it; ids and coordinator it promises
always. Six items of three values have two liars among five, ties of two and
three values, and a majority overtaken late; the proof covers every list.
`MaxFailures` (in the network and on the review page, `MaxMishaps`) bounds the mishaps of a run: one is enough
to lose an event, a computation or a transaction, two to combine a lie with a loss. `MaxCrashes` = 1: a
crash empties what the first emptied. Two calls, two tabs or two pages are the
smallest number that can overlap, and three attempts let a tab fail and try again
beside the other.

In `functions_node`, two open transactions are what a race takes: one that has read
and one that overtakes it; further ones would only overtake in turn, and the proof has
any number. On the review page `EffectReads` = {first, second} bounds the reads of the
effect that overlap (the decision's own read is a third), and one mishap is enough to
start the second or to lose an answer. On the dashboard `Fetches` and `MaxFetches`
allow two fetches that overlap, `MaxPresses` two requests of one project before the
first is mined (the button comes back with an earlier event), and `MaxBegun` = 3 two
fetches beside a request or two requests beside a fetch. In `functions_network` there
is one outcome, so honest nodes that disagree or fail are explored by `functions_node`
and covered by the proofs, and one request, so nothing there is about a batch.

`functions_network` uses symmetry of the honest nodes, which are interchangeable in
every constant; it has no liveness property. `functions_settles` does without.

Deadlock is checked except where the system may stop: in `mrv_registry`, where
renouncing every ownership before anything is registered leaves no call that
succeeds; in the runs of the Functions node and network, where a round ends when everybody
has answered, a loop with its list, and nothing happens once the requests are settled; and in `submission_and_dashboard`, where a dashboard
that has used its requests is idle.

Runs that are expected to fail each refute one statement of the repository, quoted in
`findings`:

| run | the statement | what the code does |
|---|---|---|
| `survival_blocked` | the owner marks a plantation as having survived | the internal call is checked against `verificationContractAddress`; the owner is not it |
| `session_follows_wallet` | when accounts change, signer, contracts and role are updated | a call for the account before the change ends last and sets that account's session |
| `confirmed_is_final` | nothing leaves the state CONFIRMED | a transaction that read the row before the confirmation writes it afterwards |

Seen while modelling, without a run of their own:

- no script hands the token's ownership to the registry, so `assignCredits` reverts
  as deployed (`MRVRegistry.sol:153`, `CarbonCredit.sol:10`); `mrv_registry` has both
  wirings;
- `registerPlantation` does not look at stakes (`MRVRegistry.sol:99`), a rejection of
  an NGO without stake reverts with `slashStake`, and nothing calls
  `increaseReputation` (`StakeRepatation.sol:110`);
- the review page decides on a status read earlier and the contract does not look at
  it, so two pages may decide one after the other, and the second rejection slashes
  again (`review/[id]/page.js:94`);
- a page that is opened before the session has its contracts shows "Loading" until it
  has (`review/[id]/page.js:17`, `34`): `WaitingIsForSomething` begins with the
  contracts. A read of the effect that was under way when a decision's receipt arrives
  may end after it and show the old status, with its buttons; so may a read that fails
  (`page.js:49`). `DecidedOffersNoDecision` leaves out these two cases and no other;
- on the dashboard, two reads of one score that cross (two fetches, two events, or one
  of each) may leave the older one shown until the next read (`page.js:35`, `92`);
  `ScoresAreCurrent` leaves out a project from then on until a read is made alone;
- a logout does not end a `connectWallet` under way, which signs in again when it ends
  (`Web3Context.js:84-93`, `233`);
- `flagFakeSubmission` leaves `adminVerified` as it was (`Verification.sol:98`), so a
  plantation approved once and then rejected is Rejected with an approval on record:
  `RecordsAgree` says nothing of rejected plantations' records;
- an attempt that fails after its stake was mined keeps the stake, and the next one
  stakes again (`Web3Context.js:178`): hence `StakesAreBounded` counts attempts;
- `Verification` has no `submitAIVerification` (`VerificationOrcale.sol:81`), so every
  result of that oracle reverts before it;
- the context never passes `loading` on (`Web3Context.js:245`), so the pages' own
  `web3Loading` is never true, and the dashboard's
  button stays at "Fetching..." when a request ends with an error (`page.js:111`);
- in a Functions node, requests detected by a poll that then fails are lost when their
  blocks age out before the cache forgets them (`logpoller_wrapper.go:164`); a response handled before its request's row exists is lost and
  the row times out (`listener.go:242`); a computation that failed internally is never
  repeated (`listener.go:429`); and a batch full of requests above the gas limit keeps
  later ones waiting (`reporting.go:153`). The models have these behaviours:
  `RequestsAreTakenUp` excepts runs with a fault, `EveryRowIsSettled` allows a time-out to settle a row, and the networks checked have
  no request above the limit.

## 4. Fairness

The contracts act only when somebody sends a transaction, and no code obliges anybody
to: their modules have safety properties alone, and `WithdrawalNeverBlocked` states
what a liveness property would rest on, that the call would succeed.

- A Functions node (`NodeFairness`): the ticker polls as long as an event in sight was
  not detected, and goroutines that were started run, or time out, and so do the
  transactions they open. The timer of
  expired rows fires. No fairness for faults, crashes, and pruning.
- The network (`NetworkFairness`): some honest node goes on with what it has to do, and
  some observes the query of the round, as long as one can; a round that all honest
  nodes have answered ends, and one a faulty node leads ends or is abandoned. Honest
  nodes lead again and again (strong fairness: libocr rotates leaders, so a faulty one
  interrupts but does not prevent it). A transaction that was sent and not lost is mined. Faulty
  nodes owe nothing, and nodes do not owe a time-out.
- The pages (`SessionFairness`, `SubmitFairness`, `ReviewFairness`,
  `DashboardFairness`): a promise is settled in the end: the node answers, the wallet
  answers if it exposes an account, a prompt is answered, the chain mines or refuses
  what was sent, and events are delivered and handled. Not assumed: that users act, that
  the score service ever answers, that a transaction nobody awaits is mined, or, on the
  dashboard, that a fetch ends.

One condition covers the steps of one call or one page when they follow one another,
since then the weak fairness of their disjunction is that of each.

## 5. Proofs

For every set of accounts (finite), every width of integers and every set of
inputs that satisfies the named assumptions. Each argument is an inductive
invariant, which TLC checked on a run before it was proved.

Token and vault (`StakeReputationTheorems`):

- `TokenSafety`: the token stays typed and its balances add up to the supply. The
  two parts are inductive together: the wrapped addition in `_transfer` equals the
  true one because two balances never exceed a supply that fits the type. The lemmas
  on `Total` say that a credit, a debit and an update change it by exactly the amount,
  and that an entry, and the sum of two, is at most the total.
- `StakeSafety`: the vault stays typed and solvent. The inductive invariant
  `StakeInv` adds the token's to them: without `SupplyIsBacked` a stake could wrap
  the vault's balance. A token step by somebody else cannot lower the vault's balance
  because the vault approves nobody, which is why `StakeInv` also says that the
  vault's allowances are zero.
- `TreasuryIsKept`: no step lowers the treasury; from the same invariant.
- `StakeImplementsVault`: the staking contract refines `StakeVault`. The wallets of
  the abstract escrow are the balances of everybody but the vault, so a staking call
  is a deposit or a payout, a slash a payout, and the token's own calls move wallets;
  solvency shows that the vault's balance covers what the abstract step needs.
- `StakesArePayable`: in every reachable state a staker, and the verification contract
  for a penalty, meets each guard of the transfer that pays. This is what
  `WithdrawalNeverBlocked` says with ENABLED, without it.

Registry, verification and the whole system (`MRVRegistryTheorems`,
`BlueCarbonTheorems`):

- `NGOListAlwaysExact`: `ManagerTypeOK` and `NGOListExact` are inductive together;
  appending a name that is not yet on the list (`AppendNew`) is the one step that
  touches both.
- `UploaderIndexAlwaysExact`: the index holds each registered id once, under its
  uploader. `RegistryTypeOK` is needed beside it, to know that the id appended is
  above every id on the list.
- `RegistrationsAreKept` and `CreditsAreBacked`: the two action properties of the
  registry follow from its invariant and the token's. That a registry which owns the
  token keeps it is part of the second: no call of the registry hands it on.
- `SystemSafety`: the invariants above hold together over the deployed system, in
  which every contract's calls move the variables of several (`SystemInv`).
- `RecordsAlwaysAgree` and `RejectionsAreAtomic`: `DecisionInv` adds to `SystemInv`
  what each verification record says of itself and of its plantation's status
  (`RecordsInv`), and that the registry's verifier is a contract. The hypothesis
  `OnlyContractsVerify` says that the registry is never told to take orders from an
  externally owned account: such an account could write a status without a record.
  The scripts of the repository name the `Verification` contract, so they satisfy it.

Oracles (`OracleTheorems`):

- `ScoresAlwaysAgree`: `ScoresAgree` under `SoleOracle`, that no configured oracle is
  an externally owned account. Such an account could call `submitAIScore` itself and
  change the record without the other contract's score; a contract cannot. The
  inductive invariant `ScoreInv` adds what an answer is computed from
  (`SettingsTyped`, `RequestsTyped`) to the types of the two scores: the lemma
  `ScoreBound` then shows the script's result to be at most 100 for every weather and
  setting, so that the cast to `uint8` keeps it.
- `WeatherTypes` and `WeatherImplementsService`: `WeatherInv` adds to the types that
  the settings a request in flight carries are numbers (`Committed`), since its answer
  is computed from them after the setters have moved on. For the refinement, a
  commitment is an open request, so an answer, reverted or not, is its one end.
- `ResultsAlwaysDelivered`: what `VerificationOracle` has on record was delivered.

Functions node, plugin and network (`FunctionsTheorems`, `FunctionsNetworkTheorems`):

- `LoopSafety`: `LoopInv` says that the loop's map counts the items seen so far
  exactly, that the highest count is the highest, and that the winner was the first to
  reach it. From it follow `LoopAlwaysComputesMode`, that the loop ends with the first
  most frequent item, and `AgreementAlwaysSurvives`, that with at least 2F+1 items of
  which all but F agree it ends with what they agree on.
- `TablesStayTyped`, `RowsAreKept`, `NewestRowsStay`: `ListenerInv` says of each node's
  table that its rows and their order of arrival list the same requests, once each, and
  that one whose result is ready has an outcome (`TablesOK`). Since a transaction may
  write long after it read, the same must hold of what is open: whatever it finds, its
  write leaves the row in order, and the transition was allowed when it was checked
  (`OpenOK`). So a row is set back only where what was read is no longer there, which is
  what `overtaken` says. Of a request one handler is at work, in its computation or
  about to write (`OneAtWork`), and only while the row has no outcome; two are possible
  where the row was pruned under the first and received again, which the ghost variable
  `recomputed` records (`HandlersOK`). An outcome is therefore written once, whatever
  order handlers, timers, reports and restarts come in, and whoever overtakes whom. A
  prune cuts the order of arrival in two, so that at least `MaxStoredRequests` of the
  rows received after a pruned one stay.
- `ReportsRestOnHonest`, `AgreementsAreReported`, `MediansAreBetween`,
  `ReportsAreDeliverable`: the four properties of a round, for any number of observers
  and requests, any values and any messages of the faulty. `RoundInv` says that the
  list of a request has at most one item of each observer heard, about that request,
  and that an honest one's carries the request's own gas limit and coordinator. Of
  2F+1 items, or more, at most F are then faulty, and more than half honest
  (`HonestMajority`). What more than half of a list agree on survives each stage of
  the aggregation (`AggregateOfMajority`): the split into errors and results, the list
  made of the larger part (`ItemsAtPlaces`: the places picked are a bijection onto
  it), the mode (`ModeOfMajority`), and for the median, that its place lies between
  two of them (`MedianOfMajority`). `PassOK` is the invariant of `Report`'s loop, by
  induction over its passes; that the recursive function behind `Report` exists is
  proved as well (`PassesExist`), by the least pass at which it could fail to.
- `NetworkStaysTyped`, `AnswersAlwaysComputed`: the network, for any number of nodes,
  requests, outcomes and mishaps, and for queries and observations of the faulty nodes
  from any sets. `NetworkInv` has three parts beside the types. The tables are in
  order, with what is open on them, and each request is computed once on each node
  (`TablesOK` and `OnceEach`, from the invariant of the listener, whose lemmas are used
  again). The
  honest observations of the round under way say what their speakers' rows say
  (`RoundRecorded`). Everything delivered, accepted, sent or answered is `Backed`: more
  than F honest nodes have an outcome, and if they agree, it is theirs. The first part
  makes the others last: an outcome, once there, is never changed, and this network
  prunes nothing (`OutcomesKept`), so an observation stays on record after its round's leader has
  gone, and a report stays backed however late it arrives. The third begins with
  `ReportedIsBacked`, from the round's own lemmas: the honest speakers of a reported
  item (`SpeakersCounted`) each have a row that says what they said.
- `NetworkImplementsAnswers`: whoever sends a request sees `AnswerService`, in which there
  are no lies, leaders, rounds, reports or transactions. What a node computed is the
  outcome in its row (`ComputedOf`). Receiving, reporting, confirming, timing out, rounds
  and losses leave every outcome alone (`NodesStandOrCompute`), so they are hidden; a
  computation is the service's, because `TablesOK` says that its request was asked
  (`ComputeImplements`); a slow one is, when it commits. A transaction that is mined answers all its requests at once,
  each of them for the first time, and `NetworkInv` says that what it carries is backed,
  which is what the service allows (`MiningImplements`, `BackedIsSupported`).

Pages (`SessionAndReviewTheorems`, `SubmissionAndDashboardTheorems`):

- `SessionSafety`: `SessionInv` adds to `SessionIsOneAccounts` and
  `LoadingIsConnecting` that every call under way carries the role that belongs to
  its own account (`CallsAreOfOneAccount`), so that it does not matter which ends last.
- `PagesNeverHang`, `DecisionsAreFinal`: `ReviewInv` says of every page that a call under
  way accounts for what it waits for, once the contracts are there, and that its decision
  comes before the read after it (`Waits`); and of a page that is sure, that is, whose
  receipt found no read of the effect under way and since when no read has failed, that
  the chain has judged the project, so has every answer on its way, and what is shown
  is one of them or about to be (`Sure`). The two exceptions are real: in them the
  page does offer a second decision.
- `ProjectsAreStaked`, `StakesStayBounded`: `SubmitInv` counts the attempts of an NGO
  as `Total` counts coins: one stake per attempt that got past it, one project per
  attempt that got past that; no allowance exceeds the highest minimum. Since the
  minimum may change, the least and the greatest minimum so far
  bound each stake; that they exist comes from well-founded induction (`LeastOf`,
  `GreatestOf`).
- `ScoresStayCurrent`: `DashboardInv` says of each project whose reads did not cross
  that at most one read of its score is under way, and that the contract's score is on
  its way to the page or shown (`ScoreArrives`): an event not handled yet, a read that
  has returned it or will, or the score itself. For any number of fetches, events and
  presses of the button.

The type invariants of token, vault, NGO list, registry, loop, network and session, and
`LoadingIsConnecting`, follow from the invariants proved above and are not
listed in the runs again; the runs check `TypeOK`, `WeatherTypeOK` and `ListenerTypeOK`.

Model-checked only: everything about liveness, that is the properties which say that
something happens in the end (`EveryRowIsSettled`, `RequestsAreTakenUp`,
`NetworkSettles`, `SessionIsRestored`, `SubmittingEnds`, `AttemptsEnd`,
`AnsweredReleasesButton`); and `WithdrawalNeverBlocked` in its own form, which uses
ENABLED, `StakesArePayable` being the form that is proved. Both are out of the prover's
reach. Every other property the runs check is stated by a theorem.

The theorems about `FunctionsListener` do not carry over to `FunctionsNetwork` as such:
its steps are coarser and never prune, so its own proof goes through every step again.

## 6. Not modelled, and the plan

- Most of the repository's lines are Chainlink's own repository, vendored under
  `src/contracts/lib/chainlink`: CCIP, automation, workflows, generated bindings,
  deployment and test tooling, which no part of this system calls. Of it only the
  Functions service is modelled, because it answers the score requests. The models
  therefore cover a small share of all lines and most of those this system runs on.
- Of the Functions service: requests over the gateway (`HandleOffchainRequest`, the
  connector's cache and the off-chain transmitter), secrets, a change of coordinators
  during operation, and the router's subscriptions, billing and pausing (what they
  refuse is never sent or processed).
- Pages that hold nothing but a form over one modelled function (`ngo-management`,
  `owner-controls`) or only show what they read; the IPFS route, whose failure is the
  step `Refused` of `SubmitFlow`.
- Deployment scripts that stop half-way: until the last link is set nobody has an
  address to call.
- The token's `_burn` and the contracts' views that only return a variable have no
  caller that changes state.

What is left, most important first: the gateway's path through a node, which would
give requests a second way into the same table; and a network whose nodes also prune,
crash and miss events, as `FunctionsListener` has them for one node.
