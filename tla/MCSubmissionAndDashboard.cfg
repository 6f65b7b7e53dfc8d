CONSTANTS
  zero = zero
  deployer = deployer
  ngo = ngo
  registry = registry
  manager = manager
  vault = vault
  verification = verification
  one = one
  two = two
  Accounts <- MCAccounts
  ZeroAddress = zero
  Senders = {deployer, ngo}
  Deployer = deployer
  TokenOwners = {}
  StakeOwners = {}
  ManagerOwners = {}
  RegistryOwners = {}
  VerificationOwners = {}
  Payees = {ngo}
  Spenders = {}
  Amounts = {2}
  Approvals = {}
  MaxUint = 499
  SupplyBound = 0
  Candidates = {ngo}
  Statuses = {"Whitelisted", "Blacklisted"}
  Registry = registry
  ManagerAddress = manager
  RegistryVerifiers = {}
  Managers = {}
  TreeCounts = {1}
  Hashes = {h1}
  MaxPlantations = 3
  Vault = vault
  InitialMinimumStake = 1
  Verifiers = {}
  NGOs = {ngo}
  Minimums = {2}
  Rates = {}
  ReputationBound = 0
  VerificationAddress = verification
  Admins = {}
  Oracles = {}
  Peers = {}
  Scores = {}
  InitialMint = 6
  InitialAdmin = deployer
  InitialOracle = deployer
  NGOOf <- MCNGOOf
  Tabs = {one, two}
  MaxAttempts = 3
  MaxLostAnswers = 1
  p1 = p1
  p2 = p2
  r1 = r1
  r2 = r2
  low = low
  high = high
  Requests = {r1, r2}
  Subjects = {p1, p2}
  Answers = {low, high}
  NoScore = undefined
  Fetches = {f1, f2}
  MaxFetches = 2
  MaxBegun = 3
  MaxPresses = 2
  MaxFailures = 1
SPECIFICATION MCSpec
INVARIANTS
  EveryProjectIsStaked
  StakesAreBounded
  ScoresAreCurrent
PROPERTIES
  AttemptsEnd
  AnsweredReleasesButton
\* With no request left to make, an idle dashboard does nothing any more.
CHECK_DEADLOCK FALSE
