CONSTANTS
  zero = zero
  deployer = deployer
  ngo = ngo
  oracle = oracle
  registry = registry
  manager = manager
  vault = vault
  verification = verification
  one = one
  two = two
  Accounts <- MCAccounts
  ZeroAddress = zero
  Senders = {deployer, ngo, oracle}
  Deployer = deployer
  TokenOwners = {}
  StakeOwners = {}
  ManagerOwners = {}
  RegistryOwners = {}
  VerificationOwners = {}
  Payees = {ngo}
  Spenders = {vault}
  Amounts = {4}
  Approvals = {499}
  MaxUint = 499
  SupplyBound = 0
  Candidates = {ngo}
  Statuses = {"Whitelisted", "Blacklisted"}
  Registry = registry
  ManagerAddress = manager
  RegistryVerifiers = {}
  Managers = {}
  TreeCounts = {1}
  Hashes = {h1}
  MaxPlantations = 1
  Vault = vault
  InitialMinimumStake = 2
  Verifiers = {}
  NGOs = {ngo}
  Minimums = {}
  Rates = {}
  ReputationBound = 0
  VerificationAddress = verification
  Admins = {}
  Oracles = {}
  Peers = {}
  Scores = {70}
  InitialMint = 4
  InitialAdmin = deployer
  InitialOracle = oracle
  Pages = {one, two}
  Reviewer = deployer
  Uploader = ngo
  EffectReads = {first, second}
  MaxMishaps = 1
  WalletAccounts = {deployer, ngo}
  NoAccount = none
  ADMIN_ADDRESSES = {deployer}
  Calls = {first, second}
  MaxEvents = 1
  MaxFailures = 0
  MaxLoads = 0
SPECIFICATION MCSpec
INVARIANTS
  SessionFollowsWallet
