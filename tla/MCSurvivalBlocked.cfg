CONSTANTS
  zero = zero
  deployer = deployer
  ngo = ngo
  oracle = oracle
  registry = registry
  manager = manager
  vault = vault
  verification = verification
  Accounts <- MCAccounts
  ZeroAddress = zero
  Senders = {deployer, ngo, oracle}
  Deployer = deployer
  TokenOwners = {}
  StakeOwners = {}
  ManagerOwners = {}
  RegistryOwners = {}
  VerificationOwners = {}
  Payees = {ngo}
  Spenders = {vault}
  Amounts = {4}
  Approvals = {499}
  MaxUint = 499
  SupplyBound = 4
  Candidates = {ngo}
  Statuses = {"Whitelisted", "Blacklisted"}
  Registry = registry
  ManagerAddress = manager
  RegistryVerifiers = {}
  Managers = {}
  TreeCounts = {1}
  Hashes = {h1}
  MaxPlantations = 1
  Vault = vault
  InitialMinimumStake = 2
  Verifiers = {}
  NGOs = {ngo}
  Minimums = {}
  Rates = {}
  ReputationBound = 30
  VerificationAddress = verification
  Admins = {}
  Oracles = {}
  Peers = {}
  Scores = {70}
  InitialMint = 4
  InitialAdmin = deployer
  InitialOracle = oracle
SPECIFICATION Spec
INVARIANTS
  SurvivalCanBeRecorded
