CONSTANTS
  zero = zero
  deployer = deployer
  ngo = ngo
  retired = retired
  registry = registry
  manager = manager
  vault = vault
  verification = verification
  weather = weather
  Accounts <- MCAccounts
  ZeroAddress = zero
  Senders = {deployer, ngo}
  Deployer = deployer
  TokenOwners = {}
  StakeOwners = {}
  ManagerOwners = {}
  RegistryOwners = {}
  VerificationOwners = {zero}
  Payees = {}
  Spenders = {}
  Amounts = {}
  Approvals = {}
  MaxUint = 499
  SupplyBound = 4
  Candidates = {ngo}
  Statuses = {"Whitelisted"}
  Registry = registry
  ManagerAddress = manager
  RegistryVerifiers = {}
  Managers = {}
  TreeCounts = {1}
  Hashes = {h1}
  MaxPlantations = 2
  Vault = vault
  InitialMinimumStake = 2
  Verifiers = {}
  NGOs = {}
  Minimums = {}
  Rates = {}
  ReputationBound = 0
  VerificationAddress = verification
  Admins = {}
  Oracles = {weather}
  Peers = {}
  Scores = {}
  InitialMint = 4
  InitialAdmin = deployer
  InitialOracle = retired
  MaxRequests = 2
  WeatherAddress = weather
  WeatherOwners = {ngo}
  Temperatures <- MCTemperatures
  Thresholds = {75}
  IdealTemperatures = {30}
  Sensitivities = {0, 3}
  GasLimits = {0, 100000}
  CallbackGas = 200000
  OracleOwners = {ngo}
  Providers = {deployer, ngo}
  Plantations = {0, 1}
  Confidences = {0, 100, 101}
SPECIFICATION MCSpec
INVARIANTS
  WeatherTypeOK
  ScoresAgree
  ResultsAreDelivered
PROPERTIES
  ImplementsService
