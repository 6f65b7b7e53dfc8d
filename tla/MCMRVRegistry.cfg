CONSTANTS
  zero = zero
  deployer = deployer
  ngo = ngo
  registry = registry
  manager = manager
  Accounts = {zero, deployer, ngo, registry, manager}
  ZeroAddress = zero
  Senders = {deployer, ngo}
  Deployer = deployer
  TokenOwners = {registry}
  ManagerOwners = {zero}
  RegistryOwners = {zero}
  Payees = {deployer, ngo, registry}
  Spenders = {}
  Amounts = {1}
  Approvals = {}
  MaxUint = 4
  SupplyBound = 1
  Candidates = {deployer, ngo}
  Statuses = {"Pending", "Whitelisted", "Blacklisted"}
  Registry = registry
  ManagerAddress = manager
  RegistryVerifiers = {deployer}
  Managers = {manager}
  TreeCounts = {2}
  Hashes = {h1}
  MaxPlantations = 2
SPECIFICATION RegistrySpec
INVARIANTS
  UploaderIndexExact
  NGOListExact
PROPERTIES
  RegistrationIsPermanent
  IssuanceIsBacked
\* Renouncing every ownership before anything is registered stops the system.
CHECK_DEADLOCK FALSE
