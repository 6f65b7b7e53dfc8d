CONSTANTS
  zero = zero
  deployer = deployer
  ngo = ngo
  vault = vault
  Accounts = {zero, deployer, ngo, vault}
  ZeroAddress = zero
  Senders = {deployer, ngo}
  Payees = {zero, deployer, ngo, vault}
  Spenders = {vault, ngo}
  Deployer = deployer
  TokenOwners = {zero}
  StakeOwners = {ngo, zero}
  Amounts = {1, 4}
  Approvals = {499}
  MaxUint = 499
  SupplyBound = 5
  Vault = vault
  InitialMinimumStake = 2
  Verifiers = {deployer}
  NGOs = {ngo}
  Minimums = {0}
  Rates = {100, 101}
  ReputationBound = 10
SPECIFICATION StakeSpec
INVARIANTS
  Solvent
  SupplyIsBacked
  WithdrawalNeverBlocked
PROPERTIES
  TreasuryNeverShrinks
  ImplementsVault
