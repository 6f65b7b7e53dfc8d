-------------------------- MODULE StakeReputation --------------------------
(***************************************************************************)
(* StakeRepatation.sol: NGOs stake tokens in the vault, the verification   *)
(* contract slashes stakes and moves reputation scores, and the owner      *)
(* configures minimum, penalty rate and verification contract.             *)
(***************************************************************************)
EXTENDS CarbonCredit

CONSTANTS
  Vault,                \* the contract's own address
  InitialMinimumStake,  \* 5 * 10**18 in the source
  StakeOwners,          \* the addresses ownership passes to, ZeroAddress by renouncing
  Verifiers,            \* the values setVerificationContract is called with
  NGOs,                 \* whom slashes and reputation calls are for
  Minimums,             \* the values setMinimumStake is called with
  Rates,                \* the values setPenaltyRate is called with
  ReputationBound       \* bound on the scores that are explored

ASSUME StakeAssumption ==
  /\ Vault \in Accounts \ (Senders \cup {ZeroAddress})
  /\ InitialMinimumStake \in Uint
  /\ StakeOwners \subseteq Accounts
  /\ Verifiers \subseteq Accounts
  /\ NGOs \subseteq Accounts
  /\ Minimums \subseteq Uint
  /\ Rates \subseteq Uint
  /\ ReputationBound \in Nat

VARIABLES
  stakeOwner,            \* Ownable._owner
  verificationContract,
  stakedAmount,
  reputationScore,
  minimumStake,
  penaltyRate

configVars == <<stakeOwner, verificationContract, minimumStake, penaltyRate>>
stakeVars == <<configVars, stakedAmount, reputationScore>>
stakeAndTokenVars == <<stakeVars, tokenVars>>

StakeOwnable == INSTANCE Ownable WITH owner <- stakeOwner

reputationReward == 10
reputationPenalty == 20

StakeInit ==
  /\ stakeOwner = Deployer
  /\ verificationContract = ZeroAddress
  /\ stakedAmount = [a \in Accounts |-> 0]
  /\ reputationScore = [a \in Accounts |-> 0]
  /\ minimumStake = InitialMinimumStake
  /\ penaltyRate = 25
-----------------------------------------------------------------------------
slashAmount(ngo) == (stakedAmount[ngo] * penaltyRate) \div 100

\* Mistakes the properties must catch: the tokens are not pulled; a payout is
\* not booked, or goes to the contract's owner, or has to leave a minimum.
stakeTokensWithoutPull(sender, amount) ==
  /\ amount >= minimumStake
  /\ stakedAmount[sender] + amount <= MaxUint
  /\ stakedAmount' = Credit(stakedAmount, sender, amount)
  /\ UNCHANGED <<balance, allowance>>

withdrawStakeUnbooked(sender, amount) ==
  /\ amount <= stakedAmount[sender]
  /\ transfer(Vault, sender, amount)
  /\ UNCHANGED stakedAmount

withdrawStakeToOwner(sender, amount) ==
  /\ amount <= stakedAmount[sender]
  /\ stakedAmount' = Debit(stakedAmount, sender, amount)
  /\ transfer(Vault, stakeOwner, amount)

withdrawStakeAboveMinimum(sender, amount) ==
  /\ amount + minimumStake <= stakedAmount[sender]
  /\ stakedAmount' = Debit(stakedAmount, sender, amount)
  /\ transfer(Vault, sender, amount)
-----------------------------------------------------------------------------
stakeTokens(sender, amount) ==
  /\ amount >= minimumStake
  /\ stakedAmount[sender] + amount <= MaxUint
  /\ stakedAmount' = Credit(stakedAmount, sender, amount)
  /\ transferFrom(Vault, sender, Vault, amount)

withdrawStake(sender, amount) ==
  /\ amount <= stakedAmount[sender]
  /\ stakedAmount' = Debit(stakedAmount, sender, amount)
  /\ transfer(Vault, sender, amount)

slashStake(sender, ngo) ==
  /\ sender = verificationContract
  /\ stakedAmount[ngo] > 0
  /\ stakedAmount[ngo] * penaltyRate <= MaxUint
  /\ stakedAmount' = Debit(stakedAmount, ngo, slashAmount(ngo))

increaseReputation(sender, ngo) ==
  /\ sender = verificationContract
  /\ reputationScore[ngo] + reputationReward <= MaxUint
  /\ reputationScore' = Credit(reputationScore, ngo, reputationReward)

decreaseReputation(sender, ngo) ==
  /\ sender = verificationContract
  /\ LET score == reputationScore[ngo]
         loss  == IF score >= reputationPenalty THEN reputationPenalty ELSE score
     IN  reputationScore' = Debit(reputationScore, ngo, loss)

stake_setVerificationContract(sender, address) ==
  /\ StakeOwnable!onlyOwner(sender)
  /\ verificationContract' = address

setMinimumStake(sender, amount) ==
  /\ StakeOwnable!onlyOwner(sender)
  /\ minimumStake' = amount

setPenaltyRate(sender, rate) ==
  /\ StakeOwnable!onlyOwner(sender)
  /\ rate <= 100
  /\ penaltyRate' = rate
-----------------------------------------------------------------------------
Stake ==
  /\ \E s \in Senders, n \in Amounts : stakeTokens(s, n)
  /\ UNCHANGED <<configVars, reputationScore, tokenOwner, totalSupply>>

Withdraw ==
  /\ \E s \in Senders, n \in Amounts : withdrawStake(s, n)
  /\ UNCHANGED <<configVars, reputationScore, tokenOwner, allowance, totalSupply>>

Slash ==
  /\ \E s \in Senders, ngo \in NGOs : slashStake(s, ngo)
  /\ UNCHANGED <<configVars, reputationScore, tokenVars>>

IncreaseReputation ==
  /\ \E s \in Senders, ngo \in NGOs :
        /\ reputationScore[ngo] + reputationReward <= ReputationBound
        /\ increaseReputation(s, ngo)
  /\ UNCHANGED <<configVars, stakedAmount, tokenVars>>

DecreaseReputation ==
  /\ \E s \in Senders, ngo \in NGOs : decreaseReputation(s, ngo)
  /\ UNCHANGED <<configVars, stakedAmount, tokenVars>>

ConfigureStake ==
  /\ \E s \in Senders :
       \/ /\ \E a \in Verifiers : stake_setVerificationContract(s, a)
          /\ UNCHANGED <<stakeOwner, minimumStake, penaltyRate>>
       \/ /\ \E n \in Minimums : setMinimumStake(s, n)
          /\ UNCHANGED <<stakeOwner, verificationContract, penaltyRate>>
       \/ /\ \E r \in Rates : setPenaltyRate(s, r)
          /\ UNCHANGED <<stakeOwner, verificationContract, minimumStake>>
       \/ /\ \E a \in StakeOwners : StakeOwnable!passOwnership(s, a)
          /\ UNCHANGED <<verificationContract, minimumStake, penaltyRate>>
  /\ UNCHANGED <<stakedAmount, reputationScore, tokenVars>>

StakeNext ==
  \/ TokenNext /\ UNCHANGED stakeVars
  \/ Stake
  \/ Withdraw
  \/ Slash
  \/ IncreaseReputation
  \/ DecreaseReputation
  \/ ConfigureStake

\* Both contracts as constructed.
StakeSystemInit == TokenInit /\ StakeInit

StakeSpec == StakeSystemInit /\ [][StakeNext]_stakeAndTokenVars
-----------------------------------------------------------------------------
\* Every variable of the contract holds a value of its Solidity type, and the
\* penalty rate is a percentage.
StakeTypeOK ==
  /\ stakeOwner \in Accounts
  /\ verificationContract \in Accounts
  /\ stakedAmount \in [Accounts -> Uint]
  /\ reputationScore \in [Accounts -> Uint]
  /\ minimumStake \in Uint
  /\ penaltyRate \in 0 .. 100

\* The vault holds at least what its stakers may withdraw, whatever was
\* slashed, donated or minted to it: stakeTokens books the stake before it
\* pulls the tokens, withdrawStake before it pays them.
Solvent == Total(stakedAmount) <= balance[Vault]

\* What the vault holds beyond the stakes: the slashed tokens "are kept in this
\* contract as a treasury".
treasury == balance[Vault] - Total(stakedAmount)

\* No call, by anybody, takes a token out of the treasury.
TreasuryNeverShrinks == [][treasury' >= treasury]_stakeAndTokenVars

\* A staker can withdraw the whole of its stake in every reachable state: no
\* configuration, slash or transfer makes the payout revert.
WithdrawalNeverBlocked ==
  \A a \in Senders : stakedAmount[a] > 0 => ENABLED withdrawStake(a, stakedAmount[a])

\* The contract implements the abstract vault: balances other than its own are
\* the wallets, stakes the claims.
Holders == Accounts \ {Vault}
Vaulting == INSTANCE StakeVault
  WITH Issues <- Amounts,
       wallets <- [h \in Holders |-> balance[h]],
       claims <- [h \in Holders |-> stakedAmount[h]],
       treasury <- treasury

ImplementsVault == Vaulting!Spec
=============================================================================
