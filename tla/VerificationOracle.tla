------------------------- MODULE VerificationOracle -------------------------
(***************************************************************************)
(* VerificationOrcale.sol: the owner's list of trusted providers and the   *)
(* results they submit.  A result is recorded and passed on in one         *)
(* transaction; the call of the other contract reverts it all unless that  *)
(* contract has the function: the mock of the test does, Verification does *)
(* not.                                                                    *)
(***************************************************************************)
EXTENDS Addresses, Naturals

CONSTANTS
  OracleOwners,      \* the addresses ownership passes to
  Providers,         \* the addresses the owner calls setOracleProvider for
  Plantations,       \* the ids of the results
  Confidences        \* the confidence scores providers submit

ASSUME OracleAssumption ==
  /\ OracleOwners \subseteq Accounts
  /\ Providers \subseteq Accounts
  /\ Confidences \subseteq 0 .. 255

VARIABLES
  oracleOwner,       \* Ownable._owner
  isOracleProvider,
  oracleResults,
  target,            \* the functions of the contract the constructor is given
  received           \* what that contract was last told of each plantation

oracleVars == <<oracleOwner, isOracleProvider, oracleResults, target, received>>

OracleOwnable == INSTANCE Ownable WITH owner <- oracleOwner

NoResult == [approved |-> FALSE, confidenceScore |-> 0, provider |-> ZeroAddress]

\* The external functions of Verification.sol; it has no fallback.
VerificationFunctions ==
  {"submitAdminVerification", "submitAIScore", "flagProjectAsDisputed",
   "submitPeerVerification", "flagFakeSubmission", "getVerificationRecord",
   "setAdminAddress", "setScoreOracleAddress"}

\* Those of MockVerification, in VerificationOracle.t.sol.
MockFunctions == {"submitAIVerification"}

NothingReceived == {}

OracleInit ==
  /\ oracleOwner = Deployer
  /\ isOracleProvider = {}
  /\ oracleResults = [id \in Plantations |-> NoResult]
  /\ target \in {MockFunctions, VerificationFunctions}
  /\ received = [id \in Plantations |-> NothingReceived]
-----------------------------------------------------------------------------
\* The call of IVerification.submitAIVerification.
submitAIVerification(id, approved) ==
  /\ "submitAIVerification" \in target
  /\ received' = [received EXCEPT ![id] = {approved}]

\* A mistake the properties must catch: a refused push is caught.
submitOracleResultCatching(sender, id, approved, confidence) ==
  /\ sender \in isOracleProvider
  /\ confidence <= 100
  /\ oracleResults' = [oracleResults EXCEPT ![id] =
       [approved |-> approved, confidenceScore |-> confidence, provider |-> sender]]
  /\ \/ submitAIVerification(id, approved)
     \/ "submitAIVerification" \notin target /\ UNCHANGED received

submitOracleResult(sender, id, approved, confidence) ==
  /\ sender \in isOracleProvider
  /\ confidence <= 100
  /\ oracleResults' = [oracleResults EXCEPT ![id] =
       [approved |-> approved, confidenceScore |-> confidence, provider |-> sender]]
  /\ submitAIVerification(id, approved)

setOracleProvider(sender, provider, isTrusted) ==
  /\ OracleOwnable!onlyOwner(sender)
  /\ isOracleProvider' = IF isTrusted THEN isOracleProvider \cup {provider}
                         ELSE isOracleProvider \ {provider}

SubmitOracleResult ==
  /\ \E s \in Senders, id \in Plantations, a \in BOOLEAN, c \in Confidences :
        submitOracleResult(s, id, a, c)
  /\ UNCHANGED <<oracleOwner, isOracleProvider, target>>

SetOracleProvider ==
  /\ \E s \in Senders, p \in Providers, t \in BOOLEAN : setOracleProvider(s, p, t)
  /\ UNCHANGED <<oracleOwner, oracleResults, target, received>>

ChangeOracleOwner ==
  /\ \E s \in Senders, a \in OracleOwners : OracleOwnable!passOwnership(s, a)
  /\ UNCHANGED <<isOracleProvider, oracleResults, target, received>>

OracleNext == SubmitOracleResult \/ SetOracleProvider \/ ChangeOracleOwner

OracleSpec == OracleInit /\ [][OracleNext]_oracleVars
-----------------------------------------------------------------------------
\* What the oracle has on record of a plantation is what the other contract
\* was last told of it, whatever contract that is: before one that refuses the
\* call nothing is on record either.
ResultsAreDelivered ==
  \A id \in Plantations :
    received[id] = IF oracleResults[id] = NoResult THEN NothingReceived
                   ELSE {oracleResults[id].approved}
=============================================================================
