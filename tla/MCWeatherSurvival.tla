------------------------- MODULE MCWeatherSurvival -------------------------
(***************************************************************************)
(* The two score oracles of the repository, one of which is deployed: the  *)
(* other does nothing.                                                     *)
(*                                                                         *)
(* WeatherSurvival: one NGO with up to two plantations, an id that does    *)
(* not exist, two requests.  The weather is hot or freezing, 37.4 and -8.5 *)
(* degrees, so that scores lie above and below the thresholds and at 0;    *)
(* Verification still names a retired oracle until it is configured.       *)
(* VerificationOracle: two providers, one of whom may come to own it.      *)
(***************************************************************************)
EXTENDS WeatherSurvival, VerificationOracle

CONSTANTS zero, deployer, ngo, retired, registry, manager, vault, verification, weather

MCAccounts ==
  {zero, deployer, ngo, retired, registry, manager, vault, verification, weather}

MCTemperatures == {374, -85}

VARIABLE deployed   \* the score oracle in use

oraclesVars == <<scoredSystemVars, oracleVars, deployed>>

MCInit ==
  /\ Init /\ WeatherInit /\ OracleInit
  /\ \/ deployed = "WeatherSurvival" /\ target = VerificationFunctions
     \/ deployed = "VerificationOracle"

MCNext ==
  \/ deployed = "WeatherSurvival" /\ ScoredNext /\ UNCHANGED <<oracleVars, deployed>>
  \/ deployed = "VerificationOracle" /\ OracleNext /\ UNCHANGED <<scoredSystemVars, deployed>>

MCSpec == MCInit /\ [][MCNext]_oraclesVars
=============================================================================
