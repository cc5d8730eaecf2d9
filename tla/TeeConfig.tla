----------------------------- MODULE TeeConfig -----------------------------
(***************************************************************************)
(* The configuration of the TEE availability check, as                     *)
(* BuildTeeAvailabilityCheckConfig (config/tee_availability_check.go)      *)
(* reads it from the environment.  A variable that is not set is None; one *)
(* that does not parse (as a bool, a number, or an address other than      *)
(* zero) is Garbage; any other is the value it stands for.                 *)
(***************************************************************************)
EXTENDS Integers

CONSTANTS
    MaxRewardEpochID,   \* 2^24 - 1
    Garbage,
    None

ASSUME TeeConfigAssumption == MaxRewardEpochID \in Nat /\ Garbage # None

Set(val) == val \notin {None, Garbage}

parseOptionalBool(val) == IF val = None THEN FALSE ELSE val

CutoverUnset(env) == env.cutoverRelay = None /\ env.cutoverEpoch = None

(* Both settings or neither; another Relay, and an epoch of 24 bits that   *)
(* is not zero.                                                            *)
parseRelayCutover(env) ==
    \/ CutoverUnset(env)
    \/ /\ Set(env.cutoverRelay) /\ Set(env.cutoverEpoch)
       /\ env.cutoverRelay # env.relay
       /\ env.cutoverEpoch \in 1 .. MaxRewardEpochID

(* CHAIN_ID is required and not zero.                                      *)
parseChainID(env) == Set(env.chainID) /\ env.chainID > 0

Loads(env) ==
    /\ env.sourceID = "TEE" /\ env.flareRPCURL # None /\ Set(env.relay)
    /\ parseRelayCutover(env) /\ env.commonValid
    /\ Garbage \notin {env.allowTeeDebug, env.disableAttestationCheckE2E, env.allowPrivateNetworks}
    /\ parseChainID(env)

(* None: the service does not start.                                       *)
BuildTeeAvailabilityCheckConfig(env) ==
    IF ~ Loads(env) THEN None
    ELSE [ relay |-> env.relay, next |-> env.cutoverRelay,
           startingRewardEpoch |-> IF env.cutoverEpoch = None THEN 0 ELSE env.cutoverEpoch,
           allowTeeDebug |-> parseOptionalBool(env.allowTeeDebug),
           e2e |-> parseOptionalBool(env.disableAttestationCheckE2E),
           teeAudience |-> IF env.teeAudience = None THEN "DefaultTeeAudience" ELSE env.teeAudience ]
=============================================================================
