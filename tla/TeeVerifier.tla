---------------------------- MODULE TeeVerifier ----------------------------
(***************************************************************************)
(* One TEE availability check (teeavailabilitycheck/verifier/verifier.go), *)
(* from the fetch of the proxy's action result to the answers of the API:  *)
(* the envelope of /verify and the HTTP status of prepareResponseBody.  It *)
(* starts with the environment the service was configured from.            *)
(* After the synchronous checks Verify runs DataVerification and           *)
(* CheckSigningPolicies in parallel, and the latter reads two policy       *)
(* hashes in parallel; the request's context may end at any moment.        *)
(*                                                                         *)
(* Of a response only what the checks tell apart is kept: the set of       *)
(* things wrong with it (its defects), and the two policies it reports.    *)
(***************************************************************************)
EXTENDS Integers, FiniteSets, ErrorChains, TeeConfig

CONSTANTS
    Scenarios,          \* the outside worlds considered, by name; for each of them:
    Environments,       \*   environments the service may be started in
    Responses,          \*   what the TEE proxy may return
    FetchErrors,        \*   the error chains a fetch of the proxy or of a CRL may end with
    MaxPoints,          \* how many distribution points a certificate may name
    CallFaults,         \*   what an eth_call may fail with
    RelayHash           \* per Relay and policy id the hash it stores; 0 where it has none

(* In the order in which the code looks for them.                          *)
UnusableDefects == {"bodyNotJSON", "dataEmpty", "dataNotJSON", "dataNotTeeInfo", "proxySignatureBroken"}
BindingDefects ==
    { "instructionID", "status", "opType", "opCommand", "noSignature", "teeSignature" }
TokenDefects ==
    { "chainUntrusted", "unhashableInfo", "pkiToken", "revoked", "debug", "teeID", "swName",
      "noAttributes", "imageID", "platform" }
Defects ==
    UnusableDefects \cup {"unhashablePayload", "challenge", "chainID", "proxySigner"} \cup BindingDefects
        \cup TokenDefects \cup {"notStable"}

Policies == {"initial", "last"}
Branches == {"data"} \cup Policies
ActionResponse == [defects : SUBSET Defects, magicPass : BOOLEAN,
                   id : [Policies -> Nat], hash : [Policies -> Nat]]

ASSUME TeeAssumption ==
    /\ None \notin ActionResponse /\ None # "DefaultTeeAudience" /\ {None, Garbage} \cap BOOLEAN = {}
    /\ MaxPoints \in Nat
    /\ \A s \in Scenarios :
        /\ \A e \in Environments[s] :
              {e.allowTeeDebug, e.disableAttestationCheckE2E} \subseteq BOOLEAN \cup {None, Garbage}
        /\ FetchErrors[s] \subseteq PinnedFetchErrors
        /\ CallFaults[s] \subseteq {"netError", "ethereum.NotFound", "HTTP4xx", "HTTPOther",
                                   "rpcInvalid", "rpcOther", "unknown"}
        /\ Responses[s] \subseteq ActionResponse

VARIABLES
    scenario,
    env,        \* the environment the service was started in
    cfg,        \* what it loaded from there, or None
    ctx,        \* "live" or the error the request's context ended with
    pc,         \* "boot", "refused", "fetching", "checking", "running", "answered"
    resp,       \* the proxy's response
    branch,     \* per parallel branch: its step, what it returned
    faults,     \* history: the failures of the outside world met so far
    result      \* [err, status]: what Verify returned

vars == <<scenario, env, cfg, ctx, pc, resp, branch, faults, result>>

Waiting == [pc |-> "idle", err |-> nil, value |-> None]

Init ==
    /\ scenario \in Scenarios
    /\ env \in Environments[scenario] /\ cfg = None
    /\ ctx = "live" /\ pc = "boot" /\ resp = None
    /\ branch = [b \in Branches |-> Waiting]
    /\ faults = {}
    /\ result = [err |-> nil, status |-> None]

(* The configuration is loaded and the verifier built over the Relays it   *)
(* names, or the service does not start; then a request comes in.          *)
NewVerifier ==
    /\ pc = "boot"
    /\ cfg' = BuildTeeAvailabilityCheckConfig(env)
    /\ pc' = IF cfg' = None THEN "refused" ELSE "fetching"
    /\ UNCHANGED <<scenario, env, ctx, resp, branch, faults, result>>

-----------------------------------------------------------------------------
(***************************************************************************)
(* The action result: fetched from the proxy, decoded, its signer          *)
(* recovered.                                                              *)
(***************************************************************************)
(* What the pinned fetch (PinnedFetch) may fail with, with the context's   *)
(* own error once it is over.                                              *)
ProxyErrors ==
    FetchErrors[scenario] \cup (IF ctx = "live" THEN {} ELSE InterruptedFetchErrors(ctx))

FetchErrorOf(err) ==
    IF Is(err, "ErrNotFound") THEN Wrap({"ErrActionResultNotFound"}, err)
    ELSE IF Is(err, "ErrResponseTooLarge") THEN Wrap(ErrTEEResponseMalformed, err)
    ELSE err

Answer(err, status) == pc' = "answered" /\ result' = [err |-> err, status |-> status]

Fault(from, err) == [from |-> from, err |-> err]

(* A body that is not an ActionResponse is a decoding error of             *)
(* FetchJSONPinned, which carries no sentinel; nor does the error of       *)
(* hashing what the proxy signed.                                          *)
FetchTEEChallengeResult ==
    /\ pc = "fetching"
    /\ \/ \E err \in ProxyErrors \cup {Wrap({"badURL"}, nil)} :
            /\ Answer(FetchErrorOf(err), None)
            /\ faults' = {Fault("proxy", err)}
            /\ UNCHANGED resp
       \/ \E r \in Responses[scenario] :
            /\ resp' = r
            /\ IF "bodyNotJSON" \in r.defects THEN Answer(Untagged, None)
               ELSE IF r.defects \cap {"dataEmpty", "dataNotJSON", "dataNotTeeInfo"} # {}
               THEN Answer(Wrap(ErrTEEResponseMalformed, nil), None)
               ELSE IF "unhashablePayload" \in r.defects THEN Answer(Untagged, None)
               ELSE IF "proxySignatureBroken" \in r.defects
               THEN Answer(Wrap(ErrTEEResponseMalformed, nil), None)
               ELSE pc' = "checking" /\ UNCHANGED result
            /\ UNCHANGED faults
    /\ UNCHANGED <<scenario, env, cfg, ctx, branch>>

verifyActionResult(r) == r.defects \cap BindingDefects = {}

(* The checks of Verify before it starts the two goroutines.               *)
CheckResponse ==
    /\ pc = "checking"
    /\ IF "challenge" \in resp.defects
       THEN Answer(Wrap({"ErrTEEChallengeMismatch", "ErrTEEDataValidation"}, nil), None)
            /\ UNCHANGED branch
       ELSE IF "chainID" \in resp.defects
       THEN Answer(Wrap({"ErrTEEChainIDMismatch", "ErrTEEDataValidation"}, nil), None)
            /\ UNCHANGED branch
       ELSE IF "proxySigner" \in resp.defects
       THEN Answer(Wrap({"ErrTEEProxySignerMismatch", "ErrTEEDataValidation"}, nil), None)
            /\ UNCHANGED branch
       ELSE IF ~verifyActionResult(resp)
       THEN Answer(Wrap(ErrTEEActionResultMismatch, nil), None) /\ UNCHANGED branch
       ELSE /\ pc' = "running" /\ UNCHANGED result
            /\ branch' = [b \in Branches |-> [Waiting EXCEPT !.pc = "started"]]
    /\ UNCHANGED <<scenario, env, cfg, ctx, resp, faults>>

-----------------------------------------------------------------------------
(***************************************************************************)
(* DataVerification.                                                       *)
(***************************************************************************)
Return(b, err, value) ==
    branch' = [branch EXCEPT ![b] = [pc |-> "returned", err |-> err, value |-> value]]

(* FetchCRLsForToken as CRLCache shows it to behave (FailuresAreJoined): a *)
(* token whose chain is not trusted fails untagged, and the errors of all  *)
(* points tried are joined; or the CRLs are there, the context over or not.*)
FetchCRLs ==
    /\ branch["data"].pc = "started"
    /\ IF cfg.e2e \/ resp.magicPass
       THEN Return("data", nil, "OK") /\ UNCHANGED faults
       ELSE IF cfg.teeAudience = None \/ "chainUntrusted" \in resp.defects
       THEN Return("data", Untagged, None) /\ UNCHANGED faults
       ELSE \/ branch' = [branch EXCEPT !["data"].pc = "token"] /\ UNCHANGED faults
            \/ \E n \in 1 .. MaxPoints :
               \E errs \in [1 .. n -> PointFailures(FetchErrors[scenario], ctx)] :
                /\ Return("data", Joined({errs[i] : i \in 1 .. n}), None)
                /\ faults' = faults \cup {Fault("crl", errs[i]) : i \in 1 .. n}
    /\ UNCHANGED <<scenario, env, cfg, ctx, pc, resp, result>>

(* ParseAndValidatePKIToken under the policy Verify builds (an empty       *)
(* debug-status list accepts any), the TEE id, then ValidateClaims.        *)
PolicyDefects ==
    {"unhashableInfo", "pkiToken", "revoked", "teeID"}
        \cup (IF cfg.allowTeeDebug THEN {} ELSE {"debug"})

ClaimDefects(r) ==
    {"swName", "imageID", "platform"} \cup (IF "debug" \in r.defects THEN {} ELSE {"noAttributes"})

ValidateClaims(r) ==
    IF "debug" \notin r.defects /\ "notStable" \in r.defects THEN "OBSOLETE" ELSE "OK"

ValidateToken ==
    /\ branch["data"].pc = "token"
    /\ IF resp.defects \cap (PolicyDefects \cup ClaimDefects(resp)) # {}
       THEN Return("data", Untagged, None)
       ELSE Return("data", nil, ValidateClaims(resp))
    /\ UNCHANGED <<scenario, env, cfg, ctx, pc, resp, faults, result>>

-----------------------------------------------------------------------------
(***************************************************************************)
(* CheckSigningPolicies: one call per policy, a single attempt each.       *)
(***************************************************************************)
cutoverRelayOffByOne(id) ==
    IF cfg.next = None THEN cfg.relay
    ELSE IF id > MaxRewardEpochID THEN None
    ELSE IF id > cfg.startingRewardEpoch THEN cfg.next ELSE cfg.relay

(* The Relay that is asked for an id; None: refused.                       *)
cutoverRelay(id) ==
    IF cfg.next = None THEN cfg.relay
    ELSE IF id > MaxRewardEpochID THEN None
    ELSE IF id >= cfg.startingRewardEpoch THEN cfg.next ELSE cfg.relay

MapFetchErrorToState(fault) ==
    IF fault \in ContextErrors THEN Wrap({"ErrContext"}, nil)
    ELSE IF fault \in {"netError", "HTTPOther"} THEN Wrap({"ErrNetwork"}, nil)
    ELSE IF fault \in {"ethereum.NotFound", "HTTP4xx", "rpcInvalid"} THEN Wrap({"ErrInvalidInput"}, nil)
    ELSE IF fault = "rpcOther" THEN Wrap({"ErrRPC"}, nil)
    ELSE Wrap({"ErrUnknown"}, nil)

(* The call's own timeout ends it too, and a node that lags behind, like   *)
(* an id the Relay does not know, answers zero.                            *)
FetchSigningPolicyHashFromChain(p) ==
    LET relay == cutoverRelay(resp.id[p])
    IN  /\ branch[p].pc = "started"
        /\ IF relay = None
           THEN Return(p, MapFetchErrorToState("unknown"), None) /\ UNCHANGED faults
           ELSE \/ /\ ctx = "live"
                   /\ Return(p, nil, RelayHash[relay][resp.id[p]])
                   /\ UNCHANGED faults
                \/ /\ ctx = "live"
                   /\ Return(p, nil, 0)
                   /\ faults' = faults \cup {Fault("rpc", {"lagging"})}
                \/ \E f \in CallFaults[scenario]
                            \cup {IF ctx = "live" THEN "context.DeadlineExceeded" ELSE ctx} :
                    /\ Return(p, MapFetchErrorToState(f), None)
                    /\ faults' = faults \cup {Fault("rpc", {f})}
        /\ UNCHANGED <<scenario, env, cfg, ctx, pc, resp, result>>

CheckSigningPolicies ==
    IF branch["initial"].err # nil THEN branch["initial"].err
    ELSE IF branch["last"].err # nil THEN branch["last"].err
    ELSE IF \E p \in Policies : branch[p].value # resp.hash[p]
    THEN Wrap({"ErrTEESigningPolicyHash", "ErrTEEDataValidation"}, nil)
    ELSE nil

(* Verify awaits both goroutines; an error of DataVerification comes first.*)
Verify ==
    /\ pc = "running"
    /\ \A b \in Branches : branch[b].pc = "returned"
    /\ IF branch["data"].err # nil
       THEN Answer(classifyDataVerificationError(branch["data"].err), None)
       ELSE IF CheckSigningPolicies # nil THEN Answer(CheckSigningPolicies, None)
       ELSE Answer(nil, branch["data"].value)
    /\ UNCHANGED <<scenario, env, cfg, ctx, resp, branch, faults>>

(* The client goes away, or verifierWorkTimeout expires.                   *)
ContextDone ==
    /\ pc \in {"fetching", "checking", "running"} /\ ctx = "live"
    /\ ctx' \in ContextErrors
    /\ UNCHANGED <<scenario, env, cfg, pc, resp, branch, faults, result>>

Step ==
    \/ NewVerifier \/ FetchTEEChallengeResult \/ CheckResponse \/ FetchCRLs \/ ValidateToken
    \/ \E p \in Policies : FetchSigningPolicyHashFromChain(p)
    \/ Verify

Next == Step \/ ContextDone

Spec == Init /\ [][Next]_vars
-----------------------------------------------------------------------------
Usable(r) == r.defects \cap UnusableDefects = {}

(* What the operator asked for, told from the environment alone: a Relay   *)
(* for every id, and a setting that is on only where it says so.           *)
Owner(id) == IF env.cutoverRelay # None /\ id >= env.cutoverEpoch THEN env.cutoverRelay ELSE env.relay
Bypassed == env.disableAttestationCheckE2E = TRUE \/ resp.magicPass
Debuggable == "debug" \in resp.defects /\ env.allowTeeDebug = TRUE

BoundToRequest ==
    /\ Usable(resp)
    /\ resp.defects \cap ({"unhashablePayload", "challenge", "chainID", "proxySigner"} \cup BindingDefects) = {}
Attested ==
    \/ Bypassed
    \/ resp.defects \cap TokenDefects \subseteq (IF Debuggable THEN {"debug", "noAttributes"} ELSE {})
PolicyKnown(p) == resp.hash[p] = RelayHash[Owner(resp.id[p])][resp.id[p]]
Genuine == BoundToRequest /\ Attested /\ \A p \in Policies : PolicyKnown(p)

Envelope == IF result.err = nil THEN "VERIFIED" ELSE classifyVerifyStatus(result.err)
Lagging == \E f \in faults : f.err = {"lagging"}

(* VERIFIED means that the response is bound to this request, challenge,   *)
(* chain, proxy and TEE, that its token passed (or a configured bypass     *)
(* applies), and that each policy hash is the one of the Relay that owns   *)
(* the id by the environment's cutover, which is complete, whatever order  *)
(* the goroutines return in (parseRelayCutover, cutoverRelay, Verify).     *)
(* The one exception is a zero hash, which a node that does not know the   *)
(* id confirms.  OBSOLETE is reported exactly for production images        *)
(* without STABLE support.                                                 *)
VerifiedMeansGenuine ==
    pc = "answered" /\ Envelope = "VERIFIED" =>
        /\ BoundToRequest /\ Attested
        /\ env.cutoverRelay = None <=> env.cutoverEpoch = None
        /\ \A p \in Policies : PolicyKnown(p) \/ (resp.hash[p] = 0 /\ Lagging)
        /\ result.status = "OBSOLETE" <=>
              ~Bypassed /\ "notStable" \in resp.defects /\ "debug" \notin resp.defects

(* A URL that is refused for what it says or names: resolution that timed  *)
(* out or was interrupted aside, "a deterministic registry/config fault"   *)
(* (ErrURLValidation).                                                     *)
RefusedURL(err) ==
    \/ Is(err, "badURL")
    \/ Is(err, "ErrURLValidation") /\ ~IsAny(err, {"DNSTemporary", "DNSTimeout"} \cup ContextErrors)

(* Failures of the outside world that asking again would not mend, as the  *)
(* comments of ErrURLValidation, isTransientFetchError,                    *)
(* FetchTEEChallengeResult and MapFetchErrorToState list them.             *)
Lasting(f) ==
    \/ f.from \in {"proxy", "crl"} /\ (RefusedURL(f.err) \/ Is(f.err, "ErrResponseTooLarge"))
    \/ /\ f.from = "crl"
       /\ IsAny(f.err, {"ErrRedirect", "ErrNotFound", "StatusOther"}) \/ f.err = Untagged
    \/ f.from = "rpc" /\ IsAny(f.err, {"ethereum.NotFound", "HTTP4xx", "rpcInvalid", "lagging"})

(* REJECTED is terminal, so it needs a reason that lasts: an outage of the *)
(* proxy, of a distribution point or of the node, a timeout or a client    *)
(* that goes away never rejects a genuine TEE                              *)
(* (classifyDataVerificationError, classifyVerifyStatus).                  *)
RejectedOnlyForCause ==
    pc = "answered" /\ Envelope = "REJECTED" =>
        (resp # None /\ ~Genuine) \/ \E f \in faults : Lasting(f)

(* What is told to retry although it will not change: a proxy URL that is  *)
(* refused, a body that is not JSON, a payload that cannot be hashed, and  *)
(* a policy id no Relay can own.  No terminal sentinel marks any of them.  *)
RetriedForGood ==
    \/ \E f \in faults : f.from = "proxy" /\ RefusedURL(f.err)
    \/ resp # None /\ resp.defects \cap {"bodyNotJSON", "unhashablePayload"} # {}
    \/ resp # None /\ \E p \in Policies : cutoverRelay(resp.id[p]) = None

(* RETRY needs something that may pass: where every failure met lasts, the *)
(* verdict is REJECTED and the client stops asking (isTransientFetchError, *)
(* classifyDataVerificationError, classifyVerifyStatus).  The four inputs  *)
(* of RetriedForGood are the exceptions.                                   *)
RetriedOnlyForFault ==
    pc = "answered" /\ Envelope = "RETRY" =>
        (\E f \in faults : ~Lasting(f)) \/ RetriedForGood

(* The two classifiers agree on every error Verify can return: what the    *)
(* envelope calls REJECTED is a 400 or 422 of prepareResponseBody, what it *)
(* calls RETRY a 503 or 500.                                               *)
ClassifiersAgree ==
    pc = "answered" /\ result.err # nil =>
        (Envelope = "REJECTED" <=> classifyVerifyError(result.err) \in {400, 422})

(* As the comment on ErrTEEResponseMalformed has it: a proxy that is       *)
(* reachable but returns unusable data (empty, invalid JSON, unrecoverable *)
(* signature) is a terminal failure.                                       *)
UnusableDataIsTerminal ==
    pc = "answered" /\ resp # None /\ "unhashablePayload" \notin resp.defects =>
        (~Usable(resp) => Envelope = "REJECTED")
=============================================================================
