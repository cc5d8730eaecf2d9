------------------------- MODULE TeeVerifierProofs -------------------------
(***************************************************************************)
(* TeeVerifier for any environments, responses, policies, Relays and       *)
(* failures of the outside world.                                          *)
(***************************************************************************)
EXTENDS TeeVerifier, TLAPS

(* The backends of every step that does not name its own: each twice, so   *)
(* that a slow machine costs time and not the proof.                       *)
USE ZenonT(20), SMTT(30), ZenonT(60), SMTT(60)

(* What a fetch of a CRL may report, over all scenarios.                   *)
CRLFailures ==
    PinnedFetchErrors \cup {Untagged} \cup {{"error", c} : c \in ContextErrors}

CallFailures ==
    {"netError", "ethereum.NotFound", "HTTP4xx", "HTTPOther", "rpcInvalid", "rpcOther", "unknown"}
        \cup ContextErrors

(* What each step of the request has established.                          *)
Progress ==
    /\ scenario \in Scenarios /\ env \in Environments[scenario]
    /\ ctx \in {"live"} \cup ContextErrors
    /\ pc \in {"boot", "refused", "fetching", "checking", "running", "answered"}
    /\ pc \notin {"boot", "refused"} => Loads(env) /\ cfg = BuildTeeAvailabilityCheckConfig(env)
    /\ pc \in {"boot", "refused", "fetching"} => resp = None
    /\ pc \in {"checking", "running"} =>
          resp \in Responses[scenario] /\ Usable(resp) /\ "unhashablePayload" \notin resp.defects
    /\ pc = "running" => BoundToRequest

(* The branches run between CheckResponse and Verify.                      *)
Branching ==
    /\ branch = [b \in Branches |-> branch[b]]
    /\ \A b \in Branches : branch[b].pc = "started" => branch[b] = [Waiting EXCEPT !.pc = "started"]
    /\ pc \notin {"running", "answered"} => \A b \in Branches : branch[b].pc = "idle"
    /\ pc = "answered" => \A b \in Branches : branch[b].pc \in {"idle", "returned"}

ReportedObsolete == ~Bypassed /\ "notStable" \in resp.defects /\ "debug" \notin resp.defects

(* What DataVerification may have returned, and why.                       *)
DataOutcome(d) ==
    \/ d.err = nil /\ Attested /\ (d.value = "OBSOLETE" <=> ReportedObsolete)
    \/ d.err = Untagged /\ ~Attested
    \/ \E failures \in SUBSET CRLFailures :
          /\ failures # {} /\ d.err = Joined(failures)
          /\ \A e \in failures : Fault("crl", e) \in faults

(* What the call for a policy may have returned, and why.                  *)
PolicyOutcome(p) ==
    \/ branch[p].err = nil /\ branch[p].value = RelayHash[Owner(resp.id[p])][resp.id[p]]
    \/ branch[p].err = nil /\ branch[p].value = 0 /\ Fault("rpc", {"lagging"}) \in faults
    \/ branch[p].err = MapFetchErrorToState("unknown") /\ cutoverRelay(resp.id[p]) = None
    \/ \E f \in CallFailures :
          branch[p].err = MapFetchErrorToState(f) /\ Fault("rpc", {f}) \in faults

Outcomes ==
    /\ branch["data"].pc = "token" => ~Bypassed /\ "chainUntrusted" \notin resp.defects
    /\ branch["data"].pc = "returned" => DataOutcome(branch["data"])
    /\ \A p \in Policies : branch[p].pc = "returned" => PolicyOutcome(p)

(* Why an answer may be given, whichever classifier reads the error.       *)
Justified(err, status) ==
    /\ err = nil =>
        /\ BoundToRequest /\ Attested
        /\ env.cutoverRelay = None <=> env.cutoverEpoch = None
        /\ \A p \in Policies : PolicyKnown(p) \/ (resp.hash[p] = 0 /\ Lagging)
        /\ status = "OBSOLETE" <=> ReportedObsolete
    /\ err # nil /\ classifyVerifyStatus(err) = "REJECTED" =>
        (resp # None /\ ~Genuine) \/ \E f \in faults : Lasting(f)
    /\ err # nil /\ classifyVerifyStatus(err) = "RETRY" =>
        (\E f \in faults : ~Lasting(f)) \/ RetriedForGood
    /\ err # nil =>
        (classifyVerifyStatus(err) = "REJECTED" <=> classifyVerifyError(err) \in {400, 422})

(* The inductive invariant.                                                *)
TeeInv ==
    /\ Progress /\ Branching /\ Outcomes
    /\ pc = "answered" => Justified(result.err, result.status)

-----------------------------------------------------------------------------
(***************************************************************************)
(* The classifiers on the errors this request builds.                      *)
(***************************************************************************)
Terminal(err) ==
    err # nil /\ classifyVerifyStatus(err) = "REJECTED" /\ classifyVerifyError(err) \in {400, 422}
Retryable(err) ==
    err # nil /\ classifyVerifyStatus(err) = "RETRY" /\ classifyVerifyError(err) \notin {400, 422}

(* A sentinel of the list, or ErrInvalidInput where no list has a say,     *)
(* makes an error terminal for both classifiers; without any, both retry.  *)
LEMMA ClassifiedAlike ==
    ASSUME NEW err
    PROVE  /\ err \cap TerminalSentinels # {} /\ "ErrTEEDataValidation" \in err => Terminal(err)
           /\ err = {"error", "ErrInvalidInput"} => Terminal(err)
           /\ /\ "error" \in err
              /\ err \cap (TerminalSentinels \cup {"ErrTEEDataValidation", "ErrInvalidInput"}) = {}
              => Retryable(err)
<1> USE DEF Terminal, Retryable, classifyVerifyStatus, classifyVerifyError, IsAny, Is, nil,
            TerminalSentinels, ContextErrors
<1>1. err \cap TerminalSentinels # {} /\ "ErrTEEDataValidation" \in err => Terminal(err)
  BY SMTT(30), SMTT(60)
<1>2. err = {"error", "ErrInvalidInput"} => Terminal(err)
  BY SMTT(30), SMTT(60)
<1>3. /\ "error" \in err
      /\ err \cap (TerminalSentinels \cup {"ErrTEEDataValidation", "ErrInvalidInput"}) = {}
      => Retryable(err)
  BY SMTT(30), SMTT(60)
<1> QED
  BY <1>1, <1>2, <1>3

(* No failure of a CRL fetch carries a sentinel of a verdict, and one that *)
(* lasts is exactly one that is neither tagged as an outage nor the end of *)
(* a context (TagFetchError, classifyDataVerificationError).               *)
LEMMA CRLFailuresAreSorted ==
    ASSUME NEW e \in CRLFailures
    PROVE  /\ "error" \in TagFetchError(e)
           /\ TagFetchError(e) \cap
                 (TerminalSentinels \cup {"ErrTEEDataValidation", "ErrInvalidInput"}) = {}
           /\ IsAny(TagFetchError(e), {"ErrTEERevocationUnavailable"} \cup ContextErrors)
                 <=> ~Lasting(Fault("crl", e))
<1> USE DEF TagFetchError, isTransientFetchError, Lasting, RefusedURL, Fault, Wrap, IsAny, Is, nil, ContextErrors,
            TerminalSentinels, Untagged
<1>1. CASE e \in ResolveErrors
  <2>1. e \in PinnedFetchErrors
    BY <1>1 DEF PinnedFetchErrors
  <2> QED
    BY <1>1, <2>1 DEF ResolveErrors
<1>2. CASE e \in FetchBytesErrors
  <2>1. e \in PinnedFetchErrors
    BY <1>2 DEF PinnedFetchErrors
  <2> QED
    BY <1>2, <2>1 DEF FetchBytesErrors
<1>3. CASE e = Untagged
  <2>1. e = {"error"}
    BY <1>3 DEF Untagged
  <2>2. e \notin PinnedFetchErrors
    BY <2>1 DEF PinnedFetchErrors, ResolveErrors, FetchBytesErrors
  <2> QED
    BY <1>3, <2>1, <2>2
<1>4. CASE \E c \in ContextErrors : e = {"error", c}
  <2>1. e \notin PinnedFetchErrors
    BY <1>4 DEF PinnedFetchErrors, ResolveErrors, FetchBytesErrors
  <2> QED
    BY <1>4, <2>1
<1> QED
  BY <1>1, <1>2, <1>3, <1>4 DEF CRLFailures, PinnedFetchErrors

(* What the fetch of the action result may report, over all scenarios.     *)
ProxyFailures ==
    PinnedFetchErrors \cup {Wrap({"badURL"}, nil)}
        \cup UNION {InterruptedFetchErrors(c) : c \in ContextErrors}

(* Only a response that is too large is a verdict on the proxy: all other  *)
(* failures of the fetch are told to retry, a refused URL among them       *)
(* (FetchTEEChallengeResult).                                              *)
LEMMA ProxyFailuresAreSorted ==
    ASSUME NEW e \in ProxyFailures
    PROVE  /\ Lasting(Fault("proxy", e)) => Terminal(FetchErrorOf(e)) \/ RefusedURL(e)
           /\ IF "ErrResponseTooLarge" \in e
              THEN Lasting(Fault("proxy", e)) /\ Terminal(FetchErrorOf(e))
              ELSE Retryable(FetchErrorOf(e))
<1>1. /\ "ErrResponseTooLarge" \in e => Lasting(Fault("proxy", e))
      /\ Lasting(Fault("proxy", e)) => RefusedURL(e) \/ "ErrResponseTooLarge" \in e
  BY DEF Lasting, Fault, Is
<1>2. /\ "error" \in e
      /\ e \cap (TerminalSentinels \cup {"ErrTEEDataValidation", "ErrInvalidInput"}) = {}
      /\ ~("ErrResponseTooLarge" \in e /\ "ErrNotFound" \in e)
  <2> USE DEF TerminalSentinels
  <2>1. CASE e \in ResolveErrors
    BY <2>1 DEF ResolveErrors
  <2>2. CASE e \in FetchBytesErrors
    BY <2>2 DEF FetchBytesErrors
  <2>3. CASE e = Wrap({"badURL"}, nil)
    BY <2>3 DEF Wrap, nil
  <2>4. ASSUME NEW c \in ContextErrors, e \in InterruptedFetchErrors(c)
        PROVE  /\ "error" \in e
               /\ e \cap (TerminalSentinels \cup {"ErrTEEDataValidation", "ErrInvalidInput"}) = {}
               /\ ~("ErrResponseTooLarge" \in e /\ "ErrNotFound" \in e)
    BY <2>4 DEF InterruptedFetchErrors, ContextErrors
  <2> QED
    BY <2>1, <2>2, <2>3, <2>4 DEF ProxyFailures, PinnedFetchErrors
<1>3. CASE "ErrResponseTooLarge" \in e
  <2>1. FetchErrorOf(e) = Wrap(ErrTEEResponseMalformed, e)
    BY <1>2, <1>3 DEF FetchErrorOf, Is
  <2>2. Terminal(FetchErrorOf(e))
    BY <2>1, ClassifiedAlike DEF Wrap, ErrTEEResponseMalformed, TerminalSentinels
  <2> QED
    BY <1>1, <1>3, <2>2
<1>4. CASE "ErrResponseTooLarge" \notin e
  <2>1. FetchErrorOf(e) = e \/ FetchErrorOf(e) = Wrap({"ErrActionResultNotFound"}, e)
    BY <1>4 DEF FetchErrorOf, Is
  <2>2. /\ "error" \in FetchErrorOf(e)
        /\ FetchErrorOf(e) \cap (TerminalSentinels \cup {"ErrTEEDataValidation", "ErrInvalidInput"}) = {}
    BY <1>2, <2>1 DEF Wrap, TerminalSentinels
  <2>3. Retryable(FetchErrorOf(e))
    BY <2>2, ClassifiedAlike
  <2> QED
    BY <1>1, <1>4, <2>3
<1> QED
  BY <1>3, <1>4

(* A failed call of the Relay is a verdict exactly where the node refused  *)
(* the input (MapFetchErrorToState).                                       *)
LEMMA CallFailuresAreSorted ==
    ASSUME NEW f \in CallFailures
    PROVE  IF Lasting(Fault("rpc", {f})) THEN Terminal(MapFetchErrorToState(f))
                                         ELSE Retryable(MapFetchErrorToState(f))
<1>1. Lasting(Fault("rpc", {f})) <=> f \in {"ethereum.NotFound", "HTTP4xx", "rpcInvalid"}
  BY DEF Lasting, IsAny, Fault, CallFailures, ContextErrors
<1>2. CASE f \in {"ethereum.NotFound", "HTTP4xx", "rpcInvalid"}
  <2>1. MapFetchErrorToState(f) = {"error", "ErrInvalidInput"}
    BY <1>2 DEF MapFetchErrorToState, ContextErrors, Wrap, nil
  <2> QED
    BY <1>1, <1>2, <2>1, ClassifiedAlike
<1>3. CASE f \notin {"ethereum.NotFound", "HTTP4xx", "rpcInvalid"}
  <2>1. \E s \in {"ErrContext", "ErrNetwork", "ErrRPC", "ErrUnknown"} :
          MapFetchErrorToState(f) = {"error", s}
    BY <1>3 DEF MapFetchErrorToState, Wrap, nil
  <2>2. Retryable(MapFetchErrorToState(f))
    BY <2>1, ClassifiedAlike DEF TerminalSentinels
  <2> QED
    BY <1>1, <1>3, <2>2
<1> QED
  BY <1>2, <1>3

-----------------------------------------------------------------------------
(* The settings that are loaded are the ones the environment asks for.     *)
LEMMA LoadedAsAsked ==
    ASSUME Progress, pc \notin {"boot", "refused"}
    PROVE  /\ cfg.e2e <=> env.disableAttestationCheckE2E = TRUE
           /\ cfg.allowTeeDebug <=> env.allowTeeDebug = TRUE
           /\ cfg.teeAudience # None
           /\ env.cutoverRelay = None <=> env.cutoverEpoch = None
           /\ cfg.e2e \in BOOLEAN /\ cfg.allowTeeDebug \in BOOLEAN
<1>1. /\ Loads(env) /\ cfg = BuildTeeAvailabilityCheckConfig(env)
      /\ {env.allowTeeDebug, env.disableAttestationCheckE2E} \subseteq BOOLEAN \cup {None, Garbage}
      /\ None # "DefaultTeeAudience" /\ {None, Garbage} \cap BOOLEAN = {}
  BY TeeAssumption DEF Progress
<1>2. /\ env.allowTeeDebug \in BOOLEAN \cup {None}
      /\ env.disableAttestationCheckE2E \in BOOLEAN \cup {None}
  BY <1>1 DEF Loads
<1>3. /\ cfg.e2e = parseOptionalBool(env.disableAttestationCheckE2E)
      /\ cfg.allowTeeDebug = parseOptionalBool(env.allowTeeDebug)
      /\ cfg.teeAudience = IF env.teeAudience = None THEN "DefaultTeeAudience" ELSE env.teeAudience
  BY <1>1 DEF BuildTeeAvailabilityCheckConfig
<1>4. \A v \in BOOLEAN \cup {None} :
        /\ parseOptionalBool(v) \in BOOLEAN
        /\ parseOptionalBool(v) <=> v = TRUE
  BY <1>1 DEF parseOptionalBool
<1>5. env.cutoverRelay = None <=> env.cutoverEpoch = None
  BY <1>1 DEF Loads, parseRelayCutover, CutoverUnset, Set
<1>6. cfg.teeAudience # None
  BY <1>1, <1>3
<1> QED
  BY <1>2, <1>3, <1>4, <1>5, <1>6

(* The Relay that is asked is the one the environment's cutover makes the  *)
(* owner of the id (parseRelayCutover, cutoverRelay).                      *)
LEMMA AsksTheOwner ==
    ASSUME Progress, pc \notin {"boot", "refused"}, NEW id \in Nat, cutoverRelay(id) # None
    PROVE  cutoverRelay(id) = Owner(id)
<1>1. /\ Loads(env) /\ MaxRewardEpochID \in Nat
      /\ cfg.relay = env.relay /\ cfg.next = env.cutoverRelay
      /\ cfg.startingRewardEpoch = IF env.cutoverEpoch = None THEN 0 ELSE env.cutoverEpoch
  BY TeeConfigAssumption DEF Progress, BuildTeeAvailabilityCheckConfig
<1>2. CASE env.cutoverRelay = None
  BY <1>1, <1>2 DEF cutoverRelay, Owner
<1>3. CASE env.cutoverRelay # None
  <2>1. env.cutoverEpoch \in 1 .. MaxRewardEpochID /\ env.cutoverEpoch # None
    BY <1>1, <1>3 DEF Loads, parseRelayCutover, CutoverUnset, Set
  <2> QED
    BY <1>1, <1>3, <2>1 DEF cutoverRelay, Owner
<1> QED
  BY <1>2, <1>3

-----------------------------------------------------------------------------
(***************************************************************************)
(* The steps.                                                              *)
(***************************************************************************)
LEMMA TeeInvInit == Init => TeeInv
<1> SUFFICES ASSUME Init PROVE TeeInv
  OBVIOUS
<1>1. \A b \in Branches : branch[b].pc = "idle"
  BY DEF Init, Waiting
<1>2. Branches = {"data"} \cup Policies
  BY DEF Branches
<1>3. Progress
  BY DEF Init, Progress
<1>4. Branching
  BY <1>1 DEF Init, Branching
<1>5. Outcomes
  BY <1>1, <1>2 DEF Outcomes
<1> QED
  BY <1>3, <1>4, <1>5 DEF Init, TeeInv

(* Once the request is answered nothing more happens: no branch is left    *)
(* running.                                                                *)
LEMMA AnsweredIsFinal ==
    ASSUME TeeInv, [Next]_vars, pc = "answered" PROVE UNCHANGED vars
<1>1. \A b \in Branches : branch[b].pc \in {"idle", "returned"}
  BY DEF TeeInv, Branching
<1>2. "data" \in Branches /\ Policies \subseteq Branches
  BY DEF Branches
<1> QED
  BY <1>1, <1>2
     DEF Next, Step, NewVerifier, FetchTEEChallengeResult, CheckResponse, FetchCRLs,
        ValidateToken, FetchSigningPolicyHashFromChain, Verify, ContextDone

(* A branch that is started or at work runs while the request waits.       *)
LEMMA BranchesRunWhileWaiting ==
    ASSUME TeeInv, NEW b \in Branches, branch[b].pc \in {"started", "token"} PROVE pc = "running"
  BY DEF TeeInv, Progress, Branching

LEMMA ProgressStep == ASSUME TeeInv, [Next]_vars PROVE Progress'
<1>0. Progress
  BY DEF TeeInv
<1> USE DEF Progress
<1>1. CASE NewVerifier
  <2>1. cfg' # None => Loads(env)
    BY <1>1 DEF NewVerifier, BuildTeeAvailabilityCheckConfig
  <2> QED
    BY <1>0, <1>1, <2>1 DEF NewVerifier, Usable, BoundToRequest
<1>2. CASE FetchTEEChallengeResult
  BY <1>0, <1>2 DEF FetchTEEChallengeResult, Answer, Usable, UnusableDefects, BoundToRequest
<1>3. CASE CheckResponse
  BY <1>0, <1>3 DEF CheckResponse, Answer, Usable, BoundToRequest, verifyActionResult
<1>4. ASSUME UNCHANGED <<scenario, env, cfg, ctx, resp>>,
             pc' = pc \/ (pc' = "answered" /\ pc = "running")
      PROVE  Progress'
  BY <1>0, <1>4 DEF Usable, BoundToRequest
<1>5. CASE FetchCRLs \/ ValidateToken \/ \E p \in Policies : FetchSigningPolicyHashFromChain(p)
  BY <1>4, <1>5 DEF FetchCRLs, ValidateToken, FetchSigningPolicyHashFromChain
<1>6. CASE Verify
  BY <1>4, <1>6 DEF Verify, Answer
<1>7. CASE ContextDone
  BY <1>0, <1>7 DEF ContextDone, Usable, BoundToRequest
<1>8. CASE UNCHANGED vars
  BY <1>4, <1>8 DEF vars
<1> QED
  BY <1>1, <1>2, <1>3, <1>5, <1>6, <1>7, <1>8 DEF Next, Step

LEMMA BranchingStep == ASSUME TeeInv, [Next]_vars PROVE Branching'
<1>0. Progress /\ Branching
  BY DEF TeeInv
<1>1. CASE UNCHANGED branch /\ (pc' = pc \/ pc \notin {"running", "answered"})
  BY <1>0, <1>1 DEF Branching
<1>2. CASE CheckResponse /\ ~UNCHANGED branch
  BY <1>2 DEF CheckResponse, Answer, Branching, Waiting
<1>3. ASSUME NEW b \in Branches, branch[b].pc \in {"started", "token"}, UNCHANGED pc,
             branch' = [branch EXCEPT ![b] = branch'[b]], branch'[b].pc # "started"
      PROVE  Branching'
  <2>1. pc = "running"
    BY <1>3, BranchesRunWhileWaiting
  <2>2. \A c \in Branches : c = b \/ branch'[c] = branch[c]
    BY <1>0, <1>3 DEF Branching
  <2>3. branch' = [c \in Branches |-> branch'[c]]
    BY <1>0, <1>3 DEF Branching
  <2> QED
    BY <1>0, <1>3, <2>1, <2>2, <2>3 DEF Branching
<1>4. "data" \in Branches /\ Policies \subseteq Branches /\ DOMAIN branch = Branches
  BY <1>0 DEF Branches, Branching
<1>5. CASE FetchCRLs
  <2>1. branch["data"] = [pc |-> "started", err |-> nil, value |-> None]
    BY <1>0, <1>4, <1>5 DEF FetchCRLs, Branching, Waiting
  <2>2. /\ branch' = [branch EXCEPT !["data"] = branch'["data"]]
        /\ branch'["data"].pc # "started"
    <3>1. \/ \E err, value : Return("data", err, value)
          \/ branch' = [branch EXCEPT !["data"].pc = "token"]
      BY <1>5 DEF FetchCRLs
    <3> QED
      BY <1>4, <2>1, <3>1, SMTT(30), SMTT(60) DEF Return
  <2> QED
    BY <1>3, <1>4, <1>5, <2>2 DEF FetchCRLs
<1>6. CASE ValidateToken
  <2>1. /\ branch' = [branch EXCEPT !["data"] = branch'["data"]]
        /\ branch'["data"].pc # "started"
    BY <1>4, <1>6, SMTT(30), SMTT(60) DEF ValidateToken, Return
  <2> QED
    BY <1>3, <1>4, <1>6, <2>1 DEF ValidateToken
<1>7. ASSUME NEW p \in Policies, FetchSigningPolicyHashFromChain(p) PROVE Branching'
  <2>0. PICK err, value : Return(p, err, value)
    BY <1>7 DEF FetchSigningPolicyHashFromChain
  <2>1. /\ branch' = [branch EXCEPT ![p] = branch'[p]]
        /\ branch'[p].pc # "started"
    <3>1. p \in DOMAIN branch
      BY <1>4
    <3>2. branch'[p] = [pc |-> "returned", err |-> err, value |-> value]
      BY <2>0, <3>1 DEF Return
    <3>3. branch' = [branch EXCEPT ![p] = branch'[p]]
      BY <2>0, <3>2 DEF Return
    <3> QED
      BY <3>2, <3>3
  <2> QED
    BY <1>3, <1>4, <1>7, <2>1 DEF FetchSigningPolicyHashFromChain
<1>8. CASE Verify
  BY <1>0, <1>8 DEF Verify, Answer, Branching
<1>9. CASE NewVerifier \/ FetchTEEChallengeResult \/ ContextDone \/ UNCHANGED vars
           \/ (CheckResponse /\ UNCHANGED branch)
  BY <1>1, <1>9 DEF NewVerifier, FetchTEEChallengeResult, ContextDone, vars, CheckResponse
<1> QED
  BY <1>2, <1>5, <1>6, <1>7, <1>8, <1>9 DEF Next, Step

(* A branch that has returned keeps its reasons while the others run.      *)
LEMMA OutcomesKept ==
    ASSUME Outcomes, UNCHANGED <<env, cfg, resp>>, faults \subseteq faults'
    PROVE  /\ UNCHANGED branch => Outcomes'
           /\ \A p \in Policies : branch'[p] = branch[p] =>
                 (branch'[p].pc = "returned" => PolicyOutcome(p)')
           /\ branch'["data"] = branch["data"] =>
                 /\ branch'["data"].pc = "token" => (~Bypassed /\ "chainUntrusted" \notin resp.defects)'
                 /\ branch'["data"].pc = "returned" => DataOutcome(branch["data"])'
<1> USE DEF Outcomes
<1>1. ASSUME NEW p \in Policies, branch'[p] = branch[p], branch'[p].pc = "returned"
      PROVE  PolicyOutcome(p)'
  <2>1. PolicyOutcome(p)
    BY <1>1
  <2>2. (Owner(resp.id[p]))' = Owner(resp.id[p]) /\ (cutoverRelay(resp.id[p]))' = cutoverRelay(resp.id[p])
    BY DEF Owner, cutoverRelay
  <2> QED
    BY <1>1, <2>1, <2>2 DEF PolicyOutcome, Fault
<1>2. /\ Bypassed' = Bypassed /\ Attested' = Attested /\ ReportedObsolete' = ReportedObsolete
  BY DEF Bypassed, Attested, ReportedObsolete, Debuggable
<1>3. ASSUME branch'["data"] = branch["data"], branch'["data"].pc = "returned"
      PROVE  DataOutcome(branch["data"])'
  <2>1. DataOutcome(branch["data"])
    BY <1>3
  <2>2. ASSUME NEW failures \in SUBSET CRLFailures, failures # {},
               branch["data"].err = Joined(failures),
               \A e \in failures : Fault("crl", e) \in faults
        PROVE  DataOutcome(branch["data"])'
    <3>1. \A e \in failures : Fault("crl", e) \in faults'
      BY <2>2
    <3> QED
      BY <1>3, <2>2, <3>1 DEF DataOutcome
  <2> QED
    BY <1>2, <1>3, <2>1, <2>2 DEF DataOutcome
<1>4. branch'["data"] = branch["data"] =>
        (branch'["data"].pc = "token" => (~Bypassed /\ "chainUntrusted" \notin resp.defects)')
  BY <1>2
<1> QED
  BY <1>1, <1>3, <1>4

(* DataVerification's own steps give it an outcome with a reason.          *)
LEMMA DataOutcomes ==
    ASSUME TeeInv, FetchCRLs \/ ValidateToken PROVE Outcomes'
<1>0. pc = "running" /\ UNCHANGED <<env, cfg, resp, ctx, scenario, pc>> /\ faults \subseteq faults'
  <2>1. "data" \in Branches
    BY DEF Branches
  <2> QED
    BY <2>1, BranchesRunWhileWaiting DEF FetchCRLs, ValidateToken
<1>1. Progress /\ Branching /\ Outcomes
  BY DEF TeeInv
<1>2. \A p \in Policies : branch'[p] = branch[p]
  <2>1. \E v : branch' = [branch EXCEPT !["data"] = v]
    BY DEF FetchCRLs, ValidateToken, Return
  <2>2. Policies \subseteq Branches /\ "data" \notin Policies
    BY DEF Branches, Policies
  <2> QED
    BY <1>1, <2>1, <2>2 DEF Branching
<1>3. \A p \in Policies : branch'[p].pc = "returned" => PolicyOutcome(p)'
  BY <1>0, <1>1, <1>2, OutcomesKept
<1>4. /\ cfg.e2e \/ resp.magicPass <=> Bypassed
      /\ cfg.allowTeeDebug <=> env.allowTeeDebug = TRUE
      /\ cfg.teeAudience # None
  BY <1>0, <1>1, LoadedAsAsked DEF Bypassed
<1>5. /\ Bypassed' = Bypassed /\ Attested' = Attested /\ ReportedObsolete' = ReportedObsolete
  BY <1>0 DEF Bypassed, Attested, ReportedObsolete, Debuggable
<1>6. ASSUME NEW err, NEW value, Return("data", err, value)
      PROVE  branch'["data"] = [pc |-> "returned", err |-> err, value |-> value]
  BY <1>1, <1>6 DEF Return, Branching, Branches
<1>7. resp \in ActionResponse
  BY <1>0, <1>1, TeeAssumption DEF Progress
<1>8. ASSUME NEW d, branch'["data"] = d, d.pc = "returned", DataOutcome(d)' PROVE Outcomes'
  BY <1>3, <1>8 DEF Outcomes
<1>9. CASE FetchCRLs
  <2>1. CASE Bypassed
    <3>1. branch'["data"] = [pc |-> "returned", err |-> nil, value |-> "OK"]
      BY <1>4, <1>6, <1>9, <2>1 DEF FetchCRLs
    <3>2. Attested /\ ~ReportedObsolete
      BY <2>1 DEF Attested, ReportedObsolete
    <3> QED
      BY <1>5, <1>8, <3>1, <3>2 DEF DataOutcome
  <2>2. CASE ~Bypassed /\ "chainUntrusted" \in resp.defects
    <3>1. branch'["data"] = [pc |-> "returned", err |-> Untagged, value |-> None]
      BY <1>4, <1>6, <1>9, <2>2 DEF FetchCRLs
    <3>2. ~Attested
      BY <2>2 DEF Attested, TokenDefects
    <3> QED
      BY <1>5, <1>8, <3>1, <3>2 DEF DataOutcome
  <2>3. CASE ~Bypassed /\ "chainUntrusted" \notin resp.defects
    <3>1. CASE branch' = [branch EXCEPT !["data"].pc = "token"]
      <4>1. branch'["data"].pc # "returned"
        BY <1>1, <1>9, <3>1 DEF FetchCRLs, Branching, Branches, Waiting
      <4> QED
        BY <1>0, <1>3, <1>5, <2>3, <4>1 DEF Outcomes
    <3>2. ASSUME NEW n \in 1 .. MaxPoints,
                 NEW errs \in [1 .. n -> PointFailures(FetchErrors[scenario], ctx)],
                 Return("data", Joined({errs[i] : i \in 1 .. n}), None),
                 faults' = faults \cup {Fault("crl", errs[i]) : i \in 1 .. n}
          PROVE  Outcomes'
      <4> DEFINE failures == {errs[i] : i \in 1 .. n}
      <4>1. PointFailures(FetchErrors[scenario], ctx) \subseteq CRLFailures
        BY <1>1, TeeAssumption DEF PointFailures, CRLFailures, Progress
      <4>2. failures \in SUBSET CRLFailures /\ \A e \in failures : Fault("crl", e) \in faults'
        BY <3>2, <4>1
      <4>3. failures # {}
        <5>1. 1 \in 1 .. n
          BY TeeAssumption, SMTT(30), SMTT(60)
        <5> QED
          BY <5>1
      <4>4. branch'["data"] = [pc |-> "returned", err |-> Joined(failures), value |-> None]
        BY <1>6, <3>2
      <4> HIDE DEF failures
      <4> DEFINE d == [pc |-> "returned", err |-> Joined(failures), value |-> None]
      <4>5. d.pc = "returned" /\ d.err = Joined(failures)
        OBVIOUS
      <4>6. branch'["data"] = d
        BY <4>4
      <4> HIDE DEF d
      <4>7. DataOutcome(d)'
        BY <4>2, <4>3, <4>5 DEF DataOutcome
      <4> QED
        BY <1>8, <4>5, <4>6, <4>7
    <3> QED
      BY <1>4, <1>9, <2>3, <3>1, <3>2 DEF FetchCRLs
  <2> QED
    BY <2>1, <2>2, <2>3
<1>10. CASE ValidateToken
  <2>1. ~Bypassed /\ "chainUntrusted" \notin resp.defects
    BY <1>1, <1>10 DEF ValidateToken, Outcomes
  <2>2. CASE resp.defects \cap (PolicyDefects \cup ClaimDefects(resp)) # {}
    <3>1. branch'["data"] = [pc |-> "returned", err |-> Untagged, value |-> None]
      BY <1>6, <1>10, <2>2 DEF ValidateToken
    <3>2. ~Attested
      BY <1>4, <2>1, <2>2 DEF Attested, Debuggable, TokenDefects, PolicyDefects, ClaimDefects
    <3> QED
      BY <1>5, <1>8, <3>1, <3>2 DEF DataOutcome
  <2>3. CASE resp.defects \cap (PolicyDefects \cup ClaimDefects(resp)) = {}
    <3>1. branch'["data"] = [pc |-> "returned", err |-> nil, value |-> ValidateClaims(resp)]
      BY <1>6, <1>10, <2>3 DEF ValidateToken
    <3>2. Attested
      BY <1>4, <2>1, <2>3 DEF Attested, Debuggable, TokenDefects, PolicyDefects, ClaimDefects
    <3>3. ValidateClaims(resp) = "OBSOLETE" <=> ReportedObsolete
      BY <2>1 DEF ValidateClaims, ReportedObsolete
    <3> QED
      BY <1>5, <1>8, <3>1, <3>2, <3>3 DEF DataOutcome
  <2> QED
    BY <2>2, <2>3
<1> QED
  BY <1>9, <1>10

(* A policy's call gives it an outcome with a reason.                      *)
LEMMA PolicyOutcomes ==
    ASSUME TeeInv, NEW p \in Policies, FetchSigningPolicyHashFromChain(p) PROVE Outcomes'
<1>0. pc = "running" /\ UNCHANGED <<env, cfg, resp, ctx, scenario, pc>> /\ faults \subseteq faults'
  <2>1. p \in Branches
    BY DEF Branches
  <2> QED
    BY <2>1, BranchesRunWhileWaiting DEF FetchSigningPolicyHashFromChain
<1>1. Progress /\ Branching /\ Outcomes
  BY DEF TeeInv
<1>2. "data" \in Branches /\ Policies \subseteq Branches /\ "data" \notin Policies
  BY DEF Branches, Policies
<1>3. \A b \in Branches \ {p} : branch'[b] = branch[b]
  BY <1>1 DEF FetchSigningPolicyHashFromChain, Return, Branching
<1>4. ASSUME PolicyOutcome(p)' PROVE Outcomes'
  <2>1. \A q \in Policies : branch'[q].pc = "returned" => PolicyOutcome(q)'
    BY <1>0, <1>1, <1>2, <1>3, <1>4, OutcomesKept
  <2>2. branch'["data"] = branch["data"]
    BY <1>2, <1>3
  <2> QED
    BY <1>0, <1>1, <2>1, <2>2, OutcomesKept DEF Outcomes
<1>5. p \in DOMAIN branch
  BY <1>1, <1>2 DEF Branching
<1>6. resp.id[p] \in Nat
  <2>1. resp \in ActionResponse
    BY <1>0, <1>1, TeeAssumption DEF Progress
  <2> QED
    BY <2>1 DEF ActionResponse
<1>7. /\ cutoverRelay(resp.id[p])' = cutoverRelay(resp.id[p])
      /\ Owner(resp.id[p])' = Owner(resp.id[p])
  BY <1>0 DEF cutoverRelay, Owner
<1>8. CASE cutoverRelay(resp.id[p]) = None
  <2>1. branch'[p].err = MapFetchErrorToState("unknown")
    BY <1>5, <1>8, SMTT(30), SMTT(60) DEF FetchSigningPolicyHashFromChain, Return
  <2> QED
    BY <1>4, <1>7, <1>8, <2>1 DEF PolicyOutcome
<1>9. CASE cutoverRelay(resp.id[p]) # None
  <2>1. cutoverRelay(resp.id[p]) = Owner(resp.id[p])
    BY <1>0, <1>1, <1>6, <1>9, AsksTheOwner
  <2>2. CASE Return(p, nil, RelayHash[cutoverRelay(resp.id[p])][resp.id[p]])
    <3>1. /\ branch'[p].err = nil
          /\ branch'[p].value = RelayHash[Owner(resp.id[p])][resp.id[p]]
      BY <1>5, <2>1, <2>2 DEF Return
    <3> QED
      BY <1>0, <1>4, <1>7, <3>1 DEF PolicyOutcome
  <2>3. CASE Return(p, nil, 0) /\ faults' = faults \cup {Fault("rpc", {"lagging"})}
    <3>1. branch'[p].err = nil /\ branch'[p].value = 0 /\ Fault("rpc", {"lagging"}) \in faults'
      BY <1>5, <2>3 DEF Return
    <3> QED
      BY <1>4, <3>1 DEF PolicyOutcome
  <2>4. ASSUME NEW f \in CallFaults[scenario]
                            \cup {IF ctx = "live" THEN "context.DeadlineExceeded" ELSE ctx},
               Return(p, MapFetchErrorToState(f), None), faults' = faults \cup {Fault("rpc", {f})}
        PROVE  Outcomes'
    <3>1. f \in CallFailures
      BY <1>1, TeeAssumption DEF Progress, CallFailures, ContextErrors
    <3>2. branch'[p].err = MapFetchErrorToState(f) /\ Fault("rpc", {f}) \in faults'
      BY <1>5, <2>4 DEF Return
    <3> QED
      BY <1>4, <3>1, <3>2 DEF PolicyOutcome
  <2> QED
    BY <1>9, <2>2, <2>3, <2>4 DEF FetchSigningPolicyHashFromChain
<1> QED
  BY <1>8, <1>9

LEMMA OutcomesStep == ASSUME TeeInv, [Next]_vars PROVE Outcomes'
<1>0. Outcomes /\ Progress /\ Branching
  BY DEF TeeInv
<1>1. ASSUME UNCHANGED <<env, cfg, resp, branch, faults>> PROVE Outcomes'
  BY <1>0, <1>1, OutcomesKept
<1>2. ASSUME \A b \in Branches : branch'[b].pc \in {"idle", "started"} PROVE Outcomes'
  <2>1. "data" \in Branches /\ Policies \subseteq Branches
    BY DEF Branches
  <2> QED
    BY <1>2, <2>1 DEF Outcomes
<1>3. CASE NewVerifier \/ FetchTEEChallengeResult
  BY <1>0, <1>2, <1>3 DEF NewVerifier, FetchTEEChallengeResult, Branching
<1>4. CASE CheckResponse
  BY <1>0, <1>2, <1>4, SMTT(30), SMTT(60) DEF CheckResponse, Branching, Waiting
<1>5. CASE Verify \/ ContextDone \/ UNCHANGED vars
  BY <1>1, <1>5 DEF Verify, ContextDone, vars
<1> QED
  BY <1>3, <1>4, <1>5, DataOutcomes, PolicyOutcomes DEF Next, Step

-----------------------------------------------------------------------------
(***************************************************************************)
(* The answers.                                                            *)
(***************************************************************************)
LEMMA TerminalIsJustified ==
    ASSUME Terminal(result'.err), ((resp # None /\ ~Genuine) \/ \E f \in faults : Lasting(f))'
    PROVE  Justified(result.err, result.status)'
  BY DEF Terminal, Justified

LEMMA RetryableIsJustified ==
    ASSUME Retryable(result'.err),
           ((\E f \in faults : ~Lasting(f)) \/ RetriedForGood)'
    PROVE  Justified(result.err, result.status)'
<1>1. "RETRY" # "REJECTED"
  OBVIOUS
<1> QED
  BY <1>1 DEF Retryable, Justified

LEMMA FetchIsJustified ==
    ASSUME TeeInv, FetchTEEChallengeResult, pc' = "answered"
    PROVE  Justified(result.err, result.status)'
<1>0. Progress
  BY DEF TeeInv
<1>1. ASSUME NEW err \in ProxyErrors \cup {Wrap({"badURL"}, nil)},
             Answer(FetchErrorOf(err), None), faults' = {Fault("proxy", err)}
      PROVE  Justified(result.err, result.status)'
  <2>1. err \in ProxyFailures
    BY <1>0, TeeAssumption DEF Progress, ProxyErrors, ProxyFailures
  <2>2. result'.err = FetchErrorOf(err)
    BY <1>1 DEF Answer
  <2>3. Fault("proxy", err) \in faults'
    BY <1>1
  <2>4. CASE "ErrResponseTooLarge" \in err
    BY <2>1, <2>2, <2>3, <2>4, ProxyFailuresAreSorted, TerminalIsJustified
  <2>5. CASE "ErrResponseTooLarge" \notin err
    <3>1. Retryable(result'.err)
      BY <2>1, <2>2, <2>5, ProxyFailuresAreSorted
    <3>2. Lasting(Fault("proxy", err)) => RefusedURL(err)
      BY <2>5 DEF Lasting, Fault, Is
    <3>3. Fault("proxy", err).from = "proxy" /\ Fault("proxy", err).err = err
      BY DEF Fault
    <3>4. ((\E f \in faults : ~Lasting(f)) \/ RetriedForGood)'
      BY <2>3, <3>2, <3>3 DEF RetriedForGood
    <3> QED
      BY <3>1, <3>4, RetryableIsJustified
  <2> QED
    BY <2>4, <2>5
<1>2. ASSUME NEW r \in Responses[scenario], resp' = r,
             r.defects \cap {"bodyNotJSON", "unhashablePayload"} # {}, Answer(Untagged, None)
      PROVE  Justified(result.err, result.status)'
  <2>1. result'.err = {"error"}
    BY <1>2 DEF Answer, Untagged
  <2>2. Retryable(result'.err)
    BY <2>1, ClassifiedAlike DEF TerminalSentinels
  <2>3. resp' # None
    BY <1>0, <1>2, TeeAssumption DEF Progress
  <2>4. RetriedForGood'
    BY <1>2, <2>3 DEF RetriedForGood
  <2> QED
    BY <2>2, <2>4, RetryableIsJustified
<1>3. ASSUME NEW r \in Responses[scenario], resp' = r, r.defects \cap UnusableDefects # {},
             Answer(Wrap(ErrTEEResponseMalformed, nil), None)
      PROVE  Justified(result.err, result.status)'
  <2>1. result'.err = {"error", "ErrTEEResponseMalformed", "ErrTEEDataValidation"}
    BY <1>3 DEF Answer, Wrap, ErrTEEResponseMalformed, nil
  <2>2. Terminal(result'.err)
    BY <2>1, ClassifiedAlike DEF TerminalSentinels
  <2>3. resp' # None
    BY <1>0, <1>3, TeeAssumption DEF Progress
  <2>4. ~Genuine'
    BY <1>3 DEF Genuine, BoundToRequest, Usable
  <2> QED
    BY <2>2, <2>3, <2>4, TerminalIsJustified
<1> QED
  BY <1>1, <1>2, <1>3 DEF FetchTEEChallengeResult, UnusableDefects

LEMMA CheckIsJustified ==
    ASSUME TeeInv, CheckResponse, pc' = "answered"
    PROVE  Justified(result.err, result.status)'
<1>0. Progress
  BY DEF TeeInv
<1>1. resp # None /\ UNCHANGED resp
  BY <1>0, TeeAssumption DEF Progress, CheckResponse
<1>2. ~BoundToRequest
  <2>1. "running" # "answered"
    OBVIOUS
  <2> QED
    BY <2>1 DEF CheckResponse, BoundToRequest, verifyActionResult
<1>3. \E s \in {"ErrTEEChallengeMismatch", "ErrTEEChainIDMismatch", "ErrTEEProxySignerMismatch",
                "ErrTEEActionResultMismatch"} :
         result'.err = {"error", s, "ErrTEEDataValidation"}
  BY DEF CheckResponse, Answer, Wrap, nil, ErrTEEActionResultMismatch
<1>4. Terminal(result'.err)
  BY <1>3, ClassifiedAlike DEF TerminalSentinels
<1>5. (resp # None /\ ~Genuine)'
  BY <1>1, <1>2 DEF Genuine, BoundToRequest, Usable
<1> QED
  BY <1>4, <1>5, TerminalIsJustified

(* Verify's answers.  The state it reads does not change, so the reasons   *)
(* it found when the branches returned still hold.                         *)
LEMMA VerifyIsJustified ==
    ASSUME TeeInv, Verify PROVE Justified(result.err, result.status)'
<1>0. Progress /\ Outcomes /\ pc = "running"
  BY DEF TeeInv, Verify
<1>1. UNCHANGED <<env, cfg, resp, branch, faults>> /\ resp # None
  BY <1>0, TeeAssumption DEF Verify, Progress
<1>2. DataOutcome(branch["data"]) /\ \A p \in Policies : PolicyOutcome(p)
  <2>1. "data" \in Branches /\ Policies \subseteq Branches
    BY DEF Branches
  <2> QED
    BY <1>0, <2>1 DEF Verify, Outcomes
<1>3. ASSUME Terminal(result'.err), ~Genuine \/ \E f \in faults : Lasting(f)
      PROVE  Justified(result.err, result.status)'
  <2>1. Genuine' = Genuine
    BY <1>1
       DEF Genuine, BoundToRequest, Usable, Attested, Bypassed, Debuggable, PolicyKnown, Owner
  <2> QED
    BY <1>1, <1>3, <2>1, TerminalIsJustified
<1>4. ASSUME Retryable(result'.err),
             (\E f \in faults : ~Lasting(f)) \/ \E p \in Policies : cutoverRelay(resp.id[p]) = None
      PROVE  Justified(result.err, result.status)'
  <2>1. \A p \in Policies : (cutoverRelay(resp.id[p]) = None)' <=> cutoverRelay(resp.id[p]) = None
    BY <1>1 DEF cutoverRelay
  <2>2. ((\E f \in faults : ~Lasting(f)) \/ RetriedForGood)'
    BY <1>1, <1>4, <2>1 DEF RetriedForGood
  <2> QED
    BY <1>4, <2>2, RetryableIsJustified
<1>5. CASE branch["data"].err # nil
  <2>1. result'.err = classifyDataVerificationError(branch["data"].err)
    BY <1>5 DEF Verify, Answer
  <2>2. CASE branch["data"].err = Untagged /\ ~Attested
    <3>1. result'.err = {"error", "ErrTEEAttestationInvalid", "ErrTEEDataValidation"}
      BY <2>1, <2>2
         DEF classifyDataVerificationError, IsAny, ContextErrors, Untagged, Wrap,
         ErrTEEAttestationInvalid
    <3>2. Terminal(result'.err)
      BY <3>1, ClassifiedAlike DEF TerminalSentinels
    <3> QED
      BY <1>3, <2>2, <3>2 DEF Genuine
  <2>3. ASSUME NEW failures \in SUBSET CRLFailures, failures # {},
               branch["data"].err = Joined(failures),
               \A e \in failures : Fault("crl", e) \in faults
        PROVE  Justified(result.err, result.status)'
    <3> DEFINE err == branch["data"].err
               passing == {"ErrTEERevocationUnavailable"} \cup ContextErrors
    <3>1. /\ "error" \in err
          /\ err \cap (TerminalSentinels \cup {"ErrTEEDataValidation", "ErrInvalidInput"}) = {}
      BY <2>3, CRLFailuresAreSorted DEF Joined
    <3>2. IsAny(err, passing) <=> \E e \in failures : ~Lasting(Fault("crl", e))
      <4>1. IsAny(err, passing) <=> \E e \in failures : IsAny(TagFetchError(e), passing)
        BY <2>3 DEF IsAny, Joined
      <4> QED
        BY <4>1, CRLFailuresAreSorted
    <3>3. CASE IsAny(err, passing)
      <4>1. result'.err = err
        BY <2>1, <3>1, <3>3 DEF classifyDataVerificationError, Wrap
      <4>2. Retryable(result'.err)
        BY <3>1, <4>1, ClassifiedAlike
      <4> QED
        BY <1>4, <2>3, <3>2, <3>3, <4>2
    <3>4. CASE ~IsAny(err, passing)
      <4>1. result'.err = Wrap(ErrTEEAttestationInvalid, err)
        BY <2>1, <3>4 DEF classifyDataVerificationError
      <4>2. Terminal(result'.err)
        BY <4>1, ClassifiedAlike DEF Wrap, ErrTEEAttestationInvalid, TerminalSentinels
      <4> QED
        BY <1>3, <2>3, <3>2, <3>4, <4>2
    <3> QED
      BY <3>3, <3>4
  <2> QED
    BY <1>2, <1>5, <2>2, <2>3 DEF DataOutcome
<1>6. ASSUME branch["data"].err = nil, NEW p \in Policies, branch[p].err # nil,
             result'.err = branch[p].err
      PROVE  Justified(result.err, result.status)'
  <2>1. CASE branch[p].err = MapFetchErrorToState("unknown") /\ cutoverRelay(resp.id[p]) = None
    <3>1. "unknown" \in CallFailures
      BY DEF CallFailures
    <3>2. ~Lasting(Fault("rpc", {"unknown"}))
      BY DEF Lasting, IsAny, Fault
    <3>3. Retryable(result'.err)
      BY <1>6, <2>1, <3>1, <3>2, CallFailuresAreSorted
    <3> QED
      BY <1>4, <2>1, <3>3
  <2>2. ASSUME NEW f \in CallFailures,
               branch[p].err = MapFetchErrorToState(f), Fault("rpc", {f}) \in faults
        PROVE  Justified(result.err, result.status)'
    BY <1>3, <1>4, <1>6, <2>2, CallFailuresAreSorted
  <2> QED
    BY <1>2, <1>6, <2>1, <2>2 DEF PolicyOutcome
<1>7. ASSUME branch["data"].err = nil, \A p \in Policies : branch[p].err = nil,
             NEW p \in Policies, branch[p].value # resp.hash[p]
      PROVE  Justified(result.err, result.status)'
  <2>1. CheckSigningPolicies = {"error", "ErrTEESigningPolicyHash", "ErrTEEDataValidation"}
    BY <1>7 DEF CheckSigningPolicies, Policies, Wrap, nil
  <2>2. result'.err = {"error", "ErrTEESigningPolicyHash", "ErrTEEDataValidation"}
    BY <1>7, <2>1 DEF Verify, Answer, nil
  <2>3. Terminal(result'.err)
    BY <2>2, ClassifiedAlike DEF TerminalSentinels
  <2>4. ~PolicyKnown(p) \/ Fault("rpc", {"lagging"}) \in faults
    <3>1. MapFetchErrorToState("unknown") # nil /\ \A f \in CallFailures : MapFetchErrorToState(f) # nil
      BY DEF MapFetchErrorToState, Wrap, nil
    <3> QED
      BY <1>2, <1>7, <3>1 DEF PolicyOutcome, PolicyKnown
  <2>5. Lasting(Fault("rpc", {"lagging"}))
    BY DEF Lasting, IsAny, Fault
  <2> QED
    BY <1>3, <2>3, <2>4, <2>5 DEF Genuine
<1>8. ASSUME branch["data"].err = nil,
             \A p \in Policies : branch[p].err = nil /\ branch[p].value = resp.hash[p]
      PROVE  Justified(result.err, result.status)'
  <2>1. CheckSigningPolicies = nil
    BY <1>8 DEF CheckSigningPolicies, Policies
  <2>2. result' = [err |-> nil, status |-> branch["data"].value]
    BY <1>8, <2>1 DEF Verify, Answer
  <2>3. \A f \in CallFailures \cup {"unknown"} : MapFetchErrorToState(f) # nil
    BY DEF MapFetchErrorToState, Wrap, nil
  <2>4. Attested /\ (branch["data"].value = "OBSOLETE" <=> ReportedObsolete)
    <3>1. \A failures \in SUBSET CRLFailures : failures # {} => Joined(failures) # nil
      <4>1. \A e \in CRLFailures : "error" \in TagFetchError(e)
        BY CRLFailuresAreSorted
      <4>2. \A failures \in SUBSET CRLFailures : failures # {} => "error" \in Joined(failures)
        BY <4>1 DEF Joined
      <4> QED
        BY <4>2 DEF nil
    <3> QED
      BY <1>2, <1>8, <3>1 DEF DataOutcome, Untagged, nil
  <2>5. \A p \in Policies : PolicyKnown(p) \/ (resp.hash[p] = 0 /\ Lagging)
    <3>1. Fault("rpc", {"lagging"}).err = {"lagging"}
      BY DEF Fault
    <3>2. Fault("rpc", {"lagging"}) \in faults => Lagging
      BY <3>1 DEF Lagging
    <3>3. ASSUME NEW p \in Policies PROVE PolicyKnown(p) \/ (resp.hash[p] = 0 /\ Lagging)
      <4>1. PolicyOutcome(p) /\ branch[p].err = nil /\ branch[p].value = resp.hash[p]
        BY <1>2, <1>8
      <4>2. \A f \in CallFailures : branch[p].err # MapFetchErrorToState(f)
        BY <2>3, <4>1
      <4>3. branch[p].err # MapFetchErrorToState("unknown")
        BY <2>3, <4>1
      <4> QED
        BY <3>2, <4>1, <4>2, <4>3 DEF PolicyOutcome, PolicyKnown
    <3> QED
      BY <3>3
  <2>6. BoundToRequest /\ (env.cutoverRelay = None <=> env.cutoverEpoch = None)
    BY <1>0, LoadedAsAsked DEF Progress
  <2>7. /\ (BoundToRequest /\ Attested)'
        /\ (env.cutoverRelay = None <=> env.cutoverEpoch = None)'
        /\ (\A p \in Policies : PolicyKnown(p) \/ (resp.hash[p] = 0 /\ Lagging))'
        /\ ReportedObsolete' <=> ReportedObsolete
    BY <1>1, <2>4, <2>5, <2>6
       DEF BoundToRequest, Usable, Attested, Bypassed, Debuggable, PolicyKnown, Owner, Lagging,
           ReportedObsolete
  <2>8. result'.err = nil /\ result'.status = branch["data"].value
    BY <2>2
  <2> QED
    BY <2>4, <2>7, <2>8 DEF Justified
<1>9. ASSUME branch["data"].err = nil, NEW p \in Policies, branch[p].err # nil
      PROVE  Justified(result.err, result.status)'
  <2>1. \E q \in Policies : branch[q].err # nil /\ CheckSigningPolicies = branch[q].err
    BY <1>9 DEF CheckSigningPolicies, Policies
  <2>2. result'.err = CheckSigningPolicies
    BY <1>9, <2>1 DEF Verify, Answer
  <2> QED
    BY <1>6, <1>9, <2>1, <2>2
<1> QED
  BY <1>5, <1>7, <1>8, <1>9

(* An answer, once given, keeps its reasons.                               *)
LEMMA AnswersStayJustified ==
    ASSUME TeeInv, [Next]_vars, pc' = "answered" PROVE Justified(result.err, result.status)'
<1>1. CASE pc = "answered"
  <2>1. UNCHANGED vars /\ Justified(result.err, result.status)
    BY <1>1, AnsweredIsFinal DEF TeeInv
  <2> QED
    BY <2>1, SMTT(30), SMTT(60)
       DEF vars, Justified, BoundToRequest, Usable, Attested, Bypassed, Debuggable, PolicyKnown,
                Owner, Lagging, ReportedObsolete, Genuine, cutoverRelay, RetriedForGood
<1>2. CASE pc # "answered"
  <2>1. CASE FetchTEEChallengeResult \/ CheckResponse \/ Verify
    BY <2>1, FetchIsJustified, CheckIsJustified, VerifyIsJustified
  <2>2. CASE NewVerifier
    BY <2>2 DEF NewVerifier
  <2>3. CASE FetchCRLs \/ ValidateToken \/ ContextDone \/ UNCHANGED vars
    BY <1>2, <2>3 DEF FetchCRLs, ValidateToken, ContextDone, vars
  <2>4. ASSUME NEW p \in Policies, FetchSigningPolicyHashFromChain(p) PROVE pc' = pc
    BY <2>4 DEF FetchSigningPolicyHashFromChain
  <2> QED
    BY <1>2, <2>1, <2>2, <2>3, <2>4 DEF Next, Step
<1> QED
  BY <1>1, <1>2

LEMMA TeeInvInvariant == Spec => []TeeInv
<1>1. TeeInv /\ [Next]_vars => TeeInv'
  BY ProgressStep, BranchingStep, OutcomesStep, AnswersStayJustified DEF TeeInv
<1> QED
  BY <1>1, TeeInvInit, PTL DEF Spec

-----------------------------------------------------------------------------
(* VERIFIED is only ever said of a response that is bound to the request,  *)
(* attested or bypassed as configured, and whose policy hashes are the     *)
(* ones of the Relays that own their ids, for every environment, response  *)
(* and order in which the goroutines of Verify return.                     *)
THEOREM VerdictsAreSound == Spec => []VerifiedMeansGenuine
<1>1. TeeInv => VerifiedMeansGenuine
  <2> SUFFICES ASSUME TeeInv, pc = "answered", Envelope = "VERIFIED" PROVE VerifiedMeansGenuine
    BY DEF VerifiedMeansGenuine
  <2>1. result.err = nil
    BY DEF Envelope, classifyVerifyStatus
  <2> QED
    BY <2>1 DEF TeeInv, Justified, VerifiedMeansGenuine, ReportedObsolete
<1> QED
  BY <1>1, TeeInvInvariant, PTL

(* REJECTED always has a reason that lasts: a defect of the response or a  *)
(* failure of the outside world that asking again would not mend.          *)
THEOREM RejectionsLast == Spec => []RejectedOnlyForCause
<1>1. TeeInv => RejectedOnlyForCause
  BY DEF TeeInv, Justified, RejectedOnlyForCause, Envelope
<1> QED
  BY <1>1, TeeInvInvariant, PTL

(* RETRY always has a reason that may pass, the four named inputs aside.   *)
THEOREM RetriesMayHelp == Spec => []RetriedOnlyForFault
<1>1. TeeInv => RetriedOnlyForFault
  BY DEF TeeInv, Justified, RetriedOnlyForFault, Envelope
<1> QED
  BY <1>1, TeeInvInvariant, PTL

(* The envelope of /verify and the HTTP status of prepareResponseBody      *)
(* agree on every error a request can end with.                            *)
THEOREM BothAnswersAgree == Spec => []ClassifiersAgree
<1>1. TeeInv => ClassifiersAgree
  BY DEF TeeInv, Justified, ClassifiersAgree, Envelope
<1> QED
  BY <1>1, TeeInvInvariant, PTL
=============================================================================
