---------------------------- MODULE ErrorChains ----------------------------
(***************************************************************************)
(* Go errors as the verifier's code tells them apart: by the sentinels     *)
(* errors.Is and errors.As find in the chain.  An error is the SET of      *)
(* sentinels it wraps; nil is the empty set.  Every non-nil error contains *)
(* "error", so an error that wraps no sentinel is still not nil.           *)
(*   fmt.Errorf("...: %w: %w", A, err)   is   Wrap({"A"}, err)             *)
(*   errors.Join(errs...)                is   the union of the chains      *)
(*   fmt.Errorf("...: %v", err)          drops the sentinels of err        *)
(* Messages are left out: no decision of the code reads them.              *)
(***************************************************************************)

nil == {}
Untagged == {"error"}
Is(err, sentinel) == sentinel \in err
IsAny(err, sentinels) == err \cap sentinels # {}
Wrap(sentinels, err) == {"error"} \cup sentinels \cup err

(***************************************************************************)
(* The sentinels that are themselves built with fmt.Errorf("...: %w",      *)
(* ErrTEEDataValidation) carry it with them.                               *)
(***************************************************************************)
ErrTEEAttestationInvalid == {"ErrTEEAttestationInvalid", "ErrTEEDataValidation"}
ErrTEEActionResultMismatch == {"ErrTEEActionResultMismatch", "ErrTEEDataValidation"}
ErrTEEResponseMalformed == {"ErrTEEResponseMalformed", "ErrTEEDataValidation"}

(* The sentinels of the index databases, on their own.                     *)
ErrDatabase == Wrap({"ErrDatabase"}, nil)
ErrDataSource == Wrap({"ErrDataSource"}, nil)
ErrRecordNotFound == Wrap({"ErrRecordNotFound"}, nil)

ContextErrors == {"context.Canceled", "context.DeadlineExceeded"}

-----------------------------------------------------------------------------
(***************************************************************************)
(* What a pinned fetch can fail with: the URL validation and DNS lookup of *)
(* resolveExternalURL, then the request, status and body of                *)
(* FetchBytesPinned.                                                       *)
(***************************************************************************)
ResolveErrors ==
    { {"error", "ErrURLValidation"},
      {"error", "ErrURLValidation", "DNSError"},
      {"error", "ErrURLValidation", "DNSError", "DNSTemporary"},
      {"error", "ErrURLValidation", "DNSError", "DNSTimeout", "context.DeadlineExceeded"} }

FetchBytesErrors ==
    { {"error", "ErrHTTPFetch"},
      {"error", "ErrHTTPFetch", "context.DeadlineExceeded"},
      {"error", "ErrHTTPFetch", "ErrRedirect"},
      {"error", "ErrNotFound"},
      {"error", "ErrHTTPFetch", "HTTPStatusError", "Status5xx"},
      {"error", "ErrHTTPFetch", "HTTPStatusError", "Status408or429"},
      {"error", "ErrHTTPFetch", "HTTPStatusError", "StatusOther"},
      {"error", "ErrResponseTooLarge"} }

PinnedFetchErrors == ResolveErrors \cup FetchBytesErrors

(* The same when the caller's context is over: in the lookup or later.     *)
InterruptedFetchErrors(ctx) ==
    { {"error", "ErrURLValidation", "DNSError", ctx}
          \cup (IF ctx = "context.DeadlineExceeded" THEN {"DNSTimeout"} ELSE {}),
      {"error", "ErrHTTPFetch", ctx} }

isTransientTransportFirst(err) ==
    \/ IsAny(err, {"ErrHTTPFetch"} \cup ContextErrors)
    \/ Is(err, "DNSTemporary")

(* The order of the tests is the code's: redirects and status errors wrap  *)
(* ErrHTTPFetch too, so they are decided before the transport case.        *)
isTransientFetchError(err) ==
    IF IsAny(err, {"ErrRedirect", "ErrNotFound", "ErrResponseTooLarge"})
    THEN FALSE
    ELSE IF Is(err, "HTTPStatusError")
    THEN IsAny(err, {"Status5xx", "Status408or429"})
    ELSE IF Is(err, "DNSError")
    THEN IsAny(err, {"DNSTemporary", "DNSTimeout"})
    ELSE IsAny(err, {"ErrHTTPFetch"} \cup ContextErrors)

(* How getOrFetchCRL passes a failure on: that of the fetch itself is      *)
(* tagged when it may pass, any other stays as it is.                      *)
TagFetchError(err) ==
    IF err \in PinnedFetchErrors /\ isTransientFetchError(err)
    THEN Wrap({"ErrTEERevocationUnavailable"}, err) ELSE err

(* What one distribution point may fail with: the fetch, a CRL that is     *)
(* refused, or the caller's own context.                                   *)
PointFailures(fetchErrors, ctx) ==
    fetchErrors \cup {Untagged} \cup (IF ctx = "live" THEN {} ELSE {{"error", ctx}})

(* The error fetchFirstCRL returns once every point has failed.            *)
Joined(failures) == UNION {TagFetchError(e) : e \in failures}

classifyDataVerificationErrorRevocationOnly(err) ==
    IF Is(err, "ErrTEERevocationUnavailable")
    THEN Wrap({}, err)
    ELSE Wrap(ErrTEEAttestationInvalid, err)

(* A transient failure stays as it is; anything else becomes terminal.     *)
classifyDataVerificationError(err) ==
    IF IsAny(err, {"ErrTEERevocationUnavailable"} \cup ContextErrors)
    THEN Wrap({}, err)
    ELSE Wrap(ErrTEEAttestationInvalid, err)

-----------------------------------------------------------------------------
(***************************************************************************)
(* The two classifiers at the API boundary.  classifyVerifyStatus feeds    *)
(* the envelope of /verify, classifyVerifyError the HTTP status of         *)
(* prepareResponseBody.                                                    *)
(***************************************************************************)
TerminalSentinels ==
    { "ErrBatchRangeTooLarge", "ErrReissueLimitExceeded", "ErrInvalidRequest",
      "ErrMissingPayEvent", "ErrMissingTransaction", "ErrRPCNonSuccess",
      "ErrRecordNotFound", "ErrTEEChallengeMismatch", "ErrTEEChainIDMismatch",
      "ErrTEEProxySignerMismatch", "ErrTEESigningPolicyHash",
      "ErrTEEAttestationInvalid", "ErrTEEResponseMalformed",
      "ErrTEEActionResultMismatch" }

classifyVerifyStatus(err) ==
    IF IsAny(err, TerminalSentinels) THEN "REJECTED"
    ELSE IF Is(err, "ErrTEERevocationUnavailable") THEN "RETRY"
    ELSE IF IsAny(err, {"ErrTEEDataValidation", "ErrInvalidInput"}) THEN "REJECTED"
    ELSE "RETRY"

classifyVerifyErrorForgetsInput(err) ==
    IF IsAny(err, {"ErrBatchRangeTooLarge", "ErrReissueLimitExceeded", "ErrInvalidRequest"})
    THEN 400
    ELSE IF IsAny(err, {"ErrMissingPayEvent", "ErrMissingTransaction", "ErrRPCNonSuccess",
                        "ErrRecordNotFound", "ErrTEEDataValidation"})
    THEN 422
    ELSE 503

classifyVerifyError(err) ==
    IF IsAny(err, {"ErrBatchRangeTooLarge", "ErrReissueLimitExceeded", "ErrInvalidRequest"})
    THEN 400
    ELSE IF IsAny(err, {"ErrMissingPayEvent", "ErrMissingTransaction", "ErrRPCNonSuccess",
                        "ErrRecordNotFound", "ErrTEEDataValidation", "ErrInvalidInput"})
    THEN 422
    ELSE IF IsAny(err, ContextErrors \cup
                       {"ErrFetchAccountInfo", "ErrFetchServerInfo", "ErrRPCTransient",
                        "ErrNetworkMismatch", "ErrDatabase", "ErrDataSource", "ErrNetwork",
                        "ErrRPC", "ErrContext", "ErrUnknown", "ErrHTTPFetch",
                        "ErrActionResultNotFound", "ErrTEERevocationUnavailable"})
    THEN 503
    ELSE 500
=============================================================================
