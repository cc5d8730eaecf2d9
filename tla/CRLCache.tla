------------------------------ MODULE CRLCache ------------------------------
(***************************************************************************)
(* The CRL cache of the TEE availability check                             *)
(* (teeavailabilitycheck/verifier/crl_cache.go).                           *)
(*                                                                         *)
(* A request calls FetchCRLsForToken, which checks the token's certificate *)
(* chain and starts two goroutines, one per certificate to be checked for  *)
(* revocation.  Each runs fetchFirstCRL: it walks the certificate's        *)
(* distribution points and calls getOrFetchCRL on each until one answers.  *)
(* getOrFetchCRL looks in the cache, and on a miss joins (or starts) the   *)
(* singleflight call of its key, a goroutine of its own that runs under no *)
(* caller's context.  All of them interleave, and time passes in between.  *)
(***************************************************************************)
EXTENDS Integers, Sequences, FiniteSets, ErrorChains

CONSTANTS
    Requests,               \* calls of FetchCRLsForToken, each made once
    Tokens,                 \* attestation tokens that may be presented
    TrustedRoot,            \* the embedded Google root certificate
    Certs, Urls, CRLs,
    RawSubject, PublicKey,  \* of a certificate
    SignedWith,             \* the key a certificate is signed with
    NotBefore, NotAfter,
    CRLDistributionPoints,  \* of a certificate: a sequence of URLs
    RawIssuer, CRLSignedWith,
    NextUpdate,             \* of a CRL; 0 is Go's zero time
    FetchErrors,            \* the error chains a fetch may end with
    MaxEntries,             \* crlMaxEntries
    MaxCacheTTL,            \* crlMaxCacheTTL, in ticks
    FlightTime,             \* DNS lookup and fetch timeout, in ticks
    MaxNow,                 \* bound on the clock
    None

Keys == Urls \X Certs
Branches == {"leaf", "intermediate"}
Goroutines == Requests \X Branches

ASSUME ConstantsAssumption ==
    /\ MaxEntries \in Nat \ {0}
    /\ MaxCacheTTL \in Nat
    /\ FlightTime \in Nat \ {0}
    /\ MaxNow \in Nat
    /\ IsFiniteSet(Keys)
    /\ TrustedRoot \in Certs
    /\ RawSubject \in [Certs -> STRING] /\ PublicKey \in [Certs -> STRING]
    /\ SignedWith \in [Certs -> STRING]
    /\ NotBefore \in [Certs -> Nat] /\ NotAfter \in [Certs -> Nat]
    /\ CRLDistributionPoints \in [Certs -> Seq(Urls)]
    /\ RawIssuer \in [CRLs -> STRING] /\ CRLSignedWith \in [CRLs -> STRING]
    /\ NextUpdate \in [CRLs -> Nat]
    /\ Tokens \subseteq [x5c : BOOLEAN, root : Certs, intermediate : Certs, leaf : Certs]
    /\ FetchErrors \subseteq PinnedFetchErrors
    /\ None \notin CRLs \cup [crl : CRLs, fetchedAt : Nat, obtained : Nat]

VARIABLES
    now,
    entries,     \* the cache: per key an entry or None
    flights,     \* the singleflight group: per key the call in flight or None
    phase,       \* per request "idle", "fetching", "answered"
    token,       \* per request the token being verified
    ctx,         \* per request "live" or the error its context ended with
    goroutine,   \* per request and branch, the state of fetchFirstCRL
    answer       \* per request what FetchCRLsForToken returned

vars == <<now, entries, flights, phase, token, ctx, goroutine, answer>>

(***************************************************************************)
(* obtained is a history field: the time at which the CRL left its         *)
(* distribution point.  The code keeps fetchedAt, the time of the store.   *)
(***************************************************************************)
Sentinels ==
    (UNION PinnedFetchErrors) \cup ContextErrors \cup {"ErrTEERevocationUnavailable"}
Entry == [crl : CRLs, fetchedAt : Nat, obtained : Nat]
Result == [err : SUBSET Sentinels, crl : CRLs \cup {None}, obtained : Nat]
Flight == [phase : {"recheck", "fetching", "storing", "done"}, res : Result,
           waiters : SUBSET Goroutines, began : Nat]
Goroutine == [pc : {"idle", "lookup", "join", "wait", "returned"}, dp : Nat,
              res : Result, ch : Result \cup {None}, start : Nat]

(* None is no result and no call.                                          *)
ASSUME NoneAssumption == None \notin Result \cup Flight

Failed(err) == [err |-> Wrap({}, err), crl |-> None, obtained |-> 0]
NoResult == [err |-> nil, crl |-> None, obtained |-> 0]
Idle == [pc |-> "idle", dp |-> 0, res |-> NoResult, ch |-> None, start |-> 0]

Init ==
    /\ now = 1
    /\ entries = [k \in Keys |-> None]
    /\ flights = [k \in Keys |-> None]
    /\ phase = [r \in Requests |-> "idle"]
    /\ token = [r \in Requests |-> None]
    /\ ctx = [r \in Requests |-> "live"]
    /\ goroutine = [g \in Goroutines |-> Idle]
    /\ answer = [r \in Requests |-> [err |-> nil, leaf |-> None, intermediate |-> None]]

-----------------------------------------------------------------------------
crlCacheKey(url, issuer) == <<url, issuer>>

verifyCRLIssuerKeyOnly(crl, issuer) == CRLSignedWith[crl] = PublicKey[issuer]

verifyCRLIssuer(crl, issuer) ==
    /\ RawIssuer[crl] = RawSubject[issuer]
    /\ CRLSignedWith[crl] = PublicKey[issuer]

isEntryStaleNoTTL(e) == NextUpdate[e.crl] = 0 \/ now > NextUpdate[e.crl]

isEntryStale(e) ==
    \/ now > e.fetchedAt + MaxCacheTTL
    \/ NextUpdate[e.crl] = 0
    \/ now > NextUpdate[e.crl]

Fresh(k) == entries[k] # None /\ ~isEntryStale(entries[k])

(* A hit that does not verify against the caller's issuer is an error.     *)
cachedFresh(key, issuer) ==
    IF ~Fresh(key) THEN NoResult
    ELSE IF verifyCRLIssuer(entries[key].crl, issuer)
    THEN [err |-> nil, crl |-> entries[key].crl, obtained |-> entries[key].obtained]
    ELSE Failed(Untagged)

Cached(es) == {k \in Keys : es[k] # None}
Full(es) == Cardinality(Cached(es)) >= MaxEntries

evictStaleEntries(es) ==
    [k \in Keys |-> IF es[k] # None /\ isEntryStale(es[k]) THEN None ELSE es[k]]

evictOldestEntryAny(es) == {[es EXCEPT ![k] = None] : k \in Cached(es)}

(* Go iterates a map in any order: among equally old entries any may go.   *)
evictOldestEntry(es) ==
    {[es EXCEPT ![k] = None] :
        k \in {j \in Cached(es) : \A i \in Cached(es) : es[j].fetchedAt <= es[i].fetchedAt}}

-----------------------------------------------------------------------------
(***************************************************************************)
(* FetchCRLsForToken: no distribution point is touched unless the token's  *)
(* root is the trusted one and the chain is signed and current.            *)
(***************************************************************************)
checkCertValidity(cert) == NotBefore[cert] <= now /\ now <= NotAfter[cert]

validateX5CChainSignatureOfLeafOnly(t) == SignedWith[t.leaf] = PublicKey[t.intermediate]

validateX5CChain(t) ==
    /\ checkCertValidity(t.root)
    /\ checkCertValidity(t.intermediate)
    /\ checkCertValidity(t.leaf)
    /\ SignedWith[t.intermediate] = PublicKey[t.root]
    /\ SignedWith[t.leaf] = PublicKey[t.intermediate]

Subject(t, branch) == IF branch = "leaf" THEN t.leaf ELSE t.intermediate
Issuer(t, branch) == IF branch = "leaf" THEN t.intermediate ELSE t.root
DistributionPoints(g) == CRLDistributionPoints[Subject(token[g[1]], g[2])]

FirstPoint(points) ==
    IF points = <<>> THEN [Idle EXCEPT !.pc = "returned"]
                     ELSE [Idle EXCEPT !.pc = "lookup", !.dp = 1]

FetchCRLsForToken(r) ==
    /\ phase[r] = "idle"
    /\ \E t \in Tokens :
        /\ token' = [token EXCEPT ![r] = t]
        /\ IF t.x5c /\ t.root = TrustedRoot /\ validateX5CChain(t)
           THEN /\ phase' = [phase EXCEPT ![r] = "fetching"]
                /\ UNCHANGED answer
                /\ goroutine' = [g \in Goroutines |->
                    IF g[1] = r THEN FirstPoint(CRLDistributionPoints[Subject(t, g[2])])
                                ELSE goroutine[g]]
           ELSE /\ phase' = [phase EXCEPT ![r] = "answered"]
                /\ answer' = [answer EXCEPT ![r] =
                                [err |-> Untagged, leaf |-> None, intermediate |-> None]]
                /\ UNCHANGED goroutine
    /\ UNCHANGED <<now, entries, flights, ctx>>

(* Both goroutines are awaited; the leaf's error is reported first.        *)
Collect(r) ==
    LET leaf == goroutine[<<r, "leaf">>].res
        intermediate == goroutine[<<r, "intermediate">>].res
    IN  /\ phase[r] = "fetching"
        /\ \A b \in Branches : goroutine[<<r, b>>].pc = "returned"
        /\ phase' = [phase EXCEPT ![r] = "answered"]
        /\ answer' = [answer EXCEPT ![r] =
                IF leaf.err # nil
                THEN [err |-> leaf.err, leaf |-> None, intermediate |-> None]
                ELSE IF intermediate.err # nil
                THEN [err |-> intermediate.err, leaf |-> None, intermediate |-> None]
                ELSE [err |-> nil, leaf |-> leaf.crl, intermediate |-> intermediate.crl]]
        /\ goroutine' = [g \in Goroutines |-> IF g[1] = r THEN Idle ELSE goroutine[g]]
        /\ UNCHANGED <<now, entries, flights, token, ctx>>

(* The client goes away, or verifierWorkTimeout expires.                   *)
ContextDone(r) ==
    /\ phase[r] = "fetching" /\ ctx[r] = "live"
    /\ \E e \in ContextErrors : ctx' = [ctx EXCEPT ![r] = e]
    /\ UNCHANGED <<now, entries, flights, phase, token, goroutine, answer>>

-----------------------------------------------------------------------------
(***************************************************************************)
(* fetchFirstCRL and getOrFetchCRL, as goroutine g runs them.              *)
(***************************************************************************)
KeyOf(g) ==
    crlCacheKey(DistributionPoints(g)[goroutine[g].dp], Issuer(token[g[1]], g[2]))

AfterFailureGivesUp(g, err) ==
    [goroutine[g] EXCEPT !.pc = "returned", !.res = NoResult, !.ch = None]

(* The errors of all points are joined; a failed point gives way to the    *)
(* next one whatever the error, the caller's own cancellation included.    *)
AfterFailure(g, err) ==
    LET errs == Failed(goroutine[g].res.err \cup err)
    IN  IF goroutine[g].dp < Len(DistributionPoints(g))
        THEN [goroutine[g] EXCEPT !.pc = "lookup", !.dp = @ + 1, !.res = errs, !.ch = None]
        ELSE [goroutine[g] EXCEPT !.pc = "returned", !.res = errs, !.ch = None]

AfterResult(g, res) ==
    IF res.err # nil THEN AfterFailure(g, res.err)
    ELSE [goroutine[g] EXCEPT !.pc = "returned", !.res = res, !.ch = None]

Lookup(g) ==
    LET hit == cachedFresh(KeyOf(g), Issuer(token[g[1]], g[2]))
    IN  /\ goroutine[g].pc = "lookup"
        /\ goroutine' = [goroutine EXCEPT ![g] =
                [(IF hit = NoResult THEN [goroutine[g] EXCEPT !.pc = "join"]
                                    ELSE AfterResult(g, hit)) EXCEPT !.start = now]]
        /\ UNCHANGED <<now, entries, flights, phase, token, ctx, answer>>

(* singleflight.DoChan: one call per key, later callers share its result.  *)
DoChan(g) ==
    LET k == KeyOf(g)
    IN  /\ goroutine[g].pc = "join"
        /\ flights' = [flights EXCEPT ![k] =
                IF flights[k] = None
                THEN [phase |-> "recheck", res |-> NoResult, waiters |-> {g}, began |-> now]
                ELSE [flights[k] EXCEPT !.waiters = @ \cup {g}]]
        /\ goroutine' = [goroutine EXCEPT ![g].pc = "wait"]
        /\ UNCHANGED <<now, entries, phase, token, ctx, answer>>

SelectDoneAbortsCall(g) ==
    /\ goroutine[g].pc = "wait" /\ ctx[g[1]] # "live"
    /\ goroutine' = [goroutine EXCEPT ![g] = AfterFailure(g, {ctx[g[1]]})]
    /\ flights' = [k \in Keys |->
            IF flights[k] = None \/ g \notin flights[k].waiters THEN flights[k]
            ELSE [flights[k] EXCEPT !.phase = "done", !.res = Failed({ctx[g[1]]}),
                                    !.waiters = @ \ {g}]]
    /\ UNCHANGED <<now, entries, phase, token, ctx, answer>>

(* select: when the context is done and a result is there, either is taken *)
SelectDone(g) ==
    /\ goroutine[g].pc = "wait" /\ ctx[g[1]] # "live"
    /\ goroutine' = [goroutine EXCEPT ![g] = AfterFailure(g, {ctx[g[1]]})]
    /\ flights' = [k \in Keys |->
            IF flights[k] = None THEN None ELSE [flights[k] EXCEPT !.waiters = @ \ {g}]]
    /\ UNCHANGED <<now, entries, phase, token, ctx, answer>>

SelectResult(g) ==
    LET res == goroutine[g].ch
    IN  /\ goroutine[g].pc = "wait" /\ res # None
        /\ goroutine' = [goroutine EXCEPT ![g] =
                IF res.err = nil /\ ~verifyCRLIssuer(res.crl, Issuer(token[g[1]], g[2]))
                THEN AfterFailure(g, Untagged)
                ELSE AfterResult(g, res)]
        /\ UNCHANGED <<now, entries, flights, phase, token, ctx, answer>>

-----------------------------------------------------------------------------
(***************************************************************************)
(* The shared call of key k.                                               *)
(***************************************************************************)
RecheckSkipped(k) ==
    /\ flights[k] # None /\ flights[k].phase = "recheck"
    /\ flights' = [flights EXCEPT ![k].phase = "fetching"]
    /\ UNCHANGED <<now, entries, phase, token, ctx, goroutine, answer>>

Recheck(k) ==
    LET hit == cachedFresh(k, k[2])
    IN  /\ flights[k] # None /\ flights[k].phase = "recheck"
        /\ flights' = [flights EXCEPT ![k] =
                IF hit = NoResult THEN [@ EXCEPT !.phase = "fetching"]
                                  ELSE [@ EXCEPT !.phase = "done", !.res = hit]]
        /\ UNCHANGED <<now, entries, phase, token, ctx, goroutine, answer>>

FetchFailure(err) == Failed(TagFetchError(err))

(* The body is parsed, bound to the issuer and must have a horizon.        *)
Accept(k, crl) ==
    IF crl = None \/ ~verifyCRLIssuer(crl, k[2]) \/ NextUpdate[crl] = 0
    THEN Failed(Untagged)
    ELSE [err |-> nil, crl |-> crl, obtained |-> now]

Land(k, res) ==
    flights' = [flights EXCEPT ![k].res = res,
                               ![k].phase = IF res.err = nil THEN "storing" ELSE "done"]

Fetch(k) ==
    /\ flights[k] # None /\ flights[k].phase = "fetching"
    /\ \/ \E err \in FetchErrors : Land(k, FetchFailure(err))
       \/ \E body \in CRLs \cup {None} : Land(k, Accept(k, body))  \* None: not a CRL
    /\ UNCHANGED <<now, entries, phase, token, ctx, goroutine, answer>>

RoomForOffByOne(k) ==
    LET swept == IF entries[k] = None /\ Cardinality(Cached(entries)) > MaxEntries
                 THEN evictStaleEntries(entries) ELSE entries
    IN  IF entries[k] = None /\ Cardinality(Cached(swept)) > MaxEntries
        THEN evictOldestEntry(swept) ELSE {swept}

(* What entries may be once the lock is taken and room has been made.      *)
RoomFor(k) ==
    LET swept == IF entries[k] = None /\ Full(entries) THEN evictStaleEntries(entries)
                                                       ELSE entries
    IN  IF entries[k] = None /\ Full(swept) THEN evictOldestEntry(swept) ELSE {swept}

Store(k) ==
    /\ flights[k] # None /\ flights[k].phase = "storing"
    /\ \E kept \in RoomFor(k) :
        entries' = [kept EXCEPT ![k] = [crl |-> flights[k].res.crl, fetchedAt |-> now,
                                        obtained |-> flights[k].res.obtained]]
    /\ flights' = [flights EXCEPT ![k].phase = "done"]
    /\ UNCHANGED <<now, phase, token, ctx, goroutine, answer>>

FinishSendsOnce(k) ==
    LET waiters == flights[k].waiters
    IN  /\ flights[k] # None /\ flights[k].phase = "done"
        /\ flights' = [flights EXCEPT ![k] = None]
        /\ goroutine' \in IF waiters = {} THEN {goroutine}
                          ELSE {[goroutine EXCEPT ![g].ch = flights[k].res] : g \in waiters}
        /\ UNCHANGED <<now, entries, phase, token, ctx, answer>>

(* The call leaves the group and its result goes to every waiter at once.  *)
Finish(k) ==
    /\ flights[k] # None /\ flights[k].phase = "done"
    /\ flights' = [flights EXCEPT ![k] = None]
    /\ goroutine' = [g \in Goroutines |->
            IF g \in flights[k].waiters
            THEN [goroutine[g] EXCEPT !.ch = flights[k].res] ELSE goroutine[g]]
    /\ UNCHANGED <<now, entries, phase, token, ctx, answer>>

Close ==
    /\ entries' = [k \in Keys |-> None]
    /\ UNCHANGED <<now, flights, phase, token, ctx, goroutine, answer>>

(* A call in flight is over within FlightTime: its lookup and its request  *)
(* both run under a timeout.                                               *)
Tick ==
    /\ now < MaxNow
    /\ \A k \in Keys : flights[k] # None => now < flights[k].began + FlightTime
    /\ now' = now + 1
    /\ UNCHANGED <<entries, flights, phase, token, ctx, goroutine, answer>>

-----------------------------------------------------------------------------
CallerStep(g) == Lookup(g) \/ DoChan(g) \/ SelectDone(g) \/ SelectResult(g)
FlightStep(k) == Recheck(k) \/ Fetch(k) \/ Store(k) \/ Finish(k)

Next ==
    \/ \E r \in Requests : FetchCRLsForToken(r) \/ Collect(r) \/ ContextDone(r)
    \/ \E g \in Goroutines : CallerStep(g)
    \/ \E k \in Keys : FlightStep(k)
    \/ Close
    \/ Tick

Spec == Init /\ [][Next]_vars

(* The Go scheduler runs every runnable goroutine, and a fetch ends by its *)
(* timeout.  Nothing obliges clients, contexts or the clock to act.        *)
FairSpec ==
    /\ Spec
    /\ \A r \in Requests : WF_vars(Collect(r))
    /\ \A g \in Goroutines : WF_vars(CallerStep(g))
    /\ \A k \in Keys : WF_vars(FlightStep(k))
-----------------------------------------------------------------------------
(***************************************************************************)
(* Properties.                                                             *)
(***************************************************************************)
Answer == [err : SUBSET Sentinels, leaf : CRLs \cup {None}, intermediate : CRLs \cup {None}]

(* Every variable keeps its shape, a goroutine at a distribution point is  *)
(* at one its certificate has, and a request at work has a trusted token.  *)
TypeOK ==
    /\ now \in Nat
    /\ entries \in [Keys -> Entry \cup {None}]
    /\ flights \in [Keys -> Flight \cup {None}]
    /\ phase \in [Requests -> {"idle", "fetching", "answered"}]
    /\ token \in [Requests -> Tokens \cup {None}]
    /\ ctx \in [Requests -> {"live"} \cup ContextErrors]
    /\ goroutine \in [Goroutines -> Goroutine]
    /\ answer \in [Requests -> Answer]
    /\ \A r \in Requests : phase[r] # "idle" => token[r] \in Tokens
    /\ \A g \in Goroutines :
        /\ goroutine[g].pc # "idle" => phase[g[1]] = "fetching"
        /\ goroutine[g].pc \in {"lookup", "join", "wait"} =>
               goroutine[g].dp \in 1 .. Len(DistributionPoints(g))

Conclusive(res) == res.err # nil \/ res.crl # None

WaitersWait ==
    /\ \A k \in Keys : flights[k] # None =>
        /\ flights[k].phase = "storing" => flights[k].res.crl # None
        /\ flights[k].phase = "done" => Conclusive(flights[k].res)
        /\ \A g \in flights[k].waiters :
               goroutine[g].pc = "wait" /\ goroutine[g].ch = None /\ KeyOf(g) = k
    /\ \A g \in Goroutines :
        goroutine[g].ch # None => goroutine[g].pc = "wait" /\ Conclusive(goroutine[g].ch)

(* A caller in the select has its result on the channel, or will get it.   *)
Registered(g) ==
    goroutine[g].pc = "wait" =>
        \/ goroutine[g].ch # None
        \/ flights[KeyOf(g)] # None /\ g \in flights[KeyOf(g)].waiters

(* Whoever waits on a shared call waits for that very key, a result on a   *)
(* channel has its reader waiting, and a result is a CRL or an error: no   *)
(* late result of an abandoned call reaches a caller that has moved on to  *)
(* its next distribution point (the channel DoChan makes for each caller). *)
(* And no caller is left behind: one that waits without a result is among  *)
(* the waiters of a call that is still in flight for its key, however the  *)
(* callers that joined before or after it fared.                           *)
CallsMatchWaiters ==
    /\ WaitersWait
    /\ \A g \in Goroutines : Registered(g)

(* The store of getOrFetchCRL never leaves more than crlMaxEntries, however*)
(* many keys' calls race to store.                                         *)
CacheBounded == Cardinality(Cached(entries)) <= MaxEntries

BoundTo(crl, issuer) ==
    RawIssuer[crl] = RawSubject[issuer] /\ CRLSignedWith[crl] = PublicKey[issuer]

(* A CRL is cached, shared between callers or handed out only under the    *)
(* very issuer it names and is signed by, even where two issuers share a   *)
(* key or a distribution point (crlCacheKey, verifyCRLIssuer).  So the     *)
(* re-verification of a hit or of a shared result never refuses one.       *)
AnswersBindToIssuer ==
    /\ \A k \in Keys :
        /\ entries[k] # None => BoundTo(entries[k].crl, k[2])
        /\ flights[k] # None /\ flights[k].res.crl # None => BoundTo(flights[k].res.crl, k[2])
    /\ \A g \in Goroutines :
        LET issuer == Issuer(token[g[1]], g[2]) IN
        /\ goroutine[g].ch # None /\ goroutine[g].ch.crl # None =>
               BoundTo(goroutine[g].ch.crl, issuer)
        /\ goroutine[g].res.crl # None => BoundTo(goroutine[g].res.crl, issuer)
    /\ \A r \in Requests :
        /\ answer[r].leaf # None => BoundTo(answer[r].leaf, token[r].intermediate)
        /\ answer[r].intermediate # None => BoundTo(answer[r].intermediate, token[r].root)

(* A distribution point is contacted only while the cache has no fresh CRL *)
(* for the key: a caller whose lookup missed just before another's call    *)
(* stored the CRL does not fetch it again (the re-check inside DoChan).    *)
FetchOnlyOnMiss ==
    \A k \in Keys : flights[k] # None /\ flights[k].phase = "fetching" => ~Fresh(k)

IsJoined(err, points) ==
    \E failures \in SUBSET points : failures # {} /\ err = Joined(failures)

(* The contract DataVerification builds on: the error of a caller is the   *)
(* join of what its distribution points failed with, each tagged by        *)
(* getOrFetchCRL once, whoever's call it was that failed.  The end of a    *)
(* context is in it only if it is the caller's own: the shared fetch runs  *)
(* under context.Background().                                             *)
FailuresAreJoined ==
    /\ \A g \in Goroutines :
        goroutine[g].res.err # nil =>
            IsJoined(goroutine[g].res.err, PointFailures(FetchErrors, ctx[g[1]]))
    /\ \A r \in Requests :
        answer[r].err # nil => IsJoined(answer[r].err, PointFailures(FetchErrors, ctx[r]))

(* A caller sees a cancellation only when its own context was cancelled:   *)
(* one caller's giving up is never another caller's error.                 *)
CancellationStaysPrivate ==
    /\ \A g \in Goroutines :
        "context.Canceled" \in goroutine[g].res.err => ctx[g[1]] = "context.Canceled"
    /\ \A r \in Requests :
        "context.Canceled" \in answer[r].err => ctx[r] = "context.Canceled"

(* A CRL handed to a caller left its distribution point no longer than     *)
(* crlMaxCacheTTL before the caller asked, and unless it was fetched just  *)
(* now its NextUpdate had not passed; the time a shared call takes is all  *)
(* that is added, once for the store and once for joining late.            *)
RecentAnswers ==
    \A g \in Goroutines :
        LET got == goroutine[g] IN
        got.pc = "returned" /\ got.res.crl # None =>
            /\ got.res.obtained + MaxCacheTTL + 2 * FlightTime >= got.start
            /\ \/ got.res.obtained + FlightTime >= got.start
               \/ NextUpdate[got.res.crl] + FlightTime >= got.start

(* No distribution point is dereferenced but those of a chain that a       *)
(* request presented and whose leaf is signed by the intermediate, and     *)
(* that by the trusted root (the checks of FetchCRLsForToken before the    *)
(* goroutines start).                                                      *)
OutboundOnlyForTrustedChain ==
    \A k \in Keys : flights[k] # None =>
        \E r \in Requests :
            LET t == token[r] IN
            /\ phase[r] # "idle"
            /\ t.root = TrustedRoot
            /\ SignedWith[t.intermediate] = PublicKey[t.root]
            /\ SignedWith[t.leaf] = PublicKey[t.intermediate]
            /\ \E b \in Branches :
                LET points == CRLDistributionPoints[Subject(t, b)] IN
                \E i \in DOMAIN points : k = <<points[i], Issuer(t, b)>>

(* Revocation is strict: a request that succeeds holds a CRL for every     *)
(* certificate that names a distribution point.  Failure of all the points *)
(* is an error, never a nil CRL (fetchFirstCRL).                           *)
StrictRevocation ==
    \A r \in Requests :
        phase[r] = "answered" /\ answer[r].err = nil =>
            /\ CRLDistributionPoints[token[r].leaf] # <<>> => answer[r].leaf # None
            /\ CRLDistributionPoints[token[r].intermediate] # <<>> => answer[r].intermediate # None

(* A store pushes a fresh entry out only when no stale one could go        *)
(* instead, and then the oldest (evictStaleEntries, evictOldestEntry).     *)
(* Close empties the cache and is the only other way an entry goes.        *)
EvictStaleFirst ==
    [][\A k \in Keys : Fresh(k) /\ entries'[k] = None /\ Cached(entries') # {} =>
        \A j \in Cached(entries') : entries[j] # None =>
            ~isEntryStale(entries[j]) /\ entries[k].fetchedAt <= entries[j].fetchedAt]_vars

(* Every request is answered: no waiter of a shared call is forgotten,     *)
(* whoever else gives up, whatever the distribution points return.         *)
EveryRequestAnswered ==
    \A r \in Requests : phase[r] = "fetching" ~> phase[r] = "answered"
=============================================================================
