--------------------------- MODULE CRLCacheProofs ---------------------------
(***************************************************************************)
(* CRLCache for any number of requests, URLs, certificates and CRLs, any   *)
(* cache size, any TTL.                                                    *)
(***************************************************************************)
EXTENDS CRLCache, FiniteSetTheorems, TLAPS

(* The backends of every step that does not name its own: each twice, so   *)
(* that a slow machine costs time and not the proof.                       *)
USE ZenonT(20), SMTT(30), ZenonT(60), SMTT(60)

(* The sentinels a CRL fetch can end with are all declared: every error    *)
(* built below stays within them.                                          *)
LEMMA SentinelFacts ==
    /\ {"error", "ErrTEERevocationUnavailable"} \subseteq Sentinels
    /\ \A c \in ContextErrors : {c} \subseteq Sentinels
    /\ \A e \in FetchErrors : e \subseteq Sentinels
<1>1. {"error", "ErrURLValidation"} \in PinnedFetchErrors
  BY DEF PinnedFetchErrors, ResolveErrors
<1>2. \A e \in PinnedFetchErrors : e \subseteq Sentinels
  BY DEF Sentinels
<1>3. "error" \in Sentinels
  BY <1>1, <1>2
<1> QED
  BY <1>2, <1>3, ConstantsAssumption DEF Sentinels

(* Failed makes a result of any chain of declared sentinels, and it is     *)
(* never the nil error.                                                    *)
LEMMA FailedType ==
    ASSUME NEW err \in SUBSET Sentinels
    PROVE  Failed(err) \in Result /\ Failed(err).err # nil /\ Failed(err).crl = None
  BY SentinelFacts DEF Failed, Result, Wrap, nil

(* A goroutine that is at work has a token whose certificates are known.   *)
LEMMA AtWork ==
    ASSUME TypeOK, NEW g \in Goroutines, goroutine[g].pc # "idle"
    PROVE  /\ g[1] \in Requests /\ g[2] \in Branches
           /\ phase[g[1]] = "fetching"
           /\ token[g[1]] \in Tokens
           /\ DistributionPoints(g) \in Seq(Urls)
           /\ Issuer(token[g[1]], g[2]) \in Certs
<1>1. g[1] \in Requests /\ g[2] \in Branches
  BY DEF Goroutines
<1>2. phase[g[1]] = "fetching"
  BY DEF TypeOK
<1>3. token[g[1]] \in Tokens
  BY <1>1, <1>2 DEF TypeOK
<1>4. token[g[1]] \in [x5c : BOOLEAN, root : Certs, intermediate : Certs, leaf : Certs]
  BY <1>3, ConstantsAssumption
<1>5. Subject(token[g[1]], g[2]) \in Certs /\ Issuer(token[g[1]], g[2]) \in Certs
  BY <1>4 DEF Subject, Issuer
<1>6. DistributionPoints(g) \in Seq(Urls)
  BY <1>5, ConstantsAssumption DEF DistributionPoints
<1> QED
  BY <1>1, <1>2, <1>3, <1>5, <1>6

(* The key a goroutine looks up is the URL it is at and its issuer.        *)
LEMMA KeyOfType ==
    ASSUME TypeOK, NEW g \in Goroutines, goroutine[g].pc \in {"lookup", "join", "wait"}
    PROVE  KeyOf(g) \in Keys /\ KeyOf(g)[2] = Issuer(token[g[1]], g[2])
<1>1. DistributionPoints(g) \in Seq(Urls) /\ Issuer(token[g[1]], g[2]) \in Certs
  BY AtWork
<1>2. goroutine[g].dp \in 1 .. Len(DistributionPoints(g))
  BY DEF TypeOK
<1>3. DistributionPoints(g)[goroutine[g].dp] \in Urls
  BY <1>1, <1>2
<1> QED
  BY <1>1, <1>3 DEF KeyOf, crlCacheKey, Keys

(* What a goroutine is after a failed distribution point.                  *)
LEMMA AfterFailureType ==
    ASSUME TypeOK, NEW g \in Goroutines, goroutine[g].pc \in {"lookup", "wait"},
           NEW err \in SUBSET Sentinels
    PROVE  LET next == AfterFailure(g, err) IN
           /\ next \in Goroutine
           /\ next.pc \in {"lookup", "returned"}
           /\ next.pc = "lookup" => next.dp \in 1 .. Len(DistributionPoints(g))
           /\ next.ch = None
           /\ next.res.crl = None /\ next.res.err # nil
<1>1. goroutine[g] \in Goroutine
  BY DEF TypeOK
<1>2. goroutine[g].res.err \cup err \in SUBSET Sentinels
  BY <1>1 DEF Goroutine, Result
<1>3. DEFINE errs == Failed(goroutine[g].res.err \cup err)
<1>4. errs \in Result /\ errs.err # nil /\ errs.crl = None
  BY <1>2, FailedType
<1>5. Len(DistributionPoints(g)) \in Nat
  BY AtWork
<1>6. goroutine[g].dp \in 1 .. Len(DistributionPoints(g))
  BY DEF TypeOK
<1> HIDE DEF errs
<1>7. AfterFailure(g, err) =
        IF goroutine[g].dp < Len(DistributionPoints(g))
        THEN [goroutine[g] EXCEPT !.pc = "lookup", !.dp = @ + 1, !.res = errs, !.ch = None]
        ELSE [goroutine[g] EXCEPT !.pc = "returned", !.res = errs, !.ch = None]
  BY DEF AfterFailure, errs
<1>8. CASE goroutine[g].dp < Len(DistributionPoints(g))
  <2>1. AfterFailure(g, err) =
          [goroutine[g] EXCEPT !.pc = "lookup", !.dp = @ + 1, !.res = errs, !.ch = None]
    BY <1>7, <1>8
  <2>2. goroutine[g].dp + 1 \in 1 .. Len(DistributionPoints(g)) /\ goroutine[g].dp + 1 \in Nat
    BY <1>5, <1>6, <1>8
  <2> QED
    BY <1>1, <1>4, <2>1, <2>2 DEF Goroutine
<1>9. CASE ~(goroutine[g].dp < Len(DistributionPoints(g)))
  BY <1>1, <1>4, <1>7, <1>9 DEF Goroutine
<1> QED
  BY <1>8, <1>9

(* What a goroutine is after a conclusive result for the point it is at.   *)
LEMMA AfterResultType ==
    ASSUME TypeOK, NEW g \in Goroutines, goroutine[g].pc \in {"lookup", "wait"},
           NEW res \in Result
    PROVE  LET next == AfterResult(g, res) IN
           /\ next \in Goroutine
           /\ next.pc \in {"lookup", "returned"}
           /\ next.pc = "lookup" => next.dp \in 1 .. Len(DistributionPoints(g))
           /\ next.ch = None
           /\ next.res.crl \in {None, res.crl}
           /\ Conclusive(res) => Conclusive(next.res)
<1>1. CASE res.err # nil
  <2>1. AfterResult(g, res) = AfterFailure(g, res.err)
    BY <1>1 DEF AfterResult
  <2>2. res.err \in SUBSET Sentinels
    BY DEF Result
  <2> QED
    BY <2>1, <2>2, AfterFailureType, SMTT(30), SMTT(60) DEF Conclusive
<1>2. CASE res.err = nil
  <2>1. AfterResult(g, res) = [goroutine[g] EXCEPT !.pc = "returned", !.res = res, !.ch = None]
    BY <1>2 DEF AfterResult
  <2>2. goroutine[g] \in Goroutine
    BY DEF TypeOK
  <2> QED
    BY <2>1, <2>2 DEF Goroutine
<1> QED
  BY <1>1, <1>2

(* A lookup gives a result, and a hit that is not an error is the entry's. *)
LEMMA CachedFreshType ==
    ASSUME TypeOK, NEW k \in Keys, NEW issuer
    PROVE  LET hit == cachedFresh(k, issuer) IN
           /\ hit \in Result
           /\ hit = NoResult \/ Conclusive(hit)
           /\ hit.crl # None => entries[k] # None /\ hit.crl = entries[k].crl
<1>1. entries[k] # None => entries[k] \in Entry
  BY DEF TypeOK
<1>2. NoResult \in Result /\ NoResult.crl = None
  BY DEF NoResult, Result, nil
<1>3. Untagged \in SUBSET Sentinels
  BY SentinelFacts DEF Untagged
<1>4. CASE ~Fresh(k)
  BY <1>2, <1>4 DEF cachedFresh
<1>5. CASE Fresh(k) /\ verifyCRLIssuer(entries[k].crl, issuer)
  <2>1. cachedFresh(k, issuer) =
          [err |-> nil, crl |-> entries[k].crl, obtained |-> entries[k].obtained]
    BY <1>5 DEF cachedFresh
  <2>2. entries[k] \in Entry /\ entries[k] # None
    BY <1>1, <1>5 DEF Fresh
  <2> QED
    BY <2>1, <2>2, ConstantsAssumption, SMTT(30), SMTT(60) DEF Entry, Result, nil, Conclusive
<1>6. CASE Fresh(k) /\ ~verifyCRLIssuer(entries[k].crl, issuer)
  BY <1>3, <1>6, FailedType DEF cachedFresh, Conclusive
<1> QED
  BY <1>4, <1>5, <1>6

-----------------------------------------------------------------------------
(* Type correctness of a step in which one goroutine moves on.             *)
LEMMA GoroutineMoves ==
    ASSUME TypeOK, NEW g \in Goroutines, goroutine[g].pc # "idle",
           NEW next \in Goroutine,
           next.pc \in {"lookup", "join", "wait"} => next.dp \in 1 .. Len(DistributionPoints(g)),
           goroutine' = [goroutine EXCEPT ![g] = next],
           flights' \in [Keys -> Flight \cup {None}],
           UNCHANGED <<now, entries, phase, token, ctx, answer>>
    PROVE  TypeOK'
<1>1. goroutine' \in [Goroutines -> Goroutine]
  BY DEF TypeOK
<1>2. \A h \in Goroutines : DistributionPoints(h)' = DistributionPoints(h)
  BY DEF DistributionPoints
<1>3. \A h \in Goroutines : goroutine'[h] = IF h = g THEN next ELSE goroutine[h]
  BY DEF TypeOK
<1>4. phase[g[1]] = "fetching"
  BY DEF TypeOK
<1>5. ASSUME NEW h \in Goroutines
      PROVE  /\ goroutine'[h].pc # "idle" => phase'[h[1]] = "fetching"
             /\ goroutine'[h].pc \in {"lookup", "join", "wait"} =>
                    goroutine'[h].dp \in 1 .. Len(DistributionPoints(h)')
  BY <1>2, <1>3, <1>4 DEF TypeOK
<1> QED
  BY <1>1, <1>5 DEF TypeOK

(* Type correctness of a step of a shared call that touches no goroutine.  *)
LEMMA CallMoves ==
    ASSUME TypeOK,
           entries' \in [Keys -> Entry \cup {None}],
           flights' \in [Keys -> Flight \cup {None}],
           now' \in Nat,
           ctx' \in [Requests -> {"live"} \cup ContextErrors],
           UNCHANGED <<phase, token, goroutine, answer>>
    PROVE  TypeOK'
<1>1. \A h \in Goroutines : DistributionPoints(h)' = DistributionPoints(h)
  BY DEF DistributionPoints
<1> QED
  BY <1>1 DEF TypeOK

(* Land records the outcome of a fetch.                                    *)
LEMMA LandType ==
    ASSUME TypeOK, NEW k \in Keys, flights[k] # None, NEW res \in Result, Land(k, res)
    PROVE  flights' \in [Keys -> Flight \cup {None}]
<1>1. flights[k] \in Flight
  BY DEF TypeOK
<1>2. flights' = [flights EXCEPT ![k] =
            [flights[k] EXCEPT !.res = res, !.phase = IF res.err = nil THEN "storing" ELSE "done"]]
  BY DEF Land, TypeOK
<1>3. [flights[k] EXCEPT !.res = res, !.phase = IF res.err = nil THEN "storing" ELSE "done"] \in Flight
  BY <1>1 DEF Flight
<1> QED
  BY <1>2, <1>3 DEF TypeOK

(* What a fetch can come back with is a result, and a conclusive one.      *)
LEMMA OutcomeType ==
    ASSUME TypeOK, NEW k \in Keys
    PROVE  /\ \A err \in FetchErrors :
                 FetchFailure(err) \in Result /\ FetchFailure(err).err # nil
                                              /\ FetchFailure(err).crl = None
           /\ \A body \in CRLs \cup {None} :
                 /\ Accept(k, body) \in Result /\ Conclusive(Accept(k, body))
                 /\ Accept(k, body).err = nil => Accept(k, body).crl # None
                 /\ Accept(k, body).crl # None => BoundTo(Accept(k, body).crl, k[2])
<1>1. ASSUME NEW err \in FetchErrors
      PROVE  FetchFailure(err) \in Result /\ FetchFailure(err).err # nil /\ FetchFailure(err).crl = None
  <2>1. err \in SUBSET Sentinels
    BY SentinelFacts
  <2>2. TagFetchError(err) \in SUBSET Sentinels
    BY <2>1, SentinelFacts DEF TagFetchError, Wrap
  <2> QED
    BY <2>2, FailedType DEF FetchFailure
<1>2. ASSUME NEW body \in CRLs \cup {None}
      PROVE  /\ Accept(k, body) \in Result /\ Conclusive(Accept(k, body))
             /\ Accept(k, body).err = nil => Accept(k, body).crl # None
             /\ Accept(k, body).crl # None => BoundTo(Accept(k, body).crl, k[2])
  <2>1. Untagged \in SUBSET Sentinels
    BY SentinelFacts DEF Untagged
  <2>2. CASE body = None \/ ~verifyCRLIssuer(body, k[2]) \/ NextUpdate[body] = 0
    BY <2>1, <2>2, FailedType DEF Accept, Conclusive
  <2>3. CASE ~(body = None \/ ~verifyCRLIssuer(body, k[2]) \/ NextUpdate[body] = 0)
    <3>1. Accept(k, body) = [err |-> nil, crl |-> body, obtained |-> now]
      BY <2>3 DEF Accept
    <3>2. now \in Nat /\ body \in CRLs
      BY <2>3 DEF TypeOK
    <3> QED
      BY <2>3, <3>1, <3>2 DEF Result, nil, Conclusive, BoundTo, verifyCRLIssuer
  <2> QED
    BY <2>2, <2>3
<1> QED
  BY <1>1, <1>2

-----------------------------------------------------------------------------
IndInv == TypeOK /\ WaitersWait

(* The initial state is well typed and no call is in flight.               *)
LEMMA IndInvInit == Init => IndInv
<1> SUFFICES ASSUME Init PROVE IndInv
  OBVIOUS
<1>1. Idle \in Goroutine /\ Idle.pc = "idle" /\ Idle.ch = None
  BY DEF Idle, Goroutine, NoResult, Result, nil
<1>2. [err |-> nil, leaf |-> None, intermediate |-> None] \in Answer
  BY DEF Answer, nil
<1>3. TypeOK
  BY <1>1, <1>2 DEF Init, TypeOK
<1>4. WaitersWait
  BY <1>1 DEF Init, WaitersWait
<1> QED
  BY <1>3, <1>4 DEF IndInv

(* Starting a request disturbs no call: its goroutines were idle, so they  *)
(* wait for none.                                                          *)
LEMMA StartKeepsInv ==
    ASSUME IndInv, NEW r \in Requests, FetchCRLsForToken(r)
    PROVE  IndInv'
<1> USE DEF IndInv
<1>1. PICK t \in Tokens :
        /\ token' = [token EXCEPT ![r] = t]
        /\ \/ /\ phase' = [phase EXCEPT ![r] = "fetching"]
              /\ UNCHANGED answer
              /\ goroutine' = [g \in Goroutines |->
                    IF g[1] = r THEN FirstPoint(CRLDistributionPoints[Subject(t, g[2])])
                                ELSE goroutine[g]]
           \/ /\ phase' = [phase EXCEPT ![r] = "answered"]
              /\ answer' = [answer EXCEPT ![r] =
                                [err |-> Untagged, leaf |-> None, intermediate |-> None]]
              /\ UNCHANGED goroutine
  BY DEF FetchCRLsForToken
<1>2. phase[r] = "idle" /\ UNCHANGED <<now, entries, flights, ctx>>
  BY DEF FetchCRLsForToken
<1>3. \A g \in Goroutines : g[1] \in Requests /\ g[2] \in Branches
  BY DEF Goroutines
<1>4. \A g \in Goroutines : g[1] = r => goroutine[g].pc = "idle" /\ goroutine[g].ch = None
  BY <1>2 DEF TypeOK, WaitersWait
<1>5. \A g \in Goroutines : g[1] # r => DistributionPoints(g)' = DistributionPoints(g)
  BY <1>1, <1>3 DEF DistributionPoints, TypeOK
<1>6. ASSUME NEW points \in Seq(Urls)
      PROVE  LET first == FirstPoint(points) IN
             /\ first \in Goroutine /\ first.ch = None
             /\ first.pc \in {"lookup", "returned"}
             /\ first.pc = "lookup" => first.dp \in 1 .. Len(points)
  <2>1. points # <<>> => 1 \in 1 .. Len(points)
    OBVIOUS
  <2>2. CASE points = <<>>
    BY <2>2 DEF FirstPoint, Idle, Goroutine, NoResult, Result, nil
  <2>3. CASE points # <<>>
    BY <2>1, <2>3 DEF FirstPoint, Idle, Goroutine, NoResult, Result, nil
  <2> QED
    BY <2>2, <2>3
<1>7. t \in [x5c : BOOLEAN, root : Certs, intermediate : Certs, leaf : Certs]
  BY ConstantsAssumption
<1>8. \A g \in Goroutines : g[1] = r =>
        /\ DistributionPoints(g)' = CRLDistributionPoints[Subject(t, g[2])]
        /\ DistributionPoints(g)' \in Seq(Urls)
  <2>1. token'[r] = t
    BY <1>1 DEF TypeOK
  <2>2. \A g \in Goroutines : Subject(t, g[2]) \in Certs
    BY <1>7 DEF Subject
  <2> QED
    BY <2>1, <2>2, ConstantsAssumption DEF DistributionPoints
<1>9. \A g \in Goroutines :
        /\ goroutine'[g] \in Goroutine
        /\ g[1] = r => goroutine'[g].ch = None /\ goroutine'[g].pc \in {"idle", "lookup", "returned"}
        /\ g[1] # r => goroutine'[g] = goroutine[g]
        /\ goroutine'[g].pc # "idle" => phase'[g[1]] = "fetching"
        /\ goroutine'[g].pc \in {"lookup", "join", "wait"} =>
               goroutine'[g].dp \in 1 .. Len(DistributionPoints(g)')
  <2> SUFFICES ASSUME NEW g \in Goroutines
               PROVE  /\ goroutine'[g] \in Goroutine
                      /\ g[1] = r => /\ goroutine'[g].ch = None
                                     /\ goroutine'[g].pc \in {"idle", "lookup", "returned"}
                      /\ g[1] # r => goroutine'[g] = goroutine[g]
                      /\ goroutine'[g].pc # "idle" => phase'[g[1]] = "fetching"
                      /\ goroutine'[g].pc \in {"lookup", "join", "wait"} =>
                             goroutine'[g].dp \in 1 .. Len(DistributionPoints(g)')
    OBVIOUS
  <2>1. goroutine[g] \in Goroutine /\ g[1] \in Requests
    BY <1>3 DEF TypeOK
  <2>2. CASE g[1] # r
    BY <1>1, <1>5, <2>1, <2>2 DEF TypeOK
  <2>3. CASE g[1] = r /\ goroutine' = goroutine
    BY <1>4, <2>1, <2>3
  <2>4. CASE g[1] = r /\ goroutine' # goroutine
    <3>1. goroutine'[g] = FirstPoint(DistributionPoints(g)')
      BY <1>1, <1>8, <2>4
    <3>2. phase'[g[1]] = "fetching"
      BY <1>1, <2>4 DEF TypeOK
    <3> QED
      BY <1>6, <1>8, <2>4, <3>1, <3>2
  <2> QED
    BY <2>2, <2>3, <2>4
<1>10. TypeOK'
  <2>1. goroutine' \in [Goroutines -> Goroutine]
    BY <1>1, <1>9 DEF TypeOK
  <2>2. [err |-> Untagged, leaf |-> None, intermediate |-> None] \in Answer
    BY SentinelFacts DEF Untagged, Answer
  <2>3. answer' \in [Requests -> Answer] /\ token' \in [Requests -> Tokens \cup {None}]
    BY <1>1, <2>2 DEF TypeOK
  <2>4. phase' \in [Requests -> {"idle", "fetching", "answered"}]
    BY <1>1 DEF TypeOK
  <2>5. \A q \in Requests : phase'[q] # "idle" => token'[q] \in Tokens
    BY <1>1 DEF TypeOK
  <2> QED
    BY <1>2, <1>9, <2>1, <2>3, <2>4, <2>5 DEF TypeOK
<1>11. WaitersWait'
  <2>1. ASSUME NEW g \in Goroutines, goroutine[g].pc = "wait"
        PROVE  goroutine'[g] = goroutine[g] /\ KeyOf(g)' = KeyOf(g)
    <3>1. g[1] # r
      BY <1>4, <2>1
    <3>2. token'[g[1]] = token[g[1]]
      BY <1>1, <1>3, <3>1 DEF TypeOK
    <3> QED
      BY <1>5, <1>9, <3>1, <3>2 DEF KeyOf
  <2>2. \A k \in Keys : flights[k] # None => flights[k].waiters \subseteq Goroutines
    BY DEF TypeOK, Flight
  <2>3. ASSUME NEW g \in Goroutines, goroutine'[g].ch # None
        PROVE  goroutine'[g].pc = "wait" /\ Conclusive(goroutine'[g].ch)
    BY <1>9, <2>3 DEF WaitersWait
  <2> QED
    BY <1>2, <2>1, <2>2, <2>3, SMTT(30), SMTT(60) DEF WaitersWait
<1> QED
  BY <1>10, <1>11

(* A request that collects its goroutines leaves no waiter behind: both    *)
(* had returned.                                                           *)
LEMMA CollectKeepsInv ==
    ASSUME IndInv, NEW r \in Requests, Collect(r)
    PROVE  IndInv'
<1> USE DEF IndInv
<1>1. /\ goroutine' = [g \in Goroutines |-> IF g[1] = r THEN Idle ELSE goroutine[g]]
      /\ phase' = [phase EXCEPT ![r] = "answered"]
      /\ phase[r] = "fetching"
      /\ UNCHANGED <<now, entries, flights, token, ctx>>
  BY DEF Collect
<1>2. Idle \in Goroutine /\ Idle.pc = "idle" /\ Idle.ch = None
  BY DEF Idle, Goroutine, NoResult, Result, nil
<1>3. answer' \in [Requests -> Answer]
  <2>1. <<r, "leaf">> \in Goroutines /\ <<r, "intermediate">> \in Goroutines
    BY DEF Goroutines, Branches
  <2>2. goroutine[<<r, "leaf">>].res \in Result /\ goroutine[<<r, "intermediate">>].res \in Result
    BY <2>1 DEF TypeOK, Goroutine
  <2> QED
    BY <2>2 DEF Collect, TypeOK, Result, Answer, nil
<1>4. \A g \in Goroutines : g[1] \in Requests /\ g[2] \in Branches /\ g = <<g[1], g[2]>>
  BY DEF Goroutines
<1>5. \A g \in Goroutines : g[1] = r => goroutine[g].pc = "returned"
  BY <1>4 DEF Collect
<1>6. \A g \in Goroutines : DistributionPoints(g)' = DistributionPoints(g)
  BY <1>1 DEF DistributionPoints
<1>7. TypeOK'
  <2>1. goroutine' \in [Goroutines -> Goroutine]
    BY <1>1, <1>2 DEF TypeOK
  <2>2. \A q \in Requests : phase'[q] # "idle" => token'[q] \in Tokens
    BY <1>1 DEF TypeOK
  <2>3. ASSUME NEW g \in Goroutines
        PROVE  /\ goroutine'[g].pc # "idle" => phase'[g[1]] = "fetching"
               /\ goroutine'[g].pc \in {"lookup", "join", "wait"} =>
                      goroutine'[g].dp \in 1 .. Len(DistributionPoints(g)')
    <3>1. CASE g[1] = r
      BY <1>1, <1>2, <3>1
    <3>2. CASE g[1] # r
      BY <1>1, <1>4, <1>6, <3>2 DEF TypeOK
    <3> QED
      BY <3>1, <3>2
  <2> QED
    BY <1>1, <1>3, <2>1, <2>2, <2>3 DEF TypeOK
<1>8. WaitersWait'
  <2>1. ASSUME NEW g \in Goroutines, goroutine[g].pc = "wait"
        PROVE  goroutine'[g] = goroutine[g] /\ KeyOf(g)' = KeyOf(g)
    <3>1. goroutine'[g] = goroutine[g]
      BY <1>1, <1>5, <2>1
    <3> QED
      BY <1>1, <1>6, <3>1 DEF KeyOf
  <2>2. \A k \in Keys : flights[k] # None => flights[k].waiters \subseteq Goroutines
    BY DEF TypeOK, Flight
  <2>3. ASSUME NEW g \in Goroutines, goroutine'[g].ch # None
        PROVE  goroutine'[g].pc = "wait" /\ Conclusive(goroutine'[g].ch)
    BY <1>1, <1>2, <2>3 DEF WaitersWait
  <2> QED
    BY <1>1, <2>1, <2>2, <2>3, SMTT(30), SMTT(60) DEF WaitersWait
<1> QED
  BY <1>7, <1>8

(* Waiters are the same after a step that leaves the goroutines alone and  *)
(* changes one call without adding to its waiters.                         *)
LEMMA CallStepKeepsWaiters ==
    ASSUME IndInv, NEW k \in Keys, flights[k] # None, NEW call \in Flight,
           flights' = [flights EXCEPT ![k] = call],
           call.waiters = flights[k].waiters,
           call.phase = "storing" => call.res.crl # None,
           call.phase = "done" => Conclusive(call.res),
           UNCHANGED <<token, goroutine>>
    PROVE  WaitersWait'
<1> USE DEF IndInv
<1>1. \A g \in Goroutines : KeyOf(g)' = KeyOf(g)
  BY DEF KeyOf, DistributionPoints
<1>2. \A j \in Keys : flights[j] # None => flights[j].waiters \subseteq Goroutines
  BY DEF TypeOK, Flight
<1>3. ASSUME NEW j \in Keys, flights'[j] # None
      PROVE  /\ flights'[j].phase = "storing" => flights'[j].res.crl # None
             /\ flights'[j].phase = "done" => Conclusive(flights'[j].res)
             /\ \A g \in flights'[j].waiters :
                   goroutine'[g].pc = "wait" /\ goroutine'[g].ch = None /\ KeyOf(g)' = j
  <2>1. CASE j = k
    <3>1. flights'[j] = call
      BY <2>1 DEF TypeOK
    <3> QED
      BY <1>1, <1>2, <2>1, <3>1 DEF WaitersWait
  <2>2. CASE j # k
    <3>1. flights'[j] = flights[j]
      BY <2>2 DEF TypeOK
    <3> QED
      BY <1>1, <1>2, <1>3, <3>1 DEF WaitersWait
  <2> QED
    BY <2>1, <2>2
<1>4. \A g \in Goroutines : goroutine'[g].ch # None =>
         goroutine'[g].pc = "wait" /\ Conclusive(goroutine'[g].ch)
  BY DEF WaitersWait
<1> QED
  BY <1>3, <1>4 DEF WaitersWait

(* The steps of a shared call before it is over.                           *)
LEMMA CallStepsKeepInv ==
    ASSUME IndInv, NEW k \in Keys, Recheck(k) \/ Fetch(k) \/ Store(k)
    PROVE  IndInv'
<1> USE DEF IndInv
<1>0. flights[k] # None /\ flights[k] \in Flight
  BY DEF Recheck, Fetch, Store, TypeOK
<1>1. CASE Recheck(k)
  <2> DEFINE hit == cachedFresh(k, k[2])
             call == IF hit = NoResult THEN [flights[k] EXCEPT !.phase = "fetching"]
                     ELSE [flights[k] EXCEPT !.phase = "done", !.res = hit]
  <2>1. hit \in Result /\ (hit = NoResult \/ Conclusive(hit))
    BY CachedFreshType
  <2>2. /\ flights' = [flights EXCEPT ![k] = call]
        /\ UNCHANGED <<now, entries, phase, token, ctx, goroutine, answer>>
    BY <1>1 DEF Recheck, TypeOK
  <2> HIDE DEF hit
  <2>3. call \in Flight /\ call.waiters = flights[k].waiters
    BY <1>0, <2>1 DEF Flight
  <2>4. call.phase # "storing" /\ (call.phase = "done" => Conclusive(call.res))
    BY <1>0, <2>1 DEF Flight
  <2> HIDE DEF call
  <2>5. WaitersWait'
    BY <1>0, <2>2, <2>3, <2>4, CallStepKeepsWaiters
  <2>6. TypeOK'
    BY <2>2, <2>3, CallMoves DEF TypeOK
  <2> QED
    BY <2>5, <2>6
<1>2. CASE Fetch(k)
  <2>1. PICK res \in Result :
          Land(k, res) /\ Conclusive(res) /\ (res.err = nil => res.crl # None)
    BY <1>2, OutcomeType DEF Fetch, Conclusive
  <2> DEFINE call == [flights[k] EXCEPT !.res = res,
                          !.phase = IF res.err = nil THEN "storing" ELSE "done"]
  <2>2. /\ flights' = [flights EXCEPT ![k] = call]
        /\ UNCHANGED <<now, entries, phase, token, ctx, goroutine, answer>>
    BY <1>2, <2>1 DEF Fetch, Land, TypeOK
  <2>3. call \in Flight /\ call.waiters = flights[k].waiters
    BY <1>0 DEF Flight
  <2>4. (call.phase = "storing" => call.res.crl # None) /\ (call.phase = "done" => Conclusive(call.res))
    BY <1>0, <2>1 DEF Flight
  <2> HIDE DEF call
  <2>5. WaitersWait'
    BY <1>0, <2>2, <2>3, <2>4, CallStepKeepsWaiters
  <2>6. TypeOK'
    BY <2>2, <2>3, CallMoves DEF TypeOK
  <2> QED
    BY <2>5, <2>6
<1>3. CASE Store(k)
  <2> DEFINE call == [flights[k] EXCEPT !.phase = "done"]
  <2>1. /\ flights' = [flights EXCEPT ![k] = call]
        /\ UNCHANGED <<now, phase, token, ctx, goroutine, answer>>
    BY <1>3 DEF Store, TypeOK
  <2>2. flights[k].res.crl # None
    BY <1>0, <1>3 DEF Store, WaitersWait
  <2>3. call \in Flight /\ call.waiters = flights[k].waiters /\ Conclusive(call.res)
    BY <1>0, <2>2 DEF Flight, Conclusive
  <2>4. entries' \in [Keys -> Entry \cup {None}]
    <3>1. PICK kept \in RoomFor(k) :
            entries' = [kept EXCEPT ![k] = [crl |-> flights[k].res.crl, fetchedAt |-> now,
                                            obtained |-> flights[k].res.obtained]]
      BY <1>3 DEF Store
    <3>2. evictStaleEntries(entries) \in [Keys -> Entry \cup {None}]
      BY DEF evictStaleEntries, TypeOK
    <3>3. \A es \in [Keys -> Entry \cup {None}] :
            evictOldestEntry(es) \subseteq [Keys -> Entry \cup {None}]
      BY DEF evictOldestEntry, Cached
    <3>4. kept \in [Keys -> Entry \cup {None}]
      BY <3>2, <3>3 DEF RoomFor, TypeOK
    <3>5. [crl |-> flights[k].res.crl, fetchedAt |-> now, obtained |-> flights[k].res.obtained] \in Entry
      BY <1>0, <2>2 DEF Flight, Result, Entry, TypeOK
    <3> QED
      BY <3>1, <3>4, <3>5
  <2>5. call.phase = "done"
    BY <1>0 DEF Flight
  <2> HIDE DEF call
  <2>6. WaitersWait'
    BY <1>0, <2>1, <2>3, <2>5, CallStepKeepsWaiters
  <2>7. TypeOK'
    BY <2>1, <2>3, <2>4, CallMoves DEF TypeOK
  <2> QED
    BY <2>6, <2>7
<1> QED
  BY <1>1, <1>2, <1>3

(* A call that is over hands its result to its own waiters and to no one   *)
(* else's: a goroutine waits for one key at a time.                        *)
LEMMA FinishKeepsInv ==
    ASSUME IndInv, NEW k \in Keys, Finish(k)
    PROVE  IndInv'
<1> USE DEF IndInv
<1>1. /\ flights[k] # None /\ flights[k] \in Flight /\ flights[k].phase = "done"
      /\ flights' = [flights EXCEPT ![k] = None]
      /\ goroutine' = [g \in Goroutines |->
            IF g \in flights[k].waiters
            THEN [goroutine[g] EXCEPT !.ch = flights[k].res] ELSE goroutine[g]]
      /\ UNCHANGED <<now, entries, phase, token, ctx, answer>>
  BY DEF Finish, TypeOK
<1>2. flights[k].res \in Result /\ Conclusive(flights[k].res)
  BY <1>1 DEF Flight, WaitersWait
<1>3. \A g \in Goroutines :
        /\ goroutine'[g] \in Goroutine
        /\ goroutine'[g].pc = goroutine[g].pc /\ goroutine'[g].dp = goroutine[g].dp
        /\ g \in flights[k].waiters => goroutine'[g].ch = flights[k].res
        /\ g \notin flights[k].waiters => goroutine'[g] = goroutine[g]
  BY <1>1, <1>2 DEF TypeOK, Goroutine
<1>4. \A g \in Goroutines :
        DistributionPoints(g)' = DistributionPoints(g) /\ KeyOf(g)' = KeyOf(g)
  BY <1>1, <1>3 DEF DistributionPoints, KeyOf
<1>5. TypeOK'
  <2>1. goroutine' \in [Goroutines -> Goroutine] /\ flights' \in [Keys -> Flight \cup {None}]
    BY <1>1, <1>3 DEF TypeOK
  <2> QED
    BY <1>1, <1>3, <1>4, <2>1 DEF TypeOK
<1>6. ASSUME NEW j \in Keys, flights'[j] # None
      PROVE  /\ flights'[j].phase = "storing" => flights'[j].res.crl # None
             /\ flights'[j].phase = "done" => Conclusive(flights'[j].res)
             /\ \A g \in flights'[j].waiters :
                   goroutine'[g].pc = "wait" /\ goroutine'[g].ch = None /\ KeyOf(g)' = j
  <2>1. j # k /\ flights'[j] = flights[j] /\ flights[j] \in Flight
    BY <1>1, <1>6 DEF TypeOK
  <2>2. \A g \in flights[j].waiters : g \in Goroutines /\ g \notin flights[k].waiters
    BY <1>1, <1>6, <2>1 DEF WaitersWait, Flight
  <2> QED
    BY <1>3, <1>4, <1>6, <2>1, <2>2, SMTT(30), SMTT(60) DEF WaitersWait
<1>7. ASSUME NEW g \in Goroutines, goroutine'[g].ch # None
      PROVE  goroutine'[g].pc = "wait" /\ Conclusive(goroutine'[g].ch)
  BY <1>1, <1>2, <1>3, <1>7 DEF WaitersWait
<1> QED
  BY <1>5, <1>6, <1>7 DEF WaitersWait

(* A goroutine that no call has among its waiters moves on with an empty   *)
(* channel.                                                                *)
LEMMA FreeGoroutineKeepsWaiters ==
    ASSUME IndInv, NEW g \in Goroutines, NEW next, next.ch = None,
           goroutine' = [goroutine EXCEPT ![g] = next],
           \A k \in Keys : flights[k] # None => g \notin flights[k].waiters,
           UNCHANGED <<flights, token>>
    PROVE  WaitersWait'
<1> USE DEF IndInv
<1>1. \A h \in Goroutines : goroutine'[h] = IF h = g THEN next ELSE goroutine[h]
  BY DEF TypeOK
<1>2. \A h \in Goroutines : h # g => KeyOf(h)' = KeyOf(h)
  BY <1>1 DEF KeyOf, DistributionPoints
<1>3. \A j \in Keys : flights[j] # None => flights[j].waiters \subseteq Goroutines
  BY DEF TypeOK, Flight
<1> QED
  BY <1>1, <1>2, <1>3, SMTT(30), SMTT(60) DEF WaitersWait

(* The fast path of getOrFetchCRL.                                         *)
LEMMA LookupKeepsInv ==
    ASSUME IndInv, NEW g \in Goroutines, Lookup(g)
    PROVE  IndInv'
<1> USE DEF IndInv
<1> DEFINE hit == cachedFresh(KeyOf(g), Issuer(token[g[1]], g[2]))
           moved == IF hit = NoResult THEN [goroutine[g] EXCEPT !.pc = "join"] ELSE AfterResult(g, hit)
           next == [moved EXCEPT !.start = now]
<1>1. /\ goroutine[g].pc = "lookup"
      /\ goroutine' = [goroutine EXCEPT ![g] = next]
      /\ UNCHANGED <<now, entries, flights, phase, token, ctx, answer>>
  BY DEF Lookup
<1>2. hit \in Result
  BY <1>1, KeyOfType, CachedFreshType
<1>3. goroutine[g] \in Goroutine /\ now \in Nat /\ goroutine[g].ch = None
  BY <1>1 DEF TypeOK, WaitersWait
<1>4. goroutine[g].dp \in 1 .. Len(DistributionPoints(g))
  BY <1>1 DEF TypeOK
<1> HIDE DEF hit
<1>5. /\ moved \in Goroutine /\ moved.ch = None
      /\ moved.pc \in {"lookup", "join", "wait"} => moved.dp \in 1 .. Len(DistributionPoints(g))
  <2>1. CASE hit = NoResult
    BY <1>3, <1>4, <2>1 DEF Goroutine
  <2>2. CASE hit # NoResult
    BY <1>1, <1>2, <2>2, AfterResultType
  <2> QED
    BY <2>1, <2>2
<1> HIDE DEF moved
<1>6. /\ next \in Goroutine /\ next.ch = None
      /\ next.pc \in {"lookup", "join", "wait"} => next.dp \in 1 .. Len(DistributionPoints(g))
  BY <1>3, <1>5 DEF Goroutine
<1> HIDE DEF next
<1>7. TypeOK'
  BY <1>1, <1>6, GoroutineMoves DEF TypeOK
<1>8. \A k \in Keys : flights[k] # None => g \notin flights[k].waiters
  BY <1>1 DEF WaitersWait
<1>9. WaitersWait'
  BY <1>1, <1>6, <1>8, FreeGoroutineKeepsWaiters
<1> QED
  BY <1>7, <1>9

(* A waiter that reads its channel.                                        *)
LEMMA SelectResultKeepsInv ==
    ASSUME IndInv, NEW g \in Goroutines, SelectResult(g)
    PROVE  IndInv'
<1> USE DEF IndInv
<1> DEFINE res == goroutine[g].ch
           next == IF res.err = nil /\ ~verifyCRLIssuer(res.crl, Issuer(token[g[1]], g[2]))
                   THEN AfterFailure(g, Untagged) ELSE AfterResult(g, res)
<1>1. /\ goroutine[g].pc = "wait" /\ res # None
      /\ goroutine' = [goroutine EXCEPT ![g] = next]
      /\ UNCHANGED <<now, entries, flights, phase, token, ctx, answer>>
  BY DEF SelectResult
<1>2. res \in Result
  BY <1>1 DEF TypeOK, Goroutine
<1>3. Untagged \in SUBSET Sentinels
  BY SentinelFacts DEF Untagged
<1>4. /\ next \in Goroutine /\ next.ch = None
      /\ next.pc \in {"lookup", "join", "wait"} => next.dp \in 1 .. Len(DistributionPoints(g))
  <2> HIDE DEF res
  <2>1. CASE res.err = nil /\ ~verifyCRLIssuer(res.crl, Issuer(token[g[1]], g[2]))
    BY <1>1, <1>3, <2>1, AfterFailureType
  <2>2. CASE ~(res.err = nil /\ ~verifyCRLIssuer(res.crl, Issuer(token[g[1]], g[2])))
    BY <1>1, <1>2, <2>2, AfterResultType
  <2> QED
    BY <2>1, <2>2
<1> HIDE DEF next
<1>5. TypeOK'
  BY <1>1, <1>4, GoroutineMoves DEF TypeOK
<1>6. \A k \in Keys : flights[k] # None => g \notin flights[k].waiters
  BY <1>1 DEF WaitersWait
<1>7. WaitersWait'
  BY <1>1, <1>4, <1>6, FreeGoroutineKeepsWaiters
<1> QED
  BY <1>5, <1>7

(* A caller registers with the call of the key it is after.                *)
LEMMA DoChanKeepsInv ==
    ASSUME IndInv, NEW g \in Goroutines, DoChan(g)
    PROVE  IndInv'
<1> USE DEF IndInv
<1> DEFINE k == KeyOf(g)
           call == IF flights[k] = None
                   THEN [phase |-> "recheck", res |-> NoResult, waiters |-> {g}, began |-> now]
                   ELSE [flights[k] EXCEPT !.waiters = @ \cup {g}]
           next == [goroutine[g] EXCEPT !.pc = "wait"]
<1>1. /\ goroutine[g].pc = "join"
      /\ flights' = [flights EXCEPT ![k] = call]
      /\ goroutine' = [goroutine EXCEPT ![g] = next]
      /\ UNCHANGED <<now, entries, phase, token, ctx, answer>>
  BY DEF DoChan, TypeOK
<1>2. k \in Keys /\ goroutine[g] \in Goroutine /\ goroutine[g].ch = None /\ now \in Nat
  BY <1>1, KeyOfType DEF TypeOK, WaitersWait
<1>3. next \in Goroutine /\ next.pc = "wait" /\ next.ch = None /\ next.dp = goroutine[g].dp
  BY <1>2 DEF Goroutine
<1>4. call \in Flight
  <2>1. NoResult \in Result
    BY DEF NoResult, Result, nil
  <2>2. flights[k] # None => flights[k] \in Flight
    BY <1>2 DEF TypeOK
  <2> QED
    BY <1>2, <2>1, <2>2 DEF Flight
<1>5. flights[k] = None => call.phase = "recheck" /\ call.waiters = {g}
  OBVIOUS
<1>6. flights[k] # None => /\ call.phase = flights[k].phase /\ call.res = flights[k].res
                           /\ call.waiters = flights[k].waiters \cup {g}
  BY <1>2, SMTT(30), SMTT(60) DEF TypeOK, Flight
<1>7. \A h \in Goroutines : goroutine'[h] = IF h = g THEN next ELSE goroutine[h]
  BY <1>1 DEF TypeOK
<1>8. goroutine[g].dp \in 1 .. Len(DistributionPoints(g))
  BY <1>1 DEF TypeOK
<1>9. \A h \in Goroutines : KeyOf(h)' = KeyOf(h)
  BY <1>1, <1>3, <1>7 DEF KeyOf, DistributionPoints
<1>10. \A j \in Keys : flights[j] # None => flights[j].waiters \subseteq Goroutines \ {g}
  BY <1>1 DEF TypeOK, Flight, WaitersWait
<1>11. \A j \in Keys : flights'[j] = IF j = k THEN call ELSE flights[j]
  BY <1>1 DEF TypeOK
<1>12. KeyOf(g)' = k
  BY <1>9
<1> HIDE DEF next, call, k
<1>13. TypeOK'
  <2>1. flights' \in [Keys -> Flight \cup {None}]
    BY <1>1, <1>4 DEF TypeOK
  <2>2. next.dp \in 1 .. Len(DistributionPoints(g))
    BY <1>3, <1>8
  <2> QED
    BY <1>1, <1>3, <2>1, <2>2, GoroutineMoves
<1>14. ASSUME NEW j \in Keys, flights'[j] # None
       PROVE  /\ flights'[j].phase = "storing" => flights'[j].res.crl # None
              /\ flights'[j].phase = "done" => Conclusive(flights'[j].res)
              /\ \A h \in flights'[j].waiters :
                    goroutine'[h].pc = "wait" /\ goroutine'[h].ch = None /\ KeyOf(h)' = j
  <2>1. CASE j # k
    BY <1>7, <1>9, <1>10, <1>11, <1>14, <2>1 DEF WaitersWait
  <2>2. CASE j = k /\ flights[k] = None
    BY <1>3, <1>5, <1>7, <1>11, <1>12, <2>2
  <2>3. CASE j = k /\ flights[k] # None
    <3>1. \A h \in flights[k].waiters :
            goroutine'[h].pc = "wait" /\ goroutine'[h].ch = None /\ KeyOf(h)' = k
      BY <1>2, <1>7, <1>9, <1>10, <2>3, SMTT(30), SMTT(60) DEF WaitersWait
    <3> QED
      BY <1>2, <1>3, <1>6, <1>7, <1>11, <1>12, <2>3, <3>1 DEF WaitersWait
  <2> QED
    BY <2>1, <2>2, <2>3
<1>15. ASSUME NEW h \in Goroutines, goroutine'[h].ch # None
       PROVE  goroutine'[h].pc = "wait" /\ Conclusive(goroutine'[h].ch)
  BY <1>3, <1>7, <1>15 DEF WaitersWait
<1> QED
  BY <1>13, <1>14, <1>15 DEF WaitersWait

(* A caller that gives up is no longer among the waiters of any call.      *)
LEMMA SelectDoneKeepsInv ==
    ASSUME IndInv, NEW g \in Goroutines, SelectDone(g)
    PROVE  IndInv'
<1> USE DEF IndInv
<1> DEFINE next == AfterFailure(g, {ctx[g[1]]})
<1>1. /\ goroutine[g].pc = "wait" /\ ctx[g[1]] # "live"
      /\ goroutine' = [goroutine EXCEPT ![g] = next]
      /\ flights' = [k \in Keys |->
            IF flights[k] = None THEN None ELSE [flights[k] EXCEPT !.waiters = @ \ {g}]]
      /\ UNCHANGED <<now, entries, phase, token, ctx, answer>>
  BY DEF SelectDone
<1>2. {ctx[g[1]]} \in SUBSET Sentinels
  <2>1. g[1] \in Requests
    BY <1>1, AtWork
  <2> QED
    BY <1>1, <2>1, SentinelFacts DEF TypeOK
<1>3. /\ next \in Goroutine /\ next.ch = None
      /\ next.pc \in {"lookup", "join", "wait"} => next.dp \in 1 .. Len(DistributionPoints(g))
  BY <1>1, <1>2, AfterFailureType
<1> HIDE DEF next
<1>4. \A k \in Keys : flights[k] # None =>
        /\ flights[k] \in Flight /\ flights'[k] \in Flight
        /\ flights'[k].phase = flights[k].phase /\ flights'[k].res = flights[k].res
        /\ flights'[k].waiters = flights[k].waiters \ {g}
  BY <1>1 DEF TypeOK, Flight
<1>5. flights' \in [Keys -> Flight \cup {None}]
  BY <1>1, <1>4
<1>6. TypeOK'
  BY <1>1, <1>3, <1>5, GoroutineMoves
<1>7. \A h \in Goroutines : goroutine'[h] = IF h = g THEN next ELSE goroutine[h]
  BY <1>1 DEF TypeOK
<1>8. \A h \in Goroutines : h # g => KeyOf(h)' = KeyOf(h)
  BY <1>1, <1>7 DEF KeyOf, DistributionPoints
<1>9. ASSUME NEW j \in Keys, flights'[j] # None
      PROVE  /\ flights'[j].phase = "storing" => flights'[j].res.crl # None
             /\ flights'[j].phase = "done" => Conclusive(flights'[j].res)
             /\ \A h \in flights'[j].waiters :
                   goroutine'[h].pc = "wait" /\ goroutine'[h].ch = None /\ KeyOf(h)' = j
  <2>1. flights[j] # None
    BY <1>1, <1>9
  <2>2. \A h \in flights'[j].waiters : h \in Goroutines /\ h # g /\ h \in flights[j].waiters
    BY <1>4, <2>1 DEF Flight
  <2> QED
    BY <1>4, <1>7, <1>8, <2>1, <2>2, SMTT(30), SMTT(60) DEF WaitersWait
<1>10. ASSUME NEW h \in Goroutines, goroutine'[h].ch # None
       PROVE  goroutine'[h].pc = "wait" /\ Conclusive(goroutine'[h].ch)
  BY <1>3, <1>7, <1>10 DEF WaitersWait
<1> QED
  BY <1>6, <1>9, <1>10 DEF WaitersWait

(* Contexts ending, the clock and Close leave goroutines and calls alone.  *)
LEMMA EnvironmentKeepsInv ==
    ASSUME IndInv, (\E r \in Requests : ContextDone(r)) \/ Close \/ Tick \/ UNCHANGED vars
    PROVE  IndInv'
<1> USE DEF IndInv
<1>1. UNCHANGED <<flights, phase, token, goroutine, answer>>
  BY DEF ContextDone, Close, Tick, vars
<1>2. /\ entries' \in [Keys -> Entry \cup {None}] /\ now' \in Nat
      /\ ctx' \in [Requests -> {"live"} \cup ContextErrors]
  BY SMTT(30), SMTT(60) DEF ContextDone, Close, Tick, vars, TypeOK
<1>3. flights' \in [Keys -> Flight \cup {None}]
  BY <1>1 DEF TypeOK
<1>4. TypeOK'
  BY <1>1, <1>2, <1>3, CallMoves
<1>5. \A g \in Goroutines : KeyOf(g)' = KeyOf(g)
  BY <1>1 DEF KeyOf, DistributionPoints
<1>6. \A j \in Keys : flights[j] # None => flights[j].waiters \subseteq Goroutines
  BY DEF TypeOK, Flight
<1>7. WaitersWait'
  BY <1>1, <1>5, <1>6 DEF WaitersWait
<1> QED
  BY <1>4, <1>7

(* Every step keeps the inductive invariant.                               *)
LEMMA IndInvStep == IndInv /\ [Next]_vars => IndInv'
<1> SUFFICES ASSUME IndInv, [Next]_vars PROVE IndInv'
  OBVIOUS
<1>1. CASE \E r \in Requests : FetchCRLsForToken(r) \/ Collect(r)
  BY <1>1, StartKeepsInv, CollectKeepsInv
<1>2. CASE \E g \in Goroutines : CallerStep(g)
  BY <1>2, LookupKeepsInv, DoChanKeepsInv, SelectDoneKeepsInv, SelectResultKeepsInv
     DEF CallerStep
<1>3. CASE \E k \in Keys : FlightStep(k)
  BY <1>3, CallStepsKeepInv, FinishKeepsInv DEF FlightStep
<1>4. CASE (\E r \in Requests : ContextDone(r)) \/ Close \/ Tick \/ UNCHANGED vars
  BY <1>4, EnvironmentKeepsInv
<1> QED
  BY <1>1, <1>2, <1>3, <1>4 DEF Next

-----------------------------------------------------------------------------
(***************************************************************************)
(* What the store of the cache keeps: its bound, and that nothing is       *)
(* fetched that it already holds fresh.                                    *)
(***************************************************************************)

(* Making room only ever takes entries away.                               *)
LEMMA RoomForRemoves ==
    ASSUME NEW k \in Keys, NEW kept \in RoomFor(k), entries \in [Keys -> Entry \cup {None}]
    PROVE  kept \in [Keys -> Entry \cup {None}] /\ \A j \in Keys : kept[j] \in {None, entries[j]}
<1>1. /\ evictStaleEntries(entries) \in [Keys -> Entry \cup {None}]
      /\ \A j \in Keys : evictStaleEntries(entries)[j] \in {None, entries[j]}
  BY DEF evictStaleEntries
<1>2. \A es \in [Keys -> Entry \cup {None}] : \A e \in evictOldestEntry(es) :
        e \in [Keys -> Entry \cup {None}] /\ \A j \in Keys : e[j] \in {None, es[j]}
  BY DEF evictOldestEntry, Cached
<1> QED
  BY <1>1, <1>2 DEF RoomFor

(* Once entries[k] is absent, room made for it leaves at most MaxEntries-1.*)
LEMMA RoomForMakesRoom ==
    ASSUME NEW k \in Keys, NEW kept \in RoomFor(k), entries[k] = None,
           entries \in [Keys -> Entry \cup {None}], CacheBounded
    PROVE  IsFiniteSet(Cached(kept)) /\ Cardinality(Cached(kept)) + 1 <= MaxEntries
<1> DEFINE swept == IF Full(entries) THEN evictStaleEntries(entries) ELSE entries
<1>1. \A es : IsFiniteSet(Cached(es)) /\ Cardinality(Cached(es)) \in Nat
  BY ConstantsAssumption, FS_Subset, FS_CardinalityType DEF Cached
<1>2. Cached(swept) \subseteq Cached(entries)
  BY DEF Cached, evictStaleEntries
<1>3. Cardinality(Cached(swept)) <= MaxEntries
  <2>1. Cardinality(Cached(swept)) <= Cardinality(Cached(entries))
    BY <1>1, <1>2, FS_Subset
  <2>2. MaxEntries \in Nat
    BY ConstantsAssumption
  <2> HIDE DEF swept
  <2> QED
    BY <1>1, <2>1, <2>2 DEF CacheBounded
<1>4. swept \in [Keys -> Entry \cup {None}]
  BY DEF evictStaleEntries
<1>5. kept \in IF Full(swept) THEN evictOldestEntry(swept) ELSE {swept}
  BY DEF RoomFor
<1> HIDE DEF swept
<1>6. CASE ~Full(swept)
  BY <1>1, <1>5, <1>6, ConstantsAssumption, SMTT(30), SMTT(60) DEF Full
<1>7. CASE Full(swept)
  <2>1. PICK j \in Cached(swept) : kept = [swept EXCEPT ![j] = None]
    BY <1>5, <1>7 DEF evictOldestEntry
  <2>2. Cached(kept) = Cached(swept) \ {j}
    BY <1>4, <2>1 DEF Cached
  <2>3. Cardinality(Cached(kept)) = Cardinality(Cached(swept)) - 1
    BY <1>1, <2>1, <2>2, FS_RemoveElement
  <2> QED
    BY <1>1, <1>3, <2>3, ConstantsAssumption, SMTT(30), SMTT(60)
<1> QED
  BY <1>6, <1>7

(* The CRL cache never holds more than crlMaxEntries entries, whichever    *)
(* shared calls race to store theirs.                                      *)
THEOREM CacheIsBounded == Spec => []CacheBounded
<1>1. Init => CacheBounded
  <2> SUFFICES ASSUME Init PROVE CacheBounded
    OBVIOUS
  <2>1. Cached(entries) = {}
    BY DEF Init, Cached
  <2> QED
    BY <2>1, FS_EmptySet, ConstantsAssumption, SMTT(30), SMTT(60) DEF CacheBounded
<1>2. IndInv /\ CacheBounded /\ [Next]_vars => CacheBounded'
  <2> SUFFICES ASSUME IndInv, CacheBounded, [Next]_vars PROVE CacheBounded'
    OBVIOUS
  <2>1. entries \in [Keys -> Entry \cup {None}]
    BY DEF IndInv, TypeOK
  <2>2. CASE UNCHANGED entries
    BY <2>2 DEF CacheBounded, Cached
  <2>3. CASE Close
    <3>1. Cached(entries') = {}
      BY <2>3 DEF Close, Cached
    <3> QED
      BY <3>1, FS_EmptySet, ConstantsAssumption, SMTT(30), SMTT(60) DEF CacheBounded
  <2>4. ASSUME NEW k \in Keys, Store(k)
        PROVE  CacheBounded'
    <3> DEFINE e == [crl |-> flights[k].res.crl, fetchedAt |-> now,
                     obtained |-> flights[k].res.obtained]
    <3>1. PICK kept \in RoomFor(k) : entries' = [kept EXCEPT ![k] = e]
      BY <2>4 DEF Store
    <3>2. kept \in [Keys -> Entry \cup {None}]
      BY <2>1, RoomForRemoves
    <3>3. Cached(entries') \subseteq Cached(kept) \cup {k}
      BY <3>1, <3>2 DEF Cached
    <3>4. \A es : IsFiniteSet(Cached(es)) /\ Cardinality(Cached(es)) \in Nat
      BY ConstantsAssumption, FS_Subset, FS_CardinalityType DEF Cached
    <3>5. CacheBounded' <=> Cardinality(Cached(entries')) <= MaxEntries
      BY DEF CacheBounded, Cached
    <3>6. MaxEntries \in Nat
      BY ConstantsAssumption
    <3>7. CASE entries[k] = None
      <4>1. Cardinality(Cached(kept)) + 1 <= MaxEntries
        BY <2>1, <3>7, RoomForMakesRoom
      <4>2. /\ IsFiniteSet(Cached(kept) \cup {k})
            /\ Cardinality(Cached(kept) \cup {k}) <= Cardinality(Cached(kept)) + 1
        BY <3>4, FS_AddElement, SMTT(30), SMTT(60)
      <4>3. /\ Cardinality(Cached(entries')) <= Cardinality(Cached(kept) \cup {k})
            /\ Cardinality(Cached(kept) \cup {k}) \in Nat
        BY <3>3, <4>2, FS_Subset, FS_CardinalityType
      <4> QED
        BY <3>4, <3>5, <3>6, <4>1, <4>2, <4>3
    <3>8. CASE entries[k] # None
      <4>1. kept = entries
        BY <3>8 DEF RoomFor
      <4>2. Cached(kept) \cup {k} = Cached(entries)
        BY <3>8, <4>1 DEF Cached
      <4>3. Cardinality(Cached(entries')) <= Cardinality(Cached(entries))
        BY <3>3, <3>4, <4>2, FS_Subset
      <4> QED
        BY <3>4, <3>5, <3>6, <4>3 DEF CacheBounded
    <3> QED
      BY <3>7, <3>8
  <2> QED
    BY <2>2, <2>3, <2>4 DEF Next, vars, FetchCRLsForToken, Collect, ContextDone, CallerStep,
       Lookup, DoChan, SelectDone, SelectResult, FlightStep, Recheck, Fetch, Finish, Tick
<1>3. Spec => []IndInv
  BY IndInvInit, IndInvStep, PTL DEF Spec
<1> QED
  BY <1>1, <1>2, <1>3, PTL DEF Spec

-----------------------------------------------------------------------------
(* A shared call that is about to fetch looked for an entry inside the     *)
(* call, and only the call itself stores under its key; time can only make *)
(* an entry staler.  So no fetch is made for a key that is cached.         *)
THEOREM NoRedundantFetch == Spec => []FetchOnlyOnMiss
<1>1. Init => FetchOnlyOnMiss
  BY SMTT(30), SMTT(60) DEF Init, FetchOnlyOnMiss
<1>2. IndInv /\ FetchOnlyOnMiss /\ [Next]_vars => FetchOnlyOnMiss'
  <2> SUFFICES ASSUME IndInv, FetchOnlyOnMiss, [Next]_vars,
                      NEW k \in Keys, flights'[k] # None, flights'[k].phase = "fetching"
               PROVE  ~Fresh(k)'
    BY DEF FetchOnlyOnMiss
  <2> USE DEF IndInv
  <2>1. ASSUME flights[k] # None, flights[k].phase = "fetching",
               entries'[k] \in {None, entries[k]}, now' \in Nat, now' >= now
        PROVE  ~Fresh(k)'
    <3>1. entries[k] = None \/ isEntryStale(entries[k])
      BY <2>1 DEF FetchOnlyOnMiss, Fresh
    <3>2. CASE entries'[k] = None
      BY <3>2 DEF Fresh
    <3>3. CASE entries'[k] # None
      <4>1. entries[k] \in Entry /\ entries'[k] = entries[k] /\ now \in Nat
        BY <2>1, <3>3 DEF TypeOK
      <4>2. NextUpdate[entries[k].crl] \in Nat /\ entries[k].fetchedAt \in Nat
        BY <4>1, ConstantsAssumption DEF Entry
      <4>3. MaxCacheTTL \in Nat
        BY ConstantsAssumption
      <4> QED
        BY <2>1, <3>1, <3>3, <4>1, <4>2, <4>3 DEF Fresh, isEntryStale
    <3> QED
      BY <3>2, <3>3
  <2>2. ASSUME UNCHANGED <<now, entries>>, flights[k] # None, flights[k].phase = "fetching"
        PROVE  ~Fresh(k)'
    BY <2>1, <2>2, SMTT(30), SMTT(60) DEF TypeOK
  <2>3. CASE UNCHANGED <<now, entries, flights>>
    BY <2>2, <2>3
  <2>4. ASSUME NEW g \in Goroutines, DoChan(g)
        PROVE  ~Fresh(k)'
    <3>1. KeyOf(g) \in Keys
      BY <2>4, KeyOfType DEF DoChan
    <3>2. flights[k] # None /\ flights[k].phase = "fetching"
      BY <2>4, <3>1 DEF DoChan, TypeOK, Flight
    <3> QED
      BY <2>2, <2>4, <3>2 DEF DoChan
  <2>5. ASSUME NEW g \in Goroutines, SelectDone(g)
        PROVE  ~Fresh(k)'
    <3>1. flights[k] # None /\ flights[k].phase = "fetching"
      BY <2>5 DEF SelectDone, TypeOK, Flight
    <3> QED
      BY <2>2, <2>5, <3>1 DEF SelectDone
  <2>6. ASSUME NEW j \in Keys, Recheck(j)
        PROVE  ~Fresh(k)'
    <3>1. CASE j # k
      BY <2>2, <2>6, <3>1 DEF Recheck, TypeOK
    <3>2. CASE j = k
      <4>1. cachedFresh(k, k[2]) = NoResult
        BY <2>6, <3>2 DEF Recheck, TypeOK, Flight
      <4>2. entries[k] # None => entries[k].crl # None
        BY ConstantsAssumption DEF TypeOK, Entry
      <4>3. Failed(Untagged) # NoResult
        BY DEF Failed, NoResult, Wrap, nil
      <4>4. ~Fresh(k)
        BY <4>1, <4>2, <4>3 DEF cachedFresh, NoResult, Fresh
      <4> QED
        BY <2>6, <4>4 DEF Recheck, Fresh, isEntryStale
    <3> QED
      BY <3>1, <3>2
  <2>7. ASSUME NEW j \in Keys, Fetch(j) \/ Finish(j)
        PROVE  ~Fresh(k)'
    <3>1. j # k
      <4>1. \A res : Land(k, res) => flights'[k].phase # "fetching" \/ flights[k] = None
        BY DEF Land, TypeOK, Flight
      <4>2. ~Fetch(k)
        BY <4>1 DEF Fetch
      <4>3. ~Finish(k)
        BY DEF Finish, TypeOK
      <4> QED
        BY <2>7, <4>2, <4>3
    <3>2. flights'[k] = flights[k]
      BY <2>7, <3>1 DEF Fetch, Finish, Land, TypeOK
    <3> QED
      BY <2>2, <2>7, <3>2 DEF Fetch, Finish
  <2>8. ASSUME NEW j \in Keys, Store(j)
        PROVE  ~Fresh(k)'
    <3>1. j # k
      BY <2>8 DEF Store, TypeOK, Flight
    <3>2. flights'[k] = flights[k] /\ now' = now
      BY <2>8, <3>1 DEF Store, TypeOK
    <3>3. PICK kept \in RoomFor(j) :
            entries' = [kept EXCEPT ![j] = [crl |-> flights[j].res.crl, fetchedAt |-> now,
                                            obtained |-> flights[j].res.obtained]]
      BY <2>8 DEF Store
    <3>4. kept \in [Keys -> Entry \cup {None}] /\ kept[k] \in {None, entries[k]}
      BY RoomForRemoves DEF TypeOK
    <3>5. entries'[k] \in {None, entries[k]}
      BY <3>1, <3>3, <3>4
    <3> QED
      BY <2>1, <3>2, <3>5, SMTT(30), SMTT(60) DEF TypeOK
  <2>9. CASE Close
    BY <2>9 DEF Close, Fresh
  <2>10. CASE Tick
    BY <2>1, <2>10, SMTT(30), SMTT(60) DEF Tick, TypeOK
  <2> QED
    BY <2>3, <2>4, <2>5, <2>6, <2>7, <2>8, <2>9, <2>10
       DEF Next, vars, FetchCRLsForToken, Collect, ContextDone, CallerStep, Lookup,
           SelectResult, FlightStep
<1>3. Spec => []IndInv
  BY IndInvInit, IndInvStep, PTL DEF Spec
<1> QED
  BY <1>1, <1>2, <1>3, PTL DEF Spec

-----------------------------------------------------------------------------
(***************************************************************************)
(* Every CRL stays with the issuer it was fetched for, from the call that  *)
(* fetched it, through the cache, to the answer of a request.              *)
(***************************************************************************)

(* AnswersBindToIssuer, split by the state it speaks of, and what it needs *)
(* of requests that have not started: they hold no CRL yet.                *)
CallsBound ==
    \A k \in Keys :
        /\ entries[k] # None => BoundTo(entries[k].crl, k[2])
        /\ flights[k] # None /\ flights[k].res.crl # None => BoundTo(flights[k].res.crl, k[2])

GoroutineBound(g) ==
    LET issuer == Issuer(token[g[1]], g[2]) IN
    /\ goroutine[g].ch # None /\ goroutine[g].ch.crl # None => BoundTo(goroutine[g].ch.crl, issuer)
    /\ goroutine[g].res.crl # None => BoundTo(goroutine[g].res.crl, issuer)
    /\ goroutine[g].pc = "idle" => goroutine[g].res.crl = None

AnswerBound(r) ==
    /\ answer[r].leaf # None => BoundTo(answer[r].leaf, token[r].intermediate)
    /\ answer[r].intermediate # None => BoundTo(answer[r].intermediate, token[r].root)
    /\ phase[r] = "idle" => answer[r].leaf = None /\ answer[r].intermediate = None

BindInv ==
    CallsBound /\ (\A g \in Goroutines : GoroutineBound(g)) /\ (\A r \in Requests : AnswerBound(r))

(* Entries and calls stay bound to the issuer of their key.                *)
LEMMA CallsStayBound ==
    ASSUME IndInv, BindInv, [Next]_vars PROVE CallsBound'
<1> SUFFICES ASSUME NEW k \in Keys
             PROVE  /\ entries'[k] # None => BoundTo(entries'[k].crl, k[2])
                    /\ flights'[k] # None /\ flights'[k].res.crl # None =>
                           BoundTo(flights'[k].res.crl, k[2])
  BY DEF CallsBound, BoundTo
<1> USE DEF IndInv, BindInv
<1>1. CASE UNCHANGED <<entries, flights>>
  BY <1>1 DEF CallsBound
<1>2. ASSUME NEW g \in Goroutines, DoChan(g) \/ SelectDone(g)
      PROVE  /\ flights'[k] # None /\ flights'[k].res.crl # None =>
                    BoundTo(flights'[k].res.crl, k[2])
             /\ entries' = entries
  <2>1. CASE DoChan(g)
    <3>1. KeyOf(g) \in Keys
      BY <2>1, KeyOfType DEF DoChan
    <3>2. flights'[k] # None => flights'[k].res.crl = None
                              \/ (flights[k] # None /\ flights'[k].res = flights[k].res)
      BY <2>1, <3>1 DEF DoChan, TypeOK, Flight, NoResult
    <3> QED
      BY <2>1, <3>2 DEF CallsBound, DoChan
  <2>2. CASE SelectDone(g)
    <3>1. flights'[k] # None => flights[k] # None /\ flights'[k].res = flights[k].res
      BY <2>2 DEF SelectDone, TypeOK, Flight
    <3> QED
      BY <2>2, <3>1 DEF CallsBound, SelectDone
  <2> QED
    BY <1>2, <2>1, <2>2
<1>3. ASSUME NEW j \in Keys, Recheck(j) \/ Fetch(j) \/ Finish(j)
      PROVE  /\ flights'[k] # None /\ flights'[k].res.crl # None =>
                    BoundTo(flights'[k].res.crl, k[2])
             /\ entries' = entries
  <2>1. entries' = entries
    BY <1>3 DEF Recheck, Fetch, Finish
  <2>2. CASE j # k
    <3>1. flights'[k] = flights[k]
      BY <1>3, <2>2 DEF Recheck, Fetch, Land, Finish, TypeOK
    <3> QED
      BY <2>1, <3>1 DEF CallsBound
  <2>3. CASE j = k /\ Recheck(k)
    <3> DEFINE hit == cachedFresh(k, k[2])
    <3>1. hit.crl # None => entries[k] # None /\ hit.crl = entries[k].crl
      BY CachedFreshType
    <3> HIDE DEF hit
    <3>2. flights'[k].res = flights[k].res \/ flights'[k].res = hit
      BY <2>3 DEF Recheck, TypeOK, Flight, hit
    <3>3. flights[k] # None
      BY <2>3 DEF Recheck
    <3> QED
      BY <2>1, <3>1, <3>2, <3>3 DEF CallsBound
  <2>4. CASE j = k /\ Fetch(k)
    <3>1. PICK res : Land(k, res) /\ (res.crl # None => BoundTo(res.crl, k[2]))
      BY <2>4, OutcomeType DEF Fetch
    <3>2. flights[k] \in Flight
      BY <2>4 DEF Fetch, TypeOK
    <3>3. flights'[k].res = res
      BY <3>1, <3>2 DEF Land, TypeOK, Flight
    <3> QED
      BY <2>1, <3>1, <3>3
  <2>5. CASE j = k /\ Finish(k)
    BY <2>1, <2>5 DEF Finish, TypeOK
  <2> QED
    BY <1>3, <2>2, <2>3, <2>4, <2>5
<1>4. ASSUME NEW j \in Keys, Store(j)
      PROVE  /\ entries'[k] # None => BoundTo(entries'[k].crl, k[2])
             /\ flights'[k] # None /\ flights'[k].res.crl # None =>
                    BoundTo(flights'[k].res.crl, k[2])
  <2> DEFINE e == [crl |-> flights[j].res.crl, fetchedAt |-> now, obtained |-> flights[j].res.obtained]
  <2>1. PICK kept \in RoomFor(j) : entries' = [kept EXCEPT ![j] = e]
    BY <1>4 DEF Store
  <2>2. kept \in [Keys -> Entry \cup {None}] /\ kept[k] \in {None, entries[k]}
    BY RoomForRemoves DEF TypeOK
  <2>3. flights[j] # None /\ flights[j].res.crl # None
    BY <1>4 DEF Store, WaitersWait
  <2>4. BoundTo(e.crl, j[2])
    BY <2>3 DEF CallsBound
  <2>5. entries'[k] = IF k = j THEN e ELSE kept[k]
    BY <2>1, <2>2
  <2> HIDE DEF e
  <2>6. entries'[k] # None => BoundTo(entries'[k].crl, k[2])
    BY <2>2, <2>4, <2>5 DEF CallsBound
  <2>7. flights'[k] # None => flights[k] # None /\ flights'[k].res = flights[k].res
    BY <1>4 DEF Store, TypeOK, Flight
  <2> QED
    BY <2>6, <2>7 DEF CallsBound
<1>5. CASE Close
  BY <1>5 DEF Close, CallsBound
<1> QED
  <2>1. entries' = entries => (entries'[k] # None => BoundTo(entries'[k].crl, k[2]))
    BY DEF CallsBound
  <2> QED
    BY <1>1, <1>2, <1>3, <1>4, <1>5, <2>1
       DEF Next, vars, FetchCRLsForToken, Collect, ContextDone, CallerStep, Lookup,
           SelectResult, FlightStep, Tick

(* What a goroutine holds stays bound to the issuer of its certificate.    *)
LEMMA GoroutinesStayBound ==
    ASSUME IndInv, BindInv, [Next]_vars, NEW g \in Goroutines PROVE GoroutineBound(g)'
<1> USE DEF IndInv, BindInv
<1>0. g[1] \in Requests /\ g[2] \in Branches
  BY DEF Goroutines
<1>1. ASSUME goroutine'[g] = goroutine[g], token'[g[1]] = token[g[1]]
      PROVE  GoroutineBound(g)'
  BY <1>1 DEF GoroutineBound, BoundTo
<1>2. ASSUME goroutine'[g].ch = None, goroutine'[g].res.crl = None
      PROVE  GoroutineBound(g)'
  BY <1>2 DEF GoroutineBound
<1>3. ASSUME NEW r \in Requests, FetchCRLsForToken(r)
      PROVE  GoroutineBound(g)'
  <2>1. CASE g[1] # r
    <3>1. goroutine'[g] = goroutine[g]
      BY <1>3, <2>1 DEF FetchCRLsForToken
    <3>2. token'[g[1]] = token[g[1]]
      BY <1>0, <1>3, <2>1 DEF FetchCRLsForToken, TypeOK
    <3> QED
      BY <1>1, <3>1, <3>2
  <2>2. CASE g[1] = r
    <3>1. goroutine[g].pc = "idle" /\ goroutine[g].ch = None /\ goroutine[g].res.crl = None
      BY <1>0, <1>3, <2>2 DEF FetchCRLsForToken, TypeOK, WaitersWait, GoroutineBound
    <3>2. \A points : FirstPoint(points).ch = None /\ FirstPoint(points).res.crl = None
      BY DEF FirstPoint, Idle, NoResult
    <3>3. goroutine'[g] = goroutine[g] \/ \E points : goroutine'[g] = FirstPoint(points)
      BY <1>3, <2>2 DEF FetchCRLsForToken
    <3> QED
      BY <1>2, <3>1, <3>2, <3>3
  <2> QED
    BY <2>1, <2>2
<1>4. ASSUME NEW r \in Requests, Collect(r)
      PROVE  GoroutineBound(g)'
  <2>1. goroutine'[g] = goroutine[g] \/ goroutine'[g] = Idle
    BY <1>4 DEF Collect
  <2>2. token' = token
    BY <1>4 DEF Collect
  <2> QED
    BY <1>1, <1>2, <2>1, <2>2 DEF Idle, NoResult
<1>5. ASSUME NEW h \in Goroutines, CallerStep(h), h # g
      PROVE  GoroutineBound(g)'
  BY <1>1, <1>5 DEF CallerStep, Lookup, DoChan, SelectDone, SelectResult, TypeOK
<1>6. CASE Lookup(g)
  <2> DEFINE hit == cachedFresh(KeyOf(g), Issuer(token[g[1]], g[2]))
             moved == IF hit = NoResult THEN [goroutine[g] EXCEPT !.pc = "join"] ELSE AfterResult(g, hit)
             next == [moved EXCEPT !.start = now]
  <2>1. goroutine[g].pc = "lookup" /\ goroutine[g] \in Goroutine /\ goroutine[g].ch = None
    BY <1>6 DEF Lookup, TypeOK, WaitersWait
  <2>2. KeyOf(g) \in Keys /\ KeyOf(g)[2] = Issuer(token[g[1]], g[2])
    BY <2>1, KeyOfType
  <2>3. /\ hit \in Result
        /\ hit.crl # None => entries[KeyOf(g)] # None /\ hit.crl = entries[KeyOf(g)].crl
    BY <2>2, CachedFreshType
  <2>4. hit.crl # None => BoundTo(hit.crl, Issuer(token[g[1]], g[2]))
    BY <2>2, <2>3 DEF CallsBound
  <2>5. token' = token /\ goroutine'[g] = next
    BY <1>6 DEF Lookup, TypeOK
  <2> HIDE DEF hit
  <2>6. moved \in Goroutine /\ moved.pc # "idle" /\ moved.ch = None
        /\ (moved.res.crl = goroutine[g].res.crl \/ moved.res.crl \in {None, hit.crl})
    <3>1. CASE hit = NoResult
      BY <2>1, <3>1 DEF Goroutine
    <3>2. CASE hit # NoResult
      BY <2>1, <2>3, <3>2, AfterResultType
    <3> QED
      BY <3>1, <3>2
  <2> HIDE DEF moved
  <2>7. next.pc # "idle" /\ next.ch = None /\ next.res = moved.res
    BY <2>6 DEF Goroutine
  <2> HIDE DEF next
  <2> QED
    BY <2>4, <2>5, <2>6, <2>7 DEF GoroutineBound, BoundTo
<1>7. CASE DoChan(g)
  <2>1. /\ goroutine'[g].res = goroutine[g].res /\ goroutine'[g].ch = goroutine[g].ch
        /\ goroutine'[g].pc = "wait" /\ token' = token
    BY <1>7 DEF DoChan, TypeOK, Goroutine
  <2> QED
    BY <2>1 DEF GoroutineBound, BoundTo
<1>8. CASE SelectDone(g)
  <2>1. goroutine[g].pc = "wait" /\ ctx[g[1]] # "live"
    BY <1>8 DEF SelectDone
  <2>2. {ctx[g[1]]} \in SUBSET Sentinels
    BY <1>0, <2>1, SentinelFacts DEF TypeOK
  <2>3. goroutine'[g] = AfterFailure(g, {ctx[g[1]]})
    BY <1>8 DEF SelectDone, TypeOK
  <2> QED
    BY <1>2, <2>1, <2>2, <2>3, AfterFailureType
<1>9. CASE SelectResult(g)
  <2> DEFINE res == goroutine[g].ch
  <2>1. goroutine[g].pc = "wait" /\ res # None /\ token' = token /\ res \in Result
    BY <1>9 DEF SelectResult, TypeOK, Goroutine
  <2>2. goroutine'[g] = AfterFailure(g, Untagged) \/ goroutine'[g] = AfterResult(g, res)
    BY <1>9 DEF SelectResult, TypeOK
  <2>3. Untagged \in SUBSET Sentinels
    BY SentinelFacts DEF Untagged
  <2>4. res.crl # None => BoundTo(res.crl, Issuer(token[g[1]], g[2]))
    BY <2>1 DEF GoroutineBound
  <2> HIDE DEF res
  <2>5. /\ goroutine'[g].ch = None /\ goroutine'[g].pc # "idle"
        /\ goroutine'[g].res.crl \in {None, res.crl}
    <3>1. CASE goroutine'[g] = AfterFailure(g, Untagged)
      BY <1>0, <2>1, <2>3, <3>1, AfterFailureType
    <3>2. CASE goroutine'[g] = AfterResult(g, res)
      BY <1>0, <2>1, <3>2, AfterResultType
    <3> QED
      BY <2>2, <3>1, <3>2
  <2> QED
    BY <2>1, <2>4, <2>5 DEF GoroutineBound, BoundTo
<1>10. ASSUME NEW k \in Keys, Finish(k)
       PROVE  GoroutineBound(g)'
  <2>1. token' = token /\ flights[k] # None
    BY <1>10 DEF Finish
  <2>2. CASE g \notin flights[k].waiters
    BY <1>1, <1>10, <2>1, <2>2 DEF Finish
  <2>3. CASE g \in flights[k].waiters
    <3>1. goroutine[g].pc = "wait" /\ KeyOf(g) = k
      BY <2>1, <2>3 DEF WaitersWait
    <3>2. k[2] = Issuer(token[g[1]], g[2])
      BY <3>1, KeyOfType
    <3>3. /\ goroutine'[g].res = goroutine[g].res /\ goroutine'[g].ch = flights[k].res
          /\ goroutine'[g].pc = "wait"
      BY <1>10, <2>3, <3>1 DEF Finish, TypeOK, Goroutine
    <3> QED
      BY <2>1, <3>2, <3>3 DEF GoroutineBound, BoundTo, CallsBound
  <2> QED
    BY <2>2, <2>3
<1>11. CASE UNCHANGED <<goroutine, token>>
  BY <1>1, <1>11
<1> QED
  BY <1>3, <1>4, <1>5, <1>6, <1>7, <1>8, <1>9, <1>10, <1>11
     DEF Next, vars, ContextDone, CallerStep, FlightStep, Recheck, Fetch, Store, Close, Tick

(* What a request was answered stays bound to the issuers in its token.    *)
LEMMA AnswersStayBound ==
    ASSUME IndInv, BindInv, [Next]_vars, NEW q \in Requests PROVE AnswerBound(q)'
<1> USE DEF IndInv, BindInv
<1>1. ASSUME answer'[q] = answer[q], token'[q] = token[q], phase'[q] = phase[q]
      PROVE  AnswerBound(q)'
  BY <1>1 DEF AnswerBound, BoundTo
<1>2. ASSUME NEW r \in Requests, FetchCRLsForToken(r)
      PROVE  AnswerBound(q)'
  <2>1. CASE q # r
    BY <1>1, <1>2, <2>1 DEF FetchCRLsForToken, TypeOK
  <2>2. CASE q = r
    <3>1. answer[q].leaf = None /\ answer[q].intermediate = None
      BY <1>2, <2>2 DEF FetchCRLsForToken, AnswerBound
    <3>2. answer'[q].leaf = None /\ answer'[q].intermediate = None
      BY <1>2, <2>2, <3>1, SMTT(30), SMTT(60) DEF FetchCRLsForToken, TypeOK
    <3> QED
      BY <3>2 DEF AnswerBound
  <2> QED
    BY <2>1, <2>2
<1>3. ASSUME NEW r \in Requests, Collect(r)
      PROVE  AnswerBound(q)'
  <2>1. CASE q # r
    BY <1>1, <1>3, <2>1 DEF Collect, TypeOK
  <2>2. CASE q = r
    <3>1. <<r, "leaf">> \in Goroutines /\ <<r, "intermediate">> \in Goroutines
      BY DEF Goroutines, Branches
    <3>2. /\ answer'[r].leaf \in {None, goroutine[<<r, "leaf">>].res.crl}
          /\ answer'[r].intermediate \in {None, goroutine[<<r, "intermediate">>].res.crl}
          /\ token' = token /\ phase'[r] = "answered"
      BY <1>3 DEF Collect, TypeOK
    <3>3. /\ GoroutineBound(<<r, "leaf">>) /\ GoroutineBound(<<r, "intermediate">>)
      BY <3>1
    <3>4. /\ Issuer(token[r], "leaf") = token[r].intermediate
          /\ Issuer(token[r], "intermediate") = token[r].root
      BY DEF Issuer
    <3> QED
      BY <2>2, <3>2, <3>3, <3>4 DEF AnswerBound, GoroutineBound, BoundTo
  <2> QED
    BY <2>1, <2>2
<1>4. CASE UNCHANGED <<answer, token, phase>>
  BY <1>1, <1>4
<1> QED
  BY <1>2, <1>3, <1>4
     DEF Next, vars, ContextDone, CallerStep, Lookup, DoChan, SelectDone, SelectResult,
         FlightStep, Recheck, Fetch, Store, Finish, Close, Tick

(* No request is ever given, and no call or cache entry ever holds, a CRL  *)
(* that is not of the exact issuer it is kept under.                       *)
THEOREM CRLsBindToIssuer == Spec => []AnswersBindToIssuer
<1>1. Init => BindInv
  BY SMTT(30), SMTT(60) DEF Init, BindInv, CallsBound, GoroutineBound, AnswerBound, Idle, NoResult
<1>2. IndInv /\ BindInv /\ [Next]_vars => BindInv'
  BY CallsStayBound, GoroutinesStayBound, AnswersStayBound DEF BindInv
<1>3. BindInv => AnswersBindToIssuer
  BY DEF BindInv, CallsBound, GoroutineBound, AnswerBound, AnswersBindToIssuer
<1>4. Spec => []IndInv
  BY IndInvInit, IndInvStep, PTL DEF Spec
<1> QED
  BY <1>1, <1>2, <1>3, <1>4, PTL DEF Spec

-----------------------------------------------------------------------------
(***************************************************************************)
(* What one step does to a goroutine and to a shared call, for the         *)
(* invariants below.                                                       *)
(***************************************************************************)

(* A token is fixed before its goroutines start.                           *)
LEMMA TokenStays ==
    ASSUME IndInv, [Next]_vars, NEW r \in Requests, phase[r] # "idle"
    PROVE  token'[r] = token[r]
<1>1. ASSUME NEW q \in Requests, FetchCRLsForToken(q) PROVE token'[r] = token[r]
  BY <1>1 DEF FetchCRLsForToken, IndInv, TypeOK
<1>2. CASE UNCHANGED token
  BY <1>2
<1> QED
  BY <1>1, <1>2
     DEF Next, vars, Collect, ContextDone, CallerStep, Lookup, DoChan, SelectDone, SelectResult,
         FlightStep, Recheck, Fetch, Store, Finish, Close, Tick

Starts(g) ==
    /\ FetchCRLsForToken(g[1]) /\ phase'[g[1]] = "fetching"
    /\ goroutine'[g] = FirstPoint(CRLDistributionPoints[Subject(token'[g[1]], g[2])])

Receives(g) ==
    \E k \in Keys :
        /\ Finish(k) /\ g \in flights[k].waiters
        /\ goroutine'[g] = [goroutine[g] EXCEPT !.ch = flights[k].res]

(* A goroutine stays, starts, ends with its request, makes a step of its   *)
(* own, or is sent the result of the call it waits on.                     *)
LEMMA GoroutineSteps ==
    ASSUME IndInv, [Next]_vars, NEW g \in Goroutines
    PROVE  \/ goroutine'[g] = goroutine[g]
           \/ Starts(g)
           \/ Collect(g[1]) /\ goroutine'[g] = Idle
           \/ CallerStep(g)
           \/ Receives(g)
<1>0. g[1] \in Requests
  BY DEF Goroutines
<1>1. ASSUME NEW r \in Requests, FetchCRLsForToken(r)
      PROVE  goroutine'[g] = goroutine[g] \/ Starts(g)
  <2>1. PICK t \in Tokens :
          /\ token' = [token EXCEPT ![r] = t]
          /\ \/ UNCHANGED goroutine
             \/ /\ phase' = [phase EXCEPT ![r] = "fetching"]
                /\ goroutine' = [h \in Goroutines |->
                       IF h[1] = r THEN FirstPoint(CRLDistributionPoints[Subject(t, h[2])])
                                   ELSE goroutine[h]]
    BY <1>1 DEF FetchCRLsForToken
  <2>2. CASE g[1] = r /\ goroutine' # goroutine
    <3>1. token'[r] = t /\ phase'[r] = "fetching"
      BY <1>0, <2>1, <2>2 DEF IndInv, TypeOK
    <3> QED
      BY <1>1, <2>1, <2>2, <3>1, SMTT(30), SMTT(60) DEF Starts
  <2> QED
    BY <2>1, <2>2
<1>2. ASSUME NEW r \in Requests, Collect(r)
      PROVE  goroutine'[g] = goroutine[g] \/ (Collect(g[1]) /\ goroutine'[g] = Idle)
  <2>1. goroutine'[g] = IF g[1] = r THEN Idle ELSE goroutine[g]
    BY <1>2 DEF Collect
  <2> QED
    BY <1>2, <2>1
<1>3. ASSUME NEW h \in Goroutines, CallerStep(h), h # g
      PROVE  goroutine'[g] = goroutine[g]
  BY <1>3 DEF CallerStep, Lookup, DoChan, SelectDone, SelectResult, IndInv, TypeOK
<1>4. ASSUME NEW k \in Keys, Finish(k)
      PROVE  goroutine'[g] = goroutine[g] \/ Receives(g)
  <2>1. goroutine'[g] = IF g \in flights[k].waiters
                        THEN [goroutine[g] EXCEPT !.ch = flights[k].res] ELSE goroutine[g]
    BY <1>4 DEF Finish
  <2> QED
    BY <1>4, <2>1 DEF Receives
<1>5. CASE UNCHANGED goroutine
  BY <1>5
<1> QED
  BY <1>1, <1>2, <1>3, <1>4, <1>5
     DEF Next, vars, ContextDone, FlightStep, Recheck, Fetch, Store, Close, Tick

Opens(k) ==
    /\ \E g \in Goroutines : DoChan(g) /\ KeyOf(g) = k
    /\ UNCHANGED now
    /\ flights'[k].phase = "recheck" /\ flights'[k].res = NoResult /\ flights'[k].began = now

Lands(k) ==
    /\ flights[k].phase = "fetching" /\ flights'[k].began = flights[k].began /\ UNCHANGED now
    /\ \/ \E err \in FetchErrors : flights'[k].res = FetchFailure(err)
       \/ \E body \in CRLs \cup {None} : flights'[k].res = Accept(k, body)

(* A shared call that is in flight after a step was so before with the     *)
(* same result, or is opened by a caller, or finds its key in the cache,   *)
(* or lands its fetch.                                                     *)
LEMMA CallSteps ==
    ASSUME IndInv, [Next]_vars, NEW k \in Keys, flights'[k] # None
    PROVE  \/ /\ flights[k] # None
              /\ flights'[k].res = flights[k].res /\ flights'[k].began = flights[k].began
              /\ flights'[k].phase = "storing" => flights[k].phase = "storing"
           \/ Opens(k)
           \/ /\ flights[k] # None /\ UNCHANGED now
              /\ flights'[k].began = flights[k].began /\ flights'[k].phase = "done"
              /\ flights'[k].res = cachedFresh(k, k[2])
           \/ flights[k] # None /\ Lands(k)
<1> DEFINE Same ==
      /\ flights[k] # None
      /\ flights'[k].res = flights[k].res /\ flights'[k].began = flights[k].began
      /\ flights'[k].phase = "storing" => flights[k].phase = "storing"
<1> USE DEF IndInv
<1>0. flights[k] # None => flights[k] \in Flight
  BY DEF TypeOK
<1>1. CASE flights'[k] = flights[k]
  BY <1>1
<1>2. ASSUME NEW g \in Goroutines, DoChan(g)
      PROVE  Same \/ Opens(k)
  <2>1. KeyOf(g) \in Keys
    BY <1>2, KeyOfType DEF DoChan
  <2>2. CASE KeyOf(g) # k
    BY <1>1, <1>2, <2>1, <2>2 DEF DoChan, TypeOK
  <2>3. CASE KeyOf(g) = k /\ flights[k] = None
    <3>1. /\ now' = now
          /\ flights'[k] = [phase |-> "recheck", res |-> NoResult, waiters |-> {g}, began |-> now]
      BY <1>2, <2>1, <2>3 DEF DoChan, TypeOK
    <3>2. \E h \in Goroutines : DoChan(h) /\ KeyOf(h) = k
      BY <1>2, <2>3
    <3> QED
      BY <3>1, <3>2 DEF Opens
  <2>4. CASE KeyOf(g) = k /\ flights[k] # None
    <3>1. flights'[k] = [flights[k] EXCEPT !.waiters = @ \cup {g}]
      BY <1>2, <2>4 DEF DoChan, TypeOK
    <3> QED
      BY <1>0, <2>4, <3>1 DEF Flight
  <2> QED
    BY <2>2, <2>3, <2>4
<1>3. ASSUME NEW g \in Goroutines, SelectDone(g)
      PROVE  Same
  <2>1. flights[k] # None /\ flights'[k] = [flights[k] EXCEPT !.waiters = @ \ {g}]
    BY <1>3 DEF SelectDone
  <2> QED
    BY <1>0, <2>1 DEF Flight
<1>4. ASSUME NEW j \in Keys, FlightStep(j), j # k
      PROVE  Same
  <2>1. flights'[k] = flights[k]
    BY <1>4 DEF FlightStep, Recheck, Fetch, Land, Store, Finish, TypeOK
  <2> QED
    BY <1>1, <2>1
<1>5. CASE Recheck(k)
  <2> DEFINE hit == cachedFresh(k, k[2])
  <2>1. flights[k] # None /\ now' = now
        /\ flights'[k] = IF hit = NoResult THEN [flights[k] EXCEPT !.phase = "fetching"]
                         ELSE [flights[k] EXCEPT !.phase = "done", !.res = hit]
    BY <1>5 DEF Recheck, TypeOK
  <2> HIDE DEF hit
  <2>2. \/ Same
        \/ /\ flights'[k].began = flights[k].began /\ flights'[k].phase = "done"
           /\ flights'[k].res = hit
    BY <1>0, <2>1 DEF Flight
  <2> QED
    BY <2>1, <2>2 DEF hit
<1>6. CASE Fetch(k)
  <2>1. flights[k] # None /\ flights[k].phase = "fetching" /\ now' = now
    BY <1>6 DEF Fetch
  <2>2. ASSUME NEW res, Land(k, res)
        PROVE  flights'[k].res = res /\ flights'[k].began = flights[k].began
    BY <1>0, <2>1, <2>2 DEF Land, TypeOK, Flight
  <2>3. CASE \E err \in FetchErrors : Land(k, FetchFailure(err))
    BY <2>1, <2>2, <2>3 DEF Lands
  <2>4. CASE \E body \in CRLs \cup {None} : Land(k, Accept(k, body))
    BY <2>1, <2>2, <2>4 DEF Lands
  <2> QED
    BY <1>6, <2>1, <2>3, <2>4 DEF Fetch
<1>7. CASE Store(k)
  <2>1. flights[k] # None /\ flights'[k] = [flights[k] EXCEPT !.phase = "done"]
    BY <1>7 DEF Store, TypeOK
  <2> QED
    BY <1>0, <2>1 DEF Flight
<1>8. CASE Finish(k)
  BY <1>8 DEF Finish, TypeOK
<1> QED
  <2>1. CASE \E g \in Goroutines : CallerStep(g)
    BY <1>1, <1>2, <1>3, <2>1 DEF CallerStep, Lookup, SelectResult
  <2>2. CASE \E j \in Keys : FlightStep(j)
    BY <1>4, <1>5, <1>6, <1>7, <1>8, <2>2 DEF FlightStep
  <2>3. CASE UNCHANGED flights
    BY <1>1, <2>3
  <2> QED
    BY <2>1, <2>2, <2>3
       DEF Next, vars, FetchCRLsForToken, Collect, ContextDone, Close, Tick

-----------------------------------------------------------------------------
(***************************************************************************)
(* No caller is left behind in the select of getOrFetchCRL.                *)
(***************************************************************************)

(* A waiter of a call stays one until it gives up or the call ends.        *)
LEMMA WaitersStay ==
    ASSUME IndInv, [Next]_vars, NEW k \in Keys, flights[k] # None,
           NEW g \in flights[k].waiters, ~Finish(k), ~SelectDone(g)
    PROVE  flights'[k] # None /\ g \in flights'[k].waiters
<1> USE DEF IndInv
<1>0. flights[k] \in Flight /\ None \notin Flight
  BY NoneAssumption DEF TypeOK
<1>1. CASE flights'[k] = flights[k]
  BY <1>1
<1>2. ASSUME NEW next \in Flight, flights'[k] = next, g \in next.waiters
      PROVE  flights'[k] # None /\ g \in flights'[k].waiters
  BY <1>0, <1>2
<1>3. ASSUME NEW h \in Goroutines, DoChan(h)
      PROVE  flights'[k] # None /\ g \in flights'[k].waiters
  <2>1. \/ flights'[k] = flights[k]
        \/ flights'[k] = [flights[k] EXCEPT !.waiters = @ \cup {h}]
    BY <1>3 DEF DoChan, TypeOK
  <2>2. [flights[k] EXCEPT !.waiters = @ \cup {h}] \in Flight
    BY <1>0 DEF Flight
  <2>3. g \in [flights[k] EXCEPT !.waiters = @ \cup {h}].waiters
    BY <1>0 DEF Flight
  <2> QED
    BY <1>1, <1>2, <2>1, <2>2, <2>3
<1>4. ASSUME NEW h \in Goroutines, SelectDone(h)
      PROVE  flights'[k] # None /\ g \in flights'[k].waiters
  BY <1>0, <1>4 DEF SelectDone, Flight
<1>5. ASSUME NEW j \in Keys, FlightStep(j)
      PROVE  flights'[k] # None /\ g \in flights'[k].waiters
  <2>1. CASE j # k
    BY <1>1, <1>5, <2>1 DEF FlightStep, Recheck, Fetch, Land, Store, Finish, TypeOK
  <2>2. CASE j = k
    <3>1. ASSUME NEW p \in {"fetching", "storing", "done"}, NEW res \in Result,
                 \/ flights'[k] = [flights[k] EXCEPT !.phase = p]
                 \/ flights'[k] = [flights[k] EXCEPT !.phase = p, !.res = res]
                 \/ flights'[k] = [flights[k] EXCEPT !.res = res, !.phase = p]
          PROVE  flights'[k] # None /\ g \in flights'[k].waiters
      <4>1. flights'[k] \in Flight
        BY <1>0, <3>1 DEF Flight
      <4>2. /\ [flights[k] EXCEPT !.phase = p].waiters = flights[k].waiters
            /\ [flights[k] EXCEPT !.phase = p, !.res = res].waiters = flights[k].waiters
            /\ [flights[k] EXCEPT !.res = res, !.phase = p].waiters = flights[k].waiters
        BY <1>0 DEF Flight
      <4> QED
        BY <1>0, <3>1, <4>1, <4>2
    <3>2. CASE Recheck(k)
      <4> DEFINE hit == cachedFresh(k, k[2])
      <4>1. \/ flights'[k] = [flights[k] EXCEPT !.phase = "fetching"]
            \/ flights'[k] = [flights[k] EXCEPT !.phase = "done", !.res = hit]
        BY <3>2 DEF Recheck, TypeOK
      <4>2. hit \in Result
        BY CachedFreshType
      <4> HIDE DEF hit
      <4> QED
        BY <3>1, <4>1, <4>2
    <3>3. CASE Fetch(k)
      <4>1. PICK res \in Result : Land(k, res)
        BY <3>3, OutcomeType DEF Fetch
      <4>2. PICK p \in {"storing", "done"} :
              flights'[k] = [flights[k] EXCEPT !.res = res, !.phase = p]
        BY <4>1 DEF Land, TypeOK
      <4> QED
        BY <3>1, <4>2
    <3>4. CASE Store(k)
      <4>1. flights'[k] = [flights[k] EXCEPT !.phase = "done"]
        BY <3>4 DEF Store, TypeOK
      <4>2. flights[k].res \in Result
        BY <1>0 DEF Flight
      <4> QED
        BY <3>1, <4>1, <4>2
    <3> QED
      BY <1>5, <2>2, <3>2, <3>3, <3>4 DEF FlightStep
  <2> QED
    BY <2>1, <2>2
<1>6. CASE UNCHANGED flights
  BY <1>1, <1>6
<1> QED
  BY <1>3, <1>4, <1>5, <1>6
     DEF Next, vars, FetchCRLsForToken, Collect, ContextDone, CallerStep, Lookup, SelectResult,
         Close, Tick

(* Every step leaves a waiting caller with a result or with a call.        *)
LEMMA WaitingStaysRegistered ==
    ASSUME IndInv, [Next]_vars, NEW g \in Goroutines, Registered(g)
    PROVE  Registered(g)'
<1> USE DEF IndInv
<1>0. g[1] \in Requests /\ goroutine[g] \in Goroutine
  BY DEF Goroutines, TypeOK
<1>1. ASSUME goroutine'[g].pc # "wait" \/ goroutine'[g].ch # None
      PROVE  Registered(g)'
  BY <1>1 DEF Registered
<1>2. CASE goroutine'[g] = goroutine[g]
  <2> SUFFICES ASSUME goroutine[g].pc = "wait", goroutine[g].ch = None
               PROVE  Registered(g)'
    BY <1>1, <1>2
  <2>1. flights[KeyOf(g)] # None /\ g \in flights[KeyOf(g)].waiters
    BY DEF Registered
  <2>2. KeyOf(g) \in Keys /\ KeyOf(g)' = KeyOf(g)
    <3>1. token'[g[1]] = token[g[1]]
      BY <1>0, AtWork, TokenStays
    <3> QED
      BY <1>2, <3>1, KeyOfType DEF KeyOf, DistributionPoints
  <2>3. ~Finish(KeyOf(g))
    <3>1. flights[KeyOf(g)].res # None
      BY <2>1, <2>2, NoneAssumption DEF TypeOK, Flight
    <3> QED
      <4>1. Finish(KeyOf(g)) =>
              goroutine'[g] = [goroutine[g] EXCEPT !.ch = flights[KeyOf(g)].res]
        BY <2>1 DEF Finish
      <4>2. [goroutine[g] EXCEPT !.ch = flights[KeyOf(g)].res].ch = flights[KeyOf(g)].res
        BY <1>0 DEF Goroutine
      <4> QED
        BY <1>2, <3>1, <4>1, <4>2
  <2>4. ~SelectDone(g)
    <3>1. SelectDone(g) => goroutine'[g] = AfterFailure(g, {ctx[g[1]]})
                           /\ {ctx[g[1]]} \in SUBSET Sentinels
      BY <1>0, SentinelFacts DEF SelectDone, TypeOK
    <3> QED
      BY <1>2, <3>1, AfterFailureType
  <2>5. flights'[KeyOf(g)] # None /\ g \in flights'[KeyOf(g)].waiters
    BY <2>1, <2>2, <2>3, <2>4, WaitersStay
  <2> QED
    BY <2>2, <2>5 DEF Registered
<1>3. CASE Starts(g) \/ goroutine'[g] = Idle
  <2>1. \A points : FirstPoint(points).pc # "wait"
    BY DEF FirstPoint, Idle
  <2>2. goroutine'[g].pc # "wait"
    BY <1>3, <2>1 DEF Starts, Idle
  <2> QED
    BY <1>1, <2>2
<1>4. CASE Lookup(g)
  <2> DEFINE hit == cachedFresh(KeyOf(g), Issuer(token[g[1]], g[2]))
             moved == IF hit = NoResult THEN [goroutine[g] EXCEPT !.pc = "join"] ELSE AfterResult(g, hit)
  <2>1. goroutine[g].pc = "lookup" /\ goroutine'[g] = [moved EXCEPT !.start = now]
    BY <1>4 DEF Lookup, TypeOK
  <2>2. hit \in Result
    BY <2>1, KeyOfType, CachedFreshType
  <2> HIDE DEF hit
  <2>3. moved \in Goroutine /\ moved.pc # "wait"
    BY <1>0, <2>1, <2>2, AfterResultType DEF Goroutine
  <2> HIDE DEF moved
  <2>4. goroutine'[g].pc # "wait"
    BY <2>1, <2>3 DEF Goroutine
  <2> QED
    BY <1>1, <2>4
<1>5. CASE DoChan(g)
  <2>1. goroutine[g].pc = "join" /\ KeyOf(g) \in Keys
    BY <1>5, KeyOfType DEF DoChan
  <2>2. goroutine'[g].dp = goroutine[g].dp /\ token' = token
    BY <1>0, <1>5 DEF DoChan, TypeOK, Goroutine
  <2>3. KeyOf(g)' = KeyOf(g)
    BY <2>2 DEF KeyOf, DistributionPoints
  <2>4. flights[KeyOf(g)] # None => flights[KeyOf(g)] \in Flight
    BY <2>1 DEF TypeOK
  <2>5. None \notin Flight
    BY NoneAssumption
  <2>6. flights'[KeyOf(g)] # None /\ g \in flights'[KeyOf(g)].waiters
    <3> DEFINE k == KeyOf(g)
               opened == [phase |-> "recheck", res |-> NoResult, waiters |-> {g}, began |-> now]
               joined == [flights[k] EXCEPT !.waiters = @ \cup {g}]
    <3>1. flights'[k] = IF flights[k] = None THEN opened ELSE joined
      BY <1>5, <2>1 DEF DoChan, TypeOK
    <3>2. opened \in Flight /\ g \in opened.waiters
      BY DEF Flight, NoResult, Result, nil, TypeOK
    <3>3. flights[k] # None => joined \in Flight /\ g \in joined.waiters
      BY <2>4 DEF Flight
    <3> HIDE DEF k, opened, joined
    <3>4. flights'[k] # None /\ g \in flights'[k].waiters
      BY <2>5, <3>1, <3>2, <3>3
    <3> QED
      BY <3>4 DEF k
  <2> QED
    BY <2>3, <2>6 DEF Registered
<1>6. CASE SelectDone(g)
  <2>1. goroutine'[g] = AfterFailure(g, {ctx[g[1]]}) /\ {ctx[g[1]]} \in SUBSET Sentinels
        /\ goroutine[g].pc = "wait"
    BY <1>0, <1>6, SentinelFacts DEF SelectDone, TypeOK
  <2> QED
    BY <1>1, <2>1, AfterFailureType
<1>7. CASE SelectResult(g)
  <2>1. goroutine[g].pc = "wait" /\ goroutine[g].ch \in Result
        /\ (\/ goroutine'[g] = AfterFailure(g, Untagged)
            \/ goroutine'[g] = AfterResult(g, goroutine[g].ch))
    BY <1>0, <1>7 DEF SelectResult, TypeOK, Goroutine
  <2>2. Untagged \in SUBSET Sentinels
    BY SentinelFacts DEF Untagged
  <2>3. goroutine'[g].pc # "wait"
    BY <2>1, <2>2, AfterFailureType, AfterResultType
  <2> QED
    BY <1>1, <2>3
<1>8. CASE Receives(g)
  <2>1. PICK k \in Keys : flights[k] # None
                          /\ goroutine'[g] = [goroutine[g] EXCEPT !.ch = flights[k].res]
    BY <1>8 DEF Receives, Finish
  <2>2. flights[k] \in Flight
    BY <2>1 DEF TypeOK
  <2>3. flights[k].res # None
    BY <2>2, NoneAssumption DEF Flight
  <2>4. [goroutine[g] EXCEPT !.ch = flights[k].res].ch = flights[k].res
    BY <1>0 DEF Goroutine
  <2> QED
    BY <1>1, <2>1, <2>3, <2>4
<1> QED
  BY <1>2, <1>3, <1>4, <1>5, <1>6, <1>7, <1>8, GoroutineSteps DEF CallerStep

(* In every state of every behaviour the variables are well typed, no      *)
(* result of a shared call reaches a caller that is not waiting for it,    *)
(* and no caller waits for a call that is over without its result.         *)
THEOREM CallsReachTheirWaiters == Spec => [](TypeOK /\ CallsMatchWaiters)
<1> DEFINE AllRegistered == \A g \in Goroutines : Registered(g)
<1>1. Init => IndInv /\ AllRegistered
  <2>1. Init => AllRegistered
    BY SMTT(30), SMTT(60) DEF Init, Registered, Idle
  <2> QED
    BY <2>1, IndInvInit
<1>2. IndInv /\ AllRegistered /\ [Next]_vars => IndInv' /\ AllRegistered'
  BY IndInvStep, WaitingStaysRegistered
<1>3. IndInv /\ AllRegistered => TypeOK /\ CallsMatchWaiters
  BY DEF IndInv, CallsMatchWaiters
<1> QED
  BY <1>1, <1>2, <1>3, PTL DEF Spec

-----------------------------------------------------------------------------
(***************************************************************************)
(* The error a caller gets is the join of what its own distribution points *)
(* failed with.  A shared call carries one failure, tagged, and never the  *)
(* end of a context, since it runs under none.                             *)
(***************************************************************************)
Reported(err) == err # nil => \E e \in FetchErrors \cup {Untagged} : err = TagFetchError(e)

OwnPoints(r) == PointFailures(FetchErrors, ctx[r])

JoinedOwn(g) ==
    /\ goroutine[g].ch # None => Reported(goroutine[g].ch.err)
    /\ goroutine[g].res.err # nil => IsJoined(goroutine[g].res.err, OwnPoints(g[1]))

JoinInv ==
    /\ \A k \in Keys : flights[k] # None => Reported(flights[k].res.err)
    /\ \A g \in Goroutines : JoinedOwn(g)
    /\ \A r \in Requests : answer[r].err # nil => IsJoined(answer[r].err, OwnPoints(r))

(* Only the failure of a fetch can be tagged, and every failure is an      *)
(* error still.                                                            *)
LEMMA TaggedFailures ==
    /\ TagFetchError(Untagged) = Untagged
    /\ \A c \in ContextErrors : TagFetchError({"error", c}) = {"error", c}
    /\ \A e \in PinnedFetchErrors : "error" \in TagFetchError(e)
<1>1. Untagged \notin PinnedFetchErrors
  BY DEF Untagged, PinnedFetchErrors, ResolveErrors, FetchBytesErrors
<1>2. \A c \in ContextErrors : {"error", c} \notin PinnedFetchErrors
  BY DEF ContextErrors, PinnedFetchErrors, ResolveErrors, FetchBytesErrors
<1>3. \A e \in PinnedFetchErrors : "error" \in e
  BY DEF PinnedFetchErrors, ResolveErrors, FetchBytesErrors
<1> QED
  BY <1>1, <1>2, <1>3 DEF TagFetchError, Wrap

(* What a shared call ends with is one failure, tagged, or none.           *)
LEMMA CallsReport ==
    ASSUME NEW k \in Keys
    PROVE  /\ Reported(NoResult.err) /\ Reported(Failed(Untagged).err)
           /\ \A issuer : Reported(cachedFresh(k, issuer).err)
           /\ \A err \in FetchErrors : Reported(FetchFailure(err).err)
           /\ \A body : Reported(Accept(k, body).err)
<1>1. Reported(NoResult.err)
  BY DEF Reported, NoResult
<1>2. Reported(Failed(Untagged).err)
  <2>1. Failed(Untagged).err = Untagged
    BY DEF Failed, Wrap, Untagged
  <2> QED
    BY <2>1, TaggedFailures DEF Reported
<1>3. ASSUME NEW issuer PROVE Reported(cachedFresh(k, issuer).err)
  <2>1. cachedFresh(k, issuer) \in {NoResult, Failed(Untagged)} \/ cachedFresh(k, issuer).err = nil
    BY DEF cachedFresh
  <2> QED
    BY <1>1, <1>2, <2>1 DEF Reported
<1>4. ASSUME NEW body PROVE Reported(Accept(k, body).err)
  <2>1. Accept(k, body) = Failed(Untagged) \/ Accept(k, body).err = nil
    BY DEF Accept
  <2> QED
    BY <1>2, <2>1 DEF Reported
<1>5. ASSUME NEW err \in FetchErrors PROVE Reported(FetchFailure(err).err)
  <2>1. "error" \in TagFetchError(err)
    BY TaggedFailures, ConstantsAssumption
  <2>2. FetchFailure(err).err = TagFetchError(err)
    BY <2>1 DEF FetchFailure, Failed, Wrap
  <2> QED
    BY <2>2 DEF Reported
<1> QED
  BY <1>1, <1>2, <1>3, <1>4, <1>5

(* The failure of one more point extends the join.                         *)
LEMMA JoinExtended ==
    ASSUME NEW points, NEW old, old = nil \/ IsJoined(old, points),
           NEW e \in points, NEW err, {"error"} \cup err = TagFetchError(e)
    PROVE  IsJoined(Wrap({}, old \cup err), points)
<1>1. Wrap({}, old \cup err) = old \cup TagFetchError(e)
  BY DEF Wrap
<1>2. CASE old = nil
  <2>1. Joined({e}) = TagFetchError(e)
    BY DEF Joined
  <2>2. Wrap({}, old \cup err) = Joined({e})
    BY <1>1, <1>2, <2>1 DEF nil
  <2> QED
    BY <2>2 DEF IsJoined
<1>3. CASE IsJoined(old, points)
  <2>1. PICK failures \in SUBSET points : old = Joined(failures)
    BY <1>3 DEF IsJoined
  <2>2. Joined(failures \cup {e}) = Joined(failures) \cup TagFetchError(e)
    BY DEF Joined
  <2>3. failures \cup {e} \in SUBSET points /\ failures \cup {e} # {}
    OBVIOUS
  <2> QED
    BY <1>1, <2>1, <2>2, <2>3 DEF IsJoined
<1> QED
  BY <1>2, <1>3

(* The errors of the points tried so far are joined with the new one.      *)
LEMMA JoinedErrors ==
    ASSUME TypeOK, NEW g \in Goroutines, NEW err
    PROVE  AfterFailure(g, err).res = Failed(goroutine[g].res.err \cup err)
<1>1. goroutine[g] \in Goroutine
  BY DEF TypeOK
<1> DEFINE errs == Failed(goroutine[g].res.err \cup err)
<1>2. \/ AfterFailure(g, err) =
            [goroutine[g] EXCEPT !.pc = "lookup", !.dp = @ + 1, !.res = errs, !.ch = None]
      \/ AfterFailure(g, err) = [goroutine[g] EXCEPT !.pc = "returned", !.res = errs, !.ch = None]
  BY DEF AfterFailure
<1> HIDE DEF errs
<1>3. AfterFailure(g, err).res = errs
  BY <1>1, <1>2 DEF Goroutine
<1> QED
  BY <1>3 DEF errs

LEMMA FailureJoins ==
    ASSUME TypeOK, NEW g \in Goroutines, JoinedOwn(g),
           NEW e \in OwnPoints(g[1]), NEW err, {"error"} \cup err = TagFetchError(e)
    PROVE  IsJoined(AfterFailure(g, err).res.err, OwnPoints(g[1]))
<1>1. AfterFailure(g, err).res = Failed(goroutine[g].res.err \cup err)
  BY JoinedErrors
<1>2. AfterFailure(g, err).res.err = Wrap({}, goroutine[g].res.err \cup err)
  <2>1. \A chain : Failed(chain).err = Wrap({}, chain)
    BY DEF Failed
  <2> QED
    BY <1>1, <2>1
<1>3. goroutine[g].res.err = nil \/ IsJoined(goroutine[g].res.err, OwnPoints(g[1]))
  BY DEF JoinedOwn
<1> QED
  BY <1>2, <1>3, JoinExtended

(* So does the result of a shared call or of a lookup, when it is a        *)
(* failure.                                                                *)
LEMMA ResultJoins ==
    ASSUME TypeOK, NEW g \in Goroutines, JoinedOwn(g), NEW res, Reported(res.err)
    PROVE  AfterResult(g, res).res.err # nil =>
               IsJoined(AfterResult(g, res).res.err, OwnPoints(g[1]))
<1>1. CASE res.err # nil
  <2>1. PICK e \in FetchErrors \cup {Untagged} : res.err = TagFetchError(e)
    BY <1>1 DEF Reported
  <2>2. "error" \in TagFetchError(e)
    BY TaggedFailures, ConstantsAssumption DEF Untagged
  <2>3. e \in OwnPoints(g[1]) /\ {"error"} \cup res.err = TagFetchError(e)
    BY <2>1, <2>2 DEF OwnPoints, PointFailures
  <2>4. AfterResult(g, res) = AfterFailure(g, res.err)
    BY <1>1 DEF AfterResult
  <2> QED
    BY <2>3, <2>4, FailureJoins
<1>2. CASE res.err = nil
  <2>1. AfterResult(g, res) = [goroutine[g] EXCEPT !.pc = "returned", !.res = res, !.ch = None]
    BY <1>2 DEF AfterResult
  <2>2. goroutine[g] \in Goroutine
    BY DEF TypeOK
  <2>3. AfterResult(g, res).res = res
    BY <2>1, <2>2 DEF Goroutine
  <2> QED
    BY <1>2, <2>3
<1> QED
  BY <1>1, <1>2

(* A context that is over stays so: what a caller's points may have failed *)
(* with only grows.                                                        *)
LEMMA OwnPointsGrow ==
    ASSUME IndInv, [Next]_vars, NEW r \in Requests
    PROVE  /\ ctx[r] # "live" => ctx'[r] = ctx[r]
           /\ \A err : IsJoined(err, OwnPoints(r)) => IsJoined(err, OwnPoints(r)')
<1>1. ASSUME NEW q \in Requests, ContextDone(q) PROVE ctx[r] # "live" => ctx'[r] = ctx[r]
  BY <1>1 DEF ContextDone, IndInv, TypeOK
<1>2. ASSUME UNCHANGED ctx PROVE ctx[r] # "live" => ctx'[r] = ctx[r]
  BY <1>2
<1>3. ctx[r] # "live" => ctx'[r] = ctx[r]
  BY <1>1, <1>2
     DEF Next, vars, FetchCRLsForToken, Collect, CallerStep, Lookup, DoChan, SelectDone,
         SelectResult, FlightStep, Recheck, Fetch, Store, Finish, Close, Tick
<1>4. OwnPoints(r) \subseteq OwnPoints(r)'
  BY <1>3 DEF OwnPoints, PointFailures
<1>5. \A err : IsJoined(err, OwnPoints(r)) => IsJoined(err, OwnPoints(r)')
  BY <1>4 DEF IsJoined
<1> QED
  BY <1>3, <1>5

LEMMA CallsKeepReporting ==
    ASSUME IndInv, JoinInv, [Next]_vars, NEW k \in Keys, flights'[k] # None
    PROVE  Reported(flights'[k].res.err)
  BY CallSteps, CallsReport DEF JoinInv, Opens, Lands

LEMMA GoroutinesKeepJoining ==
    ASSUME IndInv, JoinInv, [Next]_vars, NEW g \in Goroutines
    PROVE  JoinedOwn(g)'
<1> USE DEF IndInv
<1>0. g[1] \in Requests /\ goroutine[g] \in Goroutine /\ JoinedOwn(g)
  BY DEF Goroutines, TypeOK, JoinInv
<1>1. \A err : IsJoined(err, OwnPoints(g[1])) => IsJoined(err, OwnPoints(g[1])')
  BY <1>0, OwnPointsGrow
<1>2. ASSUME goroutine'[g].ch # None => Reported(goroutine'[g].ch.err),
             goroutine'[g].res.err # nil => IsJoined(goroutine'[g].res.err, OwnPoints(g[1]))
      PROVE  JoinedOwn(g)'
  BY <1>1, <1>2 DEF JoinedOwn, Reported
<1>3. CASE goroutine'[g] = goroutine[g]
  BY <1>0, <1>2, <1>3 DEF JoinedOwn
<1>4. CASE Starts(g) \/ goroutine'[g] = Idle
  <2>1. \A points : FirstPoint(points).ch = None /\ FirstPoint(points).res = NoResult
    BY DEF FirstPoint, Idle
  <2>2. goroutine'[g].ch = None /\ goroutine'[g].res = NoResult
    BY <1>4, <2>1 DEF Starts, Idle
  <2>3. NoResult.err = nil
    BY DEF NoResult
  <2> QED
    BY <1>2, <2>2, <2>3
<1>5. CASE Lookup(g)
  <2> DEFINE hit == cachedFresh(KeyOf(g), Issuer(token[g[1]], g[2]))
             moved == IF hit = NoResult THEN [goroutine[g] EXCEPT !.pc = "join"] ELSE AfterResult(g, hit)
  <2>1. goroutine[g].pc = "lookup" /\ goroutine'[g] = [moved EXCEPT !.start = now]
    BY <1>5 DEF Lookup, TypeOK
  <2>2. goroutine[g].ch = None /\ KeyOf(g) \in Keys
    BY <2>1, KeyOfType DEF WaitersWait
  <2>3. hit \in Result /\ Reported(hit.err)
    BY <2>2, CachedFreshType, CallsReport
  <2> HIDE DEF hit
  <2>4. /\ moved \in Goroutine /\ moved.ch = None
        /\ moved.res.err # nil => IsJoined(moved.res.err, OwnPoints(g[1]))
    <3>1. CASE hit = NoResult
      <4>1. moved = [goroutine[g] EXCEPT !.pc = "join"]
        BY <3>1
      <4>2. moved \in Goroutine /\ moved.ch = None /\ moved.res = goroutine[g].res
        BY <1>0, <2>2, <4>1 DEF Goroutine
      <4> QED
        BY <1>0, <4>2 DEF JoinedOwn
    <3>2. CASE hit # NoResult
      BY <1>0, <2>1, <2>3, <3>2, AfterResultType, ResultJoins
    <3> QED
      BY <3>1, <3>2
  <2> HIDE DEF moved
  <2>5. goroutine'[g].ch = None /\ goroutine'[g].res = moved.res
    BY <2>1, <2>4 DEF Goroutine
  <2> QED
    BY <1>2, <2>4, <2>5
<1>6. CASE DoChan(g)
  <2>1. goroutine'[g].res = goroutine[g].res /\ goroutine'[g].ch = goroutine[g].ch
    BY <1>0, <1>6 DEF DoChan, TypeOK, Goroutine
  <2> QED
    BY <1>0, <1>2, <2>1 DEF JoinedOwn
<1>7. CASE SelectDone(g)
  <2> DEFINE e == {"error", ctx[g[1]]}
  <2>1. goroutine[g].pc = "wait" /\ ctx[g[1]] # "live"
        /\ goroutine'[g] = AfterFailure(g, {ctx[g[1]]})
    BY <1>7 DEF SelectDone, TypeOK
  <2>2. ctx[g[1]] \in ContextErrors
    BY <1>0, <2>1 DEF TypeOK
  <2>3. goroutine'[g].ch = None
    <3>1. {ctx[g[1]]} \in SUBSET Sentinels
      BY <2>2, SentinelFacts
    <3> QED
      BY <2>1, <3>1, AfterFailureType
  <2>4. e \in OwnPoints(g[1])
    BY <2>1 DEF OwnPoints, PointFailures
  <2>5. {"error"} \cup {ctx[g[1]]} = TagFetchError(e)
    <3>1. TagFetchError(e) = e
      BY <2>2, TaggedFailures
    <3> QED
      BY <3>1
  <2> HIDE DEF e
  <2>6. IsJoined(goroutine'[g].res.err, OwnPoints(g[1]))
    BY <1>0, <2>1, <2>4, <2>5, FailureJoins
  <2> QED
    BY <1>2, <2>3, <2>6
<1>8. CASE SelectResult(g)
  <2>1. goroutine[g].pc = "wait" /\ goroutine[g].ch # None /\ goroutine[g].ch \in Result
        /\ (\/ goroutine'[g] = AfterFailure(g, Untagged)
            \/ goroutine'[g] = AfterResult(g, goroutine[g].ch))
    BY <1>0, <1>8 DEF SelectResult, TypeOK, Goroutine
  <2>2. Untagged \in SUBSET Sentinels
    BY SentinelFacts DEF Untagged
  <2>3. goroutine'[g].ch = None
    BY <2>1, <2>2, AfterFailureType, AfterResultType, SMTT(30), SMTT(60)
  <2>4. Untagged \in OwnPoints(g[1]) /\ {"error"} \cup Untagged = TagFetchError(Untagged)
    BY TaggedFailures DEF OwnPoints, PointFailures, Untagged
  <2>5. Reported(goroutine[g].ch.err)
    BY <1>0, <2>1 DEF JoinedOwn
  <2>6. goroutine'[g].res.err # nil => IsJoined(goroutine'[g].res.err, OwnPoints(g[1]))
    BY <1>0, <2>1, <2>4, <2>5, FailureJoins, ResultJoins
  <2> QED
    BY <1>2, <2>3, <2>6
<1>9. CASE Receives(g)
  <2>1. PICK k \in Keys : flights[k] # None
                          /\ goroutine'[g] = [goroutine[g] EXCEPT !.ch = flights[k].res]
    BY <1>9 DEF Receives, Finish
  <2>2. goroutine'[g].ch = flights[k].res /\ goroutine'[g].res = goroutine[g].res
    BY <1>0, <2>1 DEF Goroutine
  <2> QED
    BY <1>0, <1>2, <2>1, <2>2 DEF JoinedOwn, JoinInv
<1> QED
  BY <1>3, <1>4, <1>5, <1>6, <1>7, <1>8, <1>9, GoroutineSteps DEF CallerStep

LEMMA AnswersKeepJoining ==
    ASSUME IndInv, JoinInv, [Next]_vars, NEW r \in Requests, answer'[r].err # nil
    PROVE  IsJoined(answer'[r].err, OwnPoints(r)')
<1> SUFFICES IsJoined(answer'[r].err, OwnPoints(r))
  BY OwnPointsGrow
<1>1. CASE answer'[r] = answer[r]
  BY <1>1 DEF JoinInv
<1>2. ASSUME NEW q \in Requests, FetchCRLsForToken(q)
      PROVE  answer'[r] = answer[r] \/ answer'[r].err = Untagged
  BY <1>2, SMTT(30), SMTT(60) DEF FetchCRLsForToken, IndInv, TypeOK
<1>3. CASE answer'[r].err = Untagged
  <2>1. Joined({Untagged}) = Untagged
    BY TaggedFailures DEF Joined
  <2>2. {Untagged} \in SUBSET OwnPoints(r) /\ {Untagged} # {}
    BY DEF OwnPoints, PointFailures
  <2> QED
    BY <1>3, <2>1, <2>2 DEF IsJoined
<1>4. ASSUME NEW q \in Requests, Collect(q)
      PROVE  IsJoined(answer'[r].err, OwnPoints(r))
  <2>1. CASE q # r
    BY <1>1, <1>4, <2>1 DEF Collect, IndInv, TypeOK
  <2>2. CASE q = r
    <3>1. <<r, "leaf">> \in Goroutines /\ <<r, "intermediate">> \in Goroutines
      BY DEF Goroutines, Branches
    <3>2. answer'[r].err \in {nil, goroutine[<<r, "leaf">>].res.err,
                              goroutine[<<r, "intermediate">>].res.err}
      BY <1>4, <2>2 DEF Collect, IndInv, TypeOK
    <3>3. JoinedOwn(<<r, "leaf">>) /\ JoinedOwn(<<r, "intermediate">>)
      BY <3>1 DEF JoinInv
    <3>4. <<r, "leaf">>[1] = r /\ <<r, "intermediate">>[1] = r
      OBVIOUS
    <3> QED
      BY <3>2, <3>3, <3>4 DEF JoinedOwn
  <2> QED
    BY <2>1, <2>2
<1>5. CASE UNCHANGED answer
  BY <1>1, <1>5
<1> QED
  BY <1>1, <1>2, <1>3, <1>4, <1>5
     DEF Next, vars, ContextDone, CallerStep, Lookup, DoChan, SelectDone, SelectResult,
         FlightStep, Recheck, Fetch, Store, Finish, Close, Tick

(* Every error a caller is given is the join of its own points' failures.  *)
THEOREM ErrorsAreTheCallersOwn == Spec => []FailuresAreJoined
<1>1. Init => JoinInv
  <2> SUFFICES ASSUME Init PROVE JoinInv
    OBVIOUS
  <2>1. Idle.ch = None /\ Idle.res.err = nil
    BY DEF Idle, NoResult
  <2>2. \A g \in Goroutines : JoinedOwn(g)
    BY <2>1 DEF Init, JoinedOwn
  <2>3. (\A k \in Keys : flights[k] = None) /\ \A r \in Requests : answer[r].err = nil
    BY DEF Init
  <2> QED
    BY <2>2, <2>3 DEF JoinInv
<1>2. IndInv /\ JoinInv /\ [Next]_vars => JoinInv'
  <2> SUFFICES ASSUME IndInv, JoinInv, [Next]_vars PROVE JoinInv'
    OBVIOUS
  <2>1. \A k \in Keys : flights'[k] # None => Reported(flights'[k].res.err)
    BY CallsKeepReporting
  <2>2. \A g \in Goroutines : JoinedOwn(g)'
    BY GoroutinesKeepJoining
  <2>3. \A r \in Requests : answer'[r].err # nil => IsJoined(answer'[r].err, OwnPoints(r)')
    BY AnswersKeepJoining
  <2> QED
    BY <2>1, <2>2, <2>3 DEF JoinInv, Reported
<1>3. JoinInv => FailuresAreJoined
  BY DEF JoinInv, JoinedOwn, OwnPoints, FailuresAreJoined
<1>4. Spec => []IndInv
  BY IndInvInit, IndInvStep, PTL DEF Spec
<1> QED
  BY <1>1, <1>2, <1>3, <1>4, PTL DEF Spec

(* No tag and no failure of a fetch is a cancellation: one that is joined  *)
(* is the caller's own.                                                    *)
LEMMA JoinedCancellation ==
    ASSUME NEW err, NEW c, IsJoined(err, PointFailures(FetchErrors, c)), "context.Canceled" \in err
    PROVE  c = "context.Canceled"
<1>1. PICK e \in PointFailures(FetchErrors, c) : "context.Canceled" \in TagFetchError(e)
  BY DEF IsJoined, Joined
<1>2. "context.Canceled" \in e
  <2>1. TagFetchError(e) \subseteq e \cup {"error", "ErrTEERevocationUnavailable"}
    BY DEF TagFetchError, Wrap
  <2> QED
    BY <1>1, <2>1
<1>3. e \notin PinnedFetchErrors /\ e # Untagged
  BY <1>2 DEF PinnedFetchErrors, ResolveErrors, FetchBytesErrors, Untagged
<1>4. c # "live" /\ e = {"error", c}
  BY <1>3, ConstantsAssumption DEF PointFailures
<1> QED
  BY <1>2, <1>4

(* Every cancellation a caller is told of is of its own context.           *)
THEOREM CancellationsArePrivate == Spec => []CancellationStaysPrivate
<1>1. FailuresAreJoined => CancellationStaysPrivate
  <2> SUFFICES ASSUME FailuresAreJoined PROVE CancellationStaysPrivate
    OBVIOUS
  <2>1. \A err : "context.Canceled" \in err => err # nil
    BY DEF nil
  <2> QED
    BY <2>1, JoinedCancellation DEF FailuresAreJoined, CancellationStaysPrivate
<1> QED
  BY <1>1, ErrorsAreTheCallersOwn, PTL

-----------------------------------------------------------------------------
(***************************************************************************)
(* Revocation is strict: a goroutine comes back with a CRL or an error     *)
(* unless its certificate names no distribution point.                     *)
(***************************************************************************)
ReturnsStrictly(g) ==
    goroutine[g].pc = "returned" => Conclusive(goroutine[g].res) \/ DistributionPoints(g) = <<>>

StrictInv == (\A g \in Goroutines : ReturnsStrictly(g)) /\ StrictRevocation

LEMMA ReturnsStayStrict ==
    ASSUME IndInv, StrictInv, [Next]_vars, NEW g \in Goroutines
    PROVE  ReturnsStrictly(g)'
<1> USE DEF IndInv
<1>0. g[1] \in Requests /\ goroutine[g] \in Goroutine /\ ReturnsStrictly(g)
  BY DEF Goroutines, TypeOK, StrictInv
<1>1. CASE goroutine'[g] = goroutine[g]
  <2>1. goroutine[g].pc = "returned" => phase[g[1]] # "idle"
    BY DEF TypeOK
  <2>2. goroutine[g].pc = "returned" => token'[g[1]] = token[g[1]]
    BY <1>0, <2>1, TokenStays
  <2> QED
    BY <1>0, <1>1, <2>2 DEF ReturnsStrictly, DistributionPoints, Conclusive
<1>2. CASE Starts(g)
  <2>1. goroutine'[g] = FirstPoint(DistributionPoints(g)')
    BY <1>2 DEF Starts, DistributionPoints
  <2>2. \A points : points # <<>> => FirstPoint(points).pc = "lookup"
    BY DEF FirstPoint, Idle
  <2> QED
    BY <2>1, <2>2 DEF ReturnsStrictly
<1>3. CASE goroutine'[g] = Idle
  BY <1>3 DEF Idle, ReturnsStrictly
<1>4. ASSUME Conclusive(goroutine'[g].res) PROVE ReturnsStrictly(g)'
  BY <1>4 DEF ReturnsStrictly, Conclusive
<1>5. CASE Lookup(g)
  <2> DEFINE hit == cachedFresh(KeyOf(g), Issuer(token[g[1]], g[2]))
             moved == IF hit = NoResult THEN [goroutine[g] EXCEPT !.pc = "join"] ELSE AfterResult(g, hit)
  <2>1. goroutine[g].pc = "lookup" /\ goroutine'[g] = [moved EXCEPT !.start = now]
    BY <1>5 DEF Lookup, TypeOK
  <2>2. hit \in Result /\ (hit = NoResult \/ Conclusive(hit))
    BY <2>1, KeyOfType, CachedFreshType
  <2> HIDE DEF hit
  <2>3. moved \in Goroutine /\ (moved.pc = "returned" => Conclusive(moved.res))
    <3>1. CASE hit = NoResult
      BY <1>0, <3>1 DEF Goroutine
    <3>2. CASE hit # NoResult
      BY <2>1, <2>2, <3>2, AfterResultType
    <3> QED
      BY <3>1, <3>2
  <2> HIDE DEF moved
  <2>4. goroutine'[g].pc = moved.pc /\ goroutine'[g].res = moved.res
    BY <2>1, <2>3 DEF Goroutine
  <2> QED
    BY <1>4, <2>3, <2>4 DEF ReturnsStrictly
<1>6. CASE DoChan(g)
  <2>1. goroutine'[g].pc = "wait"
    BY <1>0, <1>6 DEF DoChan, TypeOK, Goroutine
  <2> QED
    BY <2>1 DEF ReturnsStrictly
<1>7. CASE SelectDone(g)
  <2>1. goroutine[g].pc = "wait" /\ ctx[g[1]] # "live"
        /\ goroutine'[g] = AfterFailure(g, {ctx[g[1]]})
    BY <1>7 DEF SelectDone, TypeOK
  <2>2. {ctx[g[1]]} \in SUBSET Sentinels
    BY <1>0, <2>1, SentinelFacts DEF TypeOK
  <2>3. goroutine'[g].res.err # nil
    BY <2>1, <2>2, AfterFailureType
  <2> QED
    BY <1>4, <2>3 DEF Conclusive
<1>8. CASE SelectResult(g)
  <2>1. goroutine[g].pc = "wait" /\ goroutine[g].ch # None /\ goroutine[g].ch \in Result
        /\ (\/ goroutine'[g] = AfterFailure(g, Untagged)
            \/ goroutine'[g] = AfterResult(g, goroutine[g].ch))
    BY <1>0, <1>8 DEF SelectResult, TypeOK, Goroutine
  <2>2. Untagged \in SUBSET Sentinels
    BY SentinelFacts DEF Untagged
  <2>3. Conclusive(goroutine[g].ch)
    BY <2>1 DEF WaitersWait
  <2>4. CASE goroutine'[g] = AfterFailure(g, Untagged)
    <3>1. goroutine'[g].res.err # nil
      BY <2>1, <2>2, <2>4, AfterFailureType
    <3> QED
      BY <1>4, <3>1 DEF Conclusive
  <2>5. CASE goroutine'[g] = AfterResult(g, goroutine[g].ch)
    <3>1. Conclusive(AfterResult(g, goroutine[g].ch).res)
      BY <2>1, <2>3, AfterResultType
    <3> QED
      BY <1>4, <2>5, <3>1
  <2> QED
    BY <2>1, <2>4, <2>5
<1>9. CASE Receives(g)
  <2>1. PICK k \in Keys : flights[k] # None /\ g \in flights[k].waiters
                          /\ goroutine'[g] = [goroutine[g] EXCEPT !.ch = flights[k].res]
    BY <1>9 DEF Receives, Finish
  <2>2. goroutine'[g].pc = "wait"
    BY <1>0, <2>1 DEF WaitersWait, Goroutine
  <2> QED
    BY <2>2 DEF ReturnsStrictly
<1> QED
  BY <1>1, <1>2, <1>3, <1>5, <1>6, <1>7, <1>8, <1>9, GoroutineSteps DEF CallerStep

(* What is handed out for one certificate of a request that succeeded.     *)
LEMMA AnswersStayStrict ==
    ASSUME IndInv, StrictInv, [Next]_vars PROVE StrictRevocation'
<1> USE DEF IndInv
<1> SUFFICES ASSUME NEW r \in Requests, phase'[r] = "answered", answer'[r].err = nil
             PROVE  /\ CRLDistributionPoints[token'[r].leaf] # <<>> => answer'[r].leaf # None
                    /\ CRLDistributionPoints[token'[r].intermediate] # <<>> =>
                           answer'[r].intermediate # None
  BY DEF StrictRevocation
<1>1. CASE phase[r] = "answered" /\ answer'[r] = answer[r]
  <2>1. token'[r] = token[r]
    BY <1>1, TokenStays
  <2> QED
    BY <1>1, <2>1 DEF StrictInv, StrictRevocation
<1>2. ASSUME NEW q \in Requests, FetchCRLsForToken(q)
      PROVE  phase[r] = "answered" /\ answer'[r] = answer[r]
  <2>1. CASE q # r
    BY <1>2, <2>1 DEF FetchCRLsForToken, TypeOK
  <2>2. CASE q = r
    <3> DEFINE refused == [err |-> Untagged, leaf |-> None, intermediate |-> None]
    <3>1. answer' = [answer EXCEPT ![r] = refused] \/ phase' = [phase EXCEPT ![r] = "fetching"]
      BY <1>2, <2>2 DEF FetchCRLsForToken
    <3>2. refused.err # nil
      BY DEF Untagged, nil
    <3> HIDE DEF refused
    <3> QED
      BY <3>1, <3>2 DEF TypeOK
  <2> QED
    BY <2>1, <2>2
<1>3. ASSUME NEW q \in Requests, Collect(q), q # r
      PROVE  phase[r] = "answered" /\ answer'[r] = answer[r]
  BY <1>3 DEF Collect, TypeOK
<1>4. CASE Collect(r)
  <2> DEFINE leaf == <<r, "leaf">>
             intermediate == <<r, "intermediate">>
  <2>1. leaf \in Goroutines /\ intermediate \in Goroutines
    BY DEF Goroutines, Branches
  <2>2. /\ goroutine[leaf].pc = "returned" /\ goroutine[intermediate].pc = "returned"
        /\ goroutine[leaf].res.err = nil /\ goroutine[intermediate].res.err = nil
        /\ answer'[r].leaf = goroutine[leaf].res.crl
        /\ answer'[r].intermediate = goroutine[intermediate].res.crl
        /\ token' = token
    BY <1>4, SMTT(30), SMTT(60) DEF Collect, TypeOK, Branches
  <2>3. ReturnsStrictly(leaf) /\ ReturnsStrictly(intermediate)
    BY <2>1 DEF StrictInv
  <2>4. /\ DistributionPoints(leaf) = CRLDistributionPoints[token[r].leaf]
        /\ DistributionPoints(intermediate) = CRLDistributionPoints[token[r].intermediate]
    BY DEF DistributionPoints, Subject
  <2> HIDE DEF leaf, intermediate
  <2> QED
    BY <2>2, <2>3, <2>4 DEF ReturnsStrictly, Conclusive
<1>5. CASE UNCHANGED <<phase, answer>>
  BY <1>1, <1>5
<1> QED
  BY <1>1, <1>2, <1>3, <1>4, <1>5
     DEF Next, vars, ContextDone, CallerStep, Lookup, DoChan, SelectDone, SelectResult,
         FlightStep, Recheck, Fetch, Store, Finish, Close, Tick

(* No request succeeds without the CRL of a certificate that names a       *)
(* distribution point.                                                     *)
THEOREM RevocationIsStrict == Spec => []StrictRevocation
<1>1. Init => StrictInv
  BY SMTT(30), SMTT(60) DEF Init, StrictInv, ReturnsStrictly, StrictRevocation, Idle
<1>2. IndInv /\ StrictInv /\ [Next]_vars => StrictInv'
  BY ReturnsStayStrict, AnswersStayStrict DEF StrictInv
<1>3. StrictInv => StrictRevocation
  BY DEF StrictInv
<1>4. Spec => []IndInv
  BY IndInvInit, IndInvStep, PTL DEF Spec
<1> QED
  BY <1>1, <1>2, <1>3, <1>4, PTL DEF Spec

-----------------------------------------------------------------------------
(***************************************************************************)
(* Nothing is dereferenced on behalf of a chain that is not anchored in    *)
(* the trusted root.                                                       *)
(***************************************************************************)
TrustedChain(t) ==
    /\ t.root = TrustedRoot
    /\ SignedWith[t.intermediate] = PublicKey[t.root]
    /\ SignedWith[t.leaf] = PublicKey[t.intermediate]

OutboundInv ==
    /\ \A r \in Requests : phase[r] = "fetching" => TrustedChain(token[r])
    /\ OutboundOnlyForTrustedChain

NamesKey(t, k) ==
    \E b \in Branches : \E i \in DOMAIN CRLDistributionPoints[Subject(t, b)] :
        k = <<CRLDistributionPoints[Subject(t, b)][i], Issuer(t, b)>>

LEMMA WorkStaysTrusted ==
    ASSUME IndInv, OutboundInv, [Next]_vars, NEW r \in Requests, phase'[r] = "fetching"
    PROVE  TrustedChain(token'[r])
<1>1. CASE phase[r] = "fetching"
  <2>1. token'[r] = token[r]
    BY <1>1, TokenStays
  <2> QED
    BY <1>1, <2>1 DEF OutboundInv
<1>2. ASSUME NEW q \in Requests, FetchCRLsForToken(q)
      PROVE  phase[r] = "fetching" \/ TrustedChain(token'[r])
  BY <1>2 DEF FetchCRLsForToken, IndInv, TypeOK, TrustedChain, validateX5CChain
<1>3. ASSUME NEW q \in Requests, Collect(q)
      PROVE  phase[r] = "fetching"
  BY <1>3 DEF Collect, IndInv, TypeOK
<1>4. CASE UNCHANGED phase
  BY <1>1, <1>4
<1> QED
  BY <1>1, <1>2, <1>3, <1>4
     DEF Next, vars, ContextDone, CallerStep, Lookup, DoChan, SelectDone, SelectResult,
         FlightStep, Recheck, Fetch, Store, Finish, Close, Tick

LEMMA RequestStaysBegun ==
    ASSUME IndInv, [Next]_vars, NEW r \in Requests, phase[r] # "idle"
    PROVE  phase'[r] # "idle"
<1>1. ASSUME NEW q \in Requests, FetchCRLsForToken(q) \/ Collect(q) PROVE phase'[r] # "idle"
  BY <1>1 DEF FetchCRLsForToken, Collect, IndInv, TypeOK
<1>2. CASE UNCHANGED phase
  BY <1>2
<1> QED
  BY <1>1, <1>2
     DEF Next, vars, ContextDone, CallerStep, Lookup, DoChan, SelectDone, SelectResult,
         FlightStep, Recheck, Fetch, Store, Finish, Close, Tick

LEMMA CallsStayTrusted ==
    ASSUME IndInv, OutboundInv, [Next]_vars, NEW k \in Keys, flights'[k] # None
    PROVE  \E r \in Requests : phase'[r] # "idle" /\ TrustedChain(token'[r]) /\ NamesKey(token'[r], k)
<1> USE DEF IndInv
<1>0. ASSUME NEW r \in Requests, phase[r] # "idle" PROVE phase'[r] # "idle" /\ token'[r] = token[r]
  BY <1>0, TokenStays, RequestStaysBegun
<1>1. CASE flights[k] # None
  <2>1. PICK r \in Requests : phase[r] # "idle" /\ TrustedChain(token[r]) /\ NamesKey(token[r], k)
    BY <1>1 DEF OutboundInv, OutboundOnlyForTrustedChain, TrustedChain, NamesKey
  <2> QED
    BY <1>0, <2>1
<1>2. CASE Opens(k)
  <2>1. PICK g \in Goroutines : goroutine[g].pc = "join" /\ KeyOf(g) = k
    BY <1>2 DEF Opens, DoChan
  <2>2. /\ g[1] \in Requests /\ g[2] \in Branches
        /\ phase[g[1]] = "fetching" /\ token[g[1]] \in Tokens
        /\ DistributionPoints(g) \in Seq(Urls)
    BY <2>1, AtWork
  <2>3. goroutine[g].dp \in DOMAIN DistributionPoints(g)
    BY <2>1, <2>2, SMTT(30), SMTT(60) DEF TypeOK
  <2>4. NamesKey(token[g[1]], k)
    BY <2>1, <2>2, <2>3 DEF NamesKey, KeyOf, crlCacheKey, DistributionPoints
  <2>5. TrustedChain(token[g[1]]) /\ phase[g[1]] # "idle"
    BY <2>2 DEF OutboundInv
  <2> QED
    BY <1>0, <2>2, <2>4, <2>5
<1> QED
  BY <1>1, <1>2, CallSteps

(* Every outbound request is for a distribution point of a trusted chain.  *)
THEOREM OutboundIsTrusted == Spec => []OutboundOnlyForTrustedChain
<1>1. Init => OutboundInv
  BY DEF Init, OutboundInv, OutboundOnlyForTrustedChain
<1>2. IndInv /\ OutboundInv /\ [Next]_vars => OutboundInv'
  <2> SUFFICES ASSUME IndInv, OutboundInv, [Next]_vars PROVE OutboundInv'
    OBVIOUS
  <2>1. \A r \in Requests : phase'[r] = "fetching" => TrustedChain(token'[r])
    BY WorkStaysTrusted
  <2>2. \A k \in Keys : flights'[k] # None =>
            \E r \in Requests : phase'[r] # "idle" /\ TrustedChain(token'[r]) /\ NamesKey(token'[r], k)
    BY CallsStayTrusted
  <2>3. OutboundOnlyForTrustedChain'
    BY <2>2 DEF OutboundOnlyForTrustedChain, TrustedChain, NamesKey
  <2> QED
    BY <2>1, <2>3 DEF OutboundInv, TrustedChain
<1>3. OutboundInv => OutboundOnlyForTrustedChain
  BY DEF OutboundInv
<1>4. Spec => []IndInv
  BY IndInvInit, IndInvStep, PTL DEF Spec
<1> QED
  BY <1>1, <1>2, <1>3, <1>4, PTL DEF Spec

-----------------------------------------------------------------------------
(***************************************************************************)
(* What a store may push out of the cache.                                 *)
(***************************************************************************)
LEMMA RoomForEvicts ==
    ASSUME TypeOK, NEW k \in Keys, NEW kept \in RoomFor(k),
           NEW j \in Keys, Fresh(j), kept[j] = None
    PROVE  /\ entries[k] = None
           /\ \A i \in Keys : kept[i] # None =>
                 ~isEntryStale(entries[i]) /\ entries[j].fetchedAt <= entries[i].fetchedAt
<1> DEFINE swept == evictStaleEntries(entries)
<1>1. swept[j] = entries[j] /\ entries[j] # None
  BY DEF evictStaleEntries, Fresh
<1>2. entries[k] = None /\ kept \in evictOldestEntry(swept)
  BY <1>1 DEF RoomFor
<1>3. \A i \in Keys : swept[i] # None => swept[i] = entries[i] /\ ~isEntryStale(entries[i])
  BY DEF evictStaleEntries
<1>4. swept \in [Keys -> Entry \cup {None}]
  BY DEF evictStaleEntries, TypeOK
<1> HIDE DEF swept
<1>5. PICK o \in Cached(swept) :
        /\ \A i \in Cached(swept) : swept[o].fetchedAt <= swept[i].fetchedAt
        /\ kept = [swept EXCEPT ![o] = None]
  BY <1>2 DEF evictOldestEntry
<1>6. o = j
  BY <1>1, <1>4, <1>5
<1>7. \A i \in Keys : kept[i] # None => swept[i] # None
  BY <1>4, <1>5
<1> QED
  BY <1>1, <1>2, <1>3, <1>5, <1>6, <1>7 DEF Cached

(* A fresh entry leaves the cache only where every entry that stays is     *)
(* fresh too and no older, or with all the others when the cache closes.   *)
THEOREM EvictionsSpareTheFresh == Spec => EvictStaleFirst
<1> DEFINE Kept(k) == \A j \in Cached(entries') : entries[j] # None =>
                          ~isEntryStale(entries[j]) /\ entries[k].fetchedAt <= entries[j].fetchedAt
           Evicts == \A k \in Keys : Fresh(k) /\ entries'[k] = None /\ Cached(entries') # {} => Kept(k)
<1>1. IndInv /\ [Next]_vars => [Evicts]_vars
  <2> SUFFICES ASSUME IndInv, [Next]_vars, NEW k \in Keys,
                      Fresh(k), entries'[k] = None, Cached(entries') # {}
               PROVE  Kept(k)
    OBVIOUS
  <2>1. ASSUME NEW s \in Keys, Store(s) PROVE Kept(k)
    <3> DEFINE e == [crl |-> flights[s].res.crl, fetchedAt |-> now, obtained |-> flights[s].res.obtained]
    <3>1. PICK kept \in RoomFor(s) : entries' = [kept EXCEPT ![s] = e]
      BY <2>1 DEF Store
    <3>2. kept \in [Keys -> Entry \cup {None}]
      BY RoomForRemoves DEF IndInv, TypeOK
    <3>3. e # None
      <4>1. flights[s] \in Flight /\ flights[s].res.crl # None /\ now \in Nat
        BY <2>1 DEF Store, IndInv, TypeOK, WaitersWait
      <4>2. e \in Entry
        BY <4>1 DEF Flight, Result, Entry
      <4> QED
        BY <4>2, ConstantsAssumption DEF Entry
    <3> HIDE DEF e
    <3>4. s # k /\ kept[k] = None
      BY <3>1, <3>2, <3>3
    <3>5. /\ entries[s] = None
          /\ \A i \in Keys : kept[i] # None =>
                ~isEntryStale(entries[i]) /\ entries[k].fetchedAt <= entries[i].fetchedAt
      BY <3>4, RoomForEvicts DEF IndInv
    <3>6. \A j \in Cached(entries') : j \in Keys /\ (j # s => kept[j] # None)
      BY <3>1, <3>2 DEF Cached
    <3> QED
      BY <3>5, <3>6
  <2>2. CASE Close
    BY <2>2 DEF Close, Cached
  <2>3. CASE UNCHANGED entries
    BY <2>3 DEF Fresh
  <2> QED
    BY <2>1, <2>2, <2>3
       DEF Next, vars, FetchCRLsForToken, Collect, ContextDone, CallerStep, Lookup, DoChan,
           SelectDone, SelectResult, FlightStep, Recheck, Fetch, Finish, Tick
<1>2. Spec => []IndInv
  BY IndInvInit, IndInvStep, PTL DEF Spec
<1> QED
  BY <1>1, <1>2, PTL DEF Spec, EvictStaleFirst

-----------------------------------------------------------------------------
(***************************************************************************)
(* How old an answer can be.  The times a call begins, a CRL is obtained   *)
(* and an entry is stored are tied to each other, because a call in flight *)
(* is over within FlightTime.                                              *)
(***************************************************************************)
StoredInTime(k) ==
    entries[k] # None =>
        entries[k].fetchedAt <= now /\ entries[k].fetchedAt <= entries[k].obtained + FlightTime

FoundInTime(res, began) ==
    res.crl # None =>
        /\ began <= res.obtained + MaxCacheTTL + FlightTime
        /\ began <= res.obtained \/ began <= NextUpdate[res.crl]

CallInTime(k) ==
    flights[k] # None =>
        /\ flights[k].began <= now /\ now <= flights[k].began + FlightTime
        /\ FoundInTime(flights[k].res, flights[k].began)
        /\ flights[k].phase = "storing" => flights[k].began <= flights[k].res.obtained

Recent(res, start) ==
    res.crl # None =>
        /\ start <= res.obtained + MaxCacheTTL + 2 * FlightTime
        /\ start <= res.obtained + FlightTime \/ start <= NextUpdate[res.crl] + FlightTime

GoroutineInTime(g) ==
    /\ goroutine[g].start <= now
    /\ goroutine[g].ch # None => Recent(goroutine[g].ch, goroutine[g].start)
    /\ goroutine[g].pc = "returned" => Recent(goroutine[g].res, goroutine[g].start)

TimeInv ==
    (\A k \in Keys : StoredInTime(k) /\ CallInTime(k)) /\ (\A g \in Goroutines : GoroutineInTime(g))

(* A hit is younger than the TTL allows, and within its horizon.           *)
LEMMA HitInTime ==
    ASSUME TypeOK, NEW k \in Keys, NEW issuer, StoredInTime(k), cachedFresh(k, issuer).crl # None
    PROVE  LET hit == cachedFresh(k, issuer) IN
           /\ hit.obtained \in Nat /\ NextUpdate[hit.crl] \in Nat
           /\ now <= hit.obtained + MaxCacheTTL + FlightTime
           /\ now <= NextUpdate[hit.crl]
<1>1. Failed(Untagged).crl = None /\ NoResult.crl = None
  BY DEF Failed, NoResult
<1>2. /\ Fresh(k)
      /\ cachedFresh(k, issuer).crl = entries[k].crl
      /\ cachedFresh(k, issuer).obtained = entries[k].obtained
  <2> DEFINE hit == [err |-> nil, crl |-> entries[k].crl, obtained |-> entries[k].obtained]
  <2>1. Fresh(k) /\ cachedFresh(k, issuer) = hit
    BY <1>1 DEF cachedFresh
  <2>2. hit.crl = entries[k].crl /\ hit.obtained = entries[k].obtained
    OBVIOUS
  <2> QED
    BY <2>1, <2>2
<1>3. entries[k] \in Entry /\ now \in Nat
  BY <1>2 DEF Fresh, TypeOK
<1>4. /\ entries[k].crl \in CRLs /\ entries[k].fetchedAt \in Nat /\ entries[k].obtained \in Nat
      /\ NextUpdate[entries[k].crl] \in Nat
  BY <1>3, ConstantsAssumption DEF Entry
<1>5. now <= entries[k].fetchedAt + MaxCacheTTL /\ now <= NextUpdate[entries[k].crl]
  BY <1>2, <1>3, <1>4, ConstantsAssumption, SMTT(30), SMTT(60) DEF Fresh, isEntryStale
<1>6. entries[k].fetchedAt <= entries[k].obtained + FlightTime
  BY <1>2 DEF Fresh, StoredInTime
<1>7. FlightTime \in Nat /\ MaxCacheTTL \in Nat
  BY ConstantsAssumption
<1>8. now <= entries[k].obtained + MaxCacheTTL + FlightTime
  BY <1>3, <1>4, <1>5, <1>6, <1>7
<1> QED
  BY <1>2, <1>4, <1>5, <1>8

LEMMA ClockSteps ==
    ASSUME IndInv, [Next]_vars
    PROVE  now' = now \/ Tick
  BY DEF Next, vars, FetchCRLsForToken, Collect, ContextDone, CallerStep, Lookup, DoChan,
         SelectDone, SelectResult, FlightStep, Recheck, Fetch, Store, Finish, Close

LEMMA StoresStayInTime ==
    ASSUME IndInv, TimeInv, [Next]_vars, NEW k \in Keys
    PROVE  StoredInTime(k)'
<1> USE DEF IndInv
<1>0. now \in Nat /\ now' \in Nat /\ now <= now'
  BY ClockSteps, SMTT(30), SMTT(60) DEF Tick, TypeOK
<1>1. CASE entries'[k] = entries[k]
  <2>1. entries[k] # None => entries[k].fetchedAt \in Nat
    BY DEF TypeOK, Entry
  <2> QED
    BY <1>0, <1>1, <2>1 DEF TimeInv, StoredInTime
<1>2. CASE entries'[k] = None
  BY <1>2 DEF StoredInTime
<1>3. ASSUME NEW j \in Keys, Store(j) PROVE StoredInTime(k)'
  <2> DEFINE e == [crl |-> flights[j].res.crl, fetchedAt |-> now, obtained |-> flights[j].res.obtained]
  <2>1. PICK kept \in RoomFor(j) : entries' = [kept EXCEPT ![j] = e]
    BY <1>3 DEF Store
  <2>2. kept \in [Keys -> Entry \cup {None}] /\ kept[k] \in {None, entries[k]}
    BY RoomForRemoves DEF TypeOK
  <2>3. CASE j # k
    BY <1>1, <1>2, <2>1, <2>2, <2>3
  <2>4. CASE j = k
    <3>1. flights[k] # None /\ flights[k].phase = "storing" /\ flights[k] \in Flight
          /\ CallInTime(k) /\ now' = now
      BY <1>3, <2>4 DEF Store, TypeOK, TimeInv
    <3>2. flights[k].began \in Nat /\ flights[k].res.obtained \in Nat
      BY <3>1 DEF Flight, Result
    <3>3. entries'[k].fetchedAt = now /\ entries'[k].obtained = flights[k].res.obtained
      <4>1. entries'[k] = e
        BY <2>1, <2>2, <2>4
      <4> QED
        BY <2>4, <4>1
    <3>4. now <= flights[k].res.obtained + FlightTime
      <4>1. FlightTime \in Nat
        BY ConstantsAssumption
      <4>2. now <= flights[k].began + FlightTime /\ flights[k].began <= flights[k].res.obtained
        BY <3>1 DEF CallInTime
      <4> QED
        BY <1>0, <3>2, <4>1, <4>2
    <3> QED
      BY <1>0, <3>1, <3>2, <3>3, <3>4 DEF StoredInTime
  <2> QED
    BY <2>3, <2>4
<1>4. CASE Close
  BY <1>2, <1>4 DEF Close
<1>5. CASE UNCHANGED entries
  BY <1>1, <1>5
<1> QED
  BY <1>3, <1>4, <1>5
     DEF Next, vars, FetchCRLsForToken, Collect, ContextDone, CallerStep, Lookup, DoChan,
         SelectDone, SelectResult, FlightStep, Recheck, Fetch, Finish, Tick

LEMMA CallsStayInTime ==
    ASSUME IndInv, TimeInv, [Next]_vars, NEW k \in Keys
    PROVE  CallInTime(k)'
<1> SUFFICES ASSUME flights'[k] # None PROVE CallInTime(k)'
  BY DEF CallInTime
<1> USE DEF IndInv
<1>0. /\ now \in Nat /\ FlightTime \in Nat /\ MaxCacheTTL \in Nat
      /\ flights[k] # None =>
             flights[k] \in Flight /\ flights[k].began \in Nat /\ CallInTime(k)
  BY ConstantsAssumption DEF TypeOK, Flight, TimeInv
<1>1. CASE /\ flights[k] # None
           /\ flights'[k].res = flights[k].res /\ flights'[k].began = flights[k].began
           /\ flights'[k].phase = "storing" => flights[k].phase = "storing"
  <2>1. flights[k].began <= now' /\ now' <= flights[k].began + FlightTime
    BY <1>0, <1>1, ClockSteps DEF CallInTime, Tick
  <2> QED
    BY <1>0, <1>1, <2>1 DEF CallInTime, FoundInTime
<1>2. CASE Opens(k)
  BY <1>0, <1>2 DEF Opens, CallInTime, FoundInTime, NoResult
<1>3. CASE /\ flights[k] # None /\ UNCHANGED now
           /\ flights'[k].began = flights[k].began /\ flights'[k].phase = "done"
           /\ flights'[k].res = cachedFresh(k, k[2])
  <2>1. StoredInTime(k)
    BY DEF TimeInv
  <2>2. FoundInTime(flights'[k].res, flights[k].began)
    BY <1>0, <1>3, <2>1, HitInTime DEF FoundInTime, CallInTime
  <2> QED
    BY <1>0, <1>3, <2>2 DEF CallInTime, FoundInTime
<1>4. CASE flights[k] # None /\ Lands(k)
  <2>1. flights'[k].began = flights[k].began /\ now' = now
    BY <1>4 DEF Lands
  <2>2. \A body : Accept(k, body).crl # None => Accept(k, body).obtained = now
    BY DEF Accept, Failed
  <2>3. \A err \in FetchErrors : FetchFailure(err).crl = None /\ FetchFailure(err).err # nil
    BY OutcomeType
  <2>4. flights'[k].res.crl # None => flights'[k].res.obtained = now
    BY <1>4, <2>2, <2>3 DEF Lands
  <2>5. flights'[k].phase = "storing" => flights'[k].res.crl # None
    BY IndInvStep DEF WaitersWait
  <2> QED
    BY <1>0, <1>4, <2>1, <2>4, <2>5 DEF CallInTime, FoundInTime
<1> QED
  BY <1>1, <1>2, <1>3, <1>4, CallSteps

LEMMA GoroutinesStayInTime ==
    ASSUME IndInv, TimeInv, [Next]_vars, NEW g \in Goroutines
    PROVE  GoroutineInTime(g)'
<1> USE DEF IndInv
<1>0. /\ now \in Nat /\ now' \in Nat /\ now <= now'
      /\ goroutine[g] \in Goroutine /\ goroutine[g].start \in Nat
      /\ GoroutineInTime(g)
      /\ FlightTime \in Nat /\ MaxCacheTTL \in Nat
  BY ClockSteps, ConstantsAssumption, SMTT(30), SMTT(60) DEF Tick, TypeOK, Goroutine, TimeInv
<1>1. CASE goroutine'[g] = goroutine[g]
  BY <1>0, <1>1 DEF GoroutineInTime, Recent
<1>2. CASE Starts(g) \/ goroutine'[g] = Idle
  <2>1. \A points : FirstPoint(points).ch = None /\ FirstPoint(points).res = NoResult
                    /\ FirstPoint(points).start = 0
    BY DEF FirstPoint, Idle
  <2>2. goroutine'[g].ch = None /\ goroutine'[g].res = NoResult /\ goroutine'[g].start = 0
    BY <1>2, <2>1 DEF Starts, Idle
  <2>3. NoResult.crl = None
    BY DEF NoResult
  <2> QED
    BY <1>0, <2>2, <2>3 DEF GoroutineInTime, Recent
<1>3. ASSUME goroutine'[g].ch = None, goroutine'[g].start \in {now, goroutine[g].start},
             goroutine'[g].pc = "returned" => Recent(goroutine'[g].res, goroutine'[g].start)
      PROVE  GoroutineInTime(g)'
  BY <1>0, <1>3 DEF GoroutineInTime, Recent
<1>4. CASE Lookup(g)
  <2> DEFINE hit == cachedFresh(KeyOf(g), Issuer(token[g[1]], g[2]))
             moved == IF hit = NoResult THEN [goroutine[g] EXCEPT !.pc = "join"] ELSE AfterResult(g, hit)
  <2>1. goroutine[g].pc = "lookup" /\ goroutine'[g] = [moved EXCEPT !.start = now]
    BY <1>4 DEF Lookup, TypeOK
  <2>2. goroutine[g].ch = None /\ KeyOf(g) \in Keys
    BY <2>1, KeyOfType DEF WaitersWait
  <2>3. StoredInTime(KeyOf(g))
    BY <2>2 DEF TimeInv
  <2>4. hit \in Result
    BY <2>2, CachedFreshType
  <2>5. hit.crl # None =>
          /\ hit.obtained \in Nat /\ NextUpdate[hit.crl] \in Nat
          /\ now <= hit.obtained + MaxCacheTTL + FlightTime
          /\ now <= NextUpdate[hit.crl]
    BY <2>2, <2>3, HitInTime
  <2>6. Recent(hit, now)
    <3> HIDE DEF hit
    <3> QED
      BY <1>0, <2>5 DEF Recent
  <2> HIDE DEF hit
  <2>7. moved \in Goroutine /\ moved.ch = None /\ (moved.pc = "returned" => Recent(moved.res, now))
    <3>1. CASE hit = NoResult
      BY <1>0, <2>2, <3>1 DEF Goroutine
    <3>2. CASE hit # NoResult
      <4>1. moved = AfterResult(g, hit)
        BY <3>2
      <4> HIDE DEF moved
      <4>2. moved \in Goroutine /\ moved.ch = None
        BY <2>1, <2>4, <4>1, AfterResultType
      <4>3. CASE hit.err # nil
        <5>1. moved = AfterFailure(g, hit.err) /\ hit.err \in SUBSET Sentinels
          BY <2>4, <4>1, <4>3 DEF AfterResult, Result
        <5>2. moved.res.crl = None
          BY <2>1, <5>1, AfterFailureType
        <5> QED
          BY <4>2, <5>2 DEF Recent
      <4>4. CASE hit.err = nil
        <5>1. moved = [goroutine[g] EXCEPT !.pc = "returned", !.res = hit, !.ch = None]
          BY <4>1, <4>4 DEF AfterResult
        <5>2. moved.res = hit
          BY <1>0, <5>1 DEF Goroutine
        <5> QED
          BY <2>6, <4>2, <5>2
      <4> QED
        BY <4>3, <4>4
    <3> QED
      BY <3>1, <3>2
  <2> HIDE DEF moved
  <2>8. /\ goroutine'[g].ch = None /\ goroutine'[g].res = moved.res
        /\ goroutine'[g].pc = moved.pc /\ goroutine'[g].start = now
    BY <2>1, <2>7 DEF Goroutine
  <2> QED
    BY <1>3, <2>7, <2>8
<1>5. CASE DoChan(g)
  <2>1. /\ goroutine'[g].ch = goroutine[g].ch /\ goroutine'[g].start = goroutine[g].start
        /\ goroutine'[g].pc = "wait"
    BY <1>0, <1>5 DEF DoChan, TypeOK, Goroutine
  <2> QED
    BY <1>0, <2>1 DEF GoroutineInTime, Recent
<1>6. ASSUME NEW err \in SUBSET Sentinels, goroutine[g].pc = "wait",
             goroutine'[g] = AfterFailure(g, err)
      PROVE  GoroutineInTime(g)'
  <2>1. goroutine'[g].ch = None /\ goroutine'[g].res.crl = None
    BY <1>6, AfterFailureType
  <2>2. goroutine'[g].start = goroutine[g].start
    <3> DEFINE errs == Failed(goroutine[g].res.err \cup err)
    <3>1. \/ goroutine'[g] =
                [goroutine[g] EXCEPT !.pc = "lookup", !.dp = @ + 1, !.res = errs, !.ch = None]
          \/ goroutine'[g] = [goroutine[g] EXCEPT !.pc = "returned", !.res = errs, !.ch = None]
      BY <1>6 DEF AfterFailure
    <3> HIDE DEF errs
    <3> QED
      BY <1>0, <3>1 DEF Goroutine
  <2> QED
    BY <1>3, <2>1, <2>2 DEF Recent
<1>7. CASE SelectDone(g)
  <2>1. goroutine[g].pc = "wait" /\ ctx[g[1]] # "live"
        /\ goroutine'[g] = AfterFailure(g, {ctx[g[1]]})
    BY <1>7 DEF SelectDone, TypeOK
  <2>2. g[1] \in Requests
    BY DEF Goroutines
  <2>3. {ctx[g[1]]} \in SUBSET Sentinels
    BY <2>1, <2>2, SentinelFacts DEF TypeOK
  <2> QED
    BY <1>6, <2>1, <2>3
<1>8. CASE SelectResult(g)
  <2>1. goroutine[g].pc = "wait" /\ goroutine[g].ch # None /\ goroutine[g].ch \in Result
        /\ (\/ goroutine'[g] = AfterFailure(g, Untagged)
            \/ goroutine'[g] = AfterResult(g, goroutine[g].ch))
    BY <1>0, <1>8 DEF SelectResult, TypeOK, Goroutine
  <2>2. Untagged \in SUBSET Sentinels /\ goroutine[g].ch.err \in SUBSET Sentinels
    BY <2>1, SentinelFacts DEF Untagged, Result
  <2>3. CASE \E err \in SUBSET Sentinels : goroutine'[g] = AfterFailure(g, err)
    BY <1>6, <2>1, <2>3
  <2>4. CASE goroutine'[g] = AfterResult(g, goroutine[g].ch) /\ goroutine[g].ch.err = nil
    <3>1. goroutine'[g] = [goroutine[g] EXCEPT !.pc = "returned", !.res = goroutine[g].ch, !.ch = None]
      BY <2>4 DEF AfterResult
    <3>2. goroutine'[g].res = goroutine[g].ch /\ goroutine'[g].ch = None
          /\ goroutine'[g].start = goroutine[g].start
      BY <1>0, <3>1 DEF Goroutine
    <3> QED
      BY <1>0, <1>3, <2>1, <3>2 DEF GoroutineInTime
  <2> QED
    BY <2>1, <2>2, <2>3, <2>4 DEF AfterResult
<1>9. CASE Receives(g)
  <2>1. PICK k \in Keys : flights[k] # None /\ g \in flights[k].waiters /\ now' = now
                          /\ goroutine'[g] = [goroutine[g] EXCEPT !.ch = flights[k].res]
    BY <1>9 DEF Receives, Finish
  <2>2. goroutine[g].pc = "wait" /\ flights[k] \in Flight /\ CallInTime(k)
    BY <2>1 DEF WaitersWait, TypeOK, TimeInv
  <2>3. goroutine'[g].ch = flights[k].res /\ goroutine'[g].pc = "wait"
        /\ goroutine'[g].start = goroutine[g].start
    BY <1>0, <2>1, <2>2 DEF Goroutine
  <2> DEFINE res == flights[k].res
             began == flights[k].began
             start == goroutine[g].start
  <2>4. res.obtained \in Nat /\ began \in Nat /\ (res.crl # None => NextUpdate[res.crl] \in Nat)
    BY <2>2, ConstantsAssumption DEF Flight, Result
  <2>5. start <= began + FlightTime
    BY <1>0, <2>1, <2>2, <2>4, SMTT(30), SMTT(60) DEF GoroutineInTime, CallInTime
  <2>6. FoundInTime(res, began)
    BY <2>1, <2>2 DEF CallInTime
  <2>7. Recent(res, start)
    <3> HIDE DEF res, began, start
    <3>1. start \in Nat
      BY <1>0 DEF start
    <3> QED
      BY <1>0, <2>4, <2>5, <2>6, <3>1 DEF FoundInTime, Recent
  <2> QED
    BY <1>0, <2>1, <2>3, <2>7 DEF GoroutineInTime
<1> QED
  BY <1>1, <1>2, <1>4, <1>5, <1>7, <1>8, <1>9, GoroutineSteps DEF CallerStep

(* However late a caller joins a call, and however long the store takes,   *)
(* what it is handed is no older than the TTL and twice the call's time.   *)
THEOREM AnswersAreRecent == Spec => []RecentAnswers
<1>1. Init => TimeInv
  <2>1. Init => now = 1 /\ \A g \in Goroutines : goroutine[g] = Idle
    BY DEF Init
  <2>2. Init => \A k \in Keys : entries[k] = None /\ flights[k] = None
    BY SMTT(30), SMTT(60) DEF Init
  <2> QED
    BY <2>1, <2>2 DEF TimeInv, StoredInTime, CallInTime, GoroutineInTime, Idle
<1>2. IndInv /\ TimeInv /\ [Next]_vars => TimeInv'
  BY StoresStayInTime, CallsStayInTime, GoroutinesStayInTime DEF TimeInv
<1>3. IndInv /\ TimeInv => RecentAnswers
  <2> SUFFICES ASSUME IndInv, TimeInv, NEW g \in Goroutines,
                      goroutine[g].pc = "returned", goroutine[g].res.crl # None
               PROVE  /\ goroutine[g].res.obtained + MaxCacheTTL + 2 * FlightTime >= goroutine[g].start
                      /\ \/ goroutine[g].res.obtained + FlightTime >= goroutine[g].start
                         \/ NextUpdate[goroutine[g].res.crl] + FlightTime >= goroutine[g].start
    BY DEF RecentAnswers
  <2>1. goroutine[g] \in Goroutine /\ Recent(goroutine[g].res, goroutine[g].start)
    BY DEF IndInv, TypeOK, TimeInv, GoroutineInTime
  <2>2. /\ goroutine[g].start \in Nat /\ goroutine[g].res.obtained \in Nat
        /\ NextUpdate[goroutine[g].res.crl] \in Nat /\ FlightTime \in Nat /\ MaxCacheTTL \in Nat
    BY <2>1, ConstantsAssumption DEF Goroutine, Result
  <2> QED
    BY <2>1, <2>2 DEF Recent
<1>4. Spec => []IndInv
  BY IndInvInit, IndInvStep, PTL DEF Spec
<1> QED
  BY <1>1, <1>2, <1>3, <1>4, PTL DEF Spec
=============================================================================
