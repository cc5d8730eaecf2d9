------------------------- MODULE PinnedFetchProofs -------------------------
(***************************************************************************)
(* PinnedFetch for any URLs, records, bodies, timeouts and size cap.       *)
(***************************************************************************)
EXTENDS PinnedFetch, TLAPS

(* The backends of every step that does not name its own: each twice, so   *)
(* that a slow machine costs time and not the proof.                       *)
USE SMTT(20), ZenonT(30), SMTT(60), ZenonT(60)

Steps == {"resolve", "lookup", "do", "body", "returned"}

(* What does not change, and what the clock and the records are.           *)
Types ==
    /\ caller \in Callers /\ allowPrivateNetworks \in BOOLEAN
    /\ url \in URLs /\ records \in Records
    /\ now \in Nat /\ data \in Nat /\ pc \in Steps

Vetted(ip) ==
    /\ ip \in Addresses /\ ip.class \in Reachable
    /\ url.host.kind = "literal" => ip = url.host.ip

(* Nothing is dialled before an address is pinned, and what is dialled is  *)
(* the pinned one.                                                         *)
Pinning ==
    /\ pc \in {"resolve", "lookup"} => dialed = None
    /\ pc \in {"do", "body"} => Vetted(pinned)
    /\ dialed # None => Vetted(pinned) /\ dialed = BuildPinnedAddr(pinned)

Bound == FetchTimeout[caller] + (IF url.host.kind = "literal" THEN 0 ELSE dnsLookupTimeout)

(* A call has a deadline, and the clock does not pass it before the call   *)
(* is over.                                                                *)
Timing ==
    /\ pc = "resolve" => now = 0
    /\ pc = "lookup" => url.host.kind # "literal" /\ deadline = dnsLookupTimeout /\ now <= deadline
    /\ pc \in {"do", "body"} => deadline \in Nat /\ deadline <= Bound /\ now <= deadline
    /\ now <= Bound

(* How much of the body has been read, and with which outcome.             *)
Reading ==
    /\ pc # "returned" => result = None
    /\ pc \in {"resolve", "lookup", "do"} => data = 0
    /\ pc = "body" => body \in Bodies /\ data <= body.size /\ data <= maxResponseSize + 1
    /\ pc = "returned" =>
          /\ result.err = nil => result.size = body.size /\ body.size <= maxResponseSize
          /\ "ErrResponseTooLarge" \in result.err => body.size > maxResponseSize

(* The inductive invariant.                                                *)
FetchInv == Types /\ Pinning /\ Timing /\ Reading

-----------------------------------------------------------------------------
(* An address the code does not refuse leads to a network the caller may   *)
(* reach, however it is written (isDangerousIP, isPrivateOrLocalIP).       *)
LEMMA NotRefusedIsReachable ==
    ASSUME NEW ip \in Addresses, allowPrivateNetworks \in BOOLEAN, ~ Refused(ip)
    PROVE  ip.class \in Reachable
<1>1. ip.class \in Networks /\ ip.form \in {"4", "6", "mapped", "compat", "tunnel", "bytes"}
  BY DEF Addresses
<1>2. Unmap(ip).class = ip.class
  BY DEF Addresses, Unmap
<1>3. Unmap(ip).form \in {"4", "6"} /\ Seen(Unmap(ip)) = ip.class
  <2>1. ~ isDangerousIP(ip)
    BY DEF Refused, isPrivateOrLocalIP
  <2>2. Unmap(ip).form \notin {"bytes", "tunnel", "mapped"}
    BY <1>1, <2>1 DEF isDangerousIP, InBlockedPrefix, Unmap, Addresses
  <2>3. Unmap(ip).form # "compat"
    BY <2>1 DEF isDangerousIP, InCompatPrefix, IPv6Loopback
  <2>4. Unmap(ip).form \in {"4", "6", "mapped", "compat", "tunnel", "bytes"}
    BY <1>1 DEF Unmap, Addresses
  <2> QED
    BY <1>2, <2>2, <2>3, <2>4 DEF Seen
<1>4. ip.class \in {"public", "private", "loopback"}
  BY <1>1, <1>3 DEF Refused, isPrivateOrLocalIP, isDangerousIP, InBlockedPrefix, Networks
<1>5. ~ allowPrivateNetworks => ip.class = "public"
  BY <1>3, <1>4 DEF Refused, isPrivateOrLocalIP
<1> QED
  BY <1>4, <1>5 DEF Reachable

LEMMA FetchInvInit == Init => FetchInv
<1> SUFFICES ASSUME Init PROVE FetchInv
  OBVIOUS
<1>1. Types
  BY PinnedFetchAssumption DEF Init, Types, Steps
<1>2. Pinning
  BY DEF Init, Pinning
<1>3. Timing
  BY <1>1, PinnedFetchAssumption DEF Init, Timing, Bound, Types
<1>4. Reading
  BY DEF Init, Reading
<1> QED
  BY <1>1, <1>2, <1>3, <1>4 DEF FetchInv

LEMMA TypesStep == FetchInv /\ [Next]_vars => Types'
<1> SUFFICES ASSUME FetchInv, [Next]_vars PROVE Types'
  OBVIOUS
<1>0. Types
  BY DEF FetchInv
<1>1. CASE Resolve \/ LookupAnswers \/ LookupFails \/ LookupInterrupted
  BY <1>0, <1>1 DEF Types, Resolve, LookupAnswers, LookupFails, LookupInterrupted, Return, Pin,
                    request, world, Steps
<1>2. CASE Do \/ Read \/ ReadAll \/ ReadFails \/ FetchInterrupted
  BY <1>0, <1>2 DEF Types, Do, Read, ReadAll, ReadFails, FetchInterrupted, Return, request, world,
                    Steps
<1>3. CASE Rebind \/ Cancel \/ Tick
  BY <1>0, <1>3 DEF Types, Rebind, Cancel, Tick, request
<1>4. CASE UNCHANGED vars
  BY <1>0, <1>4 DEF Types, vars
<1> QED
  BY <1>1, <1>2, <1>3, <1>4 DEF Next

LEMMA PinningStep == FetchInv /\ [Next]_vars => Pinning'
<1> SUFFICES ASSUME FetchInv, [Next]_vars PROVE Pinning'
  OBVIOUS
<1>0. Types /\ Pinning
  BY DEF FetchInv
<1> USE DEF Pinning, Vetted, Reachable, BuildPinnedAddr
<1>1. CASE Resolve
  <2>1. url.host.kind = "literal" /\ ~ URLRefused => Vetted(url.host.ip)
    BY <1>0, NotRefusedIsReachable, PinnedFetchAssumption DEF URLRefused, Types
  <2> QED
    BY <1>0, <1>1, <2>1 DEF Resolve, Return, Pin, request
<1>2. CASE LookupAnswers
  <2>1. CASE records = <<>> \/ \E i \in DOMAIN records : Refused(records[i])
    BY <1>0, <1>2, <2>1 DEF LookupAnswers, Return, request
  <2>2. CASE ~ (records = <<>> \/ \E i \in DOMAIN records : Refused(records[i]))
    <3>1. records[1] \in Addresses /\ ~ Refused(records[1])
      BY <1>0, <2>2, PinnedFetchAssumption DEF Types
    <3>2. records[1].class \in Reachable
      BY <1>0, <3>1, NotRefusedIsReachable DEF Types
    <3>3. url.host.kind # "literal"
      BY <1>2 DEF FetchInv, Timing, LookupAnswers
    <3> QED
      BY <1>0, <1>2, <2>2, <3>1, <3>2, <3>3 DEF LookupAnswers, Pin, request
  <2> QED
    BY <2>1, <2>2
<1>3. CASE LookupFails \/ LookupInterrupted
  BY <1>0, <1>3 DEF LookupFails, LookupInterrupted, Return, request
<1>4. CASE Do \/ FetchInterrupted
  BY <1>0, <1>4 DEF Do, FetchInterrupted, Return, DialAddr, request
<1>5. CASE Read \/ ReadAll \/ ReadFails
  BY <1>0, <1>5 DEF Read, ReadAll, ReadFails, Return, request
<1>6. CASE Rebind \/ Cancel \/ Tick
  BY <1>0, <1>6 DEF Rebind, Cancel, Tick, request
<1>7. CASE UNCHANGED vars
  BY <1>0, <1>7 DEF vars
<1> QED
  BY <1>1, <1>2, <1>3, <1>4, <1>5, <1>6, <1>7 DEF Next

LEMMA TimingStep == FetchInv /\ [Next]_vars => Timing'
<1> SUFFICES ASSUME FetchInv, [Next]_vars PROVE Timing'
  OBVIOUS
<1>0. Types /\ Timing
  BY DEF FetchInv
<1>00. FetchTimeout[caller] \in Nat /\ dnsLookupTimeout \in Nat /\ None \notin Nat
  BY <1>0, PinnedFetchAssumption DEF Types
<1> USE DEF Timing, Bound, Types
<1>1. CASE Resolve
  BY <1>0, <1>00, <1>1 DEF Resolve, Return, Pin, request, world
<1>2. CASE LookupAnswers
  BY <1>0, <1>00, <1>2 DEF LookupAnswers, Return, Pin, request, world
<1>3. CASE LookupFails \/ LookupInterrupted
  BY <1>0, <1>3 DEF LookupFails, LookupInterrupted, Return, request, world
<1>4. CASE Do \/ FetchInterrupted
  BY <1>0, <1>4 DEF Do, FetchInterrupted, Return, request, world
<1>5. CASE Read \/ ReadAll \/ ReadFails
  BY <1>0, <1>5 DEF Read, ReadAll, ReadFails, Return, request, world
<1>6. CASE Rebind \/ Cancel
  BY <1>0, <1>6 DEF Rebind, Cancel, request
<1>7. CASE Tick
  BY <1>0, <1>00, <1>7 DEF Tick, Expired, request
<1>8. CASE UNCHANGED vars
  BY <1>0, <1>8 DEF vars
<1> QED
  BY <1>1, <1>2, <1>3, <1>4, <1>5, <1>6, <1>7, <1>8 DEF Next

(* An error other than the one for a body that is too large says nothing   *)
(* of the body.                                                            *)
LEMMA OtherErrorsKeepReading ==
    ASSUME NEW err, NEW why, Return(err, why), err # nil, "ErrResponseTooLarge" \notin err
    PROVE  Reading'
<1>1. pc' = "returned" /\ result'.err = err
  BY DEF Return
<1> QED
  BY <1>1 DEF Reading

LEMMA ReadingStep == FetchInv /\ [Next]_vars => Reading'
<1> SUFFICES ASSUME FetchInv, [Next]_vars PROVE Reading'
  OBVIOUS
<1>0. Types /\ Reading
  BY DEF FetchInv
<1>1. CASE Resolve \/ LookupAnswers
  <2>1. ASSUME NEW why, Return(ErrURLValidation, why) PROVE Reading'
    <3>1. ErrURLValidation # nil /\ "ErrResponseTooLarge" \notin ErrURLValidation
      BY DEF ErrURLValidation, Wrap, nil
    <3> QED
      BY <2>1, <3>1, OtherErrorsKeepReading
  <2>2. ASSUME NEW ip, Pin(ip), data' = data, pc # "body", pc # "returned" PROVE Reading'
    BY <1>0, <2>2 DEF Pin, Reading, Types, Steps
  <2>3. CASE Resolve
    BY <1>0, <2>1, <2>2, <2>3 DEF Resolve, Reading, Types, Steps
  <2>4. CASE LookupAnswers
    BY <2>1, <2>2, <2>4 DEF LookupAnswers
  <2> QED
    BY <1>1, <2>3, <2>4
<1>2. CASE LookupFails \/ LookupInterrupted
  <2>1. PICK err, why : Return(err, why) /\ err # nil /\ "ErrResponseTooLarge" \notin err
    BY <1>2 DEF LookupFails, LookupInterrupted, Wrap, nil
  <2> QED
    BY <2>1, OtherErrorsKeepReading
<1>3. CASE Do
  <2>1. CASE body' \in Bodies /\ pc' = "body" /\ UNCHANGED <<deadline, cause, result>>
    BY <1>0, <1>3, <2>1, PinnedFetchAssumption DEF Do, Reading, Types
  <2>2. CASE ~ (body' \in Bodies /\ pc' = "body" /\ UNCHANGED <<deadline, cause, result>>)
    <3>1. PICK err, why : Return(err, why) /\ err # nil /\ "ErrResponseTooLarge" \notin err
      BY <1>3, <2>2 DEF Do, ErrHTTPFetch, Wrap, nil
    <3> QED
      BY <3>1, OtherErrorsKeepReading
  <2> QED
    BY <2>1, <2>2
<1>4. CASE Read
  BY <1>0, <1>4, PinnedFetchAssumption DEF Read, ReadLimit, Reading, Types
<1>5. CASE ReadAll
  <2>0. /\ body \in Bodies /\ body.size \in Nat /\ data \in Nat /\ maxResponseSize \in Nat
        /\ data <= body.size /\ body' = body
        /\ data = body.size \/ data = maxResponseSize + 1
    BY <1>0, <1>5, PinnedFetchAssumption DEF ReadAll, ReadLimit, Reading, Types
  <2>1. CASE data > maxResponseSize
    <3>1. pc' = "returned" /\ result'.err = Wrap({"ErrResponseTooLarge"}, nil)
      BY <1>5, <2>1 DEF ReadAll, Return
    <3>2. result'.err # nil
      BY <3>1 DEF Wrap, nil
    <3> QED
      BY <2>0, <2>1, <3>1, <3>2 DEF Reading
  <2>2. CASE ~ (data > maxResponseSize) /\ caller = "proxy" /\ ~ body.json
    <3>1. Return(Untagged, "notJSON")
      BY <1>5, <2>2 DEF ReadAll
    <3>2. Untagged # nil /\ "ErrResponseTooLarge" \notin Untagged
      BY DEF Untagged, nil
    <3> QED
      BY <3>1, <3>2, OtherErrorsKeepReading
  <2>3. CASE ~ (data > maxResponseSize) /\ ~ (caller = "proxy" /\ ~ body.json)
    <3>1. pc' = "returned" /\ result'.err = nil /\ result'.size = data
      BY <1>5, <2>3 DEF ReadAll, Return
    <3>2. data = body.size /\ body.size <= maxResponseSize
      BY <2>0, <2>3
    <3>3. "ErrResponseTooLarge" \notin nil
      BY DEF nil
    <3> QED
      BY <2>0, <3>1, <3>2, <3>3 DEF Reading
  <2> QED
    BY <2>1, <2>2, <2>3
<1>6. CASE ReadFails \/ FetchInterrupted
  <2>1. PICK err, why : Return(err, why) /\ err # nil /\ "ErrResponseTooLarge" \notin err
    BY <1>6 DEF ReadFails, FetchInterrupted, ErrHTTPFetch, Wrap, nil
  <2> QED
    BY <2>1, OtherErrorsKeepReading
<1>7. CASE Rebind \/ Cancel \/ Tick
  BY <1>0, <1>7 DEF Rebind, Cancel, Tick, Reading
<1>8. CASE UNCHANGED vars
  BY <1>0, <1>8 DEF vars, Reading
<1> QED
  BY <1>1, <1>2, <1>3, <1>4, <1>5, <1>6, <1>7, <1>8 DEF Next

LEMMA FetchInvHolds == Spec => []FetchInv
<1>1. FetchInv /\ [Next]_vars => FetchInv'
  BY TypesStep, PinningStep, TimingStep, ReadingStep DEF FetchInv
<1> QED
  BY <1>1, FetchInvInit, PTL DEF Spec

-----------------------------------------------------------------------------
(* Whatever a name resolves to and however its records change, a           *)
(* connection is only opened to the address resolveExternalURL vetted.     *)
THEOREM OnlyVettedIsDialed == Spec => []DialsOnlyVetted
<1>1. FetchInv => DialsOnlyVetted
  BY DEF FetchInv, Pinning, Vetted, BuildPinnedAddr, DialsOnlyVetted
<1> QED
  BY <1>1, FetchInvHolds, PTL

(* For every cap, FetchBytesPinned delivers a body whole or not at all.    *)
THEOREM BodyIsWhole == Spec => []WholeBodyOrError
<1>1. FetchInv => WholeBodyOrError
  BY DEF FetchInv, Types, Steps, Reading, WholeBodyOrError, Returned, OK, Is
<1> QED
  BY <1>1, FetchInvHolds, PTL

(* For every pair of timeouts, a fetch is over by the time they give it,   *)
(* wherever the resolver or the peer stalls.                               *)
THEOREM FetchEndsInTime == Spec => []EndsInTime
<1>1. FetchInv => EndsInTime
  BY DEF FetchInv, Timing, Bound, EndsInTime
<1> QED
  BY <1>1, FetchInvHolds, PTL

-----------------------------------------------------------------------------
(* The background context of a CRL fetch never ends, and no other context  *)
(* is past its own deadline before the fetch is.                           *)
Contexts ==
    /\ ctx \in {"live", "context.Canceled"}
    /\ caller = "crl" => ctx = "live"

(* The errors of this fetch, given how its context stands.                 *)
Expected ==
    PinnedFetchErrors
        \cup (IF ctx = "live" THEN {} ELSE InterruptedFetchErrors(ctx))
        \cup (IF caller = "proxy" THEN {Untagged} ELSE {})

(* What an error says of its cause to the CRL cache.                       *)
Explains(err, why) ==
    /\ err # nil /\ err \in Expected
    /\ caller = "crl" => (isTransientFetchError(err) <=> why \in {"network", "timeout"})

(* The errors of resolveExternalURL.                                       *)
LEMMA ResolveErrorsExplain ==
    /\ \A why \in {"url", "address"} : Explains(ErrURLValidation, why)
    /\ Explains(Wrap({"ErrURLValidation", "DNSError"}, nil), "noSuchName")
    /\ Explains(Wrap({"ErrURLValidation", "DNSError", "DNSTemporary"}, nil), "network")
    /\ Explains(Wrap({"ErrURLValidation", "DNSError", "DNSTimeout", "context.DeadlineExceeded"}, nil),
                "timeout")
<1> USE DEF Explains, Expected, PinnedFetchErrors, ResolveErrors, Wrap, nil, isTransientFetchError,
            IsAny, Is, ContextErrors
<1>1. \A why \in {"url", "address"} : Explains(ErrURLValidation, why)
  <2>1. ErrURLValidation = {"error", "ErrURLValidation"}
    BY DEF ErrURLValidation
  <2> QED
    BY <2>1
<1>2. Explains(Wrap({"ErrURLValidation", "DNSError"}, nil), "noSuchName")
  <2>1. Wrap({"ErrURLValidation", "DNSError"}, nil) = {"error", "ErrURLValidation", "DNSError"}
    OBVIOUS
  <2> QED
    BY <2>1
<1>3. Explains(Wrap({"ErrURLValidation", "DNSError", "DNSTemporary"}, nil), "network")
  <2>1. Wrap({"ErrURLValidation", "DNSError", "DNSTemporary"}, nil)
            = {"error", "ErrURLValidation", "DNSError", "DNSTemporary"}
    OBVIOUS
  <2> QED
    BY <2>1
<1>4. Explains(Wrap({"ErrURLValidation", "DNSError", "DNSTimeout", "context.DeadlineExceeded"}, nil),
               "timeout")
  <2>1. Wrap({"ErrURLValidation", "DNSError", "DNSTimeout", "context.DeadlineExceeded"}, nil)
            = {"error", "ErrURLValidation", "DNSError", "DNSTimeout", "context.DeadlineExceeded"}
    OBVIOUS
  <2> QED
    BY <2>1
<1> QED
  BY <1>1, <1>2, <1>3, <1>4

(* The errors of FetchBytesPinned.                                         *)
LEMMA FetchErrorsExplain ==
    /\ Explains(ErrHTTPFetch, "network")
    /\ Explains(Wrap({"ErrHTTPFetch", "ErrRedirect"}, nil), "redirect")
    /\ Explains(Wrap({"ErrNotFound"}, nil), "notFound")
    /\ \A code \in {"Status5xx", "Status408or429", "StatusOther"} :
          Explains(Wrap({"ErrHTTPFetch", "HTTPStatusError", code}, nil),
                   IF code = "StatusOther" THEN "refusal" ELSE "network")
    /\ Explains(Wrap({"ErrResponseTooLarge"}, nil), "tooLarge")
    /\ Explains(Wrap({"ErrHTTPFetch", "context.DeadlineExceeded"}, nil), "timeout")
<1> USE DEF Explains, Expected, PinnedFetchErrors, FetchBytesErrors, Wrap, nil, isTransientFetchError,
            IsAny, Is, ContextErrors
<1>1. Explains(ErrHTTPFetch, "network")
  <2>1. ErrHTTPFetch = {"error", "ErrHTTPFetch"}
    BY DEF ErrHTTPFetch
  <2> QED
    BY <2>1
<1>2. Explains(Wrap({"ErrHTTPFetch", "ErrRedirect"}, nil), "redirect")
  <2>1. Wrap({"ErrHTTPFetch", "ErrRedirect"}, nil) = {"error", "ErrHTTPFetch", "ErrRedirect"}
    OBVIOUS
  <2> QED
    BY <2>1
<1>3. Explains(Wrap({"ErrNotFound"}, nil), "notFound")
  <2>1. Wrap({"ErrNotFound"}, nil) = {"error", "ErrNotFound"}
    OBVIOUS
  <2> QED
    BY <2>1
<1>4. ASSUME NEW code \in {"Status5xx", "Status408or429", "StatusOther"}
      PROVE  Explains(Wrap({"ErrHTTPFetch", "HTTPStatusError", code}, nil),
                      IF code = "StatusOther" THEN "refusal" ELSE "network")
  <2>1. Wrap({"ErrHTTPFetch", "HTTPStatusError", code}, nil)
            = {"error", "ErrHTTPFetch", "HTTPStatusError", code}
    OBVIOUS
  <2>2. {"error", "ErrHTTPFetch", "HTTPStatusError", code} \in PinnedFetchErrors
    OBVIOUS
  <2> QED
    BY <2>1, <2>2, ZenonT(30), ZenonT(60)
<1>5. Explains(Wrap({"ErrResponseTooLarge"}, nil), "tooLarge")
  <2>1. Wrap({"ErrResponseTooLarge"}, nil) = {"error", "ErrResponseTooLarge"}
    OBVIOUS
  <2> QED
    BY <2>1
<1>6. Explains(Wrap({"ErrHTTPFetch", "context.DeadlineExceeded"}, nil), "timeout")
  <2>1. Wrap({"ErrHTTPFetch", "context.DeadlineExceeded"}, nil)
            = {"error", "ErrHTTPFetch", "context.DeadlineExceeded"}
    OBVIOUS
  <2> QED
    BY <2>1
<1> QED
  BY <1>1, <1>2, <1>3, <1>4, <1>5, <1>6

(* The errors that only the proxy's fetch can end with.                    *)
LEMMA ProxyErrorsExplain ==
    ASSUME Contexts
    PROVE  /\ caller = "proxy" => Explains(Untagged, "notJSON")
           /\ ctx = "context.Canceled" =>
                 /\ Explains(Wrap({"ErrURLValidation", "DNSError", "context.Canceled"}, nil), "canceled")
                 /\ Explains(Wrap({"ErrHTTPFetch", "context.Canceled"}, nil), "canceled")
<1>1. caller = "proxy" => Explains(Untagged, "notJSON")
  BY DEF Explains, Expected, Untagged, nil
<1>2. ASSUME ctx = "context.Canceled"
      PROVE  /\ Explains(Wrap({"ErrURLValidation", "DNSError", "context.Canceled"}, nil), "canceled")
             /\ Explains(Wrap({"ErrHTTPFetch", "context.Canceled"}, nil), "canceled")
  <2>1. caller # "crl"
    BY <1>2 DEF Contexts
  <2>2. Wrap({"ErrURLValidation", "DNSError", "context.Canceled"}, nil)
            = {"error", "ErrURLValidation", "DNSError", ctx} \cup {}
    BY <1>2 DEF Wrap, nil
  <2>3. Wrap({"ErrHTTPFetch", "context.Canceled"}, nil) = {"error", "ErrHTTPFetch", ctx}
    BY <1>2 DEF Wrap, nil
  <2>4. InterruptedFetchErrors(ctx) \subseteq Expected
    BY <1>2 DEF Expected
  <2>5. {"error", "ErrURLValidation", "DNSError", ctx} \cup {} \in InterruptedFetchErrors(ctx)
        /\ {"error", "ErrHTTPFetch", ctx} \in InterruptedFetchErrors(ctx)
    BY <1>2 DEF InterruptedFetchErrors
  <2> QED
    BY <2>1, <2>2, <2>3, <2>4, <2>5 DEF Explains, nil
<1> QED
  BY <1>1, <1>2

(* Every return but the one of the body is with an error that explains its *)
(* cause.                                                                  *)
LEMMA ReturnsExplain ==
    ASSUME FetchInv, Contexts, Next, pc' = "returned", pc # "returned"
    PROVE  /\ UNCHANGED <<caller, ctx>>
           /\ \E err, why : Return(err, why) /\ (err = nil \/ Explains(err, why))
<1>1. CASE Resolve
  BY <1>1, ResolveErrorsExplain DEF Resolve, Pin, request, world
<1>2. CASE LookupAnswers
  BY <1>2, ResolveErrorsExplain DEF LookupAnswers, Pin, request, world
<1>3. CASE LookupFails \/ LookupInterrupted
  BY <1>3, ResolveErrorsExplain, ProxyErrorsExplain DEF LookupFails, LookupInterrupted, request, world
<1>4. CASE Do
  BY <1>4, FetchErrorsExplain DEF Do, request, world
<1>5. CASE ReadAll
  BY <1>5, FetchErrorsExplain, ProxyErrorsExplain DEF ReadAll, request, world
<1>6. CASE ReadFails \/ FetchInterrupted
  BY <1>6, FetchErrorsExplain, ProxyErrorsExplain DEF ReadFails, FetchInterrupted, request, world
<1>7. CASE Read \/ Rebind \/ Cancel \/ Tick
  BY <1>7 DEF Read, Rebind, Cancel, Tick
<1> QED
  BY <1>1, <1>2, <1>3, <1>4, <1>5, <1>6, <1>7 DEF Next

(* Whoever is told that a fetch may succeed later is told so because of a  *)
(* failure of the moment, for every way a fetch can end.                   *)
THEOREM ErrorsTellTheCause == Spec => []TransientIffMayPass
<1>1. Init => Contexts /\ TransientIffMayPass
  BY DEF Init, Contexts, TransientIffMayPass, Returned
<1>2. FetchInv /\ Contexts /\ [Next]_vars => Contexts'
  BY ZenonT(30), ZenonT(60)
     DEF Contexts, Next, Resolve, LookupAnswers, LookupFails, LookupInterrupted, Do, Read, ReadAll,
         ReadFails, FetchInterrupted, Rebind, Cancel, Tick, request, world, vars
<1>3. FetchInv /\ Contexts /\ TransientIffMayPass /\ [Next]_vars => TransientIffMayPass'
  <2> SUFFICES ASSUME FetchInv, Contexts, TransientIffMayPass, [Next]_vars PROVE TransientIffMayPass'
    OBVIOUS
  <2>1. CASE Next /\ pc' = "returned" /\ pc # "returned"
    <3>1. PICK err, why : Return(err, why) /\ (err = nil \/ Explains(err, why))
      BY <2>1, ReturnsExplain
    <3>2. UNCHANGED <<caller, ctx>> /\ result'.err = err /\ cause' = why
      BY <2>1, <3>1, ReturnsExplain DEF Return
    <3> QED
      BY <3>1, <3>2 DEF TransientIffMayPass, Returned, OK, Explains, Expected
  <2>2. CASE pc' # "returned"
    <3>1. result' = None
      BY <2>2, ReadingStep DEF Reading
    <3> QED
      BY <3>1 DEF TransientIffMayPass, Returned
  <2>3. CASE pc = "returned"
    <3>1. UNCHANGED <<caller, ctx, cause, result>>
      BY <2>3, ZenonT(30), ZenonT(60)
         DEF Next, Resolve, LookupAnswers, LookupFails, LookupInterrupted, Do, Read, ReadAll,
             ReadFails, FetchInterrupted, Rebind, Cancel, Tick, request, vars
    <3> QED
      BY <3>1 DEF TransientIffMayPass, Returned, OK
  <2>4. CASE UNCHANGED vars
    BY <2>4 DEF TransientIffMayPass, Returned, OK, vars
  <2> QED
    BY <2>1, <2>2, <2>3, <2>4
<1> QED
  BY <1>1, <1>2, <1>3, FetchInvHolds, PTL DEF Spec
=============================================================================
