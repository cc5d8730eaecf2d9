---------------------------- MODULE PinnedFetch ----------------------------
(***************************************************************************)
(* One fetch over a pinned connection: resolveExternalURL                  *)
(* (teeavailabilitycheck/verifier/url_validation.go) vets the URL and what *)
(* its host resolves to, and FetchBytesPinned (fetcher/fetcher.go) dials   *)
(* the address that was vetted.  The name's records may change at any      *)
(* moment in between, the peer may stall or break off, and the caller's    *)
(* context may end.  TeeVerifier and CRLCache take the errors of this      *)
(* fetch as PinnedFetchErrors.  The transport's own timeouts and the       *)
(* caller's deadline are longer than the timeouts of the fetch.            *)
(*                                                                         *)
(* An address is [form, class].  form says how it is written: "4", "6",    *)
(* "mapped" (::ffff:0:0/96), "compat" (::/96), "tunnel" (6to4, Teredo,     *)
(* NAT64) or "bytes" (a slice of no known length).  class says which       *)
(* network it leads to: for "mapped", "compat" and "tunnel" that of the    *)
(* IPv4 address inside.                                                    *)
(***************************************************************************)
EXTENDS Integers, Sequences, ErrorChains

CONSTANTS
    Callers,          \* "crl" and "proxy", for each of them:
    AllowPrivate,     \*   the configurations of allowPrivateNetworks
    FetchTimeout,     \*   crlFetchTimeout, fetchChallengeTimeout
    URLs,             \* what is fetched: [defect, host, port, scheme]
    Records,          \* the answers a name may have: sequences of addresses
    Bodies,           \* the bodies the peer may send: [size, json]
    dnsLookupTimeout,
    maxResponseSize,
    MaxNow,           \* bound: the clock
    MaxRebinds,       \* bound: how often the name's records change
    None

Networks == {"public", "private", "loopback", "linkLocal", "multicast", "unspecified", "reserved"}
Addresses == [form : {"4", "6", "mapped", "compat", "tunnel", "bytes"}, class : Networks]

ASSUME PinnedFetchAssumption ==
    /\ dnsLookupTimeout \in Nat /\ maxResponseSize \in Nat /\ MaxNow \in Nat /\ MaxRebinds \in Nat
    /\ \A c \in Callers : FetchTimeout[c] \in Nat /\ AllowPrivate[c] \subseteq BOOLEAN
    /\ \A u \in URLs : u.host.kind = "literal" => u.host.ip \in Addresses
    /\ \A answer \in Records : \A i \in DOMAIN answer : answer[i] \in Addresses
    /\ \A answer \in Records : answer # <<>> => 1 \in DOMAIN answer
    /\ \A b \in Bodies : b.size \in Nat
    /\ None \notin Nat

VARIABLES
    caller, allowPrivateNetworks, url,
    records,   \* the answer the name has now
    rebinds,   \* how often it changed
    now,
    ctx,       \* "live" or the error the caller's context ended with
    pc,        \* "resolve", "lookup", "do", "body", "returned"
    deadline,  \* of the context of the call in progress, or None
    pinned,    \* the vetted address, or None
    dialed,    \* history: [ip, port] the connection was opened to, or None
    body,      \* the body the peer is sending, or None
    data,      \* the bytes read of it
    cause,     \* history: what went wrong, or None
    result     \* [err, size], or None

vars == <<caller, allowPrivateNetworks, url, records, rebinds, now, ctx, pc, deadline,
          pinned, dialed, body, data, cause, result>>

request == <<caller, allowPrivateNetworks, url>>
world == <<records, rebinds, now, ctx>>

Init ==
    /\ caller \in Callers
    /\ allowPrivateNetworks \in AllowPrivate[caller]
    /\ url \in URLs /\ records \in Records /\ rebinds = 0
    /\ now = 0 /\ ctx = "live" /\ pc = "resolve" /\ deadline = None
    /\ pinned = None /\ dialed = None /\ body = None /\ data = 0
    /\ cause = None /\ result = None

Return(err, why) ==
    /\ result' = [err |-> err, size |-> IF err = nil THEN data ELSE 0]
    /\ cause' = why /\ pc' = "returned" /\ deadline' = None

-----------------------------------------------------------------------------
(***************************************************************************)
(* Which addresses are refused.                                            *)
(***************************************************************************)
Unmap(addr) == IF addr.form = "mapped" THEN [addr EXCEPT !.form = "4"] ELSE addr

(* What net/netip sees of an address: the network of an address inside     *)
(* another one is not looked at.                                           *)
Seen(addr) == IF addr.form \in {"4", "6"} THEN addr.class ELSE "other"

IPv6Loopback == [form |-> "6", class |-> "loopback"]

InCompatPrefix(addr) ==
    addr.form = "compat" \/ (addr.form = "6" /\ addr.class \in {"loopback", "unspecified"})

(* blockedIPPrefixes: the reserved networks, and what carries an IPv4      *)
(* address in a prefix of its own.                                         *)
InBlockedPrefix(addr) == Seen(addr) = "reserved" \/ addr.form = "tunnel"

isDangerousIP(ip) ==
    LET addr == Unmap(ip) IN
    \/ addr.form = "bytes"
    \/ Seen(addr) \in {"linkLocal", "multicast", "unspecified"}
    \/ InCompatPrefix(addr) /\ addr # IPv6Loopback
    \/ InBlockedPrefix(addr)

isPrivateOrLocalIP(ip) == isDangerousIP(ip) \/ Seen(Unmap(ip)) \in {"loopback", "private"}

Refused(ip) == IF allowPrivateNetworks THEN isDangerousIP(ip) ELSE isPrivateOrLocalIP(ip)

-----------------------------------------------------------------------------
(***************************************************************************)
(* resolveExternalURL.                                                     *)
(***************************************************************************)
ErrURLValidation == Wrap({"ErrURLValidation"}, nil)

(* The checks before any lookup.  A defect is one of: too long, not        *)
(* parsable, another scheme, no host, userinfo, no hostname.               *)
URLRefused ==
    \/ url.defect # "none"
    \/ url.host.kind = "local" /\ ~ allowPrivateNetworks
    \/ url.host.kind = "literal" /\ Refused(url.host.ip)

PinUntimed(ip) ==
    /\ pinned' = ip /\ pc' = "do" /\ deadline' = None
    /\ UNCHANGED <<cause, result>>

(* The vetted address goes to FetchBytesPinned, which starts its timeout.  *)
Pin(ip) ==
    /\ pinned' = ip /\ pc' = "do" /\ deadline' = now + FetchTimeout[caller]
    /\ UNCHANGED <<cause, result>>

Resolve ==
    /\ pc = "resolve"
    /\ \/ URLRefused /\ Return(ErrURLValidation, "url") /\ UNCHANGED pinned
       \/ ~ URLRefused /\ url.host.kind = "literal" /\ Pin(url.host.ip)
       \/ /\ ~ URLRefused /\ url.host.kind # "literal"
          /\ pc' = "lookup" /\ deadline' = now + dnsLookupTimeout
          /\ UNCHANGED <<pinned, cause, result>>
    /\ UNCHANGED <<request, world, dialed, body, data>>

(* The lookup answers with the records of this moment; all of them are     *)
(* vetted and the first is pinned.                                         *)
LookupAnswers ==
    /\ pc = "lookup"
    /\ IF records = <<>> \/ \E i \in DOMAIN records : Refused(records[i])
       THEN Return(ErrURLValidation, "address") /\ UNCHANGED pinned
       ELSE Pin(records[1])
    /\ UNCHANGED <<request, world, dialed, body, data>>

(* The resolver fails: the name does not exist, or for a moment.           *)
LookupFails ==
    /\ pc = "lookup"
    /\ \/ Return(Wrap({"ErrURLValidation", "DNSError"}, nil), "noSuchName")
       \/ Return(Wrap({"ErrURLValidation", "DNSError", "DNSTemporary"}, nil), "network")
    /\ UNCHANGED <<request, world, pinned, dialed, body, data>>

Expired == deadline # None /\ now >= deadline

(* Its context ends the lookup: a deadline is a DNS timeout, the caller's  *)
(* cancellation is not.                                                    *)
LookupInterrupted ==
    /\ pc = "lookup"
    /\ \/ /\ Expired
          /\ Return(Wrap({"ErrURLValidation", "DNSError", "DNSTimeout", "context.DeadlineExceeded"}, nil),
                    "timeout")
       \/ /\ ctx = "context.Canceled"
          /\ Return(Wrap({"ErrURLValidation", "DNSError", "context.Canceled"}, nil), "canceled")
    /\ UNCHANGED <<request, world, pinned, dialed, body, data>>

-----------------------------------------------------------------------------
(***************************************************************************)
(* FetchBytesPinned.                                                       *)
(***************************************************************************)
ErrHTTPFetch == Wrap({"ErrHTTPFetch"}, nil)

BuildPinnedAddr(ip) ==
    [ip |-> ip, port |-> IF url.port # None THEN url.port
                         ELSE IF url.scheme = "https" THEN 443 ELSE 80]

DialsByName == IF url.host.kind = "literal" \/ records = <<>> THEN pinned ELSE records[1]

(* DialContext ignores the URL's host.                                     *)
DialAddr == pinned

(* client.Do: the connection, the request, the status.  Every status but   *)
(* 200 ends it, and so does a redirect (noRedirects).                      *)
Do ==
    /\ pc = "do"
    /\ dialed' = BuildPinnedAddr(DialAddr)
    /\ \/ Return(ErrHTTPFetch, "network") /\ UNCHANGED body
       \/ Return(Wrap({"ErrHTTPFetch", "ErrRedirect"}, nil), "redirect") /\ UNCHANGED body
       \/ Return(Wrap({"ErrNotFound"}, nil), "notFound") /\ UNCHANGED body
       \/ \E code \in {"Status5xx", "Status408or429", "StatusOther"} :
             /\ Return(Wrap({"ErrHTTPFetch", "HTTPStatusError", code}, nil),
                       IF code = "StatusOther" THEN "refusal" ELSE "network")
             /\ UNCHANGED body
       \/ /\ body' \in Bodies /\ pc' = "body"
          /\ UNCHANGED <<deadline, cause, result>>
    /\ UNCHANGED <<request, world, pinned, data>>

ReadLimitAtCap == maxResponseSize
ReadLimit == maxResponseSize + 1

(* One more byte of the body, up to one beyond the cap.                    *)
Read ==
    /\ pc = "body" /\ data < body.size /\ data < ReadLimit
    /\ data' = data + 1
    /\ UNCHANGED <<request, world, pc, deadline, pinned, dialed, body, cause, result>>

(* io.ReadAll returns, and FetchJSONPinned decodes what the proxy sent.    *)
ReadAll ==
    /\ pc = "body" /\ (data = body.size \/ data = ReadLimit)
    /\ IF data > maxResponseSize
       THEN Return(Wrap({"ErrResponseTooLarge"}, nil), "tooLarge")
       ELSE IF caller = "proxy" /\ ~ body.json
       THEN Return(Untagged, "notJSON")
       ELSE Return(nil, None)
    /\ UNCHANGED <<request, world, pinned, dialed, body, data>>

(* The peer breaks off before the end of the body.                         *)
ReadFails ==
    /\ pc = "body" /\ data < body.size /\ data < ReadLimit
    /\ Return(ErrHTTPFetch, "network")
    /\ UNCHANGED <<request, world, pinned, dialed, body, data>>

(* The context ends the request, before or after the dial, or the reading. *)
FetchInterrupted ==
    /\ pc \in {"do", "body"}
    /\ \/ Expired /\ Return(Wrap({"ErrHTTPFetch", "context.DeadlineExceeded"}, nil), "timeout")
       \/ /\ ctx = "context.Canceled"
          /\ Return(Wrap({"ErrHTTPFetch", "context.Canceled"}, nil), "canceled")
    /\ dialed' \in {dialed, IF pc = "do" THEN BuildPinnedAddr(DialAddr) ELSE dialed}
    /\ UNCHANGED <<request, world, pinned, body, data>>

-----------------------------------------------------------------------------
(* The owner of the name changes its records.                              *)
Rebind ==
    /\ pc \in {"lookup", "do"} /\ rebinds < MaxRebinds
    /\ records' \in Records \ {records} /\ rebinds' = rebinds + 1
    /\ UNCHANGED <<request, now, ctx, pc, deadline, pinned, dialed, body, data, cause, result>>

(* The client goes away; the fetch of a CRL has a background context.      *)
Cancel ==
    /\ caller = "proxy" /\ pc # "returned" /\ ctx = "live"
    /\ ctx' = "context.Canceled"
    /\ UNCHANGED <<request, records, rebinds, now, pc, deadline, pinned, dialed, body, data,
                   cause, result>>

(* Time passes while a call waits; an expired context interrupts it first. *)
Tick ==
    /\ pc \in {"lookup", "do", "body"} /\ now < MaxNow /\ ~ Expired /\ ctx = "live"
    /\ now' = now + 1
    /\ UNCHANGED <<request, records, rebinds, ctx, pc, deadline, pinned, dialed, body, data,
                   cause, result>>

Next ==
    \/ Resolve \/ LookupAnswers \/ LookupFails \/ LookupInterrupted
    \/ Do \/ Read \/ ReadAll \/ ReadFails \/ FetchInterrupted
    \/ Rebind \/ Cancel \/ Tick

Spec == Init /\ [][Next]_vars
-----------------------------------------------------------------------------
Returned == result # None
OK == Returned /\ result.err = nil

(* The networks a caller may reach.                                        *)
Reachable == {"public"} \cup (IF allowPrivateNetworks THEN {"private", "loopback"} ELSE {})

(* A connection is only ever opened to an address that was vetted for this *)
(* URL and leads to a network this caller may reach, however it is written *)
(* and whatever the name resolves to by then (resolveExternalURL, the      *)
(* DialContext of FetchBytesPinned); it goes to the URL's port.            *)
DialsOnlyVetted ==
    dialed # None =>
        /\ dialed.ip = pinned /\ pinned.class \in Reachable
        /\ url.host.kind = "literal" => pinned = url.host.ip
        /\ url.port # None => dialed.port = url.port

(* A body is delivered whole or not at all (LimitReader, ReadAll): one of  *)
(* at most maxResponseSize bytes is never refused for its size or cut      *)
(* short, a longer one never delivered.                                    *)
WholeBodyOrError ==
    /\ OK => result.size = body.size /\ body.size <= maxResponseSize
    /\ Returned => (Is(result.err, "ErrResponseTooLarge") => body.size > maxResponseSize)

(* The error says whether to try again (isTransientFetchError): for the    *)
(* CRL cache it is transient exactly if the network, the resolver or the   *)
(* peer failed for a moment or time ran out.  And every failure is one     *)
(* that TeeVerifier and CRLCache reckon with.                              *)
TransientIffMayPass ==
    Returned /\ ~ OK =>
        /\ caller = "crl" => (isTransientFetchError(result.err) <=> cause \in {"network", "timeout"})
        /\ result.err \in PinnedFetchErrors
              \cup (IF ctx = "live" THEN {} ELSE InterruptedFetchErrors(ctx))
              \cup (IF caller = "proxy" THEN {Untagged} ELSE {})

(* A fetch ends in time, wherever resolver and peer stall: within the      *)
(* lookup's and the fetch's own timeouts together (context.WithTimeout in  *)
(* resolveExternalURL and FetchBytesPinned), and a host that needs no      *)
(* lookup within the latter alone.                                         *)
EndsInTime ==
    ~ Returned =>
        now <= FetchTimeout[caller] + (IF url.host.kind = "literal" THEN 0 ELSE dnsLookupTimeout)
=============================================================================
