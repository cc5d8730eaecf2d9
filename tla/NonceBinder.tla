---------------------------- MODULE NonceBinder ----------------------------
(***************************************************************************)
(* The sequence binder of the payment attestations (pmwnonce/binder.go):   *)
(* VerifySequence checks a payment's XRP sequence against the value the    *)
(* contract assigns it, initialNonce + paymentId - 1.  initialNonce is     *)
(* read over RPC, outside the lock, and kept in an LRU list with an index. *)
(* Concurrent requests interleave between the lookup, the RPC and the      *)
(* store.  Integers are unsigned and at most MaxUint (2^64 - 1).           *)
(***************************************************************************)
EXTENDS Integers, Sequences, FiniteSets, ErrorChains

CONSTANTS
    Requests,       \* calls of VerifySequence, each made once
    Accounts,       \* the keys: sourceId and account address
    GetInitialNonce,\* the contract's immutable answer per account
    Args,           \* the arguments a request may be called with
    MaxEntries,     \* maxInitialNonceCacheEntries
    MaxUint,
    None

ASSUME BinderAssumption ==
    /\ MaxEntries \in Nat \ {0}
    /\ MaxUint \in Nat
    /\ GetInitialNonce \in [Accounts -> 0 .. MaxUint]
    /\ Args \subseteq [account : Accounts, paymentId : 0 .. MaxUint, gotSequence : 0 .. MaxUint]
    /\ None \notin Args

VARIABLES
    ll,      \* the list, front (most recently used) first: records [key, nonce]
    cache,   \* the index: the set of keys that point to an element
    uses,    \* history: the keys in the order they were hit or stored
    pc,      \* per request "idle", "lookup", "rpc", "store", "done"
    arg,     \* per request its arguments
    nonce,   \* per request the initialNonce it read
    verdict  \* per request the error VerifySequence returned

vars == <<ll, cache, uses, pc, arg, nonce, verdict>>

Init ==
    /\ ll = <<>> /\ cache = {} /\ uses = <<>>
    /\ pc = [r \in Requests |-> "idle"]
    /\ arg = [r \in Requests |-> None]
    /\ nonce = [r \in Requests |-> 0]
    /\ verdict = [r \in Requests |-> nil]

-----------------------------------------------------------------------------
(***************************************************************************)
(* container/list, as the binder uses it.                                  *)
(***************************************************************************)
FrontPosition(key) == 1

Position(key) == CHOOSE i \in DOMAIN ll : ll[i].key = key

ToFrontStays(i, e) == [ll EXCEPT ![i] = e]

(* The list with element i taken out and e put at the front.               *)
ToFront(i, e) == <<e>> \o SubSeq(ll, 1, i - 1) \o SubSeq(ll, i + 1, Len(ll))

storeNonceAlwaysPushes(key, n) ==
    LET pushed == <<[key |-> key, nonce |-> n]>> \o ll
    IN  IF Len(pushed) > MaxEntries
        THEN /\ ll' = SubSeq(pushed, 1, Len(pushed) - 1)
             /\ cache' = (cache \cup {key}) \ {pushed[Len(pushed)].key}
        ELSE ll' = pushed /\ cache' = cache \cup {key}

(* storeNonce: refresh an element another request stored meanwhile, or     *)
(* push a new one and drop the least recently used over capacity.          *)
storeNonce(key, n) ==
    LET pushed == <<[key |-> key, nonce |-> n]>> \o ll
        oldest == pushed[Len(pushed)]
    IN  IF key \in cache
        THEN ll' = ToFront(Position(key), [key |-> key, nonce |-> n]) /\ UNCHANGED cache
        ELSE IF Len(pushed) > MaxEntries
        THEN /\ ll' = SubSeq(pushed, 1, Len(pushed) - 1)
             /\ cache' = (cache \cup {key}) \ {oldest.key}
        ELSE ll' = pushed /\ cache' = cache \cup {key}

-----------------------------------------------------------------------------
bindsUnguarded(initial, paymentId, got) ==
    got = (initial + paymentId - 1) % (MaxUint + 1)

(* The comparison, in unsigned arithmetic: the guard comes first.          *)
binds(initial, paymentId, got) ==
    /\ initial <= MaxUint - (paymentId - 1)
    /\ got = (initial + paymentId - 1) % (MaxUint + 1)

Decide(r, initial) ==
    /\ verdict' = [verdict EXCEPT ![r] =
            IF binds(initial, arg[r].paymentId, arg[r].gotSequence) THEN nil ELSE ErrDatabase]
    /\ pc' = [pc EXCEPT ![r] = "done"]

VerifySequenceTakesZero(r) ==
    /\ pc[r] = "idle"
    /\ \E a \in Args : arg' = [arg EXCEPT ![r] = a]
    /\ pc' = [pc EXCEPT ![r] = "lookup"]
    /\ UNCHANGED <<ll, cache, uses, nonce, verdict>>

VerifySequence(r) ==
    /\ pc[r] = "idle"
    /\ \E a \in Args :
        /\ arg' = [arg EXCEPT ![r] = a]
        /\ IF a.paymentId = 0
           THEN /\ verdict' = [verdict EXCEPT ![r] = ErrDatabase]
                /\ pc' = [pc EXCEPT ![r] = "done"]
           ELSE pc' = [pc EXCEPT ![r] = "lookup"] /\ UNCHANGED verdict
    /\ UNCHANGED <<ll, cache, uses, nonce>>

cachedNonce(r) ==
    LET key == arg[r].account
        el == ll[Position(key)]
    IN  /\ pc[r] = "lookup"
        /\ IF key \in cache
           THEN /\ ll' = ToFront(Position(key), el)
                /\ uses' = Append(uses, key)
                /\ nonce' = [nonce EXCEPT ![r] = el.nonce]
                /\ Decide(r, el.nonce)
           ELSE /\ pc' = [pc EXCEPT ![r] = "rpc"]
                /\ UNCHANGED <<ll, uses, nonce, verdict>>
        /\ UNCHANGED <<cache, arg>>

(* The eth_call: it answers, or fails for any reason (rpcTimeout and the   *)
(* caller's context included) with an error whose chain is dropped.        *)
initialNonce(r) ==
    /\ pc[r] = "rpc"
    /\ \/ /\ nonce' = [nonce EXCEPT ![r] = GetInitialNonce[arg[r].account]]
          /\ pc' = [pc EXCEPT ![r] = "store"]
          /\ UNCHANGED verdict
       \/ /\ verdict' = [verdict EXCEPT ![r] = ErrDatabase]
          /\ pc' = [pc EXCEPT ![r] = "done"]
          /\ UNCHANGED nonce
    /\ UNCHANGED <<ll, cache, uses, arg>>

Store(r) ==
    /\ pc[r] = "store"
    /\ storeNonce(arg[r].account, nonce[r])
    /\ uses' = Append(uses, arg[r].account)
    /\ Decide(r, nonce[r])
    /\ UNCHANGED <<arg, nonce>>

Step(r) == VerifySequence(r) \/ cachedNonce(r) \/ initialNonce(r) \/ Store(r)

Next == \E r \in Requests : Step(r)

Spec == Init /\ [][Next]_vars
-----------------------------------------------------------------------------
Element == [key : Accounts, nonce : 0 .. MaxUint]

(* Every variable keeps its shape, and a request at work has arguments with*)
(* a payment id of at least one.                                           *)
TypeOK ==
    /\ ll \in Seq(Element)
    /\ cache \in SUBSET Accounts
    /\ uses \in Seq(Accounts)
    /\ pc \in [Requests -> {"idle", "lookup", "rpc", "store", "done"}]
    /\ arg \in [Requests -> Args \cup {None}]
    /\ nonce \in [Requests -> 0 .. MaxUint]
    /\ verdict \in [Requests -> {nil, ErrDatabase}]
    /\ \A r \in Requests : pc[r] # "idle" => arg[r] \in Args
    /\ \A r \in Requests : pc[r] \in {"lookup", "rpc", "store"} => arg[r].paymentId >= 1

(* The index and the list agree: one element per key and none beyond the   *)
(* capacity, although two requests that both missed may both store.        *)
IndexMatchesList ==
    /\ cache = {ll[i].key : i \in DOMAIN ll}
    /\ Cardinality(cache) = Len(ll)
    /\ Len(ll) <= MaxEntries

(* A sequence is accepted only if it is the one the contract assigns the   *)
(* payment, in unbounded arithmetic: no wrap-around of the sum, no value   *)
(* cached for another account, makes a foreign sequence pass.              *)
AcceptedIsAssigned ==
    \A r \in Requests : pc[r] = "done" /\ verdict[r] = nil =>
        /\ arg[r].paymentId >= 1
        /\ arg[r].gotSequence = GetInitialNonce[arg[r].account] + arg[r].paymentId - 1

(* The right sequence is refused only by a failed RPC: what other requests *)
(* put in the cache, evicted or refreshed never turns it away.             *)
RefusedOnlyByRPC ==
    [][\A r \in Requests :
        /\ pc[r] \in {"lookup", "store"} /\ pc'[r] = "done"
        /\ arg[r].gotSequence = GetInitialNonce[arg[r].account] + arg[r].paymentId - 1
        => verdict'[r] = nil]_vars

Promise == INSTANCE SequenceOracle WITH
    asked <- arg,
    answered <- [r \in Requests |-> IF pc[r] = "done" THEN verdict[r] ELSE None]

(* The binder implements its promise (SequenceOracle): lookups, RPCs,      *)
(* stores and evictions of several requests leave each with one answer,    *)
(* the one a direct reading of the contract gives, or an error.            *)
ImplementsSequenceOracle == Promise!Spec

LastUse(key) ==
    CHOOSE i \in DOMAIN uses :
        uses[i] = key /\ \A j \in DOMAIN uses : uses[j] = key => j <= i

(* What is cached is what was used last, the most recent first: a hit      *)
(* protects its entry from the next eviction (MoveToFront, Back).          *)
KeepsMostRecentlyUsed ==
    LET used == {uses[i] : i \in DOMAIN uses} IN
    /\ \A i, j \in DOMAIN ll : i < j => LastUse(ll[i].key) > LastUse(ll[j].key)
    /\ \A key \in used \ cache : \A i \in DOMAIN ll : LastUse(key) < LastUse(ll[i].key)
    /\ used \ cache # {} => Len(ll) = MaxEntries
=============================================================================
