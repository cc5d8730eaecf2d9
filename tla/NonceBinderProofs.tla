------------------------- MODULE NonceBinderProofs -------------------------
(***************************************************************************)
(* NonceBinder for any number of requests and accounts, any capacity and   *)
(* any integer width.                                                      *)
(***************************************************************************)
EXTENDS NonceBinder, FiniteSetTheorems, TLAPS

(* The backends of every step that does not name its own: each twice, so   *)
(* that a slow machine costs time and not the proof.                       *)
USE SMTT(20), ZenonT(30), SMTT(60), ZenonT(60)

(* The values in the cache, and the ones requests are about to store, are  *)
(* the contract's; and every key in the index has its element.             *)
NoncesAreOnChain ==
    /\ \A i \in DOMAIN ll : ll[i].nonce = GetInitialNonce[ll[i].key]
    /\ \A key \in cache : \E i \in DOMAIN ll : ll[i].key = key
    /\ \A r \in Requests : pc[r] = "store" => nonce[r] = GetInitialNonce[arg[r].account]

(* A request that has not called has no arguments.                         *)
IdleIsUnasked == \A r \in Requests : pc[r] = "idle" => arg[r] = None

BinderInv == TypeOK /\ NoncesAreOnChain /\ AcceptedIsAssigned /\ IdleIsUnasked

(* Moving an element to the front changes no other element.                *)
LEMMA ToFrontElements ==
    ASSUME ll \in Seq(Element), NEW i \in DOMAIN ll, NEW e \in Element
    PROVE  /\ ToFront(i, e) \in Seq(Element)
           /\ \A m \in DOMAIN ToFront(i, e) :
                 ToFront(i, e)[m] = e \/ \E n \in DOMAIN ll : ToFront(i, e)[m] = ll[n]
           /\ \A n \in DOMAIN ll \ {i} : \E m \in DOMAIN ToFront(i, e) : ToFront(i, e)[m] = ll[n]
           /\ 1 \in DOMAIN ToFront(i, e) /\ ToFront(i, e)[1] = e
           /\ Len(ToFront(i, e)) = Len(ll)
           /\ \A m \in 2 .. i : ToFront(i, e)[m] = ll[m - 1]
           /\ \A m \in i + 1 .. Len(ll) : ToFront(i, e)[m] = ll[m]
<1> DEFINE s == ToFront(i, e)
           head == <<e>> \o SubSeq(ll, 1, i - 1)
           tail == SubSeq(ll, i + 1, Len(ll))
<1>1. i \in 1 .. Len(ll) /\ Len(ll) \in Nat /\ DOMAIN ll = 1 .. Len(ll)
  OBVIOUS
<1>2. /\ head \in Seq(Element) /\ Len(head) = i
      /\ \A m \in 1 .. i : head[m] = IF m = 1 THEN e ELSE ll[m - 1]
  <2> DEFINE before == SubSeq(ll, 1, i - 1)
  <2>1. before \in Seq(Element) /\ Len(before) = i - 1 /\ \A n \in 1 .. i - 1 : before[n] = ll[n]
    BY <1>1
  <2>2. head = <<e>> \o before
    OBVIOUS
  <2> HIDE DEF before, head
  <2> QED
    BY <1>1, <2>1, <2>2
<1>3. /\ tail \in Seq(Element) /\ Len(tail) = Len(ll) - i
      /\ \A n \in 1 .. Len(ll) - i : tail[n] = ll[n + i]
  BY <1>1
<1>4. s = head \o tail
  BY DEF ToFront
<1> HIDE DEF s, head, tail
<1>5. s \in Seq(Element) /\ Len(s) = Len(ll) /\ DOMAIN s = 1 .. Len(ll)
  <2>1. Len(head) + Len(tail) = Len(ll)
    BY <1>1, <1>2, <1>3
  <2> QED
    BY <1>2, <1>3, <1>4, <2>1
<1>6. \A m \in 1 .. Len(ll) : s[m] = IF m <= i THEN head[m] ELSE tail[m - i]
  <2> SUFFICES ASSUME NEW m \in 1 .. Len(ll)
               PROVE  s[m] = IF m <= i THEN head[m] ELSE tail[m - i]
    OBVIOUS
  <2>1. m \in 1 .. Len(head) + Len(tail)
    BY <1>1, <1>2, <1>3
  <2> QED
    BY <1>1, <1>2, <1>3, <1>4, <2>1
<1>7. \A m \in 1 .. i : s[m] = IF m = 1 THEN e ELSE ll[m - 1]
  BY <1>1, <1>2, <1>6
<1>8. \A m \in i + 1 .. Len(ll) : s[m] = ll[m]
  <2> SUFFICES ASSUME NEW m \in i + 1 .. Len(ll) PROVE s[m] = ll[m]
    OBVIOUS
  <2>1. m \in 1 .. Len(ll) /\ ~(m <= i) /\ m - i \in 1 .. Len(ll) - i /\ (m - i) + i = m
    BY <1>1
  <2> QED
    BY <1>3, <1>6, <2>1
<1>9. ASSUME NEW m \in DOMAIN s
      PROVE  s[m] = e \/ \E n \in DOMAIN ll : s[m] = ll[n]
  <2>1. m \in 1 .. i \/ m \in i + 1 .. Len(ll)
    BY <1>1, <1>5
  <2> QED
    BY <1>1, <1>7, <1>8, <2>1
<1>10. ASSUME NEW n \in DOMAIN ll \ {i}
       PROVE  \E m \in DOMAIN s : s[m] = ll[n]
  <2>1. CASE n < i
    <3>1. n + 1 \in 1 .. i /\ n + 1 # 1 /\ (n + 1) - 1 = n /\ n + 1 \in DOMAIN s
      BY <1>1, <1>5, <2>1
    <3> QED
      BY <1>7, <3>1
  <2>2. CASE n > i
    BY <1>1, <1>5, <1>8, <2>2
  <2> QED
    BY <1>1, <2>1, <2>2
<1>11. 1 \in DOMAIN s /\ s[1] = e
  BY <1>1, <1>5, <1>7
<1>12. \A m \in 2 .. i : s[m] = ll[m - 1]
  BY <1>1, <1>7
<1> QED
  BY <1>5, <1>8, <1>9, <1>10, <1>11, <1>12 DEF s

(* A cached key's position is the position of an element with that key.    *)
LEMMA PositionOf ==
    ASSUME NoncesAreOnChain, NEW key \in cache
    PROVE  Position(key) \in DOMAIN ll /\ ll[Position(key)].key = key
  BY DEF NoncesAreOnChain, Position

(* The guarded comparison is the one of unbounded arithmetic.              *)
LEMMA BindsIsExact ==
    ASSUME NEW initial \in 0 .. MaxUint, NEW paymentId \in 1 .. MaxUint, NEW got \in 0 .. MaxUint
    PROVE  binds(initial, paymentId, got) <=> got = initial + paymentId - 1
<1>1. MaxUint \in Nat
  BY BinderAssumption
<1>2. ASSUME initial <= MaxUint - (paymentId - 1)
      PROVE  (initial + paymentId - 1) % (MaxUint + 1) = initial + paymentId - 1
  BY <1>1, <1>2
<1> QED
  BY <1>1, <1>2 DEF binds

(* Storing keeps the list and the index on chain.                          *)
LEMMA StoreOnChain ==
    ASSUME TypeOK, NoncesAreOnChain, NEW key \in Accounts, NEW n,
           n = GetInitialNonce[key], storeNonce(key, n)
    PROVE  /\ ll' \in Seq(Element) /\ cache' \in SUBSET Accounts
           /\ \A i \in DOMAIN ll' : ll'[i].nonce = GetInitialNonce[ll'[i].key]
           /\ \A k \in cache' : \E i \in DOMAIN ll' : ll'[i].key = k
<1> DEFINE e == [key |-> key, nonce |-> n]
           pushed == <<e>> \o ll
<1>1. e \in Element
  BY BinderAssumption DEF Element
<1>2. ll \in Seq(Element) /\ Len(ll) \in Nat /\ cache \in SUBSET Accounts /\ DOMAIN ll = 1 .. Len(ll)
  BY DEF TypeOK
<1>3. /\ pushed \in Seq(Element) /\ Len(pushed) = Len(ll) + 1
      /\ DOMAIN pushed = 1 .. Len(ll) + 1
      /\ \A i \in 1 .. Len(ll) + 1 : pushed[i] = IF i = 1 THEN e ELSE ll[i - 1]
  BY <1>1, <1>2
<1>4. e.key = key /\ e.nonce = GetInitialNonce[e.key]
  OBVIOUS
<1>5. /\ \A i \in DOMAIN pushed : pushed[i].nonce = GetInitialNonce[pushed[i].key]
      /\ \A k \in cache \cup {key} : \E i \in DOMAIN pushed : pushed[i].key = k
  <2>1. \A i \in DOMAIN pushed : pushed[i].nonce = GetInitialNonce[pushed[i].key]
    <3> SUFFICES ASSUME NEW i \in DOMAIN pushed
                 PROVE  pushed[i].nonce = GetInitialNonce[pushed[i].key]
      OBVIOUS
    <3>1. pushed[i] = e \/ \E j \in DOMAIN ll : pushed[i] = ll[j]
      <4>1. i = 1 \/ (i # 1 /\ i - 1 \in DOMAIN ll)
        BY <1>2, <1>3
      <4> QED
        BY <1>3, <4>1
    <3> QED
      BY <1>4, <3>1 DEF NoncesAreOnChain
  <2>2. ASSUME NEW k \in cache
        PROVE  \E i \in DOMAIN pushed : pushed[i].key = k
    <3>1. PICK j \in DOMAIN ll : ll[j].key = k
      BY DEF NoncesAreOnChain
    <3>2. j + 1 \in DOMAIN pushed /\ pushed[j + 1] = ll[j]
      BY <1>2, <1>3
    <3> QED
      BY <3>1, <3>2
  <2>3. \E i \in DOMAIN pushed : pushed[i].key = key
    BY <1>2, <1>3, <1>4
  <2> QED
    BY <2>1, <2>2, <2>3
<1> HIDE DEF pushed, e
<1>6. CASE key \in cache
  <2>1. ll' = ToFront(Position(key), e) /\ cache' = cache
    BY <1>6 DEF storeNonce, e
  <2>2. Position(key) \in DOMAIN ll /\ ll[Position(key)].key = key
    BY <1>6, PositionOf
  <2>3. /\ ll' \in Seq(Element)
        /\ \A m \in DOMAIN ll' : ll'[m] = e \/ \E j \in DOMAIN ll : ll'[m] = ll[j]
        /\ \A j \in DOMAIN ll \ {Position(key)} : \E m \in DOMAIN ll' : ll'[m] = ll[j]
        /\ 1 \in DOMAIN ll' /\ ll'[1] = e
    BY <1>1, <1>2, <2>1, <2>2, ToFrontElements
  <2>4. \A i \in DOMAIN ll' : ll'[i].nonce = GetInitialNonce[ll'[i].key]
    BY <1>4, <2>3 DEF NoncesAreOnChain
  <2>5. \A k \in cache : \E i \in DOMAIN ll' : ll'[i].key = k
    <3> SUFFICES ASSUME NEW k \in cache PROVE \E i \in DOMAIN ll' : ll'[i].key = k
      OBVIOUS
    <3>1. PICK j \in DOMAIN ll : ll[j].key = k
      BY DEF NoncesAreOnChain
    <3> QED
      BY <1>4, <2>2, <2>3, <3>1
  <2> QED
    BY <1>2, <2>1, <2>3, <2>4, <2>5
<1>7. CASE key \notin cache /\ Len(pushed) > MaxEntries
  <2>1. /\ ll' = SubSeq(pushed, 1, Len(pushed) - 1)
        /\ cache' = (cache \cup {key}) \ {pushed[Len(pushed)].key}
    BY <1>7 DEF storeNonce, pushed, e
  <2>2. /\ ll' \in Seq(Element) /\ DOMAIN ll' = 1 .. Len(pushed) - 1
        /\ \A i \in 1 .. Len(pushed) - 1 : ll'[i] = pushed[i]
    BY <1>2, <1>3, <2>1
  <2>3. \A k \in cache' : \E i \in DOMAIN ll' : ll'[i].key = k
    <3> SUFFICES ASSUME NEW k \in cache' PROVE \E i \in DOMAIN ll' : ll'[i].key = k
      OBVIOUS
    <3>1. PICK i \in DOMAIN pushed : pushed[i].key = k
      BY <1>5, <2>1
    <3>2. i # Len(pushed)
      BY <2>1, <3>1
    <3> QED
      BY <1>2, <1>3, <2>2, <3>1, <3>2
  <2> QED
    BY <1>2, <1>3, <1>5, <2>1, <2>2, <2>3
<1>8. CASE key \notin cache /\ ~(Len(pushed) > MaxEntries)
  <2>1. ll' = pushed /\ cache' = cache \cup {key}
    BY <1>8 DEF storeNonce, pushed, e
  <2> QED
    BY <1>2, <1>3, <1>5, <2>1, ZenonT(30), ZenonT(60)
<1> QED
  BY <1>6, <1>7, <1>8

-----------------------------------------------------------------------------
(* A request decides with its account's nonce, so it decides exactly.      *)
LEMMA DecideIsExact ==
    ASSUME TypeOK, NEW r \in Requests, NEW initial,
           initial = GetInitialNonce[arg[r].account],
           pc[r] \in {"lookup", "store"}, Decide(r, initial)
    PROVE  /\ verdict' \in [Requests -> {nil, ErrDatabase}]
           /\ pc' = [pc EXCEPT ![r] = "done"]
           /\ \A q \in Requests \ {r} : verdict'[q] = verdict[q]
           /\ verdict'[r] = nil <=> arg[r].gotSequence = initial + arg[r].paymentId - 1
<1>1. /\ arg[r].account \in Accounts /\ arg[r].paymentId \in 1 .. MaxUint
      /\ arg[r].gotSequence \in 0 .. MaxUint
  BY BinderAssumption DEF TypeOK
<1>2. initial \in 0 .. MaxUint
  BY <1>1, BinderAssumption
<1>3. binds(initial, arg[r].paymentId, arg[r].gotSequence)
        <=> arg[r].gotSequence = initial + arg[r].paymentId - 1
  BY <1>1, <1>2, BindsIsExact
<1>4. nil # ErrDatabase
  BY DEF nil, ErrDatabase, Wrap
<1> QED
  BY <1>3, <1>4 DEF Decide, TypeOK

(* An empty cache satisfies the invariant.                                 *)
LEMMA BinderInvInit == Init => BinderInv
  BY BinderAssumption DEF Init, BinderInv, TypeOK, NoncesAreOnChain, AcceptedIsAssigned, IdleIsUnasked

(* One step of one request keeps the invariant.                            *)
LEMMA BinderInvStep == BinderInv /\ [Next]_vars => BinderInv'
<1> SUFFICES ASSUME BinderInv, [Next]_vars PROVE BinderInv'
  OBVIOUS
<1>0. TypeOK /\ NoncesAreOnChain /\ AcceptedIsAssigned /\ IdleIsUnasked
  BY DEF BinderInv
<1>1. ASSUME NEW r \in Requests, VerifySequence(r) PROVE BinderInv'
  <2>1. PICK a \in Args :
          /\ arg' = [arg EXCEPT ![r] = a]
          /\ IF a.paymentId = 0
             THEN /\ verdict' = [verdict EXCEPT ![r] = ErrDatabase]
                  /\ pc' = [pc EXCEPT ![r] = "done"]
             ELSE pc' = [pc EXCEPT ![r] = "lookup"] /\ UNCHANGED verdict
    BY <1>1, ZenonT(30), ZenonT(60) DEF VerifySequence
  <2>2. a.paymentId \in Nat /\ (a.paymentId # 0 => a.paymentId >= 1)
    BY BinderAssumption
  <2>3. nil # ErrDatabase
    BY DEF nil, ErrDatabase, Wrap
  <2>4. TypeOK'
    BY <1>0, <1>1, <2>1, <2>2, ZenonT(30), ZenonT(60) DEF VerifySequence, TypeOK
  <2>5. NoncesAreOnChain'
    BY <1>0, <1>1, <2>1 DEF VerifySequence, TypeOK, NoncesAreOnChain
  <2>6. AcceptedIsAssigned'
    BY <1>0, <1>1, <2>1, <2>3 DEF VerifySequence, TypeOK, AcceptedIsAssigned
  <2>7. IdleIsUnasked'
    BY <1>0, <1>1, <2>1 DEF VerifySequence, TypeOK, IdleIsUnasked
  <2> QED
    BY <2>4, <2>5, <2>6, <2>7 DEF BinderInv
<1>2. ASSUME NEW r \in Requests, cachedNonce(r) PROVE BinderInv'
  <2> DEFINE key == arg[r].account
             el == ll[Position(key)]
  <2>1. CASE key \notin cache
    <3>1. pc' = [pc EXCEPT ![r] = "rpc"] /\ UNCHANGED <<ll, uses, nonce, verdict, cache, arg>>
          /\ pc[r] = "lookup"
      BY <1>2, <2>1 DEF cachedNonce
    <3> QED
      BY <1>0, <3>1 DEF BinderInv, TypeOK, NoncesAreOnChain, AcceptedIsAssigned, IdleIsUnasked
  <2>2. CASE key \in cache
    <3>1. /\ pc[r] = "lookup" /\ UNCHANGED <<cache, arg>>
          /\ ll' = ToFront(Position(key), el) /\ uses' = Append(uses, key)
          /\ nonce' = [nonce EXCEPT ![r] = el.nonce] /\ Decide(r, el.nonce)
      BY <1>2, <2>2 DEF cachedNonce
    <3>2. key \in Accounts /\ arg[r].paymentId >= 1
      BY <1>0, <3>1, BinderAssumption DEF TypeOK
    <3>3. Position(key) \in DOMAIN ll /\ el.key = key
      BY <1>0, <2>2, PositionOf
    <3>4. el \in Element /\ el.nonce = GetInitialNonce[key] /\ ll \in Seq(Element)
      BY <1>0, <3>3 DEF TypeOK, NoncesAreOnChain
    <3>5. /\ ll' \in Seq(Element)
          /\ \A m \in DOMAIN ll' : ll'[m] = el \/ \E n \in DOMAIN ll : ll'[m] = ll[n]
          /\ \A n \in DOMAIN ll \ {Position(key)} : \E m \in DOMAIN ll' : ll'[m] = ll[n]
          /\ 1 \in DOMAIN ll' /\ ll'[1] = el
      <4>1. el \in Element /\ ll' = ToFront(Position(key), el)
        BY <3>1, <3>4
      <4> HIDE DEF el
      <4> QED
        BY <3>3, <3>4, <4>1, ToFrontElements
    <3>6. /\ verdict' \in [Requests -> {nil, ErrDatabase}]
          /\ pc' = [pc EXCEPT ![r] = "done"]
          /\ \A q \in Requests \ {r} : verdict'[q] = verdict[q]
          /\ verdict'[r] = nil <=> arg[r].gotSequence = el.nonce + arg[r].paymentId - 1
      BY <1>0, <3>1, <3>4, DecideIsExact
    <3> HIDE DEF el
    <3>7. TypeOK'
      BY <1>0, <3>1, <3>2, <3>4, <3>5, <3>6 DEF TypeOK, Element
    <3>8. NoncesAreOnChain'
      <4>1. \A i \in DOMAIN ll' : ll'[i].nonce = GetInitialNonce[ll'[i].key]
        BY <1>0, <3>3, <3>4, <3>5 DEF NoncesAreOnChain
      <4>2. \A k \in cache' : \E i \in DOMAIN ll' : ll'[i].key = k
        <5> SUFFICES ASSUME NEW k \in cache PROVE \E i \in DOMAIN ll' : ll'[i].key = k
          BY <3>1
        <5>1. PICK j \in DOMAIN ll : ll[j].key = k
          BY <1>0 DEF NoncesAreOnChain
        <5> QED
          BY <3>3, <3>5, <5>1 DEF el
      <4>3. \A q \in Requests : pc'[q] = "store" => nonce'[q] = GetInitialNonce[arg'[q].account]
        BY <1>0, <3>1, <3>6 DEF NoncesAreOnChain, TypeOK
      <4> QED
        BY <4>1, <4>2, <4>3 DEF NoncesAreOnChain
    <3>9. AcceptedIsAssigned'
      BY <1>0, <3>1, <3>2, <3>4, <3>6 DEF AcceptedIsAssigned, TypeOK
    <3>10. IdleIsUnasked'
      BY <1>0, <3>1, <3>6 DEF IdleIsUnasked, TypeOK
    <3> QED
      BY <3>7, <3>8, <3>9, <3>10 DEF BinderInv
  <2> QED
    BY <2>1, <2>2
<1>3. ASSUME NEW r \in Requests, initialNonce(r) PROVE BinderInv'
  <2>1. nil # ErrDatabase
    BY DEF nil, ErrDatabase, Wrap
  <2>2. arg[r].account \in Accounts
    BY <1>0, <1>3, BinderAssumption DEF TypeOK, initialNonce
  <2>3. TypeOK'
    BY <1>0, <1>3, <2>2, BinderAssumption, ZenonT(30), ZenonT(60) DEF TypeOK, initialNonce
  <2>4. NoncesAreOnChain'
    BY <1>0, <1>3 DEF TypeOK, initialNonce, NoncesAreOnChain
  <2>5. AcceptedIsAssigned'
    BY <1>0, <1>3, <2>1 DEF TypeOK, initialNonce, AcceptedIsAssigned
  <2>6. IdleIsUnasked'
    BY <1>0, <1>3 DEF TypeOK, initialNonce, IdleIsUnasked
  <2> QED
    BY <2>3, <2>4, <2>5, <2>6 DEF BinderInv
<1>4. ASSUME NEW r \in Requests, Store(r) PROVE BinderInv'
  <2>1. /\ pc[r] = "store" /\ storeNonce(arg[r].account, nonce[r])
        /\ uses' = Append(uses, arg[r].account) /\ Decide(r, nonce[r]) /\ UNCHANGED <<arg, nonce>>
    BY <1>4 DEF Store
  <2>2. /\ arg[r].account \in Accounts /\ arg[r].paymentId >= 1
        /\ nonce[r] = GetInitialNonce[arg[r].account]
    BY <1>0, <2>1, BinderAssumption DEF TypeOK, NoncesAreOnChain
  <2>3. /\ ll' \in Seq(Element) /\ cache' \in SUBSET Accounts
        /\ \A i \in DOMAIN ll' : ll'[i].nonce = GetInitialNonce[ll'[i].key]
        /\ \A k \in cache' : \E i \in DOMAIN ll' : ll'[i].key = k
    BY <1>0, <2>1, <2>2, StoreOnChain
  <2>4. /\ verdict' \in [Requests -> {nil, ErrDatabase}]
        /\ pc' = [pc EXCEPT ![r] = "done"]
        /\ \A q \in Requests \ {r} : verdict'[q] = verdict[q]
        /\ verdict'[r] = nil <=> arg[r].gotSequence = nonce[r] + arg[r].paymentId - 1
    BY <1>0, <2>1, <2>2, DecideIsExact
  <2>5. TypeOK'
    BY <1>0, <2>1, <2>2, <2>3, <2>4 DEF TypeOK
  <2>6. NoncesAreOnChain'
    BY <1>0, <2>1, <2>3, <2>4 DEF TypeOK, NoncesAreOnChain
  <2>7. AcceptedIsAssigned'
    BY <1>0, <2>1, <2>2, <2>4 DEF AcceptedIsAssigned, TypeOK
  <2>8. IdleIsUnasked'
    BY <1>0, <2>1, <2>4 DEF IdleIsUnasked, TypeOK
  <2> QED
    BY <2>5, <2>6, <2>7, <2>8 DEF BinderInv
<1>5. CASE UNCHANGED vars
  BY <1>0, <1>5 DEF vars, BinderInv, TypeOK, NoncesAreOnChain, AcceptedIsAssigned, IdleIsUnasked
<1> QED
  BY <1>1, <1>2, <1>3, <1>4, <1>5 DEF Next, Step

(* A sequence that VerifySequence accepts is the one the contract assigns  *)
(* the payment, whatever other requests did to the cache and however close *)
(* the operands are to the largest integer.                                *)
THEOREM OnlyAssignedAccepted == Spec => []AcceptedIsAssigned
<1>1. BinderInv => AcceptedIsAssigned
  BY DEF BinderInv
<1> QED
  BY <1>1, BinderInvInit, BinderInvStep, PTL DEF Spec

(* A request that presents the assigned sequence and obtains its account's *)
(* nonce, from the cache or over RPC, is accepted.                         *)
THEOREM AssignedIsAccepted == Spec => RefusedOnlyByRPC
<1> DEFINE Refuses ==
        \A r \in Requests :
            /\ pc[r] \in {"lookup", "store"} /\ pc'[r] = "done"
            /\ arg[r].gotSequence = GetInitialNonce[arg[r].account] + arg[r].paymentId - 1
            => verdict'[r] = nil
<1>1. BinderInv /\ [Next]_vars => [Refuses]_vars
  <2> SUFFICES ASSUME BinderInv, Next, NEW r \in Requests,
                      pc[r] \in {"lookup", "store"}, pc'[r] = "done",
                      arg[r].gotSequence = GetInitialNonce[arg[r].account] + arg[r].paymentId - 1
               PROVE  verdict'[r] = nil
    BY DEF Refuses
  <2>1. TypeOK /\ NoncesAreOnChain
    BY DEF BinderInv
  <2>2. PICK q \in Requests : Step(q)
    BY DEF Next
  <2>3. q = r
    BY <2>1, <2>2 DEF Step, VerifySequence, cachedNonce, initialNonce, Store, Decide, TypeOK
  <2>4. CASE cachedNonce(r)
    <3>1. arg[r].account \in cache
      BY <2>1, <2>4 DEF cachedNonce, TypeOK
    <3>2. Position(arg[r].account) \in DOMAIN ll /\ ll[Position(arg[r].account)].key = arg[r].account
      BY <2>1, <3>1, PositionOf
    <3>3. Decide(r, ll[Position(arg[r].account)].nonce)
      BY <2>4, <3>1 DEF cachedNonce
    <3>4. ll[Position(arg[r].account)].nonce = GetInitialNonce[arg[r].account]
      BY <2>1, <3>2 DEF NoncesAreOnChain
    <3> QED
      BY <2>1, <3>3, <3>4, DecideIsExact
  <2>5. CASE Store(r)
    <3>1. Decide(r, nonce[r]) /\ nonce[r] = GetInitialNonce[arg[r].account]
      BY <2>1, <2>5 DEF Store, NoncesAreOnChain
    <3> QED
      BY <2>1, <3>1, DecideIsExact
  <2> QED
    BY <2>2, <2>3, <2>4, <2>5 DEF Step, VerifySequence, initialNonce
<1> QED
  BY <1>1, BinderInvInit, BinderInvStep, PTL DEF Spec, RefusedOnlyByRPC, Refuses

-----------------------------------------------------------------------------
(* The promise's errors are the binder's.                                  *)
LEMMA SameErrors == Promise!nil = nil /\ Promise!ErrDatabase = ErrDatabase
  BY DEF Promise!nil, nil, Promise!ErrDatabase, ErrDatabase, Promise!Wrap, Wrap

(* A decision answers the question, with nil exactly for the assigned      *)
(* sequence.                                                               *)
LEMMA DecideAnswers ==
    ASSUME BinderInv, NEW r \in Requests, NEW initial,
           initial = GetInitialNonce[arg[r].account],
           pc[r] \in {"lookup", "store"}, Decide(r, initial), UNCHANGED arg
    PROVE  Promise!Answer(r)
<1>1. TypeOK
  BY DEF BinderInv
<1>2. /\ verdict' \in [Requests -> {nil, ErrDatabase}]
      /\ pc' = [pc EXCEPT ![r] = "done"]
      /\ \A q \in Requests \ {r} : verdict'[q] = verdict[q]
      /\ verdict'[r] = nil <=> arg[r].gotSequence = initial + arg[r].paymentId - 1
  BY <1>1, DecideIsExact
<1>3. arg[r] \in Args /\ arg[r] # None /\ arg[r].paymentId >= 1
  BY <1>1, BinderAssumption DEF TypeOK
<1>4. [q \in Requests |-> IF pc'[q] = "done" THEN verdict'[q] ELSE None]
        = [[q \in Requests |-> IF pc[q] = "done" THEN verdict[q] ELSE None] EXCEPT ![r] = verdict'[r]]
  BY <1>1, <1>2, ZenonT(30), ZenonT(60) DEF TypeOK
<1>5. (verdict'[r] = nil /\ Promise!Assigned(arg[r])) \/ verdict'[r] = ErrDatabase
  BY <1>2, <1>3 DEF Promise!Assigned
<1>6. [q \in Requests |-> IF pc[q] = "done" THEN verdict[q] ELSE None][r] = None
  OBVIOUS
<1> QED
  BY <1>3, <1>4, <1>5, <1>6, SameErrors, ZenonT(30), ZenonT(60) DEF Promise!Answer

(* One step of the binder is one step of its promise, or none.             *)
LEMMA StepKeepsPromise ==
    ASSUME BinderInv, NEW r \in Requests, Step(r)
    PROVE  [Promise!Next]_Promise!vars
<1> DEFINE answered == [q \in Requests |-> IF pc[q] = "done" THEN verdict[q] ELSE None]
<1>1. TypeOK /\ NoncesAreOnChain
  BY DEF BinderInv
<1>2. CASE VerifySequence(r)
  <2>1. PICK a \in Args :
          /\ arg' = [arg EXCEPT ![r] = a]
          /\ IF a.paymentId = 0
             THEN /\ verdict' = [verdict EXCEPT ![r] = ErrDatabase]
                  /\ pc' = [pc EXCEPT ![r] = "done"]
             ELSE pc' = [pc EXCEPT ![r] = "lookup"] /\ UNCHANGED verdict
    BY <1>2, ZenonT(30), ZenonT(60) DEF VerifySequence
  <2>2. pc[r] = "idle" /\ arg[r] = None
    BY <1>2 DEF VerifySequence, BinderInv, IdleIsUnasked
  <2>3. CASE a.paymentId = 0
    <3>1. answered' = [answered EXCEPT ![r] = ErrDatabase]
      BY <1>1, <2>1, <2>3, ZenonT(30), ZenonT(60) DEF TypeOK
    <3>2. ~ Promise!Assigned(a)
      BY <2>3 DEF Promise!Assigned
    <3>3. Promise!AskInVain(r, a)
      BY <2>1, <2>2, <3>1, <3>2, SameErrors DEF Promise!AskInVain
    <3> QED
      BY <3>3 DEF Promise!Next
  <2>4. CASE a.paymentId # 0
    <3>1. answered' = answered
      BY <1>1, <2>1, <2>2, <2>4 DEF TypeOK
    <3>2. Promise!Ask(r, a)
      BY <2>1, <2>2, <3>1 DEF Promise!Ask
    <3> QED
      BY <3>2 DEF Promise!Next
  <2> QED
    BY <2>3, <2>4
<1>3. CASE cachedNonce(r)
  <2> DEFINE key == arg[r].account
             el == ll[Position(key)]
  <2>1. CASE key \notin cache
    <3>1. UNCHANGED <<arg, verdict>> /\ pc[r] = "lookup" /\ pc' = [pc EXCEPT ![r] = "rpc"]
      BY <1>3, <2>1 DEF cachedNonce
    <3>2. answered' = answered
      BY <1>1, <3>1 DEF TypeOK
    <3> QED
      BY <3>1, <3>2 DEF Promise!vars
  <2>2. CASE key \in cache
    <3>1. pc[r] = "lookup" /\ UNCHANGED arg /\ Decide(r, el.nonce)
      BY <1>3, <2>2 DEF cachedNonce
    <3>2. Position(key) \in DOMAIN ll /\ el.key = key
      BY <1>1, <2>2, PositionOf
    <3>3. el.nonce = GetInitialNonce[key]
      BY <1>1, <3>2 DEF NoncesAreOnChain
    <3>4. Promise!Answer(r)
      BY <3>1, <3>3, DecideAnswers
    <3> QED
      BY <3>4 DEF Promise!Next
  <2> QED
    BY <2>1, <2>2
<1>4. CASE initialNonce(r)
  <2>1. pc[r] = "rpc" /\ UNCHANGED arg /\ arg[r] # None
    BY <1>1, <1>4, BinderAssumption DEF initialNonce, TypeOK
  <2>2. CASE pc' = [pc EXCEPT ![r] = "store"] /\ UNCHANGED verdict
    <3>1. answered' = answered
      BY <1>1, <2>1, <2>2 DEF TypeOK
    <3> QED
      BY <2>1, <3>1 DEF Promise!vars
  <2>3. CASE verdict' = [verdict EXCEPT ![r] = ErrDatabase] /\ pc' = [pc EXCEPT ![r] = "done"]
    <3>1. answered' = [answered EXCEPT ![r] = ErrDatabase] /\ answered[r] = None
      BY <1>1, <2>1, <2>3, ZenonT(30), ZenonT(60) DEF TypeOK
    <3>2. Promise!Answer(r)
      BY <2>1, <3>1, SameErrors DEF Promise!Answer
    <3> QED
      BY <3>2 DEF Promise!Next
  <2> QED
    BY <1>4, <2>2, <2>3 DEF initialNonce
<1>5. CASE Store(r)
  <2>1. pc[r] = "store" /\ UNCHANGED arg /\ Decide(r, nonce[r])
    BY <1>5 DEF Store
  <2>2. nonce[r] = GetInitialNonce[arg[r].account]
    BY <1>1, <2>1 DEF NoncesAreOnChain
  <2>3. Promise!Answer(r)
    BY <2>1, <2>2, DecideAnswers
  <2> QED
    BY <2>3 DEF Promise!Next
<1> QED
  BY <1>2, <1>3, <1>4, <1>5 DEF Step

(* The binder with its cache, its unlocked RPC and its fixed-width sum     *)
(* implements the one that reads the contract for every question.          *)
THEOREM BinderImplementsOracle == Spec => ImplementsSequenceOracle
<1>1. Init => Promise!Init
  BY DEF Init, Promise!Init
<1>2. BinderInv /\ [Next]_vars => [Promise!Next]_Promise!vars
  <2>1. ASSUME BinderInv, Next PROVE [Promise!Next]_Promise!vars
    BY <2>1, StepKeepsPromise DEF Next
  <2>2. ASSUME UNCHANGED vars PROVE UNCHANGED Promise!vars
    BY <2>2 DEF vars, Promise!vars
  <2> QED
    BY <2>1, <2>2
<1> QED
  BY <1>1, <1>2, BinderInvInit, BinderInvStep, PTL DEF Spec, ImplementsSequenceOracle, Promise!Spec

-----------------------------------------------------------------------------
(***************************************************************************)
(* The list and its index.  A hit or a store puts its key at the front and *)
(* keeps the others in their order; over capacity the last one goes.       *)
(***************************************************************************)
Distinct(s) == \A i, j \in DOMAIN s : s[i].key = s[j].key => i = j

ListInv == Distinct(ll) /\ IndexMatchesList /\ IsFiniteSet(cache)

(* key is used; old gives each element behind the front its old position.  *)
Touches(key, old) ==
    /\ ll' \in Seq(Element) /\ Len(ll') >= 1 /\ ll'[1].key = key
    /\ old \in [2 .. Len(ll') -> DOMAIN ll]
    /\ \A m \in 2 .. Len(ll') : ll'[m] = ll[old[m]] /\ ll[old[m]].key # key
    /\ \A m, n \in 2 .. Len(ll') : m < n => old[m] < old[n]
    /\ \A n \in DOMAIN ll : ll[n].key # key /\ ll[n].key \in cache'
           => \E m \in 2 .. Len(ll') : ll'[m] = ll[n]
    /\ \/ key \in cache /\ cache' = cache /\ Len(ll') = Len(ll)
       \/ /\ key \notin cache /\ cache' = cache \cup {key}
          /\ Len(ll') = Len(ll) + 1 /\ Len(ll') <= MaxEntries
       \/ /\ key \notin cache /\ cache' = (cache \ {ll[Len(ll)].key}) \cup {key}
          /\ Len(ll') = Len(ll) /\ Len(ll) = MaxEntries
          /\ \A m \in 2 .. Len(ll') : old[m] < Len(ll)

Touch(key) == \E old \in [2 .. Len(ll') -> DOMAIN ll] : Touches(key, old)

LEMMA HitTouches ==
    ASSUME ll \in Seq(Element), ListInv, NEW i \in DOMAIN ll, NEW e \in Element, e.key = ll[i].key,
           ll' = ToFront(i, e), cache' = cache
    PROVE  Touch(e.key)
<1> DEFINE s == ToFront(i, e)
           old == [m \in 2 .. Len(ll') |-> IF m <= i THEN m - 1 ELSE m]
<1>1. Len(ll) \in Nat /\ DOMAIN ll = 1 .. Len(ll) /\ i \in 1 .. Len(ll)
  OBVIOUS
<1>2. /\ s \in Seq(Element) /\ Len(s) = Len(ll) /\ s[1] = e
      /\ \A m \in 2 .. i : s[m] = ll[m - 1]
      /\ \A m \in i + 1 .. Len(ll) : s[m] = ll[m]
  BY ToFrontElements, ZenonT(30), ZenonT(60)
<1>3. ll' = s
  OBVIOUS
<1> HIDE DEF s
<1>4. old \in [2 .. Len(ll') -> DOMAIN ll] /\ \A m \in 2 .. Len(ll') : old[m] # i
  BY <1>1, <1>2, <1>3
<1>5. ASSUME NEW m \in 2 .. Len(ll') PROVE ll'[m] = ll[old[m]]
  <2>1. CASE m <= i
    BY <1>1, <1>2, <1>3, <2>1
  <2>2. CASE m > i
    BY <1>1, <1>2, <1>3, <2>2
  <2> QED
    BY <1>1, <2>1, <2>2
<1>6. \A m \in 2 .. Len(ll') : ll[old[m]].key # e.key
  BY <1>4 DEF ListInv, Distinct
<1>7. \A m, n \in 2 .. Len(ll') : m < n => old[m] < old[n]
  BY <1>1, <1>2, <1>3
<1>8. ASSUME NEW n \in DOMAIN ll, ll[n].key # e.key
      PROVE  \E m \in 2 .. Len(ll') : ll'[m] = ll[n]
  <2>1. CASE n < i
    <3>1. n + 1 \in 2 .. Len(ll') /\ n + 1 \in 2 .. i /\ (n + 1) - 1 = n
      BY <1>1, <1>2, <1>3, <2>1
    <3> QED
      BY <1>2, <1>3, <3>1
  <2>2. CASE n > i
    <3>1. n \in 2 .. Len(ll') /\ n \in i + 1 .. Len(ll)
      BY <1>1, <1>2, <1>3, <2>2
    <3> QED
      BY <1>2, <1>3, <3>1
  <2> QED
    BY <1>1, <1>8, <2>1, <2>2
<1>9. e.key \in cache
  BY DEF ListInv, IndexMatchesList
<1>10. Len(ll') = Len(ll) /\ Len(ll') >= 1
  BY <1>1, <1>2, <1>3
<1> HIDE DEF old
<1>11. Touches(e.key, old)
  BY <1>2, <1>3, <1>4, <1>5, <1>6, <1>7, <1>8, <1>9, <1>10 DEF Touches
<1> QED
  BY <1>4, <1>11 DEF Touch

LEMMA StoreTouches ==
    ASSUME TypeOK, ListInv, NEW key \in Accounts, NEW n \in 0 .. MaxUint, storeNonce(key, n)
    PROVE  Touch(key)
<1> DEFINE e == [key |-> key, nonce |-> n]
           pushed == <<e>> \o ll
<1>1. e \in Element /\ e.key = key
  BY DEF Element
<1>2. ll \in Seq(Element) /\ Len(ll) \in Nat /\ DOMAIN ll = 1 .. Len(ll)
  BY DEF TypeOK
<1>3. /\ pushed \in Seq(Element) /\ Len(pushed) = Len(ll) + 1
      /\ \A i \in 1 .. Len(ll) + 1 : pushed[i] = IF i = 1 THEN e ELSE ll[i - 1]
  BY <1>1, <1>2
<1>4. MaxEntries \in Nat /\ MaxEntries >= 1 /\ Len(ll) <= MaxEntries
  <2>1. MaxEntries \in Nat \ {0}
    BY BinderAssumption
  <2> QED
    BY <2>1 DEF ListInv, IndexMatchesList
<1>5. cache = {ll[i].key : i \in DOMAIN ll}
  BY DEF ListInv, IndexMatchesList
<1>6. CASE key \in cache
  <2>1. ll' = ToFront(Position(key), e) /\ cache' = cache
    BY <1>6 DEF storeNonce
  <2>2. \E i \in DOMAIN ll : ll[i].key = key
    BY <1>5, <1>6
  <2>3. Position(key) \in DOMAIN ll /\ ll[Position(key)].key = key
    BY <2>2 DEF Position
  <2> HIDE DEF e
  <2> QED
    BY <1>1, <1>2, <2>1, <2>3, HitTouches
<1>7. CASE key \notin cache
  <2>1. \/ /\ Len(pushed) > MaxEntries /\ ll' = SubSeq(pushed, 1, Len(pushed) - 1)
           /\ cache' = (cache \cup {key}) \ {pushed[Len(pushed)].key}
        \/ ~(Len(pushed) > MaxEntries) /\ ll' = pushed /\ cache' = cache \cup {key}
    BY <1>7 DEF storeNonce
  <2> HIDE DEF pushed, e
  <2> DEFINE old == [m \in 2 .. Len(ll') |-> m - 1]
  <2>2. ASSUME ll' \in Seq(Element), Len(ll') \in {Len(ll), Len(ll) + 1}, Len(ll') >= 1,
               \A i \in 1 .. Len(ll') : ll'[i] = pushed[i]
        PROVE  /\ ll'[1].key = key
               /\ old \in [2 .. Len(ll') -> DOMAIN ll]
               /\ \A m \in 2 .. Len(ll') : ll'[m] = ll[old[m]] /\ ll[old[m]].key # key
               /\ \A m, k \in 2 .. Len(ll') : m < k => old[m] < old[k]
    <3>1. ll'[1] = e
      BY <1>2, <1>3, <2>2
    <3>2. old \in [2 .. Len(ll') -> DOMAIN ll]
      BY <1>2, <2>2
    <3>3. \A m \in 2 .. Len(ll') : ll'[m] = ll[old[m]]
      BY <1>2, <1>3, <2>2
    <3>4. \A m, k \in 2 .. Len(ll') : m < k => old[m] < old[k]
      OBVIOUS
    <3> HIDE DEF old
    <3> QED
      BY <1>1, <1>5, <1>7, <3>1, <3>2, <3>3, <3>4
  <2>3. CASE ~(Len(pushed) > MaxEntries) /\ ll' = pushed /\ cache' = cache \cup {key}
    <3>1. /\ ll' \in Seq(Element) /\ Len(ll') = Len(ll) + 1 /\ Len(ll') >= 1
          /\ Len(ll') <= MaxEntries /\ \A i \in 1 .. Len(ll') : ll'[i] = pushed[i]
      BY <1>2, <1>3, <1>4, <2>3
    <3>2. ASSUME NEW k \in DOMAIN ll PROVE \E m \in 2 .. Len(ll') : ll'[m] = ll[k]
      <4>1. k + 1 \in 2 .. Len(ll') /\ ll'[k + 1] = ll[k]
        BY <1>2, <1>3, <3>1
      <4> QED
        BY <4>1
    <3>3. /\ ll'[1].key = key /\ old \in [2 .. Len(ll') -> DOMAIN ll]
          /\ \A m \in 2 .. Len(ll') : ll'[m] = ll[old[m]] /\ ll[old[m]].key # key
          /\ \A m, k \in 2 .. Len(ll') : m < k => old[m] < old[k]
      BY <2>2, <3>1
    <3> HIDE DEF old
    <3>4. Touches(key, old)
      BY <1>7, <2>3, <3>1, <3>2, <3>3 DEF Touches
    <3> QED
      BY <3>3, <3>4 DEF Touch
  <2>4. CASE /\ Len(pushed) > MaxEntries /\ ll' = SubSeq(pushed, 1, Len(pushed) - 1)
             /\ cache' = (cache \cup {key}) \ {pushed[Len(pushed)].key}
    <3>1. Len(ll) = MaxEntries /\ Len(ll) >= 1 /\ Len(ll) \in DOMAIN ll
      <4>1. Len(pushed) = Len(ll) + 1 /\ Len(pushed) > MaxEntries
        BY <1>3, <2>4
      <4>2. Len(ll) \in Nat /\ DOMAIN ll = 1 .. Len(ll)
        BY <1>2
      <4>3. \A a, b \in Nat : a <= b /\ a + 1 > b => a = b
        OBVIOUS
      <4>4. Len(ll) = MaxEntries
        BY <1>4, <4>1, <4>2, <4>3, ZenonT(30), ZenonT(60)
      <4> QED
        BY <1>4, <4>2, <4>4
    <3>2. pushed[Len(pushed)] = ll[Len(ll)] /\ ll[Len(ll)].key # key
      BY <1>2, <1>3, <1>5, <1>7, <3>1
    <3>3. cache' = (cache \ {ll[Len(ll)].key}) \cup {key}
      BY <2>4, <3>2
    <3>4. ll' = SubSeq(pushed, 1, Len(ll))
      BY <1>2, <1>3, <2>4
    <3>5. /\ ll' \in Seq(Element) /\ Len(ll') = Len(ll)
          /\ \A i \in 1 .. Len(ll') : ll'[i] = pushed[i]
      BY <1>2, <1>3, <3>4
    <3>6. ASSUME NEW k \in DOMAIN ll, ll[k].key # key, ll[k].key \in cache'
          PROVE  \E m \in 2 .. Len(ll') : ll'[m] = ll[k]
      <4>1. k # Len(ll)
        BY <3>3, <3>6
      <4>2. k + 1 \in 2 .. Len(ll') /\ ll'[k + 1] = ll[k]
        BY <1>2, <1>3, <3>5, <4>1
      <4> QED
        BY <4>2
    <3>7. /\ ll'[1].key = key /\ old \in [2 .. Len(ll') -> DOMAIN ll]
          /\ \A m \in 2 .. Len(ll') : ll'[m] = ll[old[m]] /\ ll[old[m]].key # key
          /\ \A m, k \in 2 .. Len(ll') : m < k => old[m] < old[k]
      BY <2>2, <3>1, <3>5
    <3>8. \A m \in 2 .. Len(ll') : old[m] < Len(ll)
      BY <1>2, <3>5
    <3> HIDE DEF old
    <3>9. Touches(key, old)
      BY <1>7, <3>1, <3>3, <3>5, <3>6, <3>7, <3>8 DEF Touches
    <3> QED
      BY <3>7, <3>9 DEF Touch
  <2> QED
    BY <2>1, <2>3, <2>4
<1> QED
  BY <1>6, <1>7

(* What a step does to the list: nothing, or one key is used.              *)
LEMMA StepTouches ==
    ASSUME BinderInv, ListInv, [Next]_vars
    PROVE  \/ UNCHANGED <<ll, cache, uses>>
           \/ \E key \in Accounts : Touch(key) /\ uses' = Append(uses, key)
<1>0. TypeOK /\ NoncesAreOnChain
  BY DEF BinderInv
<1>1. ASSUME NEW r \in Requests, cachedNonce(r), arg[r].account \in cache
      PROVE  \E key \in Accounts : Touch(key) /\ uses' = Append(uses, key)
  <2> DEFINE key == arg[r].account
             el == ll[Position(key)]
  <2>1. /\ pc[r] = "lookup" /\ cache' = cache
        /\ ll' = ToFront(Position(key), el) /\ uses' = Append(uses, key)
    BY <1>1 DEF cachedNonce
  <2>2. Position(key) \in DOMAIN ll /\ el.key = key
    BY <1>0, <1>1, PositionOf
  <2>3. el \in Element /\ ll \in Seq(Element) /\ key \in Accounts
    BY <1>0, <1>1, <2>2 DEF TypeOK
  <2> HIDE DEF el
  <2>4. el.key = ll[Position(key)].key
    BY DEF el
  <2>5. Touch(el.key)
    BY <2>1, <2>2, <2>3, <2>4, HitTouches
  <2> QED
    BY <2>1, <2>2, <2>3, <2>5
<1>2. ASSUME NEW r \in Requests, Store(r)
      PROVE  \E key \in Accounts : Touch(key) /\ uses' = Append(uses, key)
  <2>1. /\ pc[r] = "store" /\ storeNonce(arg[r].account, nonce[r])
        /\ uses' = Append(uses, arg[r].account)
    BY <1>2 DEF Store
  <2>2. arg[r].account \in Accounts /\ nonce[r] \in 0 .. MaxUint
    BY <1>0, <2>1, BinderAssumption DEF TypeOK
  <2>3. Touch(arg[r].account)
    BY <1>0, <2>1, <2>2, StoreTouches
  <2> QED
    BY <2>1, <2>2, <2>3
<1>3. ASSUME NEW r \in Requests,
             VerifySequence(r) \/ initialNonce(r) \/ (cachedNonce(r) /\ arg[r].account \notin cache)
      PROVE  UNCHANGED <<ll, cache, uses>>
  BY <1>3 DEF VerifySequence, initialNonce, cachedNonce
<1> QED
  BY <1>1, <1>2, <1>3 DEF Next, Step, vars

(* The index stays the set of the list's keys, and neither grows past the  *)
(* capacity.                                                               *)
LEMMA TouchKeepsList ==
    ASSUME ll \in Seq(Element), ListInv, NEW key \in Accounts, NEW old, Touches(key, old)
    PROVE  ListInv'
<1>1. Len(ll) \in Nat /\ DOMAIN ll = 1 .. Len(ll) /\ MaxEntries \in Nat
  BY BinderAssumption
<1>2. /\ cache = {ll[i].key : i \in DOMAIN ll} /\ Cardinality(cache) = Len(ll)
      /\ Len(ll) <= MaxEntries /\ IsFiniteSet(cache)
      /\ \A i, j \in DOMAIN ll : ll[i].key = ll[j].key => i = j
  BY DEF ListInv, IndexMatchesList, Distinct
<1>3. /\ ll' \in Seq(Element) /\ Len(ll') \in Nat /\ DOMAIN ll' = 1 .. Len(ll') /\ Len(ll') >= 1
      /\ ll'[1].key = key
  BY DEF Touches
<1>4. ASSUME NEW m \in 2 .. Len(ll')
      PROVE  /\ old[m] \in DOMAIN ll /\ ll'[m] = ll[old[m]] /\ ll[old[m]].key # key
             /\ \A n \in 2 .. Len(ll') : m < n => old[m] < old[n]
  BY DEF Touches
<1>5. \A m \in DOMAIN ll' : m = 1 \/ m \in 2 .. Len(ll')
  BY <1>3
<1>6. Distinct(ll')
  <2> SUFFICES ASSUME NEW i \in DOMAIN ll', NEW j \in DOMAIN ll', ll'[i].key = ll'[j].key, i < j
               PROVE  FALSE
    BY <1>3 DEF Distinct
  <2>1. j \in 2 .. Len(ll')
    BY <1>3
  <2>2. CASE i = 1
    BY <1>3, <1>4, <2>1, <2>2
  <2>3. CASE i \in 2 .. Len(ll')
    <3>1. old[i] \in DOMAIN ll /\ old[j] \in DOMAIN ll /\ ll[old[i]].key = ll[old[j]].key
      BY <1>4, <2>1, <2>3
    <3>2. old[i] = old[j]
      BY <1>2, <3>1
    <3>3. old[i] < old[j]
      BY <1>4, <2>1, <2>3
    <3> QED
      BY <1>1, <3>1, <3>2, <3>3
  <2> QED
    BY <1>5, <2>2, <2>3
<1>7. /\ key \in cache'
      /\ \A m \in 2 .. Len(ll') : ll[old[m]].key \in cache'
      /\ IsFiniteSet(cache') /\ Cardinality(cache') = Len(ll') /\ Len(ll') <= MaxEntries
      /\ cache' \subseteq cache \cup {key}
  <2>1. CASE key \in cache /\ cache' = cache /\ Len(ll') = Len(ll)
    BY <1>2, <1>4, <2>1
  <2>2. CASE /\ key \notin cache /\ cache' = cache \cup {key}
             /\ Len(ll') = Len(ll) + 1 /\ Len(ll') <= MaxEntries
    <3>1. IsFiniteSet(cache') /\ Cardinality(cache') = Cardinality(cache) + 1
      BY <1>2, <2>2, FS_AddElement, ZenonT(30), ZenonT(60)
    <3> QED
      BY <1>2, <1>4, <2>2, <3>1
  <2>3. CASE /\ key \notin cache /\ cache' = (cache \ {ll[Len(ll)].key}) \cup {key}
             /\ Len(ll') = Len(ll) /\ Len(ll) = MaxEntries
             /\ \A m \in 2 .. Len(ll') : old[m] < Len(ll)
    <3> DEFINE last == ll[Len(ll)].key
               rest == cache \ {last}
    <3>1. Len(ll) \in DOMAIN ll /\ last \in cache
      BY <1>1, <1>2, <1>3, <2>3
    <3>2. IsFiniteSet(rest) /\ Cardinality(rest) = Len(ll) - 1
      <4>1. IsFiniteSet(rest) /\ Cardinality(rest) = Cardinality(cache) - 1
        BY <1>2, <3>1, FS_RemoveElement, ZenonT(30), ZenonT(60)
      <4> QED
        BY <1>2, <4>1
    <3>3. IsFiniteSet(rest \cup {key}) /\ Cardinality(rest \cup {key}) = Cardinality(rest) + 1
      BY <2>3, <3>2, FS_AddElement, ZenonT(30), ZenonT(60)
    <3>4. \A m \in 2 .. Len(ll') : ll[old[m]].key # last
      <4>1. \A m \in 2 .. Len(ll') : old[m] \in DOMAIN ll /\ old[m] # Len(ll)
        BY <1>1, <1>4, <2>3
      <4> QED
        BY <1>2, <3>1, <4>1
    <3>5. \A m \in 2 .. Len(ll') : ll[old[m]].key \in rest
      BY <1>2, <1>4, <3>4
    <3>6. cache' = rest \cup {key}
      BY <2>3
    <3>7. Cardinality(cache') = Len(ll')
      BY <1>1, <2>3, <3>2, <3>3, <3>6
    <3> QED
      BY <1>2, <2>3, <3>3, <3>5, <3>6, <3>7
  <2> QED
    BY <2>1, <2>2, <2>3 DEF Touches
<1>8. cache' = {ll'[i].key : i \in DOMAIN ll'}
  <2>1. ASSUME NEW i \in DOMAIN ll' PROVE ll'[i].key \in cache'
    BY <1>3, <1>4, <1>5, <1>7
  <2>2. ASSUME NEW k \in cache' PROVE \E i \in DOMAIN ll' : ll'[i].key = k
    <3>1. CASE k = key
      BY <1>3, <3>1
    <3>2. CASE k # key
      <4>1. PICK n \in DOMAIN ll : ll[n].key = k
        BY <1>2, <1>7, <3>2
      <4>2. \E m \in 2 .. Len(ll') : ll'[m] = ll[n]
        BY <3>2, <4>1 DEF Touches
      <4> QED
        BY <1>3, <4>1, <4>2
    <3> QED
      BY <3>1, <3>2
  <2> QED
    BY <2>1, <2>2
<1> QED
  BY <1>6, <1>7, <1>8 DEF ListInv, IndexMatchesList

LEMMA ListInit == Init => ListInv
<1> SUFFICES ASSUME Init PROVE ListInv
  OBVIOUS
<1>1. ll = <<>> /\ cache = {}
  BY DEF Init
<1>2. DOMAIN ll = {} /\ Len(ll) = 0
  BY <1>1
<1>3. IsFiniteSet(cache) /\ Cardinality(cache) = 0
  BY <1>1, FS_EmptySet
<1>4. MaxEntries >= 0
  BY BinderAssumption
<1> QED
  BY <1>1, <1>2, <1>3, <1>4 DEF ListInv, IndexMatchesList, Distinct

LEMMA ListStep == BinderInv /\ ListInv /\ [Next]_vars => ListInv'
<1> SUFFICES ASSUME BinderInv, ListInv, [Next]_vars PROVE ListInv'
  OBVIOUS
<1>1. CASE UNCHANGED <<ll, cache, uses>>
  BY <1>1 DEF ListInv, IndexMatchesList, Distinct
<1>2. ASSUME NEW key \in Accounts, Touch(key) PROVE ListInv'
  <2>1. ll \in Seq(Element)
    BY DEF BinderInv, TypeOK
  <2> QED
    BY <1>2, <2>1, TouchKeepsList DEF Touch
<1> QED
  BY <1>1, <1>2, StepTouches

(* However lookups, RPCs and stores interleave, the index and the list     *)
(* hold the same keys, one element for each, and no more than fit.         *)
THEOREM IndexAgrees == Spec => []IndexMatchesList
<1>1. ListInv => IndexMatchesList
  BY DEF ListInv
<1>2. Spec => []BinderInv
  BY BinderInvInit, BinderInvStep, PTL DEF Spec
<1> QED
  BY <1>1, <1>2, ListInit, ListStep, PTL DEF Spec

-----------------------------------------------------------------------------
(***************************************************************************)
(* The cache is a true LRU cache.  That a key that was used has a last use *)
(* is part of the invariant, since every step says which use that is.      *)
(***************************************************************************)
IsLast(s, key, i) == i \in DOMAIN s /\ s[i] = key /\ \A j \in DOMAIN s : s[j] = key => j <= i
LastIn(s, key) ==
    CHOOSE i \in DOMAIN s : s[i] = key /\ \A j \in DOMAIN s : s[j] = key => j <= i
UsedIn(s) == {s[i] : i \in DOMAIN s}

UseInv ==
    /\ cache \subseteq UsedIn(uses)
    /\ \A key \in UsedIn(uses) : \E i \in DOMAIN uses : IsLast(uses, key, i)
    /\ KeepsMostRecentlyUsed

LEMMA LastInIs ==
    ASSUME NEW S, NEW s \in Seq(S), NEW key, NEW i, IsLast(s, key, i)
    PROVE  LastIn(s, key) = i
<1> DEFINE P(j) == s[j] = key /\ \A m \in DOMAIN s : s[m] = key => m <= j
<1>1. DOMAIN s \subseteq Nat
  OBVIOUS
<1>2. i \in DOMAIN s /\ P(i)
  BY DEF IsLast
<1>3. \A j \in DOMAIN s : P(j) => j = i
  BY <1>1, <1>2
<1>4. LastIn(s, key) = CHOOSE j \in DOMAIN s : P(j)
  BY DEF LastIn
<1> HIDE DEF P
<1> QED
  BY <1>2, <1>3, <1>4

LEMMA LastUses ==
    /\ \A key : LastUse(key) = LastIn(uses, key)
    /\ \A key : LastUse(key)' = LastIn(uses', key)
  BY DEF LastUse, LastIn

(* One more use changes the last use of its key only.                      *)
LEMMA OneMoreUse ==
    ASSUME NEW S, NEW s \in Seq(S), NEW k \in S
    PROVE  LET t == Append(s, k) IN
           /\ t \in Seq(S) /\ UsedIn(t) = UsedIn(s) \cup {k}
           /\ IsLast(t, k, Len(s) + 1)
           /\ \A key, i : key # k /\ IsLast(s, key, i) => IsLast(t, key, i)
<1> DEFINE t == Append(s, k)
<1>1. /\ Len(s) \in Nat /\ DOMAIN s = 1 .. Len(s)
      /\ t \in Seq(S) /\ DOMAIN t = 1 .. Len(s) + 1
      /\ t[Len(s) + 1] = k /\ \A i \in 1 .. Len(s) : t[i] = s[i]
  OBVIOUS
<1> HIDE DEF t
<1>2. \A i \in DOMAIN t : i = Len(s) + 1 \/ i \in DOMAIN s
  BY <1>1
<1>3. DOMAIN s \subseteq DOMAIN t /\ Len(s) + 1 \in DOMAIN t
  BY <1>1
<1>4. UsedIn(t) = UsedIn(s) \cup {k}
  BY <1>1, <1>2, <1>3 DEF UsedIn
<1>5. IsLast(t, k, Len(s) + 1)
  BY <1>1 DEF IsLast
<1>6. ASSUME NEW key, NEW i, key # k, IsLast(s, key, i) PROVE IsLast(t, key, i)
  <2>1. i \in DOMAIN t /\ t[i] = key
    BY <1>1, <1>3, <1>6 DEF IsLast
  <2>2. ASSUME NEW j \in DOMAIN t, t[j] = key PROVE j <= i
    <3>1. j \in DOMAIN s /\ s[j] = key
      BY <1>1, <1>2, <1>6, <2>2
    <3> QED
      BY <1>6, <3>1 DEF IsLast
  <2> QED
    BY <2>1, <2>2 DEF IsLast
<1> QED
  BY <1>1, <1>4, <1>5, <1>6 DEF t

LEMMA TouchKeepsOrder ==
    ASSUME TypeOK, ListInv, ListInv', UseInv, NEW key \in Accounts, NEW old, Touches(key, old),
           uses' = Append(uses, key)
    PROVE  UseInv'
<1> DEFINE last(k) == LastIn(uses, k)
           last2(k) == LastIn(uses', k)
           used == UsedIn(uses)
<1>1. /\ uses \in Seq(Accounts) /\ Len(uses) \in Nat /\ DOMAIN uses = 1 .. Len(uses)
      /\ ll \in Seq(Element) /\ Len(ll) \in Nat /\ DOMAIN ll = 1 .. Len(ll) /\ MaxEntries \in Nat
  BY BinderAssumption DEF TypeOK
<1>2. /\ uses' \in Seq(Accounts) /\ UsedIn(uses') = used \cup {key}
      /\ IsLast(uses', key, Len(uses) + 1)
      /\ \A k, i : k # key /\ IsLast(uses, k, i) => IsLast(uses', k, i)
  BY <1>1, OneMoreUse
<1>3. ASSUME NEW k \in used \ {key}
      PROVE  last2(k) = last(k) /\ last(k) \in 1 .. Len(uses)
  <2>1. PICK i \in DOMAIN uses : IsLast(uses, k, i)
    BY DEF UseInv
  <2> QED
    BY <1>1, <1>2, <2>1, LastInIs, ZenonT(30), ZenonT(60)
<1>4. last2(key) = Len(uses) + 1
  BY <1>1, <1>2, LastInIs, ZenonT(30), ZenonT(60)
<1>5. \A k \in used \ {key} : last2(k) < last2(key)
  BY <1>1, <1>3, <1>4
<1>6. /\ \A i, j \in DOMAIN ll : i < j => last(ll[i].key) > last(ll[j].key)
      /\ \A k \in used \ cache : \A i \in DOMAIN ll : last(k) < last(ll[i].key)
      /\ used \ cache # {} => Len(ll) = MaxEntries
  BY LastUses DEF UseInv, KeepsMostRecentlyUsed, UsedIn
<1>7. /\ cache = {ll[i].key : i \in DOMAIN ll} /\ cache \subseteq used /\ Len(ll) <= MaxEntries
      /\ cache' = {ll'[i].key : i \in DOMAIN ll'}
  BY DEF ListInv, IndexMatchesList, UseInv
<1>8. /\ ll' \in Seq(Element) /\ Len(ll') \in Nat /\ DOMAIN ll' = 1 .. Len(ll') /\ Len(ll') >= 1
      /\ ll'[1].key = key
  BY DEF Touches
<1>9. ASSUME NEW m \in 2 .. Len(ll')
      PROVE  /\ old[m] \in DOMAIN ll /\ ll'[m].key = ll[old[m]].key /\ ll'[m].key \in cache \ {key}
             /\ ll'[m].key \in used \ {key}
             /\ \A n \in 2 .. Len(ll') : m < n => old[m] < old[n]
  BY <1>7 DEF Touches
<1>10. key \in cache' /\ \A m \in DOMAIN ll' : m = 1 \/ m \in 2 .. Len(ll')
  BY <1>7, <1>8
<1> HIDE DEF last, last2, used
<1>11. ASSUME NEW i \in DOMAIN ll', NEW j \in DOMAIN ll', i < j
       PROVE  last2(ll'[i].key) > last2(ll'[j].key)
  <2>1. j \in 2 .. Len(ll')
    BY <1>8, <1>11
  <2>2. CASE i = 1
    <3>1. last2(ll'[j].key) < last2(key) /\ last2(ll'[j].key) \in Nat /\ last2(key) \in Nat
      BY <1>1, <1>3, <1>4, <1>5, <1>9, <2>1
    <3> QED
      BY <1>8, <2>2, <3>1
  <2>3. CASE i \in 2 .. Len(ll')
    <3>1. last(ll[old[i]].key) > last(ll[old[j]].key)
      BY <1>6, <1>9, <1>11, <2>1, <2>3
    <3> QED
      BY <1>3, <1>9, <2>1, <2>3, <3>1
  <2> QED
    BY <1>10, <2>2, <2>3
<1>12. ASSUME NEW k \in (used \cup {key}) \ cache', NEW m \in DOMAIN ll'
       PROVE  last2(k) < last2(ll'[m].key)
  <2>1. k \in used \ {key}
    BY <1>10
  <2>2. CASE m = 1
    BY <1>5, <1>8, <2>1, <2>2
  <2>3. CASE m \in 2 .. Len(ll')
    <3>1. last(k) < last(ll[old[m]].key)
      <4>1. CASE k \notin cache
        BY <1>6, <1>9, <2>1, <2>3, <4>1
      <4>2. CASE k \in cache
        <5>1. /\ cache' = (cache \ {ll[Len(ll)].key}) \cup {key} /\ Len(ll) = MaxEntries
              /\ Len(ll') = Len(ll) /\ old[m] < Len(ll)
          BY <2>1, <2>3, <4>2 DEF Touches
        <5>2. k = ll[Len(ll)].key
          BY <4>2, <5>1
        <5>3. Len(ll) \in DOMAIN ll
          BY <1>1, <1>8, <5>1
        <5>4. last(ll[old[m]].key) > last(k)
          BY <1>6, <1>9, <2>3, <5>1, <5>2, <5>3
        <5>5. last(k) \in Nat /\ last(ll[old[m]].key) \in Nat
          BY <1>1, <1>3, <1>9, <2>1, <2>3
        <5> QED
          BY <5>4, <5>5
      <4> QED
        BY <4>1, <4>2
    <3> QED
      BY <1>3, <1>9, <2>1, <2>3, <3>1
  <2> QED
    BY <1>10, <2>2, <2>3
<1>13. (used \cup {key}) \ cache' # {} => Len(ll') = MaxEntries
  <2>1. CASE key \in cache /\ cache' = cache /\ Len(ll') = Len(ll)
    BY <1>6, <1>7, <2>1, ZenonT(30), ZenonT(60)
  <2>2. CASE /\ key \notin cache /\ cache' = cache \cup {key}
             /\ Len(ll') = Len(ll) + 1 /\ Len(ll') <= MaxEntries
    <3>1. \A a \in Nat : ~(a + 1 <= a)
      OBVIOUS
    <3>2. Len(ll) # MaxEntries
      BY <1>1, <2>2, <3>1, ZenonT(30), ZenonT(60)
    <3> QED
      BY <1>6, <2>2, <3>2
  <2> QED
    BY <2>1, <2>2 DEF Touches
<1>14. cache' \subseteq UsedIn(uses')
  BY <1>2, <1>7, <1>8, <1>9, <1>10
<1>15. \A k \in UsedIn(uses') : \E i \in DOMAIN uses' : IsLast(uses', k, i)
  <2>1. ASSUME NEW k \in used, k # key PROVE \E i : IsLast(uses', k, i)
    BY <1>2, <2>1 DEF UseInv, used
  <2>2. \A k \in UsedIn(uses') : \E i : IsLast(uses', k, i)
    BY <1>2, <2>1
  <2> QED
    BY <2>2 DEF IsLast
<1>16. KeepsMostRecentlyUsed'
  <2>1. UsedIn(uses') = {uses'[i] : i \in DOMAIN uses'} /\ UsedIn(uses') = used \cup {key}
    BY <1>2 DEF UsedIn
  <2>2. \A k : LastUse(k)' = last2(k)
    BY LastUses DEF last2
  <2> QED
    BY <1>11, <1>12, <1>13, <2>1, <2>2 DEF KeepsMostRecentlyUsed
<1> QED
  BY <1>14, <1>15, <1>16 DEF UseInv

LEMMA UseInit == Init => UseInv
<1> SUFFICES ASSUME Init PROVE UseInv
  OBVIOUS
<1>1. ll = <<>> /\ cache = {} /\ uses = <<>>
  BY DEF Init
<1>2. DOMAIN ll = {} /\ DOMAIN uses = {}
  BY <1>1
<1> QED
  BY <1>1, <1>2 DEF UseInv, KeepsMostRecentlyUsed, UsedIn

LEMMA UseStep == BinderInv /\ ListInv /\ ListInv' /\ UseInv /\ [Next]_vars => UseInv'
<1> SUFFICES ASSUME BinderInv, ListInv, ListInv', UseInv, [Next]_vars PROVE UseInv'
  OBVIOUS
<1>1. CASE UNCHANGED <<ll, cache, uses>>
  <2>1. \A key : LastUse(key)' = LastUse(key)
    BY <1>1, LastUses
  <2>2. KeepsMostRecentlyUsed'
    BY <1>1, <2>1 DEF UseInv, KeepsMostRecentlyUsed
  <2> QED
    BY <1>1, <2>2 DEF UseInv
<1>2. ASSUME NEW key \in Accounts, Touch(key), uses' = Append(uses, key) PROVE UseInv'
  BY <1>2, TouchKeepsOrder DEF Touch, BinderInv
<1> QED
  BY <1>1, <1>2, StepTouches

(* The cache holds the accounts used last, in the order of their last use, *)
(* and drops one only when it is full.                                     *)
THEOREM CacheIsLRU == Spec => []KeepsMostRecentlyUsed
<1>1. UseInv => KeepsMostRecentlyUsed
  BY DEF UseInv
<1>2. Spec => []BinderInv
  BY BinderInvInit, BinderInvStep, PTL DEF Spec
<1>3. Spec => []ListInv
  BY <1>2, ListInit, ListStep, PTL DEF Spec
<1> QED
  BY <1>1, <1>2, <1>3, UseInit, UseStep, PTL DEF Spec
=============================================================================
