----------------------- MODULE MultisigVerifierProofs -----------------------
(***************************************************************************)
(* MultisigVerifier for any number of requests, any bodies and accounts,   *)
(* any timeouts and any amount by which the wall clock is set back.        *)
(***************************************************************************)
EXTENDS MultisigVerifier, FiniteSetTheorems, TLAPS

(* The backends of every step that does not name its own: each twice, so   *)
(* that a slow machine costs time and not the proof.                       *)
USE ZenonT(20), SMTT(30), ZenonT(60), SMTT(60)

Body == [account : Accounts, publicKeys : Seq(Accounts \cup {"", "malformed"}), threshold : Nat]
Infos == UNION {AccountInfos[s] : s \in Scenarios}
Reply == [kind : {"success"}, info : Infos] \cup [kind : {"transient", "nonSuccess"}, info : {None}]

RetriedErrors ==
    {Wrap({e}, nil) : e \in {"ErrNetworkMismatch", "ErrFetchServerInfo", "ErrFetchAccountInfo",
                             "ErrRPCTransient"}}
Errors == RetriedErrors \cup {nil, Wrap({"ErrInvalidRequest"}, nil), Wrap({"ErrRPCNonSuccess"}, nil)}

Holding == {"locked", "probing", "answering"}
Asking == {"probing", "answering", "fetching", "returning"}
PCs == {"idle", "locking", "queued", "done"} \cup Holding \cup Asking

Call ==
    [pc : PCs, body : Body \cup {None}, arrived : Nat, deadline : Nat, began : Nat,
     seen : NodeStates \cup {None}, reply : Reply \cup {None}, age : Nat \cup {None},
     err : Errors, status : {None, "OK", "ERROR"}]

Mutex == [holder : Requests \cup {None}, queue : Seq(Requests), starving : BOOLEAN]

TypeOK ==
    /\ scenario \in Scenarios
    /\ now \in Nat \ {0}
    /\ setBack \in 0 .. MaxSetBack[scenario]
    /\ node \in NodeStates
    /\ lastRight \in 0 .. now
    /\ boot \in {"probing", "answering", "serving", "failed"}
    /\ bootSeen \in NodeStates \cup {None}
    /\ lastVerified \in Nat
    /\ verifyMu \in Mutex
    /\ call \in [Requests -> Call]

(***************************************************************************)
(* The mutex: its holder is the one request between Lock and Unlock, its   *)
(* queue holds each request that waits, once.  Before the server serves    *)
(* there is no request.                                                    *)
(***************************************************************************)
MutexInv ==
    /\ \A r \in Requests : call[r].pc \in Holding <=> verifyMu.holder = r
    /\ \A r \in Requests :
        call[r].pc = "queued" <=> \E i \in 1 .. Len(verifyMu.queue) : verifyMu.queue[i] = r
    /\ \A i, j \in 1 .. Len(verifyMu.queue) : verifyMu.queue[i] = verifyMu.queue[j] => i = j
    /\ verifyMu.starving => verifyMu.queue # <<>> /\ verifyMu.holder # None
    /\ boot # "serving" => \A r \in Requests : call[r].pc = "idle"

Inv == TypeOK /\ MutexInv

-----------------------------------------------------------------------------
(* A call before it is made, once it is answered, and as it goes on.       *)
LEMMA NotCalledType == NotCalled \in Call /\ NotCalled.pc = "idle" /\ NotCalled.status = None
  BY DEF NotCalled, Call, PCs, Errors

LEMMA NoneIsNoStatus == None # "OK"
  BY MultisigAssumption

LEMMA AnsweredType ==
    ASSUME TypeOK, NEW r \in Requests, NEW err \in Errors, NEW status \in {None, "OK", "ERROR"}
    PROVE  LET next == Answered(r, err, status) IN
           /\ next \in Call
           /\ next.pc = "done" /\ next.body = call[r].body /\ next.age = call[r].age
           /\ next.err = err /\ next.status = status /\ next.reply = call[r].reply
<1>1. call[r] \in Call
  BY DEF TypeOK
<1>2. call[r].body \in Body \cup {None} /\ call[r].reply \in Reply \cup {None}
      /\ call[r].age \in Nat \cup {None}
  BY <1>1 DEF Call
<1> QED
  BY <1>2, NotCalledType DEF Answered, Call, PCs

(* A call that moves on keeps its other fields.                            *)
LEMMA PcMoves ==
    ASSUME NEW c \in Call, NEW pc \in PCs
    PROVE  LET next == [c EXCEPT !.pc = pc] IN
           /\ next \in Call
           /\ next.pc = pc /\ next.arrived = c.arrived /\ next.deadline = c.deadline
           /\ next.began = c.began /\ next.seen = c.seen /\ next.age = c.age
           /\ next.body = c.body /\ next.err = c.err /\ next.status = c.status
  BY DEF Call

LEMMA PcAndBeganMove ==
    ASSUME NEW c \in Call, NEW pc \in PCs, NEW t \in Nat
    PROVE  LET next == [c EXCEPT !.pc = pc, !.began = t] IN
           /\ next \in Call
           /\ next.pc = pc /\ next.arrived = c.arrived /\ next.deadline = c.deadline
           /\ next.began = t /\ next.seen = c.seen /\ next.age = c.age /\ next.status = c.status
  BY DEF Call

LEMMA FetchingMoves ==
    ASSUME TypeOK, NEW r \in Requests
    PROVE  /\ Fetching(r) \in Call
           /\ Fetching(r).pc = "fetching" /\ Fetching(r).began = now
           /\ Fetching(r).arrived = call[r].arrived /\ Fetching(r).deadline = call[r].deadline
           /\ Fetching(r).status = call[r].status
<1>1. call[r] \in Call /\ now \in Nat
  BY DEF TypeOK
<1> QED
  BY <1>1 DEF Call, Fetching, PCs, Asking

LEMMA DeadlineMoves ==
    ASSUME NEW c \in Call, NEW t \in Nat
    PROVE  LET next == [c EXCEPT !.deadline = t] IN
           /\ next \in Call
           /\ next.pc = c.pc /\ next.arrived = c.arrived /\ next.deadline = t
           /\ next.began = c.began /\ next.seen = c.seen /\ next.age = c.age
           /\ next.body = c.body /\ next.err = c.err /\ next.status = c.status
  BY DEF Call

(* A request that arrives is turned away, fetches, or goes for the mutex.  *)
LEMMA VerifyMoves ==
    ASSUME TypeOK, NEW r \in Requests, Verify(r)
    PROVE  \E next \in Call :
               /\ call' = [call EXCEPT ![r] = next] /\ next.status = None
               /\ \/ next.pc = "done" /\ ~ValidateMultisigRequest(next.body)
                  \/ /\ next.pc = "fetching" /\ verifiedFresh
                     /\ next.arrived = now /\ next.deadline = now + WorkTimeout /\ next.began = now
                  \/ /\ next.pc = "locking"
                     /\ next.arrived = now /\ next.deadline = now + WorkTimeout
<1>1. PICK b \in Bodies[scenario] :
        LET start == [NotCalled EXCEPT !.body = b, !.arrived = now,
                                       !.deadline = now + WorkTimeout, !.began = now]
        IN  call' = [call EXCEPT ![r] =
                IF ~ValidateMultisigRequest(b)
                THEN [NotCalled EXCEPT !.pc = "done", !.body = b, !.err = Wrap({"ErrInvalidRequest"}, nil)]
                ELSE IF verifiedFresh THEN [start EXCEPT !.pc = "fetching"]
                ELSE [start EXCEPT !.pc = "locking"]]
  BY DEF Verify
<1> DEFINE start == [NotCalled EXCEPT !.body = b, !.arrived = now,
                                      !.deadline = now + WorkTimeout, !.began = now]
           err == Wrap({"ErrInvalidRequest"}, nil)
           refused == [NotCalled EXCEPT !.pc = "done", !.body = b, !.err = err]
           fetches == [start EXCEPT !.pc = "fetching"]
           locks == [start EXCEPT !.pc = "locking"]
<1>2. b \in Body
  BY MultisigAssumption DEF TypeOK, Body
<1>3. now \in Nat /\ now + WorkTimeout \in Nat
  <2>1. WorkTimeout \in Nat
    BY MultisigAssumption
  <2> QED
    BY <2>1, SMTT(30), SMTT(60) DEF TypeOK
<1>4. err \in Errors
  BY DEF Errors
<1>5. call' = [call EXCEPT ![r] = IF ~ValidateMultisigRequest(b) THEN refused
                                  ELSE IF verifiedFresh THEN fetches ELSE locks]
  BY <1>1
<1> HIDE DEF err
<1>6. refused \in Call /\ refused.pc = "done" /\ refused.body = b /\ refused.status = None
  BY <1>2, <1>4, NotCalledType DEF Call, PCs
<1>7. /\ start \in Call /\ start.arrived = now /\ start.deadline = now + WorkTimeout
      /\ start.began = now /\ start.status = None
  BY <1>2, <1>3, NotCalledType DEF Call, PCs, Asking
<1> HIDE DEF start
<1>8. /\ fetches \in Call /\ fetches.pc = "fetching" /\ fetches.arrived = now
      /\ fetches.deadline = now + WorkTimeout /\ fetches.began = now
      /\ locks \in Call /\ locks.pc = "locking" /\ locks.arrived = now
      /\ locks.deadline = now + WorkTimeout /\ fetches.status = None /\ locks.status = None
  BY <1>7, PcMoves DEF PCs, Asking
<1> HIDE DEF refused, fetches, locks
<1>9. CASE ~ValidateMultisigRequest(b)
  BY <1>5, <1>6, <1>9
<1>10. CASE ValidateMultisigRequest(b) /\ verifiedFresh
  BY <1>5, <1>8, <1>10
<1>11. CASE ValidateMultisigRequest(b) /\ ~verifiedFresh
  BY <1>5, <1>8, <1>11
<1> QED
  BY <1>9, <1>10, <1>11

-----------------------------------------------------------------------------
(***************************************************************************)
(* The mutex.                                                              *)
(***************************************************************************)
CallsOK == verifyMu \in Mutex /\ call \in [Requests -> Call]

(* A call that neither takes nor gives up the mutex.                       *)
LEMMA OthersKeepMutex ==
    ASSUME Inv, NEW r \in Requests, NEW next \in Call, call' = [call EXCEPT ![r] = next],
           next.pc \in Holding <=> call[r].pc \in Holding,
           next.pc = "queued" <=> call[r].pc = "queued",
           boot = "serving", UNCHANGED <<boot, verifyMu>>
    PROVE  CallsOK' /\ MutexInv'
<1>1. \A q \in Requests : call'[q] = IF q = r THEN next ELSE call[q]
  BY DEF Inv, TypeOK
<1>2. call' \in [Requests -> Call] /\ verifyMu' \in Mutex
  BY DEF Inv, TypeOK
<1>3. \A q \in Requests : call'[q].pc \in Holding <=> call[q].pc \in Holding
  BY <1>1
<1>4. \A q \in Requests : call'[q].pc = "queued" <=> call[q].pc = "queued"
  BY <1>1
<1> QED
  BY <1>2, <1>3, <1>4 DEF CallsOK, Inv, MutexInv

(* A newcomer that takes the mutex.                                        *)
LEMMA AcquireKeepsMutex ==
    ASSUME Inv, NEW r \in Requests, call[r].pc = "locking",
           verifyMu.holder = None, ~verifyMu.starving,
           verifyMu' = [verifyMu EXCEPT !.holder = r, !.starving = verifyMu.queue # <<>>],
           call' = [call EXCEPT ![r].pc = "locked"], UNCHANGED boot
    PROVE  CallsOK' /\ MutexInv'
<1>1. call[r] \in Call /\ verifyMu \in Mutex
  BY DEF Inv, TypeOK
<1> DEFINE next == [call[r] EXCEPT !.pc = "locked"]
<1>2. next \in Call /\ next.pc = "locked"
  BY <1>1, PcMoves DEF PCs, Holding
<1>3. \A q \in Requests : call'[q] = IF q = r THEN next ELSE call[q]
  BY DEF Inv, TypeOK
<1> HIDE DEF next
<1>4. call' \in [Requests -> Call]
  BY <1>2, <1>3 DEF Inv, TypeOK
<1>5. /\ verifyMu' \in Mutex /\ verifyMu'.holder = r /\ verifyMu'.queue = verifyMu.queue
      /\ verifyMu'.starving => verifyMu.queue # <<>>
  BY <1>1 DEF Mutex
<1>6. \A q \in Requests : call'[q].pc \in Holding <=> q = r
  <2>1. \A q \in Requests : call[q].pc \notin Holding
    <3>1. None \notin Requests
      BY MultisigAssumption
    <3> QED
      BY <3>1 DEF Inv, MutexInv
  <2> QED
    BY <1>2, <1>3, <2>1 DEF Holding
<1>7. \A q \in Requests : call'[q].pc = "queued" <=> call[q].pc = "queued"
  BY <1>2, <1>3
<1>8. r # None /\ boot' = "serving"
  BY MultisigAssumption DEF Inv, MutexInv
<1> QED
  BY <1>4, <1>5, <1>6, <1>7, <1>8, SMTT(30), SMTT(60) DEF CallsOK, Inv, MutexInv

(* Positions and elements of a queue that grows at the end or is served    *)
(* at the front.                                                           *)
LEMMA QueueGrows ==
    ASSUME NEW S, NEW s \in Seq(S), NEW e \in S
    PROVE  /\ Append(s, e) \in Seq(S) /\ Len(Append(s, e)) = Len(s) + 1 /\ Append(s, e) # <<>>
           /\ \A i \in 1 .. Len(s) : Append(s, e)[i] = s[i]
           /\ Append(s, e)[Len(s) + 1] = e
  OBVIOUS

LEMMA QueueServed ==
    ASSUME NEW S, NEW s \in Seq(S), s # <<>>
    PROVE  /\ Head(s) \in S /\ Head(s) = s[1] /\ Tail(s) \in Seq(S)
           /\ Len(s) \in Nat /\ Len(s) >= 1 /\ Len(Tail(s)) = Len(s) - 1
           /\ \A i \in 1 .. Len(s) - 1 : Tail(s)[i] = s[i + 1]
           /\ Len(s) > 1 => Tail(s) # <<>>
<1>1. Head(s) \in S /\ Head(s) = s[1] /\ Tail(s) \in Seq(S)
  OBVIOUS
<1>2. Len(s) \in Nat /\ Len(s) >= 1 /\ Len(Tail(s)) = Len(s) - 1
  OBVIOUS
<1>3. \A i \in 1 .. Len(s) - 1 : Tail(s)[i] = s[i + 1]
  OBVIOUS
<1>4. Len(s) > 1 => Tail(s) # <<>>
  <2>1. Len(<<>>) = 0
    OBVIOUS
  <2>2. Len(s) > 1 => Len(Tail(s)) # 0
    BY <1>2
  <2> QED
    BY <2>1, <2>2
<1> QED
  BY <1>1, <1>2, <1>3, <1>4

(* A newcomer that finds the mutex taken.                                  *)
LEMMA EnqueueKeepsMutex ==
    ASSUME Inv, NEW r \in Requests, call[r].pc = "locking", verifyMu.holder # None,
           verifyMu' = [verifyMu EXCEPT !.queue = Append(@, r)],
           call' = [call EXCEPT ![r].pc = "queued"], UNCHANGED boot
    PROVE  CallsOK' /\ MutexInv'
<1> DEFINE next == [call[r] EXCEPT !.pc = "queued"]
           queue == verifyMu.queue
<1>1. call[r] \in Call /\ verifyMu \in Mutex /\ queue \in Seq(Requests) /\ Len(queue) \in Nat
  BY SMTT(30), SMTT(60) DEF Inv, TypeOK, Mutex
<1>2. next \in Call /\ next.pc = "queued"
  BY <1>1, PcMoves DEF PCs
<1>3. \A q \in Requests : call'[q] = IF q = r THEN next ELSE call[q]
  BY DEF Inv, TypeOK
<1> HIDE DEF next
<1>4. call' \in [Requests -> Call]
  BY <1>2, <1>3 DEF Inv, TypeOK
<1>5. /\ verifyMu' \in Mutex /\ verifyMu'.holder = verifyMu.holder
      /\ verifyMu'.queue = Append(queue, r) /\ verifyMu'.starving = verifyMu.starving
  <2>1. Append(queue, r) \in Seq(Requests)
    BY <1>1, QueueGrows
  <2>2. verifyMu' = [verifyMu EXCEPT !.queue = Append(queue, r)]
    OBVIOUS
  <2> HIDE DEF queue
  <2> QED
    BY <1>1, <2>1, <2>2 DEF Mutex
<1>6. /\ Len(verifyMu'.queue) = Len(queue) + 1 /\ verifyMu'.queue # <<>>
      /\ \A i \in 1 .. Len(queue) : verifyMu'.queue[i] = queue[i]
      /\ verifyMu'.queue[Len(queue) + 1] = r
  BY <1>1, <1>5, QueueGrows, SMTT(30), SMTT(60)
<1>7. \A q \in Requests : call[q].pc = "queued" <=> \E i \in 1 .. Len(queue) : queue[i] = q
  BY DEF Inv, MutexInv
<1>8. \A i \in 1 .. Len(queue) : queue[i] # r
  BY <1>7
<1>9. \A q \in Requests : call'[q].pc \in Holding <=> verifyMu'.holder = q
  BY <1>2, <1>3, <1>5, SMTT(30), SMTT(60) DEF Inv, MutexInv, Holding
<1>10. ASSUME NEW q \in Requests
       PROVE  call'[q].pc = "queued" <=> \E i \in 1 .. Len(verifyMu'.queue) : verifyMu'.queue[i] = q
  <2>1. CASE q = r
    BY <1>1, <1>2, <1>3, <1>6, <2>1, SMTT(30), SMTT(60)
  <2>2. CASE q # r
    BY <1>1, <1>3, <1>6, <1>7, <2>2, SMTT(30), SMTT(60)
  <2> QED
    BY <2>1, <2>2
<1>11. \A i, j \in 1 .. Len(verifyMu'.queue) : verifyMu'.queue[i] = verifyMu'.queue[j] => i = j
  <2>1. \A i, j \in 1 .. Len(queue) : queue[i] = queue[j] => i = j
    BY DEF Inv, MutexInv
  <2> QED
    BY <1>1, <1>6, <1>8, <2>1, SMTT(30), SMTT(60)
<1>12. boot' = "serving"
  BY DEF Inv, MutexInv
<1> QED
  BY <1>4, <1>5, <1>6, <1>9, <1>10, <1>11, <1>12 DEF CallsOK, MutexInv

(* The mutex passes to the front of the queue, c being the calls as the    *)
(* one that unlocked left them.                                            *)
LEMMA HandOverKeepsMutex ==
    ASSUME Inv, NEW c \in [Requests -> Call], HandOver(c), UNCHANGED boot, boot = "serving",
           verifyMu.queue # <<>>,
           \A q \in Requests : c[q].pc = "queued" <=> call[q].pc = "queued",
           \A q \in Requests : c[q].pc \notin Holding
    PROVE  LET front == Head(verifyMu.queue) IN
           /\ CallsOK' /\ MutexInv'
           /\ front \in Requests /\ call[front].pc = "queued"
           /\ verifyMu'.queue = Tail(verifyMu.queue) /\ verifyMu'.holder = front
           /\ verifyMu'.starving => verifyMu.starving
           /\ \A q \in Requests : call'[q] = IF q = front THEN [c[q] EXCEPT !.pc = "locked"] ELSE c[q]
<1> DEFINE queue == verifyMu.queue
           front == Head(queue)
           next == [c[front] EXCEPT !.pc = "locked"]
<1>1. verifyMu \in Mutex /\ queue \in Seq(Requests) /\ verifyMu.starving \in BOOLEAN
  BY DEF Inv, TypeOK, Mutex
<1>2. /\ front \in Requests /\ front = queue[1] /\ Tail(queue) \in Seq(Requests)
      /\ Len(queue) \in Nat /\ Len(queue) >= 1 /\ Len(Tail(queue)) = Len(queue) - 1
      /\ \A i \in 1 .. Len(queue) - 1 : Tail(queue)[i] = queue[i + 1]
      /\ Len(queue) > 1 => Tail(queue) # <<>>
  BY <1>1, QueueServed
<1>3. /\ verifyMu' = [holder |-> front, queue |-> Tail(queue),
                      starving |-> verifyMu.starving /\ Len(queue) > 1]
      /\ call' = [c EXCEPT ![front] = next]
  BY DEF HandOver
<1>4. verifyMu' \in Mutex
  BY <1>1, <1>2, <1>3 DEF Mutex
<1>5. /\ verifyMu'.holder = front /\ verifyMu'.queue = Tail(queue)
      /\ verifyMu'.starving => verifyMu.starving /\ Len(queue) > 1
  BY <1>3
<1> HIDE DEF front, queue
<1>6. c[front] \in Call
  BY <1>2
<1>7. next \in Call /\ next.pc = "locked"
  BY <1>6, PcMoves DEF PCs, Holding
<1>8. \A q \in Requests : call'[q] = IF q = front THEN [c[q] EXCEPT !.pc = "locked"] ELSE c[q]
  BY <1>2, <1>3
<1>9. call' \in [Requests -> Call]
  BY <1>2, <1>3, <1>7
<1>10. \A q \in Requests : call'[q].pc \in Holding <=> verifyMu'.holder = q
  BY <1>2, <1>5, <1>7, <1>8 DEF Holding
<1>11. \A i, j \in 1 .. Len(queue) : queue[i] = queue[j] => i = j
  BY DEF Inv, MutexInv, queue
<1>12. \A q \in Requests : call[q].pc = "queued" <=> \E i \in 1 .. Len(queue) : queue[i] = q
  BY DEF Inv, MutexInv, queue
<1>13. ASSUME NEW q \in Requests
       PROVE  call'[q].pc = "queued" <=> \E i \in 1 .. Len(Tail(queue)) : Tail(queue)[i] = q
  <2>1. CASE q = front
    <3>1. ASSUME NEW i \in 1 .. Len(Tail(queue)), Tail(queue)[i] = q PROVE FALSE
      <4>1. i + 1 \in 1 .. Len(queue) /\ 1 \in 1 .. Len(queue) /\ queue[i + 1] = queue[1]
        BY <1>2, <2>1, <3>1, SMTT(30), SMTT(60)
      <4>2. i + 1 = 1
        BY <1>11, <4>1
      <4> QED
        BY <1>2, <4>2, SMTT(30), SMTT(60)
    <3>2. call'[q].pc = "locked"
      BY <1>2, <1>7, <1>8, <2>1
    <3> QED
      BY <3>1, <3>2
  <2>2. CASE q # front
    <3>1. call'[q].pc = "queued" <=> \E i \in 1 .. Len(queue) : queue[i] = q
      BY <1>8, <1>12, <2>2
    <3>2. ASSUME NEW i \in 1 .. Len(queue), queue[i] = q
          PROVE  \E j \in 1 .. Len(Tail(queue)) : Tail(queue)[j] = q
      <4>1. i - 1 \in 1 .. Len(queue) - 1 /\ i = (i - 1) + 1
        BY <1>2, <2>2, <3>2, SMTT(30), SMTT(60)
      <4> QED
        BY <1>2, <3>2, <4>1
    <3>3. ASSUME NEW j \in 1 .. Len(Tail(queue)), Tail(queue)[j] = q
          PROVE  \E i \in 1 .. Len(queue) : queue[i] = q
      BY <1>2, <3>3, SMTT(30), SMTT(60)
    <3> QED
      BY <3>1, <3>2, <3>3
  <2> QED
    BY <2>1, <2>2
<1>14. \A i, j \in 1 .. Len(Tail(queue)) : Tail(queue)[i] = Tail(queue)[j] => i = j
  BY <1>2, <1>11, SMTT(30), SMTT(60)
<1>15. front # None
  BY <1>2, MultisigAssumption
<1>16. MutexInv'
  BY <1>2, <1>5, <1>10, <1>13, <1>14, <1>15, SMTT(30), SMTT(60) DEF MutexInv
<1>17. call[front].pc = "queued"
  BY <1>2, <1>12, SMTT(30), SMTT(60)
<1> QED
  BY <1>2, <1>4, <1>5, <1>8, <1>9, <1>16, <1>17 DEF CallsOK, front, queue

(* The mutex is given up: it is free, or passes to the front of the queue. *)
LEMMA UnlockKeepsMutex ==
    ASSUME Inv, NEW r \in Requests, call[r].pc \in Holding, NEW next \in Call,
           next.pc \in {"fetching", "done"}, Unlock([call EXCEPT ![r] = next]), UNCHANGED boot
    PROVE  LET front == Head(verifyMu.queue) IN
           /\ CallsOK' /\ MutexInv'
           /\ call'[r] = next
           /\ \/ /\ ~verifyMu.starving /\ ~verifyMu'.starving
                 /\ verifyMu'.queue = verifyMu.queue /\ verifyMu'.holder = None
                 /\ \A q \in Requests \ {r} : call'[q] = call[q]
              \/ /\ verifyMu.queue # <<>> /\ front \in Requests /\ front # r
                 /\ call[front].pc = "queued"
                 /\ verifyMu'.queue = Tail(verifyMu.queue) /\ verifyMu'.holder = front
                 /\ \A q \in Requests \ {r} :
                        call'[q] = IF q = front THEN [call[q] EXCEPT !.pc = "locked"] ELSE call[q]
<1> DEFINE c == [call EXCEPT ![r] = next]
           front == Head(verifyMu.queue)
<1>1. c \in [Requests -> Call] /\ \A q \in Requests : c[q] = IF q = r THEN next ELSE call[q]
  BY DEF Inv, TypeOK
<1>2. boot = "serving"
  BY DEF Inv, MutexInv, Holding
<1>3. \A q \in Requests : c[q].pc = "queued" <=> call[q].pc = "queued"
  BY <1>1 DEF Holding
<1>4. \A q \in Requests : c[q].pc \notin Holding
  <2>1. next.pc \notin Holding
    BY DEF Holding
  <2>2. \A q \in Requests : q # r => call[q].pc \notin Holding
    BY SMTT(30), SMTT(60) DEF Inv, MutexInv
  <2> QED
    BY <1>1, <2>1, <2>2
<1> HIDE DEF c
<1>5. CASE ~verifyMu.starving
  <2>1. verifyMu' = [verifyMu EXCEPT !.holder = None] /\ call' = c
    BY <1>5 DEF Unlock, c
  <2>2. verifyMu \in Mutex
    BY DEF Inv, TypeOK
  <2>3. /\ verifyMu' \in Mutex /\ verifyMu'.holder = None /\ verifyMu'.queue = verifyMu.queue
        /\ verifyMu'.starving = verifyMu.starving
    BY <2>1, <2>2 DEF Mutex
  <2>4. None \notin Requests
    BY MultisigAssumption
  <2>5. MutexInv'
    <3>1. \A q \in Requests : call'[q].pc \in Holding <=> verifyMu'.holder = q
      BY <1>4, <2>1, <2>3, <2>4
    <3>2. \A q \in Requests :
            call'[q].pc = "queued" <=> \E i \in 1 .. Len(verifyMu'.queue) : verifyMu'.queue[i] = q
      <4>1. \A q \in Requests :
              call[q].pc = "queued" <=> \E i \in 1 .. Len(verifyMu.queue) : verifyMu.queue[i] = q
        BY DEF Inv, MutexInv
      <4> QED
        BY <1>3, <2>1, <2>3, <4>1, SMTT(30), SMTT(60)
    <3>3. \A i, j \in 1 .. Len(verifyMu'.queue) : verifyMu'.queue[i] = verifyMu'.queue[j] => i = j
      BY <2>3 DEF Inv, MutexInv
    <3> QED
      BY <1>2, <1>5, <2>3, <3>1, <3>2, <3>3 DEF MutexInv
  <2> QED
    BY <1>1, <1>5, <2>1, <2>3, <2>5 DEF CallsOK
<1>6. CASE verifyMu.starving
  <2>1. verifyMu.queue # <<>>
    BY <1>6 DEF Inv, MutexInv
  <2>2. HandOver(c)
    BY <1>6 DEF Unlock, c
  <2>3. /\ CallsOK' /\ MutexInv'
        /\ front \in Requests /\ call[front].pc = "queued"
        /\ verifyMu'.queue = Tail(verifyMu.queue) /\ verifyMu'.holder = front
        /\ \A q \in Requests : call'[q] = IF q = front THEN [c[q] EXCEPT !.pc = "locked"] ELSE c[q]
    BY <1>1, <1>2, <1>3, <1>4, <2>1, <2>2, HandOverKeepsMutex
  <2>4. front # r
    BY <2>3 DEF Holding
  <2> QED
    BY <1>1, <2>1, <2>3, <2>4
<1> QED
  BY <1>5, <1>6 DEF Inv, TypeOK, Mutex

-----------------------------------------------------------------------------
(* What a probe's reply is taken for.                                      *)
LEMMA ProbeErrors ==
    ASSUME NEW reply
    PROVE  /\ reply = "expected" => checkNetwork(reply) = nil
           /\ reply # "expected" => checkNetwork(reply) \in RetriedErrors /\ checkNetwork(reply) # nil
<1>1. \A e : Wrap({e}, nil) # nil
  BY DEF Wrap, nil
<1> QED
  BY <1>1 DEF checkNetwork, RetriedErrors

LEMMA ErrorFacts ==
    /\ RetriedErrors \subseteq Errors /\ nil \in Errors
    /\ Wrap({"ErrFetchAccountInfo"}, nil) \in RetriedErrors
    /\ Wrap({"ErrRPCTransient"}, nil) \in RetriedErrors
    /\ Wrap({"ErrRPCNonSuccess"}, nil) \in Errors
  BY DEF RetriedErrors, Errors

(***************************************************************************)
(* What one step does to a call.                                           *)
(***************************************************************************)
Arrives(r) ==
    /\ call[r].pc = "idle" /\ call'[r].status = None
    /\ \/ call'[r].pc = "done" /\ ~ValidateMultisigRequest(call'[r].body)
       \/ /\ call'[r].pc = "fetching" /\ verifiedFresh
          /\ call'[r].arrived = now /\ call'[r].deadline = now + WorkTimeout /\ call'[r].began = now
       \/ /\ call'[r].pc = "locking"
          /\ call'[r].arrived = now /\ call'[r].deadline = now + WorkTimeout

Fetches(r) ==
    /\ \/ call[r].pc = "locked" /\ verifiedFresh
       \/ call[r].pc = "answering" /\ call[r].seen = "expected"
    /\ call'[r] = Fetching(r)

Replied(r) ==
    /\ call[r].pc = "fetching"
    /\ call'[r].pc = "returning" /\ call'[r].age = IF lastRight = 0 THEN None ELSE now - lastRight
    /\ call'[r].arrived = call[r].arrived /\ call'[r].deadline = call[r].deadline
    /\ call'[r].status = call[r].status /\ call'[r].reply \in Reply

(* The account's configuration is as the request has it.                   *)
Configured(c) ==
    /\ c.reply.kind \notin {"transient", "nonSuccess"}
    /\ validateMultisigConfiguration(c.reply.info, c.body)

Ends(r) ==
    /\ call'[r].pc = "done" /\ call'[r].age = call[r].age
    /\ call'[r].reply = call[r].reply
    /\ call'[r].status = "OK" => call[r].pc = "returning" /\ Configured(call'[r])
    /\ \/ call[r].pc \in {"answering", "fetching"} /\ call'[r].err \in RetriedErrors
       \/ call[r].pc = "returning"

(* A call moves without leaving the mutex's care.                          *)
Waits(r) ==
    \/ call[r].pc \in {"locking", "queued"} /\ call'[r] = [call[r] EXCEPT !.pc = "locked"]
    \/ call[r].pc = "locking" /\ call'[r] = [call[r] EXCEPT !.pc = "queued"]
    \/ /\ call[r].pc = "locked" /\ ~verifiedFresh
       /\ call'[r] = [call[r] EXCEPT !.pc = "probing", !.began = now]
    \/ /\ call[r].pc = "probing"
       /\ \E reply \in {node, "down"} : call'[r] = [call[r] EXCEPT !.seen = reply, !.pc = "answering"]

Hurries(r) ==
    call[r].pc \notin {"idle", "done"} /\ now < call[r].deadline
    /\ call'[r] = [call[r] EXCEPT !.deadline = now]

CallSteps(r) ==
    \/ call'[r] = call[r]
    \/ Arrives(r) \/ Fetches(r) \/ Replied(r) \/ Ends(r) \/ Waits(r) \/ Hurries(r)

StateKept == UNCHANGED <<scenario, now, setBack, node, lastRight, boot, bootSeen>>

(* The steps that touch a call: each is a step of one request, but that    *)
(* giving up the mutex may wake another.                                   *)
CallAction == Wake \/ \E r \in Requests : Verify(r) \/ CallStep(r) \/ ContextDone(r)
StepOK == CallsOK' /\ MutexInv' /\ \A q \in Requests : CallSteps(q)

(* A request moves on and leaves the mutex alone.                          *)
LEMMA MoveOK ==
    ASSUME Inv, NEW r \in Requests, NEW next \in Call, call' = [call EXCEPT ![r] = next],
           next.pc \in Holding <=> call[r].pc \in Holding,
           next.pc = "queued" <=> call[r].pc = "queued",
           call'[r] = next => CallSteps(r),
           boot = "serving", UNCHANGED <<boot, verifyMu>>
    PROVE  StepOK
<1>1. CallsOK' /\ MutexInv'
  BY OthersKeepMutex
<1>2. call'[r] = next /\ \A q \in Requests : q # r => call'[q] = call[q]
  BY DEF Inv, TypeOK
<1> QED
  BY <1>1, <1>2 DEF StepOK, CallSteps

LEMMA VerifyOK == ASSUME Inv, NEW r \in Requests, Verify(r) PROVE StepOK
<1>1. PICK next \in Call :
        /\ call' = [call EXCEPT ![r] = next] /\ next.status = None
        /\ \/ next.pc = "done" /\ ~ValidateMultisigRequest(next.body)
           \/ /\ next.pc = "fetching" /\ verifiedFresh
              /\ next.arrived = now /\ next.deadline = now + WorkTimeout /\ next.began = now
           \/ /\ next.pc = "locking"
              /\ next.arrived = now /\ next.deadline = now + WorkTimeout
  BY VerifyMoves DEF Inv
<1>2. boot = "serving" /\ call[r].pc = "idle" /\ boot' = boot /\ verifyMu' = verifyMu
  BY DEF Verify
<1>3. next.pc \notin Holding /\ call[r].pc \notin Holding /\ next.pc # "queued"
  BY <1>1, <1>2 DEF Holding
<1>4. call'[r] = next => CallSteps(r)
  BY <1>1, <1>2 DEF CallSteps, Arrives
<1> QED
  BY <1>1, <1>2, <1>3, <1>4, MoveOK

LEMMA LockOK == ASSUME Inv, NEW r \in Requests, ensureNetworkVerified(r) PROVE StepOK
<1>1. call[r].pc = "locking" /\ Lock(r) /\ boot' = boot /\ call[r] \in Call
  BY DEF ensureNetworkVerified, Inv, TypeOK
<1>2. verifyMu.holder = None => ~verifyMu.starving
  BY DEF Inv, MutexInv
<1>3. CASE verifyMu.holder = None
  <2>1. /\ verifyMu' = [verifyMu EXCEPT !.holder = r, !.starving = verifyMu.queue # <<>>]
        /\ call' = [call EXCEPT ![r].pc = "locked"]
    BY <1>1, <1>2, <1>3 DEF Lock
  <2>2. CallsOK' /\ MutexInv'
    BY <1>1, <1>2, <1>3, <2>1, AcquireKeepsMutex
  <2>3. /\ call'[r] = [call[r] EXCEPT !.pc = "locked"]
        /\ \A q \in Requests : q # r => call'[q] = call[q]
    BY <2>1 DEF Inv, TypeOK
  <2> QED
    BY <1>1, <2>2, <2>3 DEF StepOK, CallSteps, Waits
<1>4. CASE verifyMu.holder # None
  <2>1. /\ verifyMu' = [verifyMu EXCEPT !.queue = Append(@, r)]
        /\ call' = [call EXCEPT ![r].pc = "queued"]
    BY <1>1, <1>4 DEF Lock
  <2>2. CallsOK' /\ MutexInv'
    BY <1>1, <1>4, <2>1, EnqueueKeepsMutex
  <2>3. /\ call'[r] = [call[r] EXCEPT !.pc = "queued"]
        /\ \A q \in Requests : q # r => call'[q] = call[q]
    BY <2>1 DEF Inv, TypeOK
  <2> QED
    BY <1>1, <2>2, <2>3 DEF StepOK, CallSteps, Waits
<1> QED
  BY <1>3, <1>4

LEMMA WakeOK == ASSUME Inv, Wake PROVE StepOK
<1> DEFINE front == Head(verifyMu.queue)
<1>1. verifyMu.holder = None /\ verifyMu.queue # <<>> /\ HandOver(call) /\ boot' = boot
  BY DEF Wake
<1>2. None \notin Requests
  BY MultisigAssumption
<1>3. \A q \in Requests : call[q].pc \notin Holding
  BY <1>1, <1>2 DEF Inv, MutexInv
<1>4. call \in [Requests -> Call] /\ verifyMu.queue \in Seq(Requests)
  BY DEF Inv, TypeOK, Mutex
<1>5. boot = "serving"
  <2>1. front \in Requests /\ front = verifyMu.queue[1] /\ 1 \in 1 .. Len(verifyMu.queue)
    BY <1>1, <1>4, QueueServed, SMTT(30), SMTT(60)
  <2>2. call[front].pc = "queued"
    BY <2>1 DEF Inv, MutexInv
  <2> QED
    BY <2>1, <2>2 DEF Inv, MutexInv
<1>6. /\ CallsOK' /\ MutexInv' /\ front \in Requests /\ call[front].pc = "queued"
      /\ \A q \in Requests : call'[q] = IF q = front THEN [call[q] EXCEPT !.pc = "locked"] ELSE call[q]
  BY <1>1, <1>3, <1>4, <1>5, HandOverKeepsMutex
<1> QED
  BY <1>6 DEF StepOK, CallSteps, Waits

(* A request leaves the mutex.                                             *)
LEMMA LeaveOK ==
    ASSUME Inv, NEW r \in Requests, call[r].pc \in Holding, NEW next \in Call,
           next.pc \in {"fetching", "done"}, Unlock([call EXCEPT ![r] = next]), UNCHANGED boot,
           call'[r] = next => CallSteps(r)
    PROVE  StepOK
<1>1. /\ CallsOK' /\ MutexInv' /\ call'[r] = next
      /\ \A q \in Requests \ {r} :
             \/ call'[q] = call[q]
             \/ call[q].pc = "queued" /\ call'[q] = [call[q] EXCEPT !.pc = "locked"]
  BY UnlockKeepsMutex
<1> QED
  BY <1>1 DEF StepOK, CallSteps, Waits

LEMMA RecheckOK == ASSUME Inv, NEW r \in Requests, Recheck(r) PROVE StepOK
<1>1. call[r].pc = "locked" /\ boot' = boot /\ call[r] \in Call /\ now \in Nat
  BY DEF Recheck, Inv, TypeOK
<1>2. CASE verifiedFresh
  <2>1. Unlock([call EXCEPT ![r] = Fetching(r)])
    BY <1>2 DEF Recheck
  <2>2. Fetching(r) \in Call /\ Fetching(r).pc = "fetching"
    BY FetchingMoves DEF Inv
  <2>3. call'[r] = Fetching(r) => CallSteps(r)
    BY <1>1, <1>2 DEF CallSteps, Fetches
  <2> QED
    BY <1>1, <2>1, <2>2, <2>3, LeaveOK DEF Holding
<1>3. CASE ~verifiedFresh
  <2> DEFINE next == [call[r] EXCEPT !.pc = "probing", !.began = now]
  <2>1. call' = [call EXCEPT ![r] = next] /\ verifyMu' = verifyMu
    BY <1>3 DEF Recheck, Inv, TypeOK
  <2>2. next \in Call /\ next.pc = "probing"
    <3>1. "probing" \in PCs
      BY DEF PCs, Holding
    <3> QED
      BY <1>1, <3>1, PcAndBeganMove
  <2>3. call'[r] = next => CallSteps(r)
    BY <1>1, <1>3 DEF CallSteps, Waits
  <2>4. boot = "serving"
    BY <1>1 DEF Inv, MutexInv
  <2> HIDE DEF next
  <2> QED
    BY <1>1, <2>1, <2>2, <2>3, <2>4, MoveOK DEF Holding
<1> QED
  BY <1>2, <1>3

LEMMA ProbeOK == ASSUME Inv, NEW r \in Requests, Probe(r) PROVE StepOK
<1>1. call[r].pc = "probing" /\ boot' = boot /\ verifyMu' = verifyMu /\ call[r] \in Call
  BY DEF Probe, Inv, TypeOK
<1>2. node \in NodeStates /\ "down" \in NodeStates
  BY DEF Inv, TypeOK, NodeStates
<1>3. PICK reply \in {node, "down"} : call' = [call EXCEPT ![r].seen = reply, ![r].pc = "answering"]
  BY DEF Probe
<1> DEFINE next == [call[r] EXCEPT !.seen = reply, !.pc = "answering"]
<1>4. call' = [call EXCEPT ![r] = next]
  BY <1>3 DEF Inv, TypeOK
<1>5. next \in Call /\ next.pc = "answering"
  <2>1. reply \in NodeStates
    BY <1>2
  <2> QED
    BY <1>1, <2>1 DEF Call, PCs, Holding
<1>6. call'[r] = next => CallSteps(r)
  BY <1>1 DEF CallSteps, Waits
<1>7. boot = "serving"
  BY <1>1 DEF Inv, MutexInv
<1> HIDE DEF next
<1> QED
  BY <1>1, <1>4, <1>5, <1>6, <1>7, MoveOK DEF Holding

LEMMA ConfirmOK == ASSUME Inv, NEW r \in Requests, Confirm(r) PROVE StepOK
<1> DEFINE err == checkNetwork(call[r].seen)
<1>1. call[r].pc = "answering" /\ boot' = boot
  BY DEF Confirm
<1>2. CASE err = nil
  <2>1. Unlock([call EXCEPT ![r] = Fetching(r)])
    BY <1>2 DEF Confirm
  <2>2. Fetching(r) \in Call /\ Fetching(r).pc = "fetching"
    BY FetchingMoves DEF Inv
  <2>3. call[r].seen = "expected"
    BY <1>2, ProbeErrors
  <2>4. call'[r] = Fetching(r) => CallSteps(r)
    BY <1>1, <2>3 DEF CallSteps, Fetches
  <2> QED
    BY <1>1, <2>1, <2>2, <2>4, LeaveOK DEF Holding
<1>3. CASE err # nil
  <2> DEFINE next == Answered(r, err, None)
  <2>1. Unlock([call EXCEPT ![r] = next])
    BY <1>3 DEF Confirm
  <2>2. err \in RetriedErrors /\ err \in Errors
    BY <1>3, ProbeErrors, ErrorFacts
  <2> HIDE DEF err
  <2>3. next \in Call /\ next.pc = "done" /\ next.age = call[r].age /\ next.err = err
        /\ next.status = None /\ next.reply = call[r].reply
    BY <2>2, AnsweredType, SMTT(30), SMTT(60) DEF Inv
  <2>4. call'[r] = next => CallSteps(r)
    BY <1>1, <2>2, <2>3, NoneIsNoStatus DEF CallSteps, Ends
  <2> HIDE DEF next
  <2> QED
    BY <1>1, <2>1, <2>3, <2>4, LeaveOK DEF Holding
<1> QED
  BY <1>2, <1>3

LEMMA FetchAccountInfoOK == ASSUME Inv, NEW r \in Requests, FetchAccountInfo(r) PROVE StepOK
<1>1. call[r].pc = "fetching" /\ boot' = boot /\ verifyMu' = verifyMu /\ call[r] \in Call
  BY DEF FetchAccountInfo, Inv, TypeOK
<1>2. boot = "serving"
  BY <1>1 DEF Inv, MutexInv
<1> DEFINE err == Wrap({"ErrFetchAccountInfo"}, nil)
<1>3. CASE call' = [call EXCEPT ![r] = Answered(r, err, None)]
  <2> DEFINE next == Answered(r, err, None)
  <2>1. err \in RetriedErrors /\ err \in Errors
    BY ErrorFacts
  <2> HIDE DEF err
  <2>2. next \in Call /\ next.pc = "done" /\ next.age = call[r].age /\ next.err = err
        /\ next.status = None /\ next.reply = call[r].reply
    BY <2>1, AnsweredType, SMTT(30), SMTT(60) DEF Inv
  <2>3. call'[r] = next => CallSteps(r)
    BY <1>1, <2>1, <2>2, NoneIsNoStatus DEF CallSteps, Ends
  <2> HIDE DEF next
  <2>4. call' = [call EXCEPT ![r] = next]
    BY <1>3 DEF next, err
  <2> QED
    BY <1>1, <1>2, <2>2, <2>3, <2>4, MoveOK DEF Holding
<1> DEFINE age == IF lastRight = 0 THEN None ELSE now - lastRight
<1>4. ASSUME NEW reply \in Replies,
             call' = [call EXCEPT ![r].pc = "returning", ![r].reply = reply, ![r].age = age]
      PROVE  StepOK
  <2> DEFINE next == [call[r] EXCEPT !.pc = "returning", !.reply = reply, !.age = age]
  <2>1. call' = [call EXCEPT ![r] = next]
    BY <1>4 DEF Inv, TypeOK
  <2>2. age \in Nat \cup {None}
    BY SMTT(30), SMTT(60) DEF Inv, TypeOK
  <2>3. reply \in Reply
    <3>1. AccountInfos[scenario] \subseteq Infos
      BY DEF Infos, Inv, TypeOK
    <3> QED
      BY <3>1 DEF Replies, Reply
  <2> HIDE DEF age
  <2>4. /\ next \in Call /\ next.pc = "returning" /\ next.age = age
        /\ next.arrived = call[r].arrived /\ next.deadline = call[r].deadline
        /\ next.status = call[r].status /\ next.reply = reply
    BY <1>1, <2>2, <2>3 DEF Call, PCs, Asking
  <2>5. call'[r] = next => CallSteps(r)
    BY <1>1, <2>3, <2>4 DEF CallSteps, Replied, age
  <2> HIDE DEF next
  <2> QED
    BY <1>1, <1>2, <2>1, <2>4, <2>5, MoveOK DEF Holding
<1> QED
  BY <1>3, <1>4 DEF FetchAccountInfo

LEMMA ConcludeOK == ASSUME Inv, NEW r \in Requests, Conclude(r) PROVE StepOK
<1>1. call[r].pc = "returning" /\ boot' = boot /\ verifyMu' = verifyMu
  BY DEF Conclude
<1>2. boot = "serving"
  BY <1>1 DEF Inv, MutexInv
<1>3. PICK err \in Errors, status \in {None, "OK", "ERROR"} :
        /\ call' = [call EXCEPT ![r] = Answered(r, err, status)]
        /\ status = "OK" => Configured(call[r])
  <2>1. Wrap({"ErrRPCTransient"}, nil) \in Errors /\ Wrap({"ErrRPCNonSuccess"}, nil) \in Errors
        /\ nil \in Errors
    BY ErrorFacts
  <2>2. "ERROR" # "OK"
    OBVIOUS
  <2> QED
    BY <2>1, <2>2, NoneIsNoStatus DEF Conclude, Configured
<1> DEFINE next == Answered(r, err, status)
<1>4. /\ next \in Call /\ next.pc = "done" /\ next.age = call[r].age /\ next.status = status
      /\ next.reply = call[r].reply /\ next.body = call[r].body
  BY AnsweredType, SMTT(30), SMTT(60) DEF Inv
<1>5. next.status = "OK" => Configured(next)
  BY <1>3, <1>4 DEF Configured
<1>6. call'[r] = next => CallSteps(r)
  BY <1>1, <1>4, <1>5 DEF CallSteps, Ends
<1>7. call' = [call EXCEPT ![r] = next]
  BY <1>3
<1> HIDE DEF next
<1> QED
  BY <1>1, <1>2, <1>4, <1>6, <1>7, MoveOK DEF Holding

LEMMA ContextDoneOK == ASSUME Inv, NEW r \in Requests, ContextDone(r) PROVE StepOK
<1> DEFINE next == [call[r] EXCEPT !.deadline = now]
<1>1. /\ call[r].pc \notin {"idle", "done"} /\ now < call[r].deadline
      /\ boot' = boot /\ verifyMu' = verifyMu /\ call[r] \in Call /\ now \in Nat
      /\ call' = [call EXCEPT ![r] = next]
  BY DEF ContextDone, Inv, TypeOK
<1>2. next \in Call /\ next.pc = call[r].pc
  BY <1>1, DeadlineMoves
<1>3. call'[r] = next => CallSteps(r)
  BY <1>1 DEF CallSteps, Hurries
<1>4. boot = "serving"
  BY <1>1 DEF Inv, MutexInv
<1> HIDE DEF next
<1> QED
  BY <1>1, <1>2, <1>3, <1>4, MoveOK

LEMMA CallActionOK == ASSUME Inv, CallAction PROVE StepOK
  BY WakeOK, VerifyOK, LockOK, RecheckOK, ProbeOK, ConfirmOK, FetchAccountInfoOK, ConcludeOK,
     ContextDoneOK DEF CallAction, CallStep

-----------------------------------------------------------------------------
(***************************************************************************)
(* Type correctness and the mutex.                                         *)
(***************************************************************************)

(* The wall clock is a time of day, and no later than the hidden clock     *)
(* plus all it may be set back by.                                         *)
LEMMA ClockFacts ==
    ASSUME TypeOK
    PROVE  /\ MaxSetBack[scenario] \in Nat /\ setBack \in Nat /\ now \in Nat /\ lastRight \in Nat
           /\ clock \in Nat /\ clock # 0 /\ clock = now + MaxSetBack[scenario] - setBack
<1>1. MaxSetBack[scenario] \in Nat
  BY MultisigAssumption DEF TypeOK
<1>2. now \in Nat \ {0} /\ setBack \in 0 .. MaxSetBack[scenario] /\ lastRight \in 0 .. now
  BY DEF TypeOK
<1> QED
  BY <1>1, <1>2 DEF clock

(* What the steps that touch no call do.                                   *)
LEMMA CallActionKeeps ==
    ASSUME CallAction
    PROVE  /\ StateKept
           /\ lastVerified' = lastVerified \/ \E r \in Requests : Confirm(r)
  BY DEF CallAction, Wake, Verify, CallStep, ensureNetworkVerified, Recheck, Probe, Confirm,
         FetchAccountInfo, Conclude, ContextDone, StateKept

LEMMA InvInit == Init => Inv
<1> SUFFICES ASSUME Init PROVE Inv
  OBVIOUS
<1>1. verifyMu = [holder |-> None, queue |-> <<>>, starving |-> FALSE]
      /\ call = [r \in Requests |-> NotCalled]
  BY DEF Init
<1>2. verifyMu \in Mutex /\ call \in [Requests -> Call]
  BY <1>1, NotCalledType DEF Mutex
<1>3. MaxSetBack[scenario] \in Nat /\ Nodes[scenario] \subseteq NodeStates
  BY MultisigAssumption DEF Init
<1>4. TypeOK
  BY <1>2, <1>3 DEF Init, TypeOK, NodeStates
<1>5. \A r \in Requests : call[r].pc = "idle"
  BY <1>1, NotCalledType
<1>6. Len(verifyMu.queue) = 0 /\ verifyMu.holder = None /\ ~verifyMu.starving
  BY <1>1
<1>7. None \notin Requests
  BY MultisigAssumption
<1>8. MutexInv
  BY <1>5, <1>6, <1>7 DEF MutexInv, Holding
<1> QED
  BY <1>4, <1>8 DEF Inv

LEMMA InvStep == Inv /\ [Next]_vars => Inv'
<1> SUFFICES ASSUME Inv, [Next]_vars PROVE Inv'
  OBVIOUS
<1>0. /\ MaxSetBack[scenario] \in Nat /\ now \in Nat \ {0} /\ setBack \in 0 .. MaxSetBack[scenario]
      /\ lastRight \in 0 .. now /\ clock \in Nat
      /\ Nodes[scenario] \subseteq NodeStates
  BY ClockFacts, MultisigAssumption DEF Inv, TypeOK
<1>1. CASE CallAction
  <2>1. CallsOK' /\ MutexInv'
    BY <1>1, CallActionOK DEF StepOK
  <2>2. StateKept
    BY <1>1, CallActionKeeps
  <2>3. lastVerified' \in Nat
    <3>1. ASSUME NEW r \in Requests, Confirm(r) PROVE lastVerified' \in {clock, lastVerified}
      BY <3>1 DEF Confirm
    <3> QED
      BY <1>0, <1>1, <3>1, CallActionKeeps DEF Inv, TypeOK
  <2> QED
    BY <2>1, <2>2, <2>3 DEF Inv, TypeOK, CallsOK, StateKept
<1>2. ASSUME UNCHANGED <<verifyMu, call>>, boot' = "serving" => boot = "serving"
                                                            \/ \A r \in Requests : call[r].pc = "idle",
             boot' # "serving" => boot # "serving"
      PROVE  MutexInv'
  BY <1>2 DEF Inv, MutexInv
<1>3. CASE BootProbe
  <2>1. MutexInv'
    BY <1>2, <1>3 DEF BootProbe
  <2> QED
    BY <1>3, <2>1 DEF BootProbe, Inv, TypeOK, NodeStates
<1>4. CASE VerifyNetwork
  <2>1. MutexInv'
    BY <1>2, <1>4 DEF VerifyNetwork, Inv, MutexInv
  <2> QED
    BY <1>0, <1>4, <2>1 DEF VerifyNetwork, Inv, TypeOK
<1>5. CASE Repoint
  <2>1. MutexInv'
    BY <1>2, <1>5 DEF Repoint
  <2>2. node' \in NodeStates /\ lastRight' \in 0 .. now
    BY <1>0, <1>5 DEF Repoint
  <2> QED
    BY <1>5, <2>1, <2>2 DEF Repoint, Inv, TypeOK
<1>6. CASE SetClockBack
  <2>1. MutexInv'
    BY <1>2, <1>6 DEF SetClockBack
  <2>2. setBack' \in 0 .. MaxSetBack[scenario]
    BY <1>0, <1>6 DEF SetClockBack
  <2> QED
    BY <1>6, <2>1, <2>2 DEF SetClockBack, Inv, TypeOK
<1>7. CASE Tick
  <2>1. MutexInv'
    BY <1>2, <1>7 DEF Tick
  <2>2. now' \in Nat \ {0} /\ lastRight' \in 0 .. now'
    BY <1>0, <1>7 DEF Tick
  <2> QED
    BY <1>7, <2>1, <2>2 DEF Tick, Inv, TypeOK
<1>8. CASE UNCHANGED vars
  <2>1. MutexInv'
    BY <1>2, <1>8 DEF vars
  <2> QED
    BY <1>8, <2>1 DEF vars, Inv, TypeOK
<1> QED
  BY <1>1, <1>3, <1>4, <1>5, <1>6, <1>7, <1>8 DEF Next, CallAction

-----------------------------------------------------------------------------
(***************************************************************************)
(* One probe serves all that queue behind it.                              *)
(***************************************************************************)
LEMMA ConfirmLeaves ==
    ASSUME Inv, NEW r \in Requests, Confirm(r)
    PROVE  call'[r].pc \in {"fetching", "done"}
<1> DEFINE err == checkNetwork(call[r].seen)
<1>1. call[r].pc \in Holding /\ boot' = boot
  BY DEF Confirm, Holding
<1>2. Fetching(r) \in Call /\ Fetching(r).pc = "fetching"
  BY FetchingMoves DEF Inv
<1>3. err # nil => Answered(r, err, None) \in Call /\ Answered(r, err, None).pc = "done"
  <2>1. err # nil => err \in Errors
    BY ProbeErrors, ErrorFacts
  <2> HIDE DEF err
  <2> QED
    BY <2>1, AnsweredType DEF Inv
<1>4. PICK next \in Call : next.pc \in {"fetching", "done"} /\ Unlock([call EXCEPT ![r] = next])
  BY <1>2, <1>3 DEF Confirm
<1> QED
  BY <1>1, <1>4, UnlockKeepsMutex

LEMMA ProbersHold ==
    ASSUME Inv, CallAction, NEW r \in Requests, call'[r].pc \in {"probing", "answering"}
    PROVE  /\ call[r].pc \in {"probing", "answering"} \/ ~verifiedFresh
           /\ lastVerified' = lastVerified
<1>1. CallSteps(r) /\ call[r] \in Call
  BY CallActionOK DEF StepOK, Inv, TypeOK
<1>2. Fetching(r).pc = "fetching"
  BY FetchingMoves DEF Inv
<1>3. call[r].pc \in {"probing", "answering"} \/ (call[r].pc = "locked" /\ ~verifiedFresh)
  BY <1>1, <1>2 DEF CallSteps, Arrives, Fetches, Replied, Ends, Waits, Hurries, Call
<1>4. ASSUME NEW q \in Requests, Confirm(q) PROVE FALSE
  <2>1. call[q].pc \in Holding /\ call[r].pc \in Holding
    BY <1>3, <1>4 DEF Confirm, Holding
  <2>2. q = r
    BY <2>1, SMTT(30), SMTT(60) DEF Inv, MutexInv
  <2> QED
    BY <1>4, <2>2, ConfirmLeaves
<1> QED
  BY <1>3, <1>4, CallActionKeeps

(* No request ever probes the node while a confirmation is fresh, unless   *)
(* the clock was set back.                                                 *)
THEOREM ProbesOnlyWhenStale == Spec => []NoProbeWhileFresh
<1>1. Init => NoProbeWhileFresh
  BY NotCalledType DEF Init, NoProbeWhileFresh
<1>2. Inv /\ NoProbeWhileFresh /\ [Next]_vars => NoProbeWhileFresh'
  <2> SUFFICES ASSUME Inv, NoProbeWhileFresh, [Next]_vars, NEW r \in Requests,
                      call'[r].pc \in {"probing", "answering"}, setBack' = 0
               PROVE  ~verifiedFresh'
    BY DEF NoProbeWhileFresh
  <2>0. /\ MaxSetBack[scenario] \in Nat /\ setBack \in Nat /\ now \in Nat
        /\ clock \in Nat /\ clock = now + MaxSetBack[scenario] - setBack
        /\ lastVerified \in Nat /\ VerifyTTL \in Nat
    BY ClockFacts, MultisigAssumption DEF Inv, TypeOK
  <2>1. CASE CallAction
    <3>1. lastVerified' = lastVerified /\ clock' = clock /\ setBack' = setBack
      BY <2>1, ProbersHold, CallActionKeeps DEF StateKept, clock
    <3>2. ~verifiedFresh
      BY <2>1, <3>1, ProbersHold DEF NoProbeWhileFresh
    <3> QED
      BY <3>1, <3>2 DEF verifiedFresh
  <2>2. CASE BootProbe \/ Repoint \/ UNCHANGED vars
    BY <2>2 DEF BootProbe, Repoint, vars, NoProbeWhileFresh, verifiedFresh, clock
  <2>3. CASE VerifyNetwork
    BY <2>3 DEF VerifyNetwork, Inv, MutexInv
  <2>4. CASE SetClockBack
    BY <2>0, <2>4 DEF SetClockBack
  <2>5. CASE Tick
    <3>1. ~verifiedFresh /\ lastVerified' = lastVerified
      BY <2>5 DEF Tick, NoProbeWhileFresh
    <3>2. clock' = clock + 1
      BY <2>0, <2>5 DEF Tick, clock
    <3> QED
      BY <2>0, <3>1, <3>2 DEF verifiedFresh
  <2> QED
    BY <2>1, <2>2, <2>3, <2>4, <2>5 DEF Next, CallAction
<1>3. Spec => []Inv
  BY InvInit, InvStep, PTL DEF Spec
<1> QED
  BY <1>1, <1>2, <1>3, PTL DEF Spec

-----------------------------------------------------------------------------
(***************************************************************************)
(* The pin.  A confirmation is no later than the node's last moment on the *)
(* expected network plus one probe, on the hidden clock; so whoever takes  *)
(* account_info's reply does it within VerifyTTL, one probe and one fetch  *)
(* of that moment.  The predicates take the time t, the moment the node    *)
(* was last right and the amount the wall clock was set back as arguments. *)
(***************************************************************************)
AgeOK(c, back) == c.age # None /\ c.age < VerifyTTL + ProbeTime + FetchTime + back

PinnedCall(c, t, right, back) ==
    /\ c.pc \in {"probing", "answering"} => c.began <= t /\ t <= c.began + ProbeTime
    /\ c.pc = "answering" /\ c.seen = "expected" => right # 0 /\ c.began <= right
    /\ c.pc = "fetching" =>
        /\ t <= c.began + FetchTime
        /\ right # 0 /\ c.began < right + VerifyTTL + ProbeTime + back
    /\ c.pc = "returning" => AgeOK(c, back)
    /\ c.pc = "done" => \/ AgeOK(c, back)
                        \/ c.err \in RetriedErrors
                        \/ ~ValidateMultisigRequest(c.body)

PinnedInv ==
    /\ node = "expected" => lastRight = now
    /\ boot \in {"probing", "answering"} => now <= 1 + ProbeTime
    /\ boot = "answering" /\ bootSeen = "expected" => lastRight # 0
    /\ lastVerified # 0 => lastRight # 0 /\ lastVerified <= lastRight + ProbeTime + MaxSetBack[scenario]
    /\ \A r \in Requests : PinnedCall(call[r], now, lastRight, setBack)

LEMMA Durations ==
    /\ VerifyTTL \in Nat /\ VerifyTTL > 0 /\ ProbeTime \in Nat /\ FetchTime \in Nat
    /\ WorkTimeout \in Nat
<1>1. VerifyTTL \in Nat \ {0} /\ ProbeTime \in Nat /\ FetchTime \in Nat /\ WorkTimeout \in Nat
  BY MultisigAssumption
<1> QED
  BY <1>1

(* None is not a time.                                                     *)
LEMMA CallTimes ==
    ASSUME NEW c \in Call
    PROVE  /\ c.began \in Nat /\ c.arrived \in Nat /\ c.deadline \in Nat
           /\ c.age # None => c.age \in Nat
           /\ c.pc \in PCs
  BY DEF Call

(* A call that rests stays pinned when the node comes back or the clock is *)
(* set back.                                                               *)
LEMMA PinnedLonger ==
    ASSUME NEW c \in Call, NEW t \in Nat, NEW right \in Nat, NEW back \in Nat,
           NEW right2 \in Nat, NEW back2 \in Nat, right <= right2, back <= back2,
           PinnedCall(c, t, right, back)
    PROVE  PinnedCall(c, t, right2, back2)
<1>1. c.began \in Nat /\ (c.age # None => c.age \in Nat)
  BY CallTimes
<1>2. AgeOK(c, back) => AgeOK(c, back2)
  BY <1>1, Durations DEF AgeOK
<1>3. right # 0 => right2 # 0
  OBVIOUS
<1>4. c.pc = "fetching" => c.began < right2 + VerifyTTL + ProbeTime + back2
  BY <1>1, Durations DEF PinnedCall
<1>5. c.pc = "answering" /\ c.seen = "expected" => c.began <= right2
  BY <1>1 DEF PinnedCall
<1> QED
  BY <1>2, <1>3, <1>4, <1>5 DEF PinnedCall

(* Whoever finds the confirmation fresh is in time.                        *)
LEMMA FreshIsRecent ==
    ASSUME Inv, PinnedInv, verifiedFresh
    PROVE  lastRight # 0 /\ now < lastRight + VerifyTTL + ProbeTime + setBack
<1>1. /\ MaxSetBack[scenario] \in Nat /\ setBack \in Nat /\ now \in Nat /\ lastRight \in Nat
      /\ clock = now + MaxSetBack[scenario] - setBack
  BY ClockFacts DEF Inv
<1>2. lastVerified \in Nat
  BY DEF Inv, TypeOK
<1>3. lastRight # 0 /\ lastVerified <= lastRight + ProbeTime + MaxSetBack[scenario]
      /\ clock - lastVerified < VerifyTTL
  BY DEF PinnedInv, verifiedFresh
<1> QED
  BY <1>1, <1>2, <1>3, Durations

LEMMA PinnedCallStep ==
    ASSUME Inv, PinnedInv, CallAction, NEW r \in Requests
    PROVE  PinnedCall(call'[r], now, lastRight, setBack)
<1> DEFINE c == call[r]
           d == call'[r]
           Pinned(e) == PinnedCall(e, now, lastRight, setBack)
<1>1. CallSteps(r) /\ c \in Call /\ d \in Call
  BY CallActionOK DEF StepOK, CallsOK, Inv, TypeOK
<1>2. now \in Nat /\ lastRight \in 0 .. now /\ setBack \in Nat
      /\ c.began \in Nat /\ (c.age # None => c.age \in Nat)
  BY <1>1, CallTimes, ClockFacts DEF Inv, TypeOK
<1>3. Pinned(c)
  BY DEF PinnedInv
<1>4. CASE Arrives(r)
  <2>1. d.pc = "done" /\ ~ValidateMultisigRequest(d.body) => Pinned(d)
    BY DEF PinnedCall
  <2>2. d.pc = "locking" => Pinned(d)
    BY DEF PinnedCall
  <2>3. d.pc = "fetching" /\ verifiedFresh /\ d.began = now => Pinned(d)
    BY <1>2, FreshIsRecent, Durations DEF PinnedCall
  <2> QED
    BY <1>4, <2>1, <2>2, <2>3 DEF Arrives
<1>5. CASE Fetches(r)
  <2>1. d.pc = "fetching" /\ d.began = now
    BY <1>5, FetchingMoves DEF Fetches, Inv
  <2>2. lastRight # 0 /\ now < lastRight + VerifyTTL + ProbeTime + setBack
    <3>1. CASE verifiedFresh
      BY <3>1, FreshIsRecent
    <3>2. CASE c.pc = "answering" /\ c.seen = "expected"
      <4>1. lastRight # 0 /\ c.began <= lastRight /\ now <= c.began + ProbeTime
        BY <1>3, <3>2 DEF PinnedCall
      <4> QED
        BY <1>2, <4>1, Durations
    <3> QED
      BY <1>5, <3>1, <3>2 DEF Fetches
  <2> QED
    BY <1>2, <2>1, <2>2, Durations DEF PinnedCall
<1>6. CASE Replied(r)
  <2>1. /\ now <= c.began + FetchTime /\ lastRight # 0
        /\ c.began < lastRight + VerifyTTL + ProbeTime + setBack
    BY <1>3, <1>6 DEF PinnedCall, Replied
  <2>2. d.pc = "returning" /\ d.age = now - lastRight
    BY <1>6, <2>1 DEF Replied
  <2>3. None \notin Nat
    BY MultisigAssumption
  <2>4. now - lastRight \in Nat /\ now - lastRight < VerifyTTL + ProbeTime + FetchTime + setBack
    BY <1>2, <2>1, Durations
  <2>5. AgeOK(d, setBack)
    BY <2>2, <2>3, <2>4 DEF AgeOK
  <2> QED
    BY <2>2, <2>5 DEF PinnedCall
<1>7. CASE Ends(r)
  <2>1. c.pc = "returning" => AgeOK(d, setBack)
    BY <1>3, <1>7 DEF PinnedCall, AgeOK, Ends
  <2> QED
    BY <1>7, <2>1 DEF PinnedCall, Ends
<1>8. CASE Waits(r)
  <2>1. ASSUME NEW pc \in {"locked", "queued"}, d = [c EXCEPT !.pc = pc] PROVE Pinned(d)
    <3>1. d.pc = pc
      BY <1>1, <2>1, PcMoves, SMTT(30), SMTT(60) DEF PCs, Holding
    <3> QED
      BY <3>1 DEF PinnedCall
  <2>2. CASE d = [c EXCEPT !.pc = "probing", !.began = now]
    <3>1. d.pc = "probing" /\ d.began = now
      BY <1>1, <2>2 DEF Call
    <3> QED
      BY <1>2, <3>1, Durations DEF PinnedCall
  <2>3. ASSUME c.pc = "probing", NEW reply \in {node, "down"},
               d = [c EXCEPT !.seen = reply, !.pc = "answering"]
        PROVE  Pinned(d)
    <3>1. d.pc = "answering" /\ d.began = c.began /\ d.seen = reply
      BY <1>1, <2>3 DEF Call
    <3>2. c.began <= now /\ now <= c.began + ProbeTime
      BY <1>3, <2>3 DEF PinnedCall
    <3>3. reply = "expected" => lastRight = now
      BY DEF PinnedInv
    <3>4. now # 0
      BY DEF Inv, TypeOK
    <3> QED
      BY <3>1, <3>2, <3>3, <3>4 DEF PinnedCall
  <2> QED
    BY <1>8, <2>1, <2>2, <2>3 DEF Waits
<1>9. CASE Hurries(r)
  <2>1. /\ d.pc = c.pc /\ d.began = c.began /\ d.seen = c.seen /\ d.age = c.age
        /\ d.body = c.body /\ d.err = c.err
    BY <1>1, <1>2, <1>9, DeadlineMoves, SMTT(30), SMTT(60) DEF Hurries
  <2> QED
    BY <1>3, <2>1 DEF PinnedCall, AgeOK
<1> QED
  BY <1>1, <1>3, <1>4, <1>5, <1>6, <1>7, <1>8, <1>9 DEF CallSteps

LEMMA PinnedInit == Init => PinnedInv
<1> SUFFICES ASSUME Init PROVE PinnedInv
  OBVIOUS
<1>1. \A r \in Requests : call[r].pc = "idle"
  BY NotCalledType DEF Init
<1>2. \A r \in Requests : PinnedCall(call[r], now, lastRight, setBack)
  BY <1>1 DEF PinnedCall
<1>3. now <= 1 + ProbeTime
  BY Durations DEF Init
<1> QED
  BY <1>2, <1>3 DEF Init, PinnedInv

(* A confirmation is dated when its reply is processed.                    *)
LEMMA ConfirmedInTime ==
    ASSUME Inv, PinnedInv, NEW r \in Requests, Confirm(r), lastVerified' # 0
    PROVE  lastRight # 0 /\ lastVerified' <= lastRight + ProbeTime + MaxSetBack[scenario]
<1>1. CASE checkNetwork(call[r].seen) = nil
  <2>1. call[r].pc = "answering" /\ call[r].seen = "expected" /\ lastVerified' = clock
    BY <1>1, ProbeErrors DEF Confirm
  <2>2. lastRight # 0 /\ call[r].began <= lastRight /\ now <= call[r].began + ProbeTime
    BY <2>1 DEF PinnedInv, PinnedCall
  <2>3. call[r].began \in Nat
    BY CallTimes DEF Inv, TypeOK
  <2>4. /\ MaxSetBack[scenario] \in Nat /\ setBack \in Nat /\ now \in Nat /\ lastRight \in Nat
        /\ clock = now + MaxSetBack[scenario] - setBack
    BY ClockFacts DEF Inv
  <2> QED
    BY <2>1, <2>2, <2>3, <2>4, Durations
<1>2. CASE checkNetwork(call[r].seen) # nil
  BY <1>2 DEF Confirm, PinnedInv
<1> QED
  BY <1>1, <1>2

LEMMA PinnedStep == Inv /\ PinnedInv /\ [Next]_vars => PinnedInv'
<1> SUFFICES ASSUME Inv, PinnedInv, [Next]_vars PROVE PinnedInv'
  OBVIOUS
<1>0. /\ MaxSetBack[scenario] \in Nat /\ setBack \in Nat /\ now \in Nat \ {0} /\ lastRight \in 0 .. now
      /\ clock = now + MaxSetBack[scenario] - setBack /\ lastVerified \in Nat
      /\ \A r \in Requests : call[r] \in Call
  BY ClockFacts DEF Inv, TypeOK
<1>1. CASE CallAction
  <2>1. StateKept /\ (lastVerified' = lastVerified \/ \E r \in Requests : Confirm(r))
    BY <1>1, CallActionKeeps
  <2>2. \A r \in Requests : PinnedCall(call'[r], now, lastRight, setBack)
    BY <1>1, PinnedCallStep
  <2>3. lastVerified' # 0 =>
          lastRight # 0 /\ lastVerified' <= lastRight + ProbeTime + MaxSetBack[scenario]
    BY <2>1, ConfirmedInTime DEF PinnedInv
  <2> QED
    BY <2>1, <2>2, <2>3 DEF PinnedInv, StateKept
<1>2. CASE BootProbe
  BY <1>0, <1>2 DEF BootProbe, PinnedInv
<1>3. CASE VerifyNetwork
  <2>1. /\ boot = "answering" /\ boot' \in {"failed", "serving"}
        /\ UNCHANGED <<scenario, now, setBack, node, lastRight, call>>
        /\ lastVerified' # lastVerified => bootSeen = "expected" /\ lastVerified' = clock
    BY <1>3, ProbeErrors DEF VerifyNetwork
  <2>2. lastVerified' # lastVerified =>
          lastRight # 0 /\ lastVerified' <= lastRight + ProbeTime + MaxSetBack[scenario]
    <3>1. now <= 1 + ProbeTime
      BY <2>1 DEF PinnedInv
    <3>2. bootSeen = "expected" => lastRight # 0
      BY <2>1 DEF PinnedInv
    <3> QED
      BY <1>0, <2>1, <3>1, <3>2, Durations
  <2> QED
    BY <2>1, <2>2 DEF PinnedInv
<1>4. CASE Repoint
  <2>1. /\ UNCHANGED <<scenario, now, setBack, boot, bootSeen, lastVerified, call>>
        /\ lastRight' = IF node' = "expected" THEN now ELSE lastRight
    BY <1>4 DEF Repoint
  <2>2. lastRight' \in Nat /\ lastRight <= lastRight' /\ (lastRight # 0 => lastRight' # 0)
    BY <1>0, <2>1
  <2>3. \A r \in Requests : PinnedCall(call[r], now, lastRight', setBack)
    BY <1>0, <2>2, PinnedLonger, SMTT(30), SMTT(60) DEF PinnedInv
  <2>4. lastVerified # 0 =>
          lastRight' # 0 /\ lastVerified <= lastRight' + ProbeTime + MaxSetBack[scenario]
    BY <1>0, <2>2, Durations DEF PinnedInv
  <2> QED
    BY <2>1, <2>2, <2>3, <2>4 DEF PinnedInv
<1>5. CASE SetClockBack
  <2>1. /\ UNCHANGED <<scenario, now, node, lastRight, boot, bootSeen, lastVerified, call>>
        /\ setBack' \in Nat /\ setBack <= setBack'
    BY <1>0, <1>5 DEF SetClockBack
  <2>2. \A r \in Requests : PinnedCall(call[r], now, lastRight, setBack')
    BY <1>0, <2>1, PinnedLonger, SMTT(30), SMTT(60) DEF PinnedInv
  <2> QED
    BY <2>1, <2>2 DEF PinnedInv
<1>6. CASE Tick
  <2>1. /\ UNCHANGED <<scenario, setBack, node, boot, bootSeen, lastVerified, call>>
        /\ now' = now + 1 /\ lastRight' = IF node = "expected" THEN now' ELSE lastRight
        /\ boot \in {"probing", "answering"} => now < 1 + ProbeTime
    BY <1>6 DEF Tick
  <2>2. lastRight' \in Nat /\ lastRight <= lastRight' /\ (lastRight # 0 => lastRight' # 0)
    BY <1>0, <2>1
  <2>3. ASSUME NEW r \in Requests PROVE PinnedCall(call[r], now', lastRight', setBack)
    <3> DEFINE c == call[r]
    <3>1. c \in Call /\ c.began \in Nat /\ c.deadline \in Nat
      BY <1>0, CallTimes
    <3>2. PinnedCall(c, now, lastRight', setBack)
      BY <1>0, <2>2, <3>1, PinnedLonger, SMTT(30), SMTT(60) DEF PinnedInv
    <3>3. c.pc \in {"probing", "answering", "fetching", "returning"} => now < Due(c)
      BY <1>6 DEF Tick
    <3>4. c.pc \in {"probing", "answering"} => now < c.began + ProbeTime
      BY <1>0, <3>1, <3>3, Durations DEF Due
    <3>5. c.pc = "fetching" => now < c.began + FetchTime
      BY <1>0, <3>1, <3>3, Durations DEF Due
    <3> HIDE DEF c
    <3>6. c.pc \in {"probing", "answering"} => c.began <= now' /\ now' <= c.began + ProbeTime
      BY <1>0, <2>1, <3>1, <3>2, <3>4, Durations DEF PinnedCall
    <3>7. c.pc = "fetching" => now' <= c.began + FetchTime
      BY <1>0, <2>1, <3>1, <3>5, Durations
    <3>8. PinnedCall(c, now', lastRight', setBack)
      BY <3>2, <3>6, <3>7 DEF PinnedCall
    <3> QED
      BY <3>8 DEF c
  <2>4. lastVerified # 0 =>
          lastRight' # 0 /\ lastVerified <= lastRight' + ProbeTime + MaxSetBack[scenario]
    BY <1>0, <2>2, Durations DEF PinnedInv
  <2>5. boot \in {"probing", "answering"} => now' <= 1 + ProbeTime
    BY <1>0, <2>1, Durations
  <2>6. boot = "answering" /\ bootSeen = "expected" => lastRight' # 0
    BY <2>2 DEF PinnedInv
  <2> QED
    BY <2>1, <2>3, <2>4, <2>5, <2>6 DEF PinnedInv
<1>7. CASE UNCHANGED vars
  BY <1>7 DEF vars, PinnedInv
<1> QED
  BY <1>1, <1>2, <1>3, <1>4, <1>5, <1>6, <1>7 DEF Next, CallAction

(* A verdict always comes from a node that was recently on the expected    *)
(* network; without one, requests are only told to retry.                  *)
THEOREM VerdictsArePinned == Spec => []ConclusiveOnlyFromPinnedNode
<1>1. PinnedInv => ConclusiveOnlyFromPinnedNode
  <2>1. ASSUME NEW err \in RetriedErrors PROVE err # nil /\ classifyVerifyStatus(err) = "RETRY"
    BY DEF RetriedErrors, nil, Wrap, classifyVerifyStatus, Is, IsAny, TerminalSentinels
  <2> QED
    BY <2>1 DEF PinnedInv, PinnedCall, AgeOK, ConclusiveOnlyFromPinnedNode
<1>2. Spec => []Inv
  BY InvInit, InvStep, PTL DEF Spec
<1> QED
  BY <1>1, <1>2, PinnedInit, PinnedStep, PTL DEF Spec

-----------------------------------------------------------------------------
(***************************************************************************)
(* The deadline.  A request may wait for the mutex past its deadline, but  *)
(* for one probe at most: whoever holds the mutex arrived earlier, so that *)
(* its probe ends by its own, earlier deadline, or it overtook the queue   *)
(* and started its probe before the deadlines of those it overtook.        *)
(***************************************************************************)
Limit(c) == c.arrived + WorkTimeout

CallInTime(c, t) ==
    c.pc \notin {"idle", "done"} =>
        /\ c.arrived <= t /\ c.deadline <= Limit(c)
        /\ t <= Limit(c) + ProbeTime
        /\ c.pc = "locking" => c.arrived = t

Overtaken(h, q, t) ==
    /\ h.pc = "locked" => t <= Limit(q)
    /\ h.pc # "locked" => h.began <= Limit(q)

QueueSorted ==
    \A i, j \in 1 .. Len(verifyMu.queue) :
        i <= j => call[verifyMu.queue[i]].arrived <= call[verifyMu.queue[j]].arrived

QueueInTime ==
    \A q \in Requests : call[q].pc = "queued" =>
        /\ ~verifyMu.starving => now <= Limit(call[q])
        /\ \A h \in Requests : call[h].pc \in Holding =>
               \/ call[h].arrived <= call[q].arrived
               \/ verifyMu.starving /\ Overtaken(call[h], call[q], now)

DeadlineInv ==
    /\ \A r \in Requests : CallInTime(call[r], now)
    /\ QueueSorted
    /\ QueueInTime

(* What one step does to the mutex: nothing, a newcomer takes it or        *)
(* queues, it is given up, or it passes to the front of the queue.         *)
Taken == \E r \in Requests :
    /\ call[r].pc = "locking" /\ verifyMu.holder = None /\ ~verifyMu.starving
    /\ verifyMu'.holder = r /\ verifyMu'.queue = verifyMu.queue
    /\ verifyMu.queue # <<>> => verifyMu'.starving

Queued == \E r \in Requests :
    /\ call[r].pc = "locking"
    /\ verifyMu'.queue = Append(verifyMu.queue, r)
    /\ verifyMu'.holder = verifyMu.holder /\ verifyMu'.starving = verifyMu.starving

GivenUp ==
    /\ verifyMu'.holder = None /\ verifyMu'.queue = verifyMu.queue
    /\ verifyMu'.starving = verifyMu.starving

PassedOn ==
    /\ verifyMu.queue # <<>>
    /\ verifyMu'.queue = Tail(verifyMu.queue) /\ verifyMu'.holder = Head(verifyMu.queue)
    /\ verifyMu'.starving \/ ~verifyMu.starving \/ Len(verifyMu.queue) <= 1

MutexSteps == verifyMu' = verifyMu \/ Taken \/ Queued \/ GivenUp \/ PassedOn

LEMMA MutexMoves == ASSUME Inv, CallAction PROVE MutexSteps
<1>1. verifyMu \in Mutex /\ Len(verifyMu.queue) \in Nat
  BY SMTT(30), SMTT(60) DEF Inv, TypeOK, Mutex
<1>2. ASSUME NEW c, HandOver(c), verifyMu.queue # <<>> PROVE PassedOn
  <2>1. /\ verifyMu'.holder = Head(verifyMu.queue) /\ verifyMu'.queue = Tail(verifyMu.queue)
        /\ verifyMu'.starving = (verifyMu.starving /\ Len(verifyMu.queue) > 1)
    BY <1>2 DEF HandOver
  <2>2. Len(verifyMu.queue) > 1 \/ Len(verifyMu.queue) <= 1
    BY <1>1
  <2> QED
    BY <1>2, <2>1, <2>2 DEF PassedOn
<1>3. ASSUME NEW c, Unlock(c) PROVE MutexSteps
  <2>1. CASE verifyMu.starving
    BY <1>2, <1>3, <2>1 DEF Unlock, MutexSteps, Inv, MutexInv
  <2>2. CASE ~verifyMu.starving
    <3>1. verifyMu' = [verifyMu EXCEPT !.holder = None]
      BY <1>3, <2>2 DEF Unlock
    <3> QED
      BY <1>1, <3>1 DEF Mutex, GivenUp, MutexSteps
  <2> QED
    BY <2>1, <2>2
<1>4. CASE Wake
  BY <1>2, <1>4 DEF Wake, MutexSteps
<1>5. ASSUME NEW r \in Requests, ensureNetworkVerified(r) PROVE MutexSteps
  <2>1. CASE verifyMu.holder = None /\ ~verifyMu.starving
    <3>1. verifyMu' = [verifyMu EXCEPT !.holder = r, !.starving = verifyMu.queue # <<>>]
      BY <1>5, <2>1 DEF ensureNetworkVerified, Lock
    <3>2. /\ verifyMu'.holder = r /\ verifyMu'.queue = verifyMu.queue
          /\ verifyMu.queue # <<>> => verifyMu'.starving
      BY <1>1, <3>1 DEF Mutex
    <3> QED
      BY <1>5, <2>1, <3>2 DEF ensureNetworkVerified, Taken, MutexSteps
  <2>2. CASE ~(verifyMu.holder = None /\ ~verifyMu.starving)
    <3>1. verifyMu' = [verifyMu EXCEPT !.queue = Append(verifyMu.queue, r)]
      BY <1>5, <2>2 DEF ensureNetworkVerified, Lock
    <3>2. /\ verifyMu'.queue = Append(verifyMu.queue, r)
          /\ verifyMu'.holder = verifyMu.holder /\ verifyMu'.starving = verifyMu.starving
      BY <1>1, <3>1 DEF Mutex
    <3> QED
      BY <1>5, <3>2 DEF ensureNetworkVerified, Queued, MutexSteps
  <2> QED
    BY <2>1, <2>2
<1>6. ASSUME NEW r \in Requests, Recheck(r) \/ Confirm(r) PROVE MutexSteps
  BY <1>3, <1>6 DEF Recheck, Confirm, MutexSteps
<1>7. ASSUME NEW r \in Requests,
             Verify(r) \/ Probe(r) \/ FetchAccountInfo(r) \/ Conclude(r) \/ ContextDone(r)
      PROVE  MutexSteps
  BY <1>7 DEF Verify, Probe, FetchAccountInfo, Conclude, ContextDone, MutexSteps
<1> QED
  BY <1>4, <1>5, <1>6, <1>7 DEF CallAction, CallStep

(* What a step leaves of a call's times.                                   *)
LEMMA CallKeeps ==
    ASSUME Inv, CallAction, NEW r \in Requests
    PROVE  LET c == call[r]
               d == call'[r]
           IN  /\ d.pc \notin {"idle", "done"} =>
                    \/ c.pc = "idle" /\ d.arrived = now /\ d.deadline = now + WorkTimeout
                    \/ /\ c.pc \notin {"idle", "done"} /\ d.arrived = c.arrived
                       /\ d.deadline = c.deadline \/ (d.deadline = now /\ now < c.deadline)
               /\ d.pc = "locking" => c.pc \in {"idle", "locking"}
               /\ d.pc = "queued" => c.pc \in {"locking", "queued"}
               /\ d.pc \in Holding =>
                    \/ d.pc = "locked" /\ c.pc \in {"locking", "queued"}
                    \/ c.pc = "locked" /\ d.pc = "probing" /\ d.began = now
                    \/ /\ c.pc \in Holding /\ d.began = c.began
                       /\ c.pc = "locked" <=> d.pc = "locked"
<1> DEFINE c == call[r]
           d == call'[r]
<1>1. CallSteps(r) /\ c \in Call /\ d \in Call /\ now \in Nat
  BY CallActionOK DEF StepOK, CallsOK, Inv, TypeOK
<1>2. CASE d = c
  BY <1>2 DEF Holding
<1>3. CASE Arrives(r)
  BY <1>3 DEF Arrives, Holding
<1>4. CASE Fetches(r)
  BY <1>4, FetchingMoves DEF Fetches, Holding, Inv
<1>5. CASE Replied(r)
  BY <1>5 DEF Replied, Holding
<1>6. CASE Ends(r)
  BY <1>6 DEF Ends, Holding
<1>7. CASE Waits(r)
  <2>1. ASSUME NEW pc \in {"locked", "queued"}, d = [c EXCEPT !.pc = pc]
        PROVE  d.pc = pc /\ d.arrived = c.arrived /\ d.deadline = c.deadline
    BY <1>1, <2>1 DEF Call
  <2>2. CASE c.pc = "locked" /\ d = [c EXCEPT !.pc = "probing", !.began = now]
    <3>1. d.pc = "probing" /\ d.began = now /\ d.arrived = c.arrived /\ d.deadline = c.deadline
      BY <1>1, <2>2 DEF Call
    <3> QED
      BY <2>2, <3>1
  <2>3. ASSUME c.pc = "probing", NEW reply, d = [c EXCEPT !.seen = reply, !.pc = "answering"]
        PROVE  /\ d.pc = "answering" /\ d.began = c.began /\ d.arrived = c.arrived
               /\ d.deadline = c.deadline
    BY <1>1, <2>3 DEF Call
  <2> QED
    BY <1>7, <2>1, <2>2, <2>3 DEF Waits, Holding
<1>8. CASE Hurries(r)
  <2>1. d.pc = c.pc /\ d.arrived = c.arrived /\ d.deadline = now /\ d.began = c.began
    BY <1>1, <1>8 DEF Hurries, Call
  <2> QED
    BY <1>8, <2>1 DEF Hurries
<1> QED
  BY <1>1, <1>2, <1>3, <1>4, <1>5, <1>6, <1>7, <1>8 DEF CallSteps

LEMMA CallTimely ==
    ASSUME Inv, DeadlineInv, CallAction, NEW r \in Requests
    PROVE  CallInTime(call'[r], now)
<1> DEFINE c == call[r]
           d == call'[r]
<1> SUFFICES ASSUME d.pc \notin {"idle", "done"}
             PROVE  /\ d.arrived <= now /\ d.deadline <= d.arrived + WorkTimeout
                    /\ now <= d.arrived + WorkTimeout + ProbeTime
                    /\ d.pc = "locking" => d.arrived = now
  BY DEF CallInTime, Limit
<1>1. c \in Call /\ now \in Nat /\ c.arrived \in Nat /\ c.deadline \in Nat
  BY CallTimes DEF Inv, TypeOK
<1>2. CallInTime(c, now)
  BY DEF DeadlineInv
<1>3. CASE c.pc = "idle" /\ d.arrived = now /\ d.deadline = now + WorkTimeout
  BY <1>1, <1>3, Durations
<1>4. CASE /\ c.pc \notin {"idle", "done"} /\ d.arrived = c.arrived
           /\ d.deadline = c.deadline \/ (d.deadline = now /\ now < c.deadline)
  <2>1. d.pc = "locking" => c.pc = "locking"
    BY <1>4, CallKeeps
  <2>2. /\ c.arrived <= now /\ c.deadline <= c.arrived + WorkTimeout
        /\ now <= c.arrived + WorkTimeout + ProbeTime
        /\ c.pc = "locking" => c.arrived = now
    BY <1>2, <1>4 DEF CallInTime, Limit
  <2> HIDE DEF c, d
  <2> QED
    BY <1>1, <1>4, <2>1, <2>2, Durations
<1> QED
  BY <1>3, <1>4, CallKeeps

(* Those in the queue after a step were there before, in order, but for    *)
(* the newcomer at its end.                                                *)
LEMMA QueueStaysSorted == ASSUME Inv, DeadlineInv, CallAction PROVE QueueSorted'
<1> DEFINE queue == verifyMu.queue
           queue2 == verifyMu'.queue
<1>1. verifyMu \in Mutex /\ queue \in Seq(Requests) /\ Len(queue) \in Nat /\ now \in Nat
  BY SMTT(30), SMTT(60) DEF Inv, TypeOK, Mutex
<1>2. queue2 \in Seq(Requests) /\ MutexInv'
  BY CallActionOK DEF StepOK, CallsOK, Mutex
<1>3. ASSUME NEW i \in 1 .. Len(queue2)
      PROVE  /\ queue2[i] \in Requests
             /\ call[queue2[i]].pc \in {"locking", "queued"}
             /\ call'[queue2[i]].arrived = call[queue2[i]].arrived
             /\ call[queue2[i]].arrived <= now
  <2>1. queue2[i] \in Requests
    BY <1>2
  <2>2. call'[queue2[i]].pc = "queued"
    BY <1>2, <2>1 DEF MutexInv
  <2>3. /\ call[queue2[i]].pc \in {"locking", "queued"}
        /\ call'[queue2[i]].arrived = call[queue2[i]].arrived
    BY <2>1, <2>2, CallKeeps
  <2>4. CallInTime(call[queue2[i]], now)
    BY <2>1 DEF DeadlineInv
  <2> QED
    BY <2>1, <2>3, <2>4 DEF CallInTime
<1>4. \A i, j \in 1 .. Len(queue) : i <= j => call[queue[i]].arrived <= call[queue[j]].arrived
  BY DEF DeadlineInv, QueueSorted
<1>5. SUFFICES \A i, j \in 1 .. Len(queue2) : i <= j => call[queue2[i]].arrived <= call[queue2[j]].arrived
  BY <1>3 DEF QueueSorted
<1>6. CASE queue2 = queue
  BY <1>4, <1>6
<1>7. CASE Queued
  <2>1. PICK r \in Requests : call[r].pc = "locking" /\ queue2 = Append(queue, r)
    BY <1>7 DEF Queued
  <2>2. /\ Len(queue2) = Len(queue) + 1 /\ \A i \in 1 .. Len(queue) : queue2[i] = queue[i]
        /\ queue2[Len(queue) + 1] = r
    BY <1>1, <2>1, QueueGrows, SMTT(30), SMTT(60)
  <2>3. call[r].arrived = now
    BY <2>1 DEF DeadlineInv, CallInTime
  <2> HIDE DEF queue, queue2
  <2> SUFFICES ASSUME NEW i \in 1 .. Len(queue2), NEW j \in 1 .. Len(queue2), i <= j
               PROVE  call[queue2[i]].arrived <= call[queue2[j]].arrived
    OBVIOUS
  <2>4. CASE j \in 1 .. Len(queue)
    <3>1. i \in 1 .. Len(queue)
      BY <1>1, <2>2, <2>4
    <3> QED
      BY <1>4, <2>2, <2>4, <3>1
  <2>5. CASE j = Len(queue) + 1
    BY <1>3, <2>2, <2>3, <2>5
  <2> QED
    BY <1>1, <2>2, <2>4, <2>5, SMTT(30), SMTT(60)
<1>8. CASE PassedOn
  <2>1. queue # <<>> /\ queue2 = Tail(queue)
    BY <1>8 DEF PassedOn
  <2>2. Len(queue2) = Len(queue) - 1 /\ \A i \in 1 .. Len(queue) - 1 : queue2[i] = queue[i + 1]
    BY <1>1, <2>1, QueueServed
  <2> HIDE DEF queue, queue2
  <2> SUFFICES ASSUME NEW i \in 1 .. Len(queue2), NEW j \in 1 .. Len(queue2), i <= j
               PROVE  call[queue2[i]].arrived <= call[queue2[j]].arrived
    OBVIOUS
  <2>3. /\ i + 1 \in 1 .. Len(queue) /\ j + 1 \in 1 .. Len(queue) /\ i + 1 <= j + 1
        /\ queue2[i] = queue[i + 1] /\ queue2[j] = queue[j + 1]
    BY <1>1, <2>2
  <2> QED
    BY <1>4, <2>3
<1> QED
  BY <1>6, <1>7, <1>8, MutexMoves DEF MutexSteps, Taken, GivenUp

(* The front of the queue arrived first.                                   *)
LEMMA FrontIsFirst ==
    ASSUME Inv, DeadlineInv, verifyMu.queue # <<>>, NEW q \in Requests, call[q].pc = "queued"
    PROVE  call[Head(verifyMu.queue)].arrived <= call[q].arrived
<1> DEFINE queue == verifyMu.queue
<1>1. queue \in Seq(Requests) /\ Len(queue) \in Nat
  BY SMTT(30), SMTT(60) DEF Inv, TypeOK, Mutex
<1>2. PICK i \in 1 .. Len(queue) : queue[i] = q
  BY DEF Inv, MutexInv
<1>3. Head(queue) = queue[1] /\ 1 \in 1 .. Len(queue) /\ 1 <= i
  BY <1>1, <1>2, QueueServed, SMTT(30), SMTT(60)
<1> QED
  BY <1>2, <1>3 DEF DeadlineInv, QueueSorted

LEMMA QueueTimely == ASSUME Inv, DeadlineInv, CallAction PROVE QueueInTime'
<1>0. None \notin Requests
  BY MultisigAssumption
<1>1. MutexInv' /\ now' = now /\ verifyMu \in Mutex /\ verifyMu' \in Mutex
  BY CallActionOK, CallActionKeeps DEF StepOK, CallsOK, StateKept, Inv, TypeOK
<1> SUFFICES ASSUME NEW q \in Requests, call'[q].pc = "queued"
             PROVE  /\ ~verifyMu'.starving => now <= Limit(call'[q])
                    /\ \A h \in Requests : call'[h].pc \in Holding =>
                           \/ call'[h].arrived <= call'[q].arrived
                           \/ verifyMu'.starving /\ Overtaken(call'[h], call'[q], now)
  BY <1>1 DEF QueueInTime
<1>2. call[q].pc \in {"locking", "queued"} /\ call'[q].arrived = call[q].arrived
  BY CallKeeps
<1>3. Limit(call'[q]) = Limit(call[q])
  BY <1>2 DEF Limit
<1>4. now \in Nat /\ call[q].arrived \in Nat
  BY CallTimes DEF Inv, TypeOK
<1>5. ASSUME NEW h \in Requests, call'[h].pc \in Holding
      PROVE  call'[h].arrived = call[h].arrived /\ call[h].arrived <= now
  <2>1. call[h].pc \notin {"idle", "done"} /\ call'[h].pc \notin {"idle", "done"}
    BY <1>5, CallKeeps DEF Holding
  <2>2. CallInTime(call[h], now)
    BY DEF DeadlineInv
  <2> QED
    BY <2>1, <2>2, CallKeeps DEF CallInTime
<1>6. CASE call[q].pc = "locking"
  <2>1. call[q].arrived = now
    BY <1>6 DEF DeadlineInv, CallInTime
  <2>2. now <= Limit(call[q])
    BY <1>4, <2>1, Durations DEF Limit
  <2> QED
    BY <1>2, <1>3, <1>5, <2>1, <2>2
<1>7. CASE call[q].pc = "queued"
  <2>1. /\ ~verifyMu.starving => now <= Limit(call[q])
        /\ \A h \in Requests : call[h].pc \in Holding =>
               \/ call[h].arrived <= call[q].arrived
               \/ verifyMu.starving /\ Overtaken(call[h], call[q], now)
    BY <1>7 DEF DeadlineInv, QueueInTime
  <2>2. verifyMu.queue # <<>>
    <3>1. PICK i \in 1 .. Len(verifyMu.queue) : verifyMu.queue[i] = q
      BY <1>7 DEF Inv, MutexInv
    <3>2. Len(<<>>) = 0
      OBVIOUS
    <3> QED
      BY <3>1, <3>2
  <2>3. ASSUME verifyMu'.holder = verifyMu.holder, verifyMu'.starving = verifyMu.starving,
               NEW h \in Requests, call'[h].pc \in Holding
        PROVE  \/ call'[h].arrived <= call'[q].arrived
               \/ verifyMu'.starving /\ Overtaken(call'[h], call'[q], now)
    <3>1. call[h].pc \in Holding
      BY <1>1, <2>3 DEF Inv, MutexInv
    <3>2. \/ call[h].arrived <= call[q].arrived
          \/ verifyMu.starving /\ Overtaken(call[h], call[q], now)
      BY <2>1, <3>1
    <3>3. Overtaken(call[h], call[q], now) => Overtaken(call'[h], call'[q], now)
      <4>1. \/ call[h].pc = "locked" /\ call'[h].pc = "probing" /\ call'[h].began = now
            \/ /\ call'[h].began = call[h].began
               /\ call[h].pc = "locked" <=> call'[h].pc = "locked"
        BY <2>3, <3>1, CallKeeps DEF Holding
      <4> QED
        BY <1>3, <4>1 DEF Overtaken
    <3> QED
      BY <1>2, <1>5, <2>3, <3>2, <3>3
  <2>4. CASE verifyMu' = verifyMu \/ Queued
    BY <1>3, <2>1, <2>3, <2>4 DEF Queued
  <2>5. CASE GivenUp
    <3>1. \A h \in Requests : call'[h].pc \notin Holding
      BY <1>0, <1>1, <2>5 DEF GivenUp, MutexInv
    <3> QED
      BY <1>3, <2>1, <2>5, <3>1 DEF GivenUp
  <2>6. CASE Taken
    <3>1. PICK r \in Requests : call[r].pc = "locking" /\ ~verifyMu.starving /\ verifyMu'.holder = r
                                /\ verifyMu'.starving
      BY <2>2, <2>6 DEF Taken
    <3>2. ASSUME NEW h \in Requests, call'[h].pc \in Holding
          PROVE  Overtaken(call'[h], call'[q], now)
      <4>1. h = r
        BY <1>1, <3>1, <3>2 DEF MutexInv
      <4>2. call'[h].pc = "locked"
        BY <3>1, <3>2, <4>1, CallKeeps DEF Holding
      <4> QED
        BY <1>3, <2>1, <3>1, <4>2 DEF Overtaken
    <3> QED
      BY <3>1, <3>2
  <2>7. CASE PassedOn
    <3>1. ASSUME NEW h \in Requests, call'[h].pc \in Holding
          PROVE  call'[h].arrived <= call'[q].arrived
      <4>1. h = Head(verifyMu.queue)
        BY <1>1, <2>7, <3>1 DEF MutexInv, PassedOn
      <4> QED
        BY <1>2, <1>5, <1>7, <2>2, <3>1, <4>1, FrontIsFirst
    <3>2. Len(verifyMu.queue) > 1
      <4>1. verifyMu.queue \in Seq(Requests) /\ verifyMu'.queue = Tail(verifyMu.queue)
        BY <1>1, <2>7 DEF PassedOn, Mutex
      <4>2. Len(verifyMu'.queue) = Len(verifyMu.queue) - 1 /\ Len(verifyMu.queue) \in Nat
        BY <2>2, <4>1, QueueServed
      <4>3. \E i \in 1 .. Len(verifyMu'.queue) : verifyMu'.queue[i] = q
        BY <1>1 DEF MutexInv
      <4> QED
        BY <4>2, <4>3
    <3>3. Len(verifyMu.queue) \in Nat
      BY <1>1, SMTT(30), SMTT(60) DEF Mutex
    <3>4. verifyMu'.starving \/ ~verifyMu.starving
      BY <2>7, <3>2, <3>3 DEF PassedOn
    <3> QED
      BY <1>3, <2>1, <3>1, <3>4
  <2> QED
    BY <2>4, <2>5, <2>6, <2>7, MutexMoves DEF MutexSteps
<1> QED
  BY <1>2, <1>6, <1>7

(* Time passes while the holder of the mutex waits for its probe.          *)
LEMMA TickTimely == ASSUME Inv, DeadlineInv, Tick PROVE DeadlineInv'
<1>1. /\ UNCHANGED <<verifyMu, call>> /\ now' = now + 1 /\ now \in Nat
      /\ verifyMu.holder = None => verifyMu.queue = <<>>
      /\ \A r \in Requests :
          /\ call[r].pc \notin {"locking", "locked"}
          /\ call[r].pc \in {"probing", "answering", "fetching", "returning"} => now < Due(call[r])
  BY DEF Tick, Inv, TypeOK
<1>2. ASSUME NEW r \in Requests
      PROVE  call[r].began \in Nat /\ call[r].arrived \in Nat /\ call[r].deadline \in Nat
  BY CallTimes DEF Inv, TypeOK
<1>3. ASSUME NEW r \in Requests, call[r].pc \in {"probing", "answering", "fetching", "returning"}
      PROVE  /\ now < Limit(call[r]) /\ now < call[r].deadline
             /\ call[r].pc \in {"probing", "answering"} => now < call[r].began + ProbeTime
  <2> DEFINE c == call[r]
  <2>1. now < Due(c)
    BY <1>1, <1>3
  <2>2. /\ now < c.deadline
        /\ c.pc \in {"probing", "answering"} => now < c.began + ProbeTime
    BY <1>1, <1>2, <2>1, Durations DEF Due
  <2>3. c.deadline <= c.arrived + WorkTimeout
    BY <1>3 DEF DeadlineInv, CallInTime, Limit
  <2> HIDE DEF c
  <2>4. c.arrived \in Nat /\ c.deadline \in Nat
    BY <1>2 DEF c
  <2>5. now < c.arrived + WorkTimeout
    BY <1>1, <2>2, <2>3, <2>4, Durations
  <2> QED
    BY <2>2, <2>5 DEF Limit, c
<1>4. ASSUME NEW q \in Requests, call[q].pc = "queued"
      PROVE  /\ ~verifyMu.starving => now' <= Limit(call[q])
             /\ now' <= Limit(call[q]) + ProbeTime
  <2>1. verifyMu.holder \in Requests
    <3>1. PICK i \in 1 .. Len(verifyMu.queue) : verifyMu.queue[i] = q
      BY <1>4 DEF Inv, MutexInv
    <3>2. Len(<<>>) = 0
      OBVIOUS
    <3>3. verifyMu.holder # None
      BY <1>1, <3>1, <3>2
    <3> QED
      BY <3>3 DEF Inv, TypeOK, Mutex
  <2> DEFINE h == verifyMu.holder
  <2>2. call[h].pc \in {"probing", "answering"}
    BY <1>1, <2>1 DEF Inv, MutexInv, Holding
  <2>3. now < Limit(call[h]) /\ now < call[h].began + ProbeTime
    BY <1>3, <2>1, <2>2
  <2>4. \/ call[h].arrived <= call[q].arrived
        \/ verifyMu.starving /\ call[h].began <= Limit(call[q])
    BY <1>4, <2>1, <2>2 DEF DeadlineInv, QueueInTime, Overtaken, Holding
  <2>5. CASE call[h].arrived <= call[q].arrived
    <3>1. now < call[q].arrived + WorkTimeout
      BY <1>1, <1>2, <2>1, <2>3, <2>5, Durations DEF Limit
    <3>2. now' <= call[q].arrived + WorkTimeout /\ now' <= call[q].arrived + WorkTimeout + ProbeTime
      BY <1>1, <1>2, <3>1, Durations
    <3> QED
      BY <3>2 DEF Limit
  <2>6. CASE verifyMu.starving /\ call[h].began <= Limit(call[q])
    <3>1. Limit(call[q]) \in Nat
      BY <1>2, Durations DEF Limit
    <3>2. now' <= Limit(call[q]) + ProbeTime
      BY <1>1, <1>2, <2>1, <2>3, <2>6, <3>1, Durations
    <3> QED
      BY <2>6, <3>2
  <2> QED
    BY <2>4, <2>5, <2>6
<1>5. ASSUME NEW r \in Requests PROVE CallInTime(call[r], now')
  <2> SUFFICES ASSUME call[r].pc \notin {"idle", "done"}
               PROVE  /\ call[r].arrived <= now' /\ call[r].deadline <= Limit(call[r])
                      /\ now' <= Limit(call[r]) + ProbeTime
                      /\ call[r].pc # "locking"
    BY DEF CallInTime
  <2>1. call[r].arrived <= now /\ call[r].deadline <= Limit(call[r]) /\ call[r].pc # "locking"
    BY <1>1 DEF DeadlineInv, CallInTime
  <2>2. call[r].arrived <= now'
    BY <1>1, <1>2, <2>1
  <2>3. call[r].pc \in PCs
    BY CallTimes DEF Inv, TypeOK
  <2>4. call[r].pc = "queued" \/ call[r].pc \in {"probing", "answering", "fetching", "returning"}
    BY <1>1, <2>3 DEF PCs, Holding, Asking
  <2>5. now < Limit(call[r]) => now' <= Limit(call[r]) + ProbeTime
    <3>1. Limit(call[r]) \in Nat
      BY <1>2, Durations DEF Limit
    <3> QED
      BY <1>1, <3>1, Durations
  <2> QED
    BY <1>3, <1>4, <2>1, <2>2, <2>4, <2>5
<1>6. QueueInTime'
  <2>1. ASSUME NEW q \in Requests, call[q].pc = "queued", NEW h \in Requests, call[h].pc \in Holding
        PROVE  \/ call[h].arrived <= call[q].arrived
               \/ verifyMu.starving /\ Overtaken(call[h], call[q], now')
    BY <1>1, <2>1 DEF DeadlineInv, QueueInTime, Overtaken
  <2> QED
    BY <1>1, <1>4, <2>1 DEF QueueInTime
<1> QED
  BY <1>1, <1>5, <1>6 DEF DeadlineInv, QueueSorted

LEMMA DeadlineInit == Init => DeadlineInv
<1> SUFFICES ASSUME Init PROVE DeadlineInv
  OBVIOUS
<1>1. \A r \in Requests : call[r].pc = "idle"
  BY NotCalledType DEF Init
<1>2. Len(verifyMu.queue) = 0
  BY DEF Init
<1> QED
  BY <1>1, <1>2 DEF DeadlineInv, CallInTime, QueueSorted, QueueInTime

LEMMA DeadlineStep == Inv /\ DeadlineInv /\ [Next]_vars => DeadlineInv'
<1> SUFFICES ASSUME Inv, DeadlineInv, [Next]_vars PROVE DeadlineInv'
  OBVIOUS
<1>1. CASE CallAction
  <2>1. now' = now
    BY <1>1, CallActionKeeps DEF StateKept
  <2>2. \A r \in Requests : CallInTime(call'[r], now)
    BY <1>1, CallTimely
  <2> QED
    BY <1>1, <2>1, <2>2, QueueStaysSorted, QueueTimely DEF DeadlineInv
<1>2. CASE UNCHANGED <<now, verifyMu, call>>
  BY <1>2 DEF DeadlineInv, QueueSorted, QueueInTime
<1>3. CASE Tick
  BY <1>3, TickTimely
<1>4. BootProbe \/ VerifyNetwork \/ Repoint \/ SetClockBack \/ UNCHANGED vars
        => UNCHANGED <<now, verifyMu, call>>
  BY DEF BootProbe, VerifyNetwork, Repoint, SetClockBack, vars
<1> QED
  BY <1>1, <1>2, <1>3, <1>4 DEF Next, CallAction

(* No request outlives its deadline by more than one probe, however the    *)
(* requests queue for the mutex.                                           *)
THEOREM RequestsEndInTime == Spec => []AnsweredInTime
<1>1. DeadlineInv => AnsweredInTime
  BY DEF DeadlineInv, CallInTime, Limit, AnsweredInTime
<1>2. Spec => []Inv
  BY InvInit, InvStep, PTL DEF Spec
<1> QED
  BY <1>1, <1>2, DeadlineInit, DeadlineStep, PTL DEF Spec

-----------------------------------------------------------------------------
(***************************************************************************)
(* A verdict OK.  The invariant keeps the reply a request concludes from:  *)
(* it is one the node gave, and OK is only said of a configuration that    *)
(* passed validateMultisigConfiguration.                                   *)
(***************************************************************************)
VerdictInv ==
    \A r \in Requests :
        /\ call[r].pc = "returning" => call[r].reply \in Reply
        /\ call[r].status = "OK" =>
               call[r].pc = "done" /\ call[r].reply \in Reply /\ Configured(call[r])

LEMMA VerdictCallStep ==
    ASSUME Inv, VerdictInv, CallAction, NEW r \in Requests
    PROVE  /\ call'[r].pc = "returning" => call'[r].reply \in Reply
           /\ call'[r].status = "OK" =>
                  call'[r].pc = "done" /\ call'[r].reply \in Reply /\ Configured(call'[r])
<1> DEFINE c == call[r]
           d == call'[r]
<1>1. CallSteps(r) /\ c \in Call
  BY CallActionOK DEF StepOK, Inv, TypeOK
<1>2. /\ c.pc = "returning" => c.reply \in Reply
      /\ c.status = "OK" => c.pc = "done" /\ c.reply \in Reply /\ Configured(c)
  BY DEF VerdictInv
<1>3. CASE Arrives(r)
  BY <1>3, NoneIsNoStatus DEF Arrives
<1>4. CASE Fetches(r)
  <2>1. d.pc = "fetching" /\ d.status = c.status /\ c.pc # "done"
    BY <1>4, FetchingMoves DEF Fetches, Inv
  <2> QED
    BY <1>2, <2>1
<1>5. CASE Replied(r)
  BY <1>2, <1>5 DEF Replied
<1>6. CASE Ends(r)
  BY <1>2, <1>6 DEF Ends
<1>7. CASE Waits(r)
  <2>1. ASSUME NEW pc \in {"locked", "queued"}, d = [c EXCEPT !.pc = pc]
        PROVE  d.pc # "returning" /\ d.status = c.status
    <3>1. pc \in PCs
      BY DEF PCs, Holding
    <3> QED
      BY <1>1, <2>1, <3>1, PcMoves, SMTT(30), SMTT(60)
  <2>2. d = [c EXCEPT !.pc = "probing", !.began = now] => d.pc # "returning" /\ d.status = c.status
    BY <1>1 DEF Call
  <2>3. ASSUME NEW seen, d = [c EXCEPT !.seen = seen, !.pc = "answering"]
        PROVE  d.pc # "returning" /\ d.status = c.status
    BY <1>1, <2>3 DEF Call
  <2>4. c.pc # "done"
    BY <1>7 DEF Waits
  <2>5. d.pc # "returning" /\ d.status = c.status
    BY <1>7, <2>1, <2>2, <2>3 DEF Waits
  <2> QED
    BY <1>2, <2>4, <2>5
<1>8. CASE Hurries(r)
  <2>1. d.pc = c.pc /\ d.status = c.status /\ c.pc # "done" /\ d.reply = c.reply
    BY <1>1, <1>8 DEF Hurries, Call
  <2> QED
    BY <1>2, <2>1
<1>9. CASE d = c
  BY <1>2, <1>9
<1> QED
  BY <1>1, <1>3, <1>4, <1>5, <1>6, <1>7, <1>8, <1>9 DEF CallSteps

LEMMA VerdictsHold == Spec => [](Inv /\ VerdictInv)
<1>1. Init => VerdictInv
  <2> SUFFICES ASSUME Init, NEW r \in Requests PROVE call[r].pc = "idle" /\ call[r].status = None
    BY NoneIsNoStatus DEF VerdictInv
  <2> QED
    BY NotCalledType DEF Init
<1>2. Inv /\ VerdictInv /\ [Next]_vars => VerdictInv'
  <2> SUFFICES ASSUME Inv, VerdictInv, [Next]_vars PROVE VerdictInv'
    OBVIOUS
  <2>1. CASE CallAction
    BY <2>1, VerdictCallStep DEF VerdictInv
  <2>2. CASE UNCHANGED call
    BY <2>2 DEF VerdictInv
  <2>3. BootProbe \/ VerifyNetwork \/ Repoint \/ SetClockBack \/ Tick \/ UNCHANGED vars => UNCHANGED call
    BY DEF BootProbe, VerifyNetwork, Repoint, SetClockBack, Tick, vars
  <2> QED
    BY <2>1, <2>2, <2>3 DEF Next, CallAction
<1> QED
  BY <1>1, <1>2, InvInit, InvStep, PTL DEF Spec

(* Where a list names an account once, its entry gives the weight.         *)
LEMMA WeightOfEntry ==
    ASSUME NEW list \in SignerLists, NEW i \in DOMAIN list.entries
    PROVE  /\ list.entries[i].account \in DOMAIN AccountsMap(list)
           /\ AccountsMap(list)[list.entries[i].account] = list.entries[i].weight
<1> DEFINE a == list.entries[i].account
           Last(j) == /\ list.entries[j].account = a
                      /\ \A k \in DOMAIN list.entries : list.entries[k].account = a => k <= j
           last == CHOOSE j \in DOMAIN list.entries : Last(j)
<1>1. \A k \in DOMAIN list.entries : list.entries[k].account = a => k = i
  BY DEF SignerLists
<1>2. i <= i
  BY SMTT(30), SMTT(60) DEF SignerLists
<1>3. Last(i)
  BY <1>1, <1>2
<1>4. last \in DOMAIN list.entries /\ Last(last)
  BY <1>3
<1>5. last = i
  BY <1>1, <1>4
<1>6. AccountsMap(list)[a] = list.entries[last].weight /\ a \in DOMAIN AccountsMap(list)
  BY DEF AccountsMap
<1> HIDE DEF last
<1> QED
  BY <1>5, <1>6

(* What the check of a signer list establishes: its accounts are the keys, *)
(* each with weight 1.                                                     *)
LEMMA SignersAreTheKeys ==
    ASSUME NEW list \in SignerLists, NEW req, validateSignerList(list, req)
    PROVE  /\ \A i \in DOMAIN list.entries : list.entries[i].weight = 1
           /\ {list.entries[i].account : i \in DOMAIN list.entries}
                  = {req.publicKeys[i] : i \in DOMAIN req.publicKeys}
           /\ list.quorum = req.threshold
<1> DEFINE keys == {req.publicKeys[i] : i \in DOMAIN req.publicKeys}
           listed == {list.entries[i].account : i \in DOMAIN list.entries}
<1>1. DOMAIN AccountsMap(list) = listed
  BY DEF AccountsMap
<1>2. /\ Cardinality(listed) = Cardinality(keys)
      /\ keys \subseteq listed /\ \A a \in keys : AccountsMap(list)[a] = 1
      /\ list.quorum = req.threshold
  BY <1>1 DEF validateSignerList
<1>3. IsFiniteSet(listed)
  <2>1. PICK n \in Nat : DOMAIN list.entries = 1 .. n
    BY SMTT(30), SMTT(60) DEF SignerLists
  <2>2. IsFiniteSet(1 .. n)
    BY <2>1, FS_Interval
  <2> DEFINE account == [i \in DOMAIN list.entries |-> list.entries[i].account]
  <2>3. account \in Surjection(DOMAIN list.entries, listed)
    BY DEF Surjection
  <2> HIDE DEF account, listed
  <2> QED
    BY <2>1, <2>2, <2>3, FS_Surjection
<1> HIDE DEF keys, listed
<1>4. keys = listed
  BY <1>2, <1>3, FS_Subset
<1>5. \A i \in DOMAIN list.entries : list.entries[i].weight = 1
  BY <1>2, <1>4, WeightOfEntry DEF listed
<1>6. listed = keys /\ list.quorum = req.threshold
  BY <1>2, <1>4
<1> QED
  BY <1>5, <1>6 DEF keys, listed

(* The weight of a set of signers is then the number of keys among them.   *)
LEMMA WeightIsCount ==
    ASSUME NEW list \in SignerLists, \A i \in DOMAIN list.entries : list.entries[i].weight = 1,
           NEW S
    PROVE  LET listed == {list.entries[i].account : i \in DOMAIN list.entries}
               signing == {i \in DOMAIN list.entries : list.entries[i].account \in S}
           IN  Total([i \in signing |-> list.entries[i].weight]) = Cardinality(S \cap listed)
<1> DEFINE listed == {list.entries[i].account : i \in DOMAIN list.entries}
           signing == {i \in DOMAIN list.entries : list.entries[i].account \in S}
           weights == [i \in signing |-> list.entries[i].weight]
           units == {<<i, 1>> : i \in signing}
           f == [u \in units |-> list.entries[u[1]].account]
<1>1. Units(weights) = units
  <2>1. \A i \in signing : weights[i] = 1
    OBVIOUS
  <2>2. \A i \in signing : {i} \X (1 .. 1) = {<<i, 1>>}
    OBVIOUS
  <2>3. DOMAIN weights = signing
    OBVIOUS
  <2> HIDE DEF weights, signing
  <2> QED
    BY <2>1, <2>2, <2>3, SMTT(30), SMTT(60) DEF Units
<1>2. f \in Bijection(units, S \cap listed)
  <2>1. f \in [units -> S \cap listed]
    BY SMTT(30), SMTT(60)
  <2>2. \A u, v \in units : f[u] = f[v] => u = v
    BY SMTT(30), SMTT(60) DEF SignerLists
  <2>3. \A a \in S \cap listed : \E u \in units : f[u] = a
    <3> SUFFICES ASSUME NEW a \in S \cap listed PROVE \E u \in units : f[u] = a
      OBVIOUS
    <3>1. PICK i \in DOMAIN list.entries : list.entries[i].account = a
      OBVIOUS
    <3>2. <<i, 1>> \in units /\ f[<<i, 1>>] = a
      BY <3>1
    <3> QED
      BY <3>2
  <2> HIDE DEF f, units, listed
  <2> QED
    BY <2>1, <2>2, <2>3 DEF Bijection, Injection, Surjection, IsInjective
<1>3. IsFiniteSet(units)
  <2>1. PICK n \in Nat : DOMAIN list.entries = 1 .. n
    BY SMTT(30), SMTT(60) DEF SignerLists
  <2>2. IsFiniteSet(1 .. n)
    BY <2>1, FS_Interval
  <2>3. IsFiniteSet(signing)
    BY <2>1, <2>2, FS_Subset
  <2> DEFINE unit == [i \in signing |-> <<i, 1>>]
  <2>4. unit \in Surjection(signing, units)
    BY DEF Surjection
  <2> HIDE DEF unit, signing, units
  <2> QED
    BY <2>3, <2>4, FS_Surjection
<1> HIDE DEF f, units, listed, weights
<1>4. Cardinality(S \cap listed) = Cardinality(units)
  BY <1>2, <1>3, FS_Bijection DEF ExistsBijection
<1> QED
  BY <1>1, <1>4 DEF Total, listed, weights

(* Status OK is only given to an account that any threshold of the given   *)
(* keys can move and nobody else can.                                      *)
THEOREM OKIsTheQuorumOfKeys == Spec => []OKMeansThresholdOfKeys
<1> DEFINE info(r) == call[r].reply.info
           body(r) == call[r].body
           keys(r) == {body(r).publicKeys[i] : i \in DOMAIN body(r).publicKeys}
           list(r) == ResolveSignerLists(info(r))[1]
<1>1. ASSUME Inv, VerdictInv, NEW r \in Requests, call[r].status = "OK"
      PROVE  /\ info(r).account = body(r).account /\ info(r).validated = "true"
             /\ "disableMasterKey" \in info(r).flags /\ info(r).regularKey = ""
             /\ \A S \in SUBSET Accounts :
                 CanSign(S, list(r)) <=> Cardinality(S \cap keys(r)) >= body(r).threshold
  <2> DEFINE b == body(r)
             l == list(r)
             ks == keys(r)
  <2>1. call[r].reply \in Reply /\ Configured(call[r])
    BY <1>1 DEF VerdictInv
  <2>2. info(r) \in Infos /\ validateMultisigConfiguration(info(r), b)
    BY <2>1 DEF Configured, Reply
  <2>3. validateSignerList(l, b) /\ checkAccountFlags(info(r).flags)
        /\ info(r).account = b.account /\ info(r).validated = "true" /\ info(r).regularKey = ""
    BY <2>2 DEF validateMultisigConfiguration
  <2>4. l \in SignerLists
    <3>1. PICK s \in Scenarios : info(r) \in AccountInfos[s]
      BY <2>2 DEF Infos
    <3>2. PICK lists \in {info(r).dataLists, info(r).resultLists} : lists = ResolveSignerLists(info(r))
      BY DEF ResolveSignerLists
    <3>3. lists \in Seq(SignerLists)
      BY <3>1, <3>2, MultisigAssumption
    <3>4. lists # <<>>
      BY <2>2, <3>2 DEF validateMultisigConfiguration
    <3> QED
      BY <3>2, <3>3, <3>4
  <2>5. ASSUME NEW S PROVE CanSign(S, l) <=> Cardinality(S \cap ks) >= b.threshold
    <3> DEFINE listed == {l.entries[i].account : i \in DOMAIN l.entries}
               signing == {i \in DOMAIN l.entries : l.entries[i].account \in S}
               weight == Total([i \in signing |-> l.entries[i].weight])
    <3> HIDE DEF l, b
    <3>1. listed = ks /\ l.quorum = b.threshold /\ \A i \in DOMAIN l.entries : l.entries[i].weight = 1
      BY <2>3, <2>4, SignersAreTheKeys DEF b
    <3>2. weight = Cardinality(S \cap listed)
      BY <2>4, <3>1, WeightIsCount
    <3>3. CanSign(S, l) <=> weight >= l.quorum
      BY DEF CanSign
    <3> HIDE DEF weight, listed, ks
    <3> QED
      BY <3>1, <3>2, <3>3
  <2> QED
    BY <2>3, <2>5 DEF checkAccountFlags
<1>2. Inv /\ VerdictInv => OKMeansThresholdOfKeys
  BY <1>1 DEF OKMeansThresholdOfKeys
<1> QED
  BY <1>2, VerdictsHold, PTL
=============================================================================
