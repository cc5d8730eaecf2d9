-------------------------- MODULE MultisigVerifier --------------------------
(***************************************************************************)
(* The multisig-account verifier (pmwmultisigconfigured): its XRPL node is *)
(* pinned to the source's network.  The network is probed at boot and,     *)
(* once the last confirmation is older than networkVerifyTTL, by one       *)
(* request at a time under verifyMu; the others queue on the mutex, which  *)
(* no context interrupts.  The node may be repointed, go down and come     *)
(* back at any moment, also while a reply is on its way.  A confirmation   *)
(* is dated by the wall clock, which may be set back; timeouts are not.    *)
(*                                                                         *)
(* Time passes only while everybody waits: for a reply, for the mutex or   *)
(* for a client.  One tick is networkPinTimeout or a fraction of it.       *)
(***************************************************************************)
EXTENDS Integers, Sequences, FiniteSets, Totals, ErrorChains

CONSTANTS
    Requests,           \* calls of Verify, each made once
    Accounts,           \* XRPL addresses; a public key stands for its address
    Scenarios,          \* the outside worlds considered, by name; for each of them:
    Bodies,             \*   request bodies: [account, publicKeys, threshold]
    AccountInfos,       \*   successful account_info results
    Nodes,              \*   the states the node may be in
    MaxRequests,        \*   bound: the requests made
    MaxNow,             \*   bound: the clock
    MaxSetBack,         \*   bound: by how much the wall clock is set back in all
    MaxPublicKeys,
    VerifyTTL,          \* networkVerifyTTL
    ProbeTime,          \* networkPinTimeout
    FetchTime,          \* the attempts and delays of FetchAccountInfo
    WorkTimeout,        \* verifierWorkTimeout
    None

(* "expected" and "other" report that network's id, "unnamed" reports none,*)
(* "down" does not answer.                                                 *)
NodeStates == {"expected", "other", "unnamed", "down"}

(* The signer lists the ledger admits: they name an account once.          *)
SignerLists ==
    {list \in [quorum : Nat, entries : Seq([account : Accounts, weight : Nat])] :
        \A i, j \in DOMAIN list.entries : list.entries[i].account = list.entries[j].account => i = j}

ASSUME MultisigAssumption ==
    /\ MaxPublicKeys \in Nat /\ VerifyTTL \in Nat \ {0} /\ ProbeTime \in Nat \ {0}
    /\ FetchTime \in Nat \ {0} /\ WorkTimeout \in Nat \ {0}
    /\ \A s \in Scenarios :
        /\ Nodes[s] \subseteq NodeStates /\ MaxRequests[s] \in Nat /\ MaxNow[s] \in Nat
        /\ MaxSetBack[s] \in Nat
        /\ Bodies[s] \subseteq
               [account : Accounts, publicKeys : Seq(Accounts \cup {"", "malformed"}), threshold : Nat]
        /\ \A info \in AccountInfos[s] : {info.dataLists, info.resultLists} \subseteq Seq(SignerLists)
    /\ None \notin Requests /\ None \notin Nat /\ None \notin {"OK", "ERROR"}

VARIABLES
    scenario,
    now,
    setBack,        \* by how much the wall clock was set back since the start
    node,           \* the state of the XRPL node
    lastRight,      \* history: when it was last on the expected network, 0 = never
    boot,           \* "probing", "answering", "serving", "failed"
    bootSeen,       \* the node's reply to the probe at boot
    lastVerified,   \* lastVerifiedNano on the wall clock, 0 = never
    verifyMu,       \* [holder, queue, starving]
    call            \* per request the state of its Verify

vars == <<scenario, now, setBack, node, lastRight, boot, bootSeen, lastVerified, verifyMu, call>>

(***************************************************************************)
(* seen is the node's reply to server_info, reply its reply to             *)
(* account_info.  age is history: how long before that reply the node was  *)
(* last on the expected network.                                           *)
(***************************************************************************)
Replies ==
    [kind : {"success"}, info : AccountInfos[scenario]] \cup [kind : {"transient", "nonSuccess"}, info : {None}]
NotCalled ==
    [pc |-> "idle", body |-> None, arrived |-> 0, deadline |-> 0, began |-> 0, seen |-> None,
     reply |-> None, age |-> None, err |-> nil, status |-> None]

Init ==
    /\ scenario \in Scenarios
    /\ now = 1 /\ setBack = 0
    /\ node \in Nodes[scenario]
    /\ lastRight = IF node = "expected" THEN 1 ELSE 0
    /\ boot = "probing" /\ bootSeen = None
    /\ lastVerified = 0
    /\ verifyMu = [holder |-> None, queue |-> <<>>, starving |-> FALSE]
    /\ call = [r \in Requests |-> NotCalled]

-----------------------------------------------------------------------------
(***************************************************************************)
(* The request's shape, and the account's configuration.                   *)
(***************************************************************************)
ValidatePublicKeys(keys) ==
    /\ Len(keys) <= MaxPublicKeys
    /\ \A i \in DOMAIN keys : keys[i] # ""
    /\ \A i, j \in DOMAIN keys : keys[i] = keys[j] => i = j

ValidateMultisigRequest(req) ==
    req.publicKeys # <<>> /\ ValidatePublicKeys(req.publicKeys) /\ req.threshold # 0

(* account_data's lists (API v1), or else those at the result level.       *)
ResolveSignerLists(info) == IF info.dataLists # <<>> THEN info.dataLists ELSE info.resultLists

(* The last entry of an account gives its weight.                          *)
AccountsMap(list) ==
    LET listed == {list.entries[i].account : i \in DOMAIN list.entries}
        last(a) == CHOOSE i \in DOMAIN list.entries :
                      /\ list.entries[i].account = a
                      /\ \A j \in DOMAIN list.entries : list.entries[j].account = a => j <= i
    IN  [a \in listed |-> list.entries[last(a)].weight]

validateSignerListSubset(list, req) ==
    LET expected == {req.publicKeys[i] : i \in DOMAIN req.publicKeys}
        actual == AccountsMap(list)
    IN  /\ \A a \in expected : a \in DOMAIN actual /\ actual[a] = 1
        /\ list.quorum = req.threshold

validateSignerList(list, req) ==
    LET expected == {req.publicKeys[i] : i \in DOMAIN req.publicKeys}
        actual == AccountsMap(list)
    IN  /\ "malformed" \notin expected
        /\ Cardinality(DOMAIN actual) = Cardinality(expected)
        /\ \A a \in expected : a \in DOMAIN actual /\ actual[a] = 1
        /\ list.quorum = req.threshold

checkAccountFlags(flags) ==
    /\ "disableMasterKey" \in flags
    /\ flags \cap {"depositAuth", "requireDestinationTag", "disallowIncomingXRP"} = {}

validateMultisigConfiguration(info, req) ==
    /\ info.account = req.account
    /\ info.validated = "true"                  \* not "false" and not absent
    /\ ResolveSignerLists(info) # <<>>
    /\ validateSignerList(ResolveSignerLists(info)[1], req)
    /\ info.flags # None
    /\ checkAccountFlags(info.flags)
    /\ info.regularKey = ""

-----------------------------------------------------------------------------
(***************************************************************************)
(* sync.Mutex.  A waiter that wakes up and finds the lock taken by a       *)
(* newcomer, having waited for longer than a millisecond, switches the     *)
(* mutex to starvation mode: from then on Unlock hands it to the waiter at *)
(* the front, and newcomers queue.                                         *)
(***************************************************************************)
Lock(r) ==
    IF verifyMu.holder = None /\ ~verifyMu.starving
    THEN /\ verifyMu' = [verifyMu EXCEPT !.holder = r, !.starving = verifyMu.queue # <<>>]
         /\ call' = [call EXCEPT ![r].pc = "locked"]
    ELSE /\ verifyMu' = [verifyMu EXCEPT !.queue = Append(@, r)]
         /\ call' = [call EXCEPT ![r].pc = "queued"]

(* Hand over the mutex, c being the calls as the unlocker left them.       *)
HandOver(c) ==
    /\ verifyMu' = [holder |-> Head(verifyMu.queue), queue |-> Tail(verifyMu.queue),
                    starving |-> verifyMu.starving /\ Len(verifyMu.queue) > 1]
    /\ call' = [c EXCEPT ![Head(verifyMu.queue)].pc = "locked"]

Unlock(c) ==
    IF verifyMu.starving THEN HandOver(c)
    ELSE verifyMu' = [verifyMu EXCEPT !.holder = None] /\ call' = c

(* The woken waiter finds the mutex free.                                  *)
Wake ==
    /\ verifyMu.holder = None /\ verifyMu.queue # <<>>
    /\ HandOver(call)
    /\ UNCHANGED <<scenario, now, setBack, node, lastRight, boot, bootSeen, lastVerified>>

-----------------------------------------------------------------------------
(***************************************************************************)
(* The network pin.                                                        *)
(***************************************************************************)
(* The time of day, which is never zero.                                   *)
clock == now + MaxSetBack[scenario] - setBack

verifiedFreshForever == lastVerified # 0

(* A confirmation from the clock's future counts as fresh.                 *)
verifiedFresh == lastVerified # 0 /\ clock - lastVerified < VerifyTTL

(* checkNetwork's classification of a probe's reply.                       *)
checkNetwork(reply) ==
    IF reply = "expected" THEN nil
    ELSE IF reply = "other" THEN Wrap({"ErrNetworkMismatch"}, nil)
    ELSE Wrap({"ErrFetchServerInfo"}, nil)      \* no id, no success or no reply

(* VerifyNetwork, once at boot: only a confirmed wrong chain fails it.     *)
BootProbe ==
    /\ boot = "probing"
    /\ \E reply \in {node, "down"} : bootSeen' = reply
    /\ boot' = "answering"
    /\ UNCHANGED <<scenario, now, setBack, node, lastRight, lastVerified, verifyMu, call>>

VerifyNetwork ==
    LET err == checkNetwork(bootSeen)
    IN  /\ boot = "answering"
        /\ boot' = IF Is(err, "ErrNetworkMismatch") THEN "failed" ELSE "serving"
        /\ lastVerified' = IF err = nil THEN clock ELSE lastVerified
        /\ bootSeen' = None
        /\ UNCHANGED <<scenario, now, setBack, node, lastRight, verifyMu, call>>

Fetching(r) == [call[r] EXCEPT !.pc = "fetching", !.began = now, !.seen = None]
Answered(r, err, status) ==
    [NotCalled EXCEPT !.pc = "done", !.body = call[r].body, !.reply = call[r].reply,
                      !.age = call[r].age, !.err = err, !.status = status]

(* Verify up to the lock: the shape of the body, then the lock-free check. *)
Verify(r) ==
    /\ boot = "serving" /\ call[r].pc = "idle"
    /\ Cardinality({q \in Requests : call[q].pc # "idle"}) < MaxRequests[scenario]
    /\ \E b \in Bodies[scenario] :
        LET start == [NotCalled EXCEPT !.body = b, !.arrived = now,
                                       !.deadline = now + WorkTimeout, !.began = now]
        IN  call' = [call EXCEPT ![r] =
                IF ~ValidateMultisigRequest(b)
                THEN [NotCalled EXCEPT !.pc = "done", !.body = b, !.err = Wrap({"ErrInvalidRequest"}, nil)]
                ELSE IF verifiedFresh THEN [start EXCEPT !.pc = "fetching"]
                ELSE [start EXCEPT !.pc = "locking"]]
    /\ UNCHANGED <<scenario, now, setBack, node, lastRight, boot, bootSeen, lastVerified, verifyMu>>

ensureNetworkVerified(r) ==
    /\ call[r].pc = "locking"
    /\ Lock(r)
    /\ UNCHANGED <<scenario, now, setBack, node, lastRight, boot, bootSeen, lastVerified>>

RecheckSkipped(r) ==
    /\ call[r].pc = "locked"
    /\ call' = [call EXCEPT ![r].pc = "probing", ![r].began = now]
    /\ UNCHANGED <<scenario, now, setBack, node, lastRight, boot, bootSeen, lastVerified, verifyMu>>

(* With the mutex held: another request may have confirmed it meanwhile.   *)
Recheck(r) ==
    /\ call[r].pc = "locked"
    /\ IF verifiedFresh
       THEN Unlock([call EXCEPT ![r] = Fetching(r)])
       ELSE /\ call' = [call EXCEPT ![r].pc = "probing", ![r].began = now]
            /\ UNCHANGED verifyMu
    /\ UNCHANGED <<scenario, now, setBack, node, lastRight, boot, bootSeen, lastVerified>>

(* The node answers, or the attempts fail ("down" stands for no reply).    *)
Probe(r) ==
    /\ call[r].pc = "probing"
    /\ \E reply \in IF now < call[r].deadline THEN {node, "down"} ELSE {"down"} :
        call' = [call EXCEPT ![r].seen = reply, ![r].pc = "answering"]
    /\ UNCHANGED <<scenario, now, setBack, node, lastRight, boot, bootSeen, lastVerified, verifyMu>>

ConfirmKeepsMutexOnError(r) ==
    LET err == checkNetwork(call[r].seen)
    IN  /\ call[r].pc = "answering"
        /\ IF err = nil
           THEN lastVerified' = clock /\ Unlock([call EXCEPT ![r] = Fetching(r)])
           ELSE /\ call' = [call EXCEPT ![r] = Answered(r, err, None)]
                /\ UNCHANGED <<lastVerified, verifyMu>>
        /\ UNCHANGED <<scenario, now, setBack, node, lastRight, boot, bootSeen>>

(* The confirmation carries the time at which the reply is processed.  A   *)
(* failure leaves an earlier confirmation as it is.                        *)
Confirm(r) ==
    LET err == checkNetwork(call[r].seen)
    IN  /\ call[r].pc = "answering"
        /\ IF err = nil
           THEN lastVerified' = clock /\ Unlock([call EXCEPT ![r] = Fetching(r)])
           ELSE UNCHANGED lastVerified /\ Unlock([call EXCEPT ![r] = Answered(r, err, None)])
        /\ UNCHANGED <<scenario, now, setBack, node, lastRight, boot, bootSeen>>

-----------------------------------------------------------------------------
(***************************************************************************)
(* account_info and the verdict.                                           *)
(***************************************************************************)
FetchAccountInfo(r) ==
    /\ call[r].pc = "fetching"
    /\ \/ call' = [call EXCEPT ![r] = Answered(r, Wrap({"ErrFetchAccountInfo"}, nil), None)]
       \/ /\ node # "down" /\ now < call[r].deadline
          /\ \E reply \in Replies :
                call' = [call EXCEPT ![r].pc = "returning", ![r].reply = reply,
                            ![r].age = IF lastRight = 0 THEN None ELSE now - lastRight]
    /\ UNCHANGED <<scenario, now, setBack, node, lastRight, boot, bootSeen, lastVerified, verifyMu>>

(* rpcStatusError, or the configuration's verdict: an account that is not  *)
(* configured as asked is an answer (status ERROR), not an error.          *)
Conclude(r) ==
    LET reply == call[r].reply
    IN  /\ call[r].pc = "returning"
        /\ call' = [call EXCEPT ![r] =
                IF reply.kind = "transient" THEN Answered(r, Wrap({"ErrRPCTransient"}, nil), None)
                ELSE IF reply.kind = "nonSuccess"
                THEN Answered(r, Wrap({"ErrRPCNonSuccess"}, nil), None)
                ELSE IF validateMultisigConfiguration(reply.info, call[r].body)
                THEN Answered(r, nil, "OK") ELSE Answered(r, nil, "ERROR")]
        /\ UNCHANGED <<scenario, now, setBack, node, lastRight, boot, bootSeen, lastVerified, verifyMu>>

(* The client goes away: its context ends now.  Nothing that waits for the *)
(* mutex notices.                                                          *)
ContextDone(r) ==
    /\ call[r].pc \notin {"idle", "done"} /\ now < call[r].deadline
    /\ call' = [call EXCEPT ![r].deadline = now]
    /\ UNCHANGED <<scenario, now, setBack, node, lastRight, boot, bootSeen, lastVerified, verifyMu>>

(* The operator or the network changes the node.                           *)
Repoint ==
    /\ node' \in Nodes[scenario] \ {node}
    /\ lastRight' = IF node' = "expected" THEN now ELSE lastRight
    /\ UNCHANGED <<scenario, now, setBack, boot, bootSeen, lastVerified, verifyMu, call>>

(* The operator or a time server sets the wall clock back.                 *)
SetClockBack ==
    /\ setBack' \in setBack + 1 .. MaxSetBack[scenario]
    /\ UNCHANGED <<scenario, now, node, lastRight, boot, bootSeen, lastVerified, verifyMu, call>>

(* A request sent without the context by a client that has no timeout.     *)
DueWithoutTimeouts(c) == MaxNow[scenario]

(* When a call must be over: a reply by its own timeout or the context's.  *)
Due(c) ==
    IF c.pc \in {"probing", "answering"}
    THEN IF c.began + ProbeTime < c.deadline THEN c.began + ProbeTime ELSE c.deadline
    ELSE IF c.began + FetchTime < c.deadline THEN c.began + FetchTime ELSE c.deadline

Tick ==
    /\ now < MaxNow[scenario]
    /\ boot \in {"probing", "answering"} => now < 1 + ProbeTime
    /\ verifyMu.holder = None => verifyMu.queue = <<>>
    /\ \A r \in Requests :
        /\ call[r].pc \notin {"locking", "locked"}
        /\ call[r].pc \in {"probing", "answering", "fetching", "returning"} => now < Due(call[r])
    /\ now' = now + 1
    /\ lastRight' = IF node = "expected" THEN now' ELSE lastRight
    /\ UNCHANGED <<scenario, setBack, node, boot, bootSeen, lastVerified, verifyMu, call>>

CallStep(r) ==
    \/ ensureNetworkVerified(r) \/ Recheck(r) \/ Probe(r) \/ Confirm(r)
    \/ FetchAccountInfo(r) \/ Conclude(r)

Next ==
    \/ BootProbe \/ VerifyNetwork \/ Wake
    \/ \E r \in Requests : Verify(r) \/ CallStep(r) \/ ContextDone(r)
    \/ Repoint \/ SetClockBack \/ Tick

Spec == Init /\ [][Next]_vars

(* The scheduler runs what can run, the mutex wakes its waiters, and every *)
(* reply arrives or times out.                                             *)
FairSpec ==
    /\ Spec
    /\ WF_vars(BootProbe) /\ WF_vars(VerifyNetwork) /\ WF_vars(Wake)
    /\ \A r \in Requests : WF_vars(CallStep(r))
-----------------------------------------------------------------------------
(* The node is probed only while no confirmation is fresh: requests that   *)
(* queued behind a successful probe use its result (the second             *)
(* verifiedFresh, under verifyMu).  Setting the clock back during a probe  *)
(* can make an old confirmation fresh again.                               *)
NoProbeWhileFresh ==
    \A r \in Requests : call[r].pc \in {"probing", "answering"} /\ setBack = 0 => ~verifiedFresh

(* A final verdict on a well-formed request, VERIFIED or REJECTED, comes   *)
(* from a node that was on the expected network less than networkVerifyTTL *)
(* before, plus the time one probe and one account_info take: longer after *)
(* a repoint, and with a network never confirmed, requests are only told   *)
(* to retry (ensureNetworkVerified fails closed).  Setting the wall clock  *)
(* back, at whatever moment, lengthens this by as much and no more         *)
(* (verifiedFresh).                                                        *)
ConclusiveOnlyFromPinnedNode ==
    \A r \in Requests :
        /\ call[r].pc = "done" /\ ValidateMultisigRequest(call[r].body)
        /\ call[r].err = nil \/ classifyVerifyStatus(call[r].err) = "REJECTED"
        => call[r].age # None /\ call[r].age < VerifyTTL + ProbeTime + FetchTime + setBack

(* Every request is over by the deadline of verifyWithDeadline plus one    *)
(* probe.  The mutex ignores contexts, but those ahead in the queue have   *)
(* no later deadline, so their probes fail at once when it passes; only a  *)
(* newcomer that overtakes the queue once can add its own probe.           *)
AnsweredInTime ==
    \A r \in Requests :
        call[r].pc \notin {"idle", "done"} => now <= call[r].arrived + WorkTimeout + ProbeTime

(* What the ledger lets signers do: their weights reach the quorum.        *)
CanSign(S, list) ==
    LET signing == {i \in DOMAIN list.entries : list.entries[i].account \in S}
    IN  Total([i \in signing |-> list.entries[i].weight]) >= list.quorum

(* Status OK means what the contract relies on: the requested account, on  *)
(* a validated ledger, can be moved by every set that holds threshold of   *)
(* the given keys and by nobody else: not the master key, not a regular    *)
(* key, not a signer outside the keys, no single signer with more weight.  *)
OKMeansThresholdOfKeys ==
    \A r \in Requests : call[r].status = "OK" =>
        LET info == call[r].reply.info
            b == call[r].body
            keys == {b.publicKeys[i] : i \in DOMAIN b.publicKeys}
        IN  /\ info.account = b.account /\ info.validated = "true"
            /\ "disableMasterKey" \in info.flags /\ info.regularKey = ""
            /\ \A S \in SUBSET Accounts :
                CanSign(S, ResolveSignerLists(info)[1]) <=> Cardinality(S \cap keys) >= b.threshold

(* Every request is answered: no path through the pin keeps the mutex, and *)
(* no waiter is left in its queue.                                         *)
EveryRequestAnswered ==
    \A r \in Requests : call[r].pc # "idle" ~> call[r].pc = "done"
=============================================================================
