-------------------------- MODULE ServerLifecycle --------------------------
(***************************************************************************)
(* One deployment of the verifier from boot to exit: LoadModule constructs *)
(* and registers the served attestation types one after the other, each    *)
(* opening the connections it owns; the HTTP server then answers requests  *)
(* until a signal; ShutdownServer waits at most ShutdownAfter for them and *)
(* closes the services one by one, while requests that overran that grace  *)
(* still run; the process exits when the last one is closed.               *)
(*                                                                         *)
(* A resource is <<i, d>>: the connection to dependency d that the i-th    *)
(* served type opened.  The CRL cache, which TeeVerifier.Close also        *)
(* clears, is memory and no connection, and is left to CRLCache.  Time is  *)
(* counted in ticks, and only as far as the code compares it with its      *)
(* timeouts.                                                               *)
(***************************************************************************)
EXTENDS Integers, Sequences, SequencesExt, ErrorChains

CONSTANTS
    Deployments,     \* the sequences of attestation types a source can serve
    Requests,        \* HTTP requests
    ShutdownAfter,   \* ticks srv.Shutdown waits for active requests
    WorkTimeout      \* ticks a verification may run: verifierWorkTimeout

(* The types registerVerifier knows.                                       *)
AttestationTypes ==
    {"PMWPaymentStatus", "PMWFeeProof", "TeeAvailabilityCheck", "PMWMultisigAccountConfigured"}

ASSUME LifecycleAssumption ==
    /\ Deployments \subseteq Seq(AttestationTypes)
    /\ ShutdownAfter \in Nat \ {0} /\ WorkTimeout \in Nat \ {0}

VARIABLES
    served,    \* the types of this deployment, in the order they are loaded
    phase,     \* where the main goroutine is
    loaded,    \* how many of the served types are registered
    built,     \* how many calls of the constructor under way have succeeded
    closers,   \* the registered services LoadModule returned, to be closed
    open,      \* the resources now open
    released,  \* how many connections the Close under way has released
    grace,     \* ticks since the shutdown signal, up to ShutdownAfter
    request    \* the state of every request

vars == <<served, phase, loaded, built, closers, open, released, grace, request>>

Up == {"loading", "serving", "draining", "closing"}
Databases == {"sourceDB", "cchainDB"}
Dependencies == Databases \cup {"rpc"}

(***************************************************************************)
(* A constructor as the calls it makes that can fail, in order: what each  *)
(* opens when it succeeds, and what the branches taken when it fails       *)
(* close, its own and, up from there, those of the constructor.  "config"  *)
(* is all that comes before the first connection.                          *)
(***************************************************************************)
Call(name, opens, closes) == [name |-> name, opens |-> opens, closes |-> closes]

(* initDBWithRetries: gorm.Open until it succeeds or the attempts are used *)
(* up, then configurePool, whose failure gives the open pool up.           *)
gormOpen(database, closes) == Call("gorm.Open", {database}, closes)
configurePool(closes) == Call("configurePool", {}, closes)

(* NewOnChainBinder.                                                       *)
Dial(closes) == Call("ethclient.Dial", {"rpc"}, closes)
NewTeePaymentsCaller(closes) == Call("NewTeePaymentsCaller", {}, {"rpc"} \cup closes)

NewPaymentServiceForgetsSource ==
    << Call("config", {}, {}),
       gormOpen("sourceDB", {}), configurePool({}),
       gormOpen("cchainDB", {"sourceDB"}), configurePool({"sourceDB"}),
       Dial({"cchainDB"}), NewTeePaymentsCaller({"cchainDB"}) >>

NewPaymentService ==
    << Call("config", {}, {}),
       gormOpen("sourceDB", {}), configurePool({}),
       gormOpen("cchainDB", {"sourceDB"}), configurePool({"sourceDB"}),
       Dial({"sourceDB", "cchainDB"}), NewTeePaymentsCaller({"sourceDB", "cchainDB"}) >>

NewFeeProofService ==
    << Call("config", {}, {}),
       gormOpen("sourceDB", {}), configurePool({}),
       gormOpen("cchainDB", {"sourceDB"}), configurePool({"sourceDB"}),
       Dial({"sourceDB", "cchainDB"}), NewTeePaymentsCaller({"sourceDB", "cchainDB"}) >>

(* The second Relay caller is the one of a configured cutover.             *)
NewTeeAvailabilityService ==
    << Call("config", {}, {}),
       Dial({}),
       Call("NewRelayCaller", {}, {"rpc"}),
       Call("NewRelayCaller", {}, {"rpc"}) >>

NewMultisigService == << Call("config", {}, {}), Call("NewVerifier", {}, {}) >>

Constructor(type) ==
    CASE type = "PMWPaymentStatus" -> NewPaymentService
      [] type = "PMWFeeProof" -> NewFeeProofService
      [] type = "TeeAvailabilityCheck" -> NewTeeAvailabilityService
      [] type = "PMWMultisigAccountConfigured" -> NewMultisigService

(* What the Close of a service releases, in order; multisig has none.      *)
Close(type) ==
    CASE type \in {"PMWPaymentStatus", "PMWFeeProof"} -> <<"sourceDB", "cchainDB", "rpc">>
      [] type = "TeeAvailabilityCheck" -> <<"rpc">>
      [] type = "PMWMultisigAccountConfigured" -> << >>

(***************************************************************************)
(* What Verify reads, in order, and the error it makes of the answer that  *)
(* there is nothing, or nothing that fits; nil where it goes on instead,   *)
(* as the scan for reissues does.  Nobody owns a remote server.            *)
(***************************************************************************)
Read(on, nothing) == [on |-> on, nothing |-> nothing]

Verify(type) ==
    CASE type = "PMWPaymentStatus" ->
           << Read("cchainDB", ErrRecordNotFound), Read("rpc", ErrDatabase),
              Read("sourceDB", ErrRecordNotFound) >>
      [] type = "PMWFeeProof" ->
           << Read("cchainDB", Wrap({"ErrMissingPayEvent"}, nil)), Read("rpc", ErrDatabase),
              Read("cchainDB", nil), Read("sourceDB", Wrap({"ErrMissingTransaction"}, nil)) >>
      [] type = "TeeAvailabilityCheck" ->
           << Read("remote", Wrap(ErrTEEResponseMalformed, nil)),
              Read("remote", Wrap(ErrTEEAttestationInvalid, nil)),
              Read("rpc", Wrap({"ErrTEESigningPolicyHash", "ErrTEEDataValidation"}, nil)) >>
      [] type = "PMWMultisigAccountConfigured" ->
           << Read("remote", Wrap({"ErrNetworkMismatch"}, nil)),
              Read("remote", Wrap({"ErrRPCNonSuccess"}, nil)) >>

NoRequest == [pc |-> "idle", type |-> 0, step |-> 0, age |-> 0, metClosed |-> FALSE, status |-> "none"]

Init ==
    /\ served \in Deployments
    /\ phase = "loading"
    /\ loaded = 0
    /\ built = 0
    /\ closers = << >>
    /\ open = {}
    /\ released = 0
    /\ grace = 0
    /\ request = [r \in Requests |-> NoRequest]

Running == {r \in Requests : request[r].pc = "running"}

(* The process ends: whatever still runs loses its connection.             *)
Die(how) ==
    /\ phase' = how
    /\ request' = [r \in Requests |->
                    IF r \in Running THEN [NoRequest EXCEPT !.pc = "cut"] ELSE request[r]]

-----------------------------------------------------------------------------
Loading == phase = "loading" /\ loaded < Len(served)
Calls == Constructor(served[loaded + 1])
Of(i, connections) == {i} \X connections

(* The next call of the constructor succeeds.                              *)
CallSucceeds ==
    /\ Loading
    /\ built < Len(Calls)
    /\ open' = open \cup Of(loaded + 1, Calls[built + 1].opens)
    /\ built' = built + 1
    /\ UNCHANGED <<served, phase, loaded, closers, released, grace, request>>

registerVerifierForgetsCloser ==
    /\ Loading
    /\ built = Len(Calls)
    /\ loaded' = loaded + 1
    /\ built' = 0
    /\ closers' = IF served[loaded + 1] \in {"TeeAvailabilityCheck", "PMWMultisigAccountConfigured"}
                  THEN closers ELSE Append(closers, loaded + 1)
    /\ UNCHANGED <<served, phase, open, released, grace, request>>

(* registerVerifier returns: the type is routed and its closer collected;  *)
(* the multisig service has none.                                          *)
registerVerifier ==
    /\ Loading
    /\ built = Len(Calls)
    /\ loaded' = loaded + 1
    /\ built' = 0
    /\ closers' = IF served[loaded + 1] = "PMWMultisigAccountConfigured"
                  THEN closers ELSE Append(closers, loaded + 1)
    /\ UNCHANGED <<served, phase, open, released, grace, request>>

closeAll(services) == UNION {Of(i, ToSet(Close(served[i]))) : i \in ToSet(services)}

(* The next call fails: the constructor's own branch closes what it names, *)
(* LoadModule the services registered so far, and StartServer ends the     *)
(* process.                                                                *)
ConstructorFails ==
    /\ Loading
    /\ built < Len(Calls)
    /\ open' = (open \ Of(loaded + 1, Calls[built + 1].closes)) \ closeAll(closers)
    /\ Die("loadFailed")
    /\ UNCHANGED <<served, loaded, built, closers, released, grace>>

(* The signal handler is installed after StartServer: until then SIGTERM   *)
(* has its default effect.                                                 *)
SignalDuringLoad ==
    /\ phase = "loading"
    /\ Die("killed")
    /\ UNCHANGED <<served, loaded, built, closers, open, released, grace>>

ListenAndServe ==
    /\ phase = "loading"
    /\ loaded = Len(served)
    /\ phase' = "serving"
    /\ UNCHANGED <<served, loaded, built, closers, open, released, grace, request>>

(* The listener fails: Fatalf in the server's goroutine, nothing closed.   *)
ListenFails ==
    /\ phase = "serving"
    /\ Die("crashed")
    /\ UNCHANGED <<served, loaded, built, closers, open, released, grace>>

-----------------------------------------------------------------------------
Respond(r, status) ==
    request' = [request EXCEPT ![r] = [NoRequest EXCEPT !.pc = "answered", !.status = status]]

(* A request is routed; one that does not validate or decode is answered   *)
(* at once, any other starts its verification.                             *)
Receive(r) ==
    /\ phase = "serving"
    /\ request[r].pc = "idle"
    /\ \E i \in 1..Len(served) :
         request' = [request EXCEPT ![r] =
             [NoRequest EXCEPT !.pc = "running", !.type = i, !.step = 1]]
    /\ UNCHANGED <<served, phase, loaded, built, closers, open, released, grace>>

RejectMalformed(r) ==
    /\ phase = "serving"
    /\ request[r].pc = "idle"
    /\ Respond(r, "REJECTED")
    /\ UNCHANGED <<served, phase, loaded, built, closers, open, released, grace>>

AtRead(r) ==
    /\ phase \in Up
    /\ request[r].pc = "running"
    /\ request[r].step <= Len(Verify(served[request[r].type]))
NextRead(r) == Verify(served[request[r].type])[request[r].step]

(* A closed database/sql pool refuses every query; a closed RPC client     *)
(* over HTTP goes on working, over a socket it refuses every call.         *)
IsClosed(r) ==
    NextRead(r).on \in Dependencies /\ <<request[r].type, NextRead(r).on>> \notin open
Works(r) == ~IsClosed(r) \/ NextRead(r).on = "rpc"

(* The read finds what it is after, or nothing where that is no error.     *)
ReadSucceeds(r) ==
    /\ AtRead(r) /\ Works(r)
    /\ request' = [request EXCEPT ![r].step = @ + 1]
    /\ UNCHANGED <<served, phase, loaded, built, closers, open, released, grace>>

(* There is nothing, or nothing that fits.                                 *)
NothingThere(r) ==
    /\ AtRead(r) /\ Works(r)
    /\ NextRead(r).nothing # nil
    /\ Respond(r, classifyVerifyStatus(NextRead(r).nothing))
    /\ UNCHANGED <<served, phase, loaded, built, closers, open, released, grace>>

(* What a failed read is wrapped in.  The repos look at the error of a     *)
(* query before they look at its rows, and the binder wraps what the RPC   *)
(* fails with; the TEE check tells the failures of the node apart, and     *)
(* what it does not know, a closed client included, is ErrUnknown.         *)
ReadErrors(r) ==
    CASE NextRead(r).on \in Databases -> {ErrDatabase}
      [] NextRead(r).on = "rpc" /\ served[request[r].type] # "TeeAvailabilityCheck" -> {ErrDatabase}
      [] NextRead(r).on = "rpc" /\ served[request[r].type] = "TeeAvailabilityCheck" ->
           {Wrap({e}, nil) : e \in {"ErrUnknown"} \cup
               (IF IsClosed(r) THEN {} ELSE {"ErrNetwork", "ErrRPC", "ErrInvalidInput"})}
      [] NextRead(r).on = "remote" -> {Wrap({"ErrHTTPFetch"}, nil), Wrap({"ErrFetchAccountInfo"}, nil)}

(* The read fails, on a closed connection or for a fault of the other side.*)
ReadFails(r) ==
    /\ AtRead(r)
    /\ \E err \in ReadErrors(r) :
         request' = [request EXCEPT ![r] =
             [NoRequest EXCEPT !.pc = "answered",
                               !.metClosed = IsClosed(r),
                               !.status = classifyVerifyStatus(err)]]
    /\ UNCHANGED <<served, phase, loaded, built, closers, open, released, grace>>

(* The evidence is in: the verifier's own decision, or RETRY when the      *)
(* response does not encode.                                               *)
Conclude(r) ==
    /\ phase \in Up
    /\ request[r].pc = "running"
    /\ request[r].step > Len(Verify(served[request[r].type]))
    /\ \E status \in {"VERIFIED", "REJECTED", "RETRY"} : Respond(r, status)
    /\ UNCHANGED <<served, phase, loaded, built, closers, open, released, grace>>

(* verifyWithDeadline: the context ends and the pending read with it; not  *)
(* at once, for the lock of the multisig pin is taken without regard to it.*)
DeadlineExceeded(r) ==
    /\ phase \in Up
    /\ request[r].pc = "running"
    /\ request[r].age = WorkTimeout
    /\ Respond(r, classifyVerifyStatus({"error", "context.DeadlineExceeded"}))
    /\ UNCHANGED <<served, phase, loaded, built, closers, open, released, grace>>

-----------------------------------------------------------------------------
(* SIGINT or SIGTERM: srv.Shutdown closes the listener first.  A second    *)
(* signal goes to a channel nobody reads any more.                         *)
Signal ==
    /\ phase = "serving"
    /\ phase' = "draining"
    /\ UNCHANGED <<served, loaded, built, closers, open, released, grace, request>>

ShutdownReturnsAtOnce ==
    /\ phase = "draining"
    /\ phase' = "closing"
    /\ UNCHANGED <<served, loaded, built, closers, open, released, grace, request>>

ShutdownWaitsForAll ==
    /\ phase = "draining"
    /\ Running = {}
    /\ phase' = "closing"
    /\ UNCHANGED <<served, loaded, built, closers, open, released, grace, request>>

(* srv.Shutdown returns: nothing is active, or its context is over.        *)
ShutdownReturns ==
    /\ phase = "draining"
    /\ Running = {} \/ grace = ShutdownAfter
    /\ phase' = "closing"
    /\ UNCHANGED <<served, loaded, built, closers, open, released, grace, request>>

(* The Close of the next service releases its connections one after the    *)
(* other; an error of one does not skip the next.                          *)
CloseService ==
    /\ phase = "closing"
    /\ closers # << >>
    /\ LET i == Head(closers)
           owned == Close(served[i])
           last == released + 1 = Len(owned)
       IN  /\ open' = open \ {<<i, owned[released + 1]>>}
           /\ closers' = IF last THEN Tail(closers) ELSE closers
           /\ released' = IF last THEN 0 ELSE released + 1
    /\ UNCHANGED <<served, phase, loaded, built, grace, request>>

(* RunServer and main return.                                              *)
Exit ==
    /\ phase = "closing"
    /\ closers = << >>
    /\ Die("exited")
    /\ UNCHANGED <<served, loaded, built, closers, open, released, grace>>

Later(t, limit) == IF t < limit THEN t + 1 ELSE t

(* Time passes, whatever is due: a clock is followed until it reaches the  *)
(* timeout it is compared with, and what that sets off may come late.      *)
Tick ==
    /\ phase \in {"serving", "draining", "closing"}
    /\ grace' = IF phase = "draining" THEN Later(grace, ShutdownAfter) ELSE grace
    /\ request' = [r \in Requests |->
                    IF r \in Running THEN [request[r] EXCEPT !.age = Later(@, WorkTimeout)]
                    ELSE request[r]]
    /\ UNCHANGED <<served, phase, loaded, built, closers, open, released>>

Step(r) ==
    \/ Receive(r)
    \/ RejectMalformed(r)
    \/ ReadSucceeds(r)
    \/ NothingThere(r)
    \/ ReadFails(r)
    \/ Conclude(r)
    \/ DeadlineExceeded(r)

Next ==
    \/ CallSucceeds
    \/ registerVerifier
    \/ ConstructorFails
    \/ SignalDuringLoad
    \/ ListenAndServe
    \/ ListenFails
    \/ \E r \in Requests : Step(r)
    \/ Signal
    \/ ShutdownReturns
    \/ CloseService
    \/ Exit
    \/ Tick

Spec == Init /\ [][Next]_vars

(* The main goroutine runs and time passes.  Nothing is asked of the       *)
(* requests: they may hang, beyond their own deadline too.                 *)
FairSpec ==
    /\ Spec
    /\ WF_vars(ShutdownReturns)
    /\ WF_vars(CloseService)
    /\ WF_vars(Exit)
    /\ WF_vars(Tick)

-----------------------------------------------------------------------------
(* The pool gorm opened when it is configurePool that failed.              *)
Unconfigured ==
    IF Calls[built + 1].name = "configurePool" THEN Of(loaded + 1, Calls[built].opens) ELSE {}

(* "no connections leak": whichever call of whichever constructor fails,   *)
(* its own branch and LoadModule's closeAll have between them closed every *)
(* connection opened on the way, and so has the shutdown when the process  *)
(* leaves through ShutdownServer.  One pool is given up open: that of a    *)
(* database whose configurePool fails (initDBWithRetries).                 *)
NothingLeaks ==
    /\ phase = "loadFailed" => open = Unconfigured
    /\ phase = "exited" => open = {}

(* While the server serves, every connection of every registered type is   *)
(* open, and afterwards the ones still open are exactly those of services  *)
(* still to be closed, whose turn has not come.                            *)
OpenMatchesClosers ==
    /\ phase \in {"serving", "draining"} => open = closeAll(closers)
    /\ phase = "closing" =>
         /\ open \subseteq closeAll(closers)
         /\ closers # << >> => closeAll(Tail(closers)) \subseteq open

(* The shutdown takes no connection from a request before the whole grace  *)
(* has passed since the signal (ShutdownServer drains before it closes),   *)
(* and a request that overran it and meets a closed one is told RETRY:     *)
(* never that the event or transaction it asked for is absent.             *)
ClosedOnlyAfterGrace ==
    \A r \in Requests :
        request[r].metClosed => grace = ShutdownAfter /\ request[r].status = "RETRY"

(* The shutdown ends, whatever the requests in flight do.                  *)
ShutdownEnds ==
    phase = "draining" ~> phase = "exited"
=============================================================================
