----------------------- MODULE ServerLifecycleProofs -----------------------
(***************************************************************************)
(* Proofs about ServerLifecycle, for any deployment of the known types and *)
(* any number of requests: no connection leaks, the ones open are those of *)
(* the services still to be closed, and none is taken from a request       *)
(* before the grace is over.                                               *)
(***************************************************************************)
EXTENDS ServerLifecycle, TLAPS

(* The backends of every step that does not name its own: each twice, so   *)
(* that a slow machine costs time and not the proof.                       *)
USE ZenonT(20), SMTT(30), ZenonT(60), SMTT(60)

Phases == Up \cup {"loadFailed", "killed", "crashed", "exited"}

(* What the constructor of a type holds once n of its calls succeeded.     *)
HeldAfter(t, n) == UNION {Constructor(t)[k].opens : k \in 1 .. n}
UnderConstruction == Of(loaded + 1, HeldAfter(served[loaded + 1], built))

(* The i-th type's connections, and what is left of them from the n-th on. *)
Owned(i) == Of(i, ToSet(Close(served[i])))
Left(i, n) == {<<i, Close(served[i])[k]>> : k \in n .. Len(Close(served[i]))}

Shape ==
    /\ served \in Seq(AttestationTypes)
    /\ phase \in Phases
    /\ loaded \in 0 .. Len(served) /\ built \in Nat
    /\ loaded < Len(served) => built <= Len(Calls)
    /\ loaded = Len(served) => built = 0
    /\ phase \in {"serving", "draining", "closing"} => loaded = Len(served)
    /\ phase \in {"loading", "serving", "draining"} => released = 0

(* The closers are services that own something, in the order they were     *)
(* loaded: none is listed twice, and until the shutdown none is missing.   *)
Collected ==
    /\ closers \in Seq(1 .. loaded)
    /\ \A a \in DOMAIN closers : Close(served[closers[a]]) # <<>>
    /\ \A a, b \in DOMAIN closers : a < b => closers[a] < closers[b]
    /\ phase \in {"loading", "serving", "draining"} =>
          \A i \in 1 .. loaded : Close(served[i]) # <<>> => i \in ToSet(closers)

(* Where the open connections are accounted for, phase by phase: while     *)
(* closing, the first service has released some of its own.                *)
Accounted ==
    /\ phase = "loading" => open = closeAll(closers) \cup UnderConstruction
    /\ phase \in {"serving", "draining"} => open = closeAll(closers)
    /\ phase = "closing" =>
        /\ closers = <<>> => open = {}
        /\ closers # <<>> =>
              /\ released + 1 \in 1 .. Len(Close(served[Head(closers)]))
              /\ open = closeAll(Tail(closers)) \cup Left(Head(closers), released + 1)
    /\ phase = "loadFailed" => open = Unconfigured
    /\ phase = "exited" => open = {}

(* The inductive invariant of the connections.                             *)
OpenInv == Shape /\ Collected /\ Accounted

-----------------------------------------------------------------------------
(***************************************************************************)
(* The constructors and what they must be undone by.                       *)
(***************************************************************************)
(* The branch of each call closes what the calls before it hold; that of   *)
(* configurePool all but the pool it was to configure.                     *)
Undone(t, n) ==
    IF Constructor(t)[n + 1].name = "configurePool"
    THEN /\ n # 0
         /\ HeldAfter(t, n) \ Constructor(t)[n + 1].closes = Constructor(t)[n].opens
    ELSE HeldAfter(t, n) \subseteq Constructor(t)[n + 1].closes

LEMMA ServiceConstructor ==
    ASSUME NEW t \in AttestationTypes, Constructor(t) = NewPaymentService
    PROVE  /\ Len(Constructor(t)) = 7
           /\ \A n \in 0 .. 6 : Undone(t, n)
           /\ HeldAfter(t, 7) = Dependencies
<1> DEFINE c == Constructor(t)
<1>1. c = << Call("config", {}, {}), gormOpen("sourceDB", {}), configurePool({}),
             gormOpen("cchainDB", {"sourceDB"}), configurePool({"sourceDB"}),
             Dial({"sourceDB", "cchainDB"}), NewTeePaymentsCaller({"sourceDB", "cchainDB"}) >>
  BY DEF NewPaymentService
<1>2. /\ Len(c) = 7
      /\ c[1] = Call("config", {}, {}) /\ c[2] = gormOpen("sourceDB", {})
      /\ c[3] = configurePool({}) /\ c[4] = gormOpen("cchainDB", {"sourceDB"})
      /\ c[5] = configurePool({"sourceDB"}) /\ c[6] = Dial({"sourceDB", "cchainDB"})
      /\ c[7] = NewTeePaymentsCaller({"sourceDB", "cchainDB"})
  BY <1>1
<1>3. \A n, o, l : Call(n, o, l).name = n /\ Call(n, o, l).opens = o /\ Call(n, o, l).closes = l
  BY DEF Call
<1>4. /\ c[1].opens = {} /\ c[1].closes = {} /\ c[1].name = "config"
      /\ c[2].opens = {"sourceDB"} /\ c[2].closes = {} /\ c[2].name = "gorm.Open"
      /\ c[3].opens = {} /\ c[3].closes = {} /\ c[3].name = "configurePool"
      /\ c[4].opens = {"cchainDB"} /\ c[4].closes = {"sourceDB"} /\ c[4].name = "gorm.Open"
      /\ c[5].opens = {} /\ c[5].closes = {"sourceDB"} /\ c[5].name = "configurePool"
      /\ c[6].opens = {"rpc"} /\ c[6].closes = {"sourceDB", "cchainDB"} /\ c[6].name = "ethclient.Dial"
      /\ c[7].opens = {} /\ c[7].closes = {"rpc", "sourceDB", "cchainDB"}
      /\ c[7].name = "NewTeePaymentsCaller"
  BY <1>2, <1>3 DEF gormOpen, configurePool, Dial, NewTeePaymentsCaller
<1>5. ASSUME NEW n \in 0 .. 7
      PROVE  HeldAfter(t, n) = IF n < 2 THEN {} ELSE IF n < 4 THEN {"sourceDB"}
                               ELSE IF n < 6 THEN {"sourceDB", "cchainDB"} ELSE Dependencies
  <2>1. \A d : (\E k \in 1 .. n : d \in c[k].opens) <=>
                   \/ n >= 2 /\ d = "sourceDB"
                   \/ n >= 4 /\ d = "cchainDB"
                   \/ n >= 6 /\ d = "rpc"
    BY <1>4, SMTT(30), SMTT(60)
  <2> QED
    BY <2>1, SMTT(30), SMTT(60) DEF HeldAfter, Dependencies, Databases
<1>6. ASSUME NEW n \in 0 .. 6 PROVE Undone(t, n)
  <2>1. n = 0 \/ n = 1 \/ n = 2 \/ n = 3 \/ n = 4 \/ n = 5 \/ n = 6
    OBVIOUS
  <2>2. CASE n = 0
    BY <1>4, <1>5, <2>2 DEF Undone
  <2>3. CASE n = 1
    BY <1>4, <1>5, <2>3 DEF Undone
  <2>4. CASE n = 2
    BY <1>4, <1>5, <2>4 DEF Undone
  <2>5. CASE n = 3
    BY <1>4, <1>5, <2>5 DEF Undone
  <2>6. CASE n = 4
    BY <1>4, <1>5, <2>6 DEF Undone
  <2>7. CASE n = 5
    BY <1>4, <1>5, <2>7 DEF Undone
  <2>8. CASE n = 6
    BY <1>4, <1>5, <2>8 DEF Undone, Dependencies, Databases
  <2> QED
    BY <2>1, <2>2, <2>3, <2>4, <2>5, <2>6, <2>7, <2>8
<1> QED
  BY <1>2, <1>5, <1>6

LEMMA TeeConstructor ==
    ASSUME NEW t \in AttestationTypes, Constructor(t) = NewTeeAvailabilityService
    PROVE  /\ Len(Constructor(t)) = 4
           /\ \A n \in 0 .. 3 : Undone(t, n)
           /\ HeldAfter(t, 4) = {"rpc"}
<1> DEFINE c == Constructor(t)
<1>1. c = << Call("config", {}, {}), Dial({}), Call("NewRelayCaller", {}, {"rpc"}),
             Call("NewRelayCaller", {}, {"rpc"}) >>
  BY DEF NewTeeAvailabilityService
<1>2. /\ Len(c) = 4 /\ c[1] = Call("config", {}, {}) /\ c[2] = Dial({})
      /\ c[3] = Call("NewRelayCaller", {}, {"rpc"}) /\ c[4] = Call("NewRelayCaller", {}, {"rpc"})
  BY <1>1
<1>3. \A n, o, l : Call(n, o, l).name = n /\ Call(n, o, l).opens = o /\ Call(n, o, l).closes = l
  BY DEF Call
<1>4. /\ c[1].opens = {} /\ c[1].closes = {} /\ c[1].name = "config"
      /\ c[2].opens = {"rpc"} /\ c[2].closes = {} /\ c[2].name = "ethclient.Dial"
      /\ c[3].opens = {} /\ c[3].closes = {"rpc"} /\ c[3].name = "NewRelayCaller"
      /\ c[4].opens = {} /\ c[4].closes = {"rpc"} /\ c[4].name = "NewRelayCaller"
  BY <1>2, <1>3 DEF Dial
<1>5. ASSUME NEW n \in 0 .. 4 PROVE HeldAfter(t, n) = IF n < 2 THEN {} ELSE {"rpc"}
  <2>1. \A d : (\E k \in 1 .. n : d \in c[k].opens) <=> n >= 2 /\ d = "rpc"
    BY <1>4, SMTT(30), SMTT(60)
  <2> QED
    BY <2>1, SMTT(30), SMTT(60) DEF HeldAfter, Dependencies, Databases
<1>6. ASSUME NEW n \in 0 .. 3 PROVE Undone(t, n)
  <2>1. n = 0 \/ n = 1 \/ n = 2 \/ n = 3
    OBVIOUS
  <2>2. CASE n = 0
    BY <1>4, <1>5, <2>2 DEF Undone
  <2>3. CASE n = 1
    BY <1>4, <1>5, <2>3 DEF Undone
  <2>4. CASE n = 2
    BY <1>4, <1>5, <2>4 DEF Undone
  <2>5. CASE n = 3
    BY <1>4, <1>5, <2>5 DEF Undone
  <2> QED
    BY <2>1, <2>2, <2>3, <2>4, <2>5
<1> QED
  BY <1>2, <1>5, <1>6

LEMMA MultisigConstructor ==
    ASSUME NEW t \in AttestationTypes, Constructor(t) = NewMultisigService
    PROVE  /\ Len(Constructor(t)) = 2
           /\ \A n \in 0 .. 1 : Undone(t, n)
           /\ HeldAfter(t, 2) = {}
<1> DEFINE c == Constructor(t)
<1>1. c = << Call("config", {}, {}), Call("NewVerifier", {}, {}) >>
  BY DEF NewMultisigService
<1>2. Len(c) = 2 /\ c[1] = Call("config", {}, {}) /\ c[2] = Call("NewVerifier", {}, {})
  BY <1>1
<1>3. c[1].name = "config" /\ c[1].opens = {} /\ c[2].name = "NewVerifier" /\ c[2].opens = {}
  BY <1>2 DEF Call
<1>4. \A n \in 0 .. 2 : HeldAfter(t, n) = {}
  BY <1>3, SMTT(30), SMTT(60) DEF HeldAfter
<1>5. ASSUME NEW n \in 0 .. 1 PROVE Undone(t, n)
  <2>1. n = 0 \/ n = 1
    OBVIOUS
  <2>2. c[n + 1].name # "configurePool" /\ HeldAfter(t, n) = {}
    BY <1>3, <1>4, <2>1
  <2> QED
    BY <2>2 DEF Undone
<1> QED
  BY <1>2, <1>4, <1>5

(* What a Close releases: connections of the service, each once.           *)
LEMMA CloseFacts ==
    ASSUME NEW t \in AttestationTypes
    PROVE  /\ Close(t) \in Seq(Dependencies)
           /\ \A j, k \in 1 .. Len(Close(t)) : Close(t)[j] = Close(t)[k] => j = k
           /\ t = "PMWMultisigAccountConfigured" <=> Close(t) = <<>>
           /\ t = "TeeAvailabilityCheck" => ToSet(Close(t)) = {"rpc"}
           /\ t \in {"PMWPaymentStatus", "PMWFeeProof"} => ToSet(Close(t)) = Dependencies
<1>1. CASE t \in {"PMWPaymentStatus", "PMWFeeProof"}
  <2>1. Close(t) = <<"sourceDB", "cchainDB", "rpc">>
    BY <1>1 DEF Close
  <2>2. \A k \in 1 .. 3 : k = 1 \/ k = 2 \/ k = 3
    OBVIOUS
  <2>3. ToSet(Close(t)) = Dependencies
    <3>1. DOMAIN Close(t) = {1, 2, 3}
      BY <2>1
    <3> QED
      BY <2>1, <3>1 DEF ToSet, Dependencies, Databases
  <2>4. Close(t) \in Seq(Dependencies)
    BY <2>1 DEF Dependencies, Databases
  <2> QED
    BY <1>1, <2>1, <2>2, <2>3, <2>4, SMTT(30), SMTT(60)
<1>2. CASE t = "TeeAvailabilityCheck"
  <2>1. Close(t) = <<"rpc">>
    BY <1>2 DEF Close
  <2>2. ToSet(Close(t)) = {"rpc"}
    <3>1. DOMAIN Close(t) = {1}
      BY <2>1
    <3> QED
      BY <2>1, <3>1 DEF ToSet
  <2>3. Close(t) \in Seq(Dependencies)
    BY <2>1 DEF Dependencies
  <2> QED
    BY <1>2, <2>1, <2>2, <2>3, SMTT(30), SMTT(60)
<1>3. CASE t = "PMWMultisigAccountConfigured"
  <2>1. Close(t) = <<>>
    BY <1>3 DEF Close
  <2>2. Close(t) \in Seq(Dependencies) /\ Len(Close(t)) = 0
    BY <2>1
  <2>3. \A j, k \in 1 .. Len(Close(t)) : Close(t)[j] = Close(t)[k] => j = k
    BY <2>2
  <2> QED
    BY <1>3, <2>1, <2>2, <2>3
<1> QED
  BY <1>1, <1>2, <1>3 DEF AttestationTypes

(* Every call's branch undoes what the calls before it hold, and what a    *)
(* finished constructor holds is what its service's Close releases.        *)
LEMMA ConstructorFacts ==
    ASSUME NEW t \in AttestationTypes
    PROVE  /\ Len(Constructor(t)) \in Nat
           /\ \A n \in 0 .. (Len(Constructor(t)) - 1) : Undone(t, n)
           /\ HeldAfter(t, Len(Constructor(t))) = ToSet(Close(t))
<1>1. CASE t \in {"PMWPaymentStatus", "PMWFeeProof"}
  <2>1. Constructor(t) = NewPaymentService
    BY <1>1 DEF Constructor, NewPaymentService, NewFeeProofService
  <2>2. /\ Len(Constructor(t)) = 7
        /\ \A n \in 0 .. 6 : Undone(t, n)
        /\ HeldAfter(t, 7) = Dependencies
    BY <2>1, ServiceConstructor
  <2>3. ToSet(Close(t)) = Dependencies
    BY <1>1, CloseFacts
  <2> QED
    BY <2>2, <2>3
<1>2. CASE t = "TeeAvailabilityCheck"
  <2>1. Constructor(t) = NewTeeAvailabilityService
    BY <1>2 DEF Constructor
  <2>2. /\ Len(Constructor(t)) = 4
        /\ \A n \in 0 .. 3 : Undone(t, n)
        /\ HeldAfter(t, 4) = {"rpc"}
    BY <2>1, TeeConstructor
  <2>3. ToSet(Close(t)) = {"rpc"}
    BY <1>2, CloseFacts
  <2> QED
    BY <2>2, <2>3
<1>3. CASE t = "PMWMultisigAccountConfigured"
  <2>1. Constructor(t) = NewMultisigService
    BY <1>3 DEF Constructor
  <2>2. /\ Len(Constructor(t)) = 2
        /\ \A n \in 0 .. 1 : Undone(t, n)
        /\ HeldAfter(t, 2) = {}
    BY <2>1, MultisigConstructor
  <2>3. ToSet(Close(t)) = {}
    <3>1. Close(t) = <<>>
      BY <1>3, CloseFacts
    <3> QED
      BY <3>1 DEF ToSet
  <2> QED
    BY <2>2, <2>3
<1> QED
  BY <1>1, <1>2, <1>3 DEF AttestationTypes

LEMMA SequenceWidens ==
    ASSUME NEW S, NEW T, S \subseteq T, NEW s \in Seq(S) PROVE s \in Seq(T)
  OBVIOUS

LEMMA AppendWithin ==
    ASSUME NEW S, NEW s \in Seq(S), NEW x \in S PROVE Append(s, x) \in Seq(S)
  OBVIOUS

LEMMA HeadFacts ==
    ASSUME NEW S, NEW s \in Seq(S), s # <<>>
    PROVE  1 \in 1 .. Len(s) /\ 1 \in DOMAIN s /\ Head(s) = s[1] /\ Head(s) \in S
  OBVIOUS

LEMMA ElementsWithin ==
    ASSUME NEW S, NEW s \in Seq(S), NEW x \in ToSet(s) PROVE x \in S
  BY SMTT(30), SMTT(60) DEF ToSet

(* The elements of a sequence, taken apart at either end.                  *)
LEMMA ElementsOfTail ==
    ASSUME NEW S, NEW s \in Seq(S), s # <<>>
    PROVE  ToSet(s) = {Head(s)} \cup ToSet(Tail(s))
<1>1. ASSUME NEW x \in ToSet(s) PROVE x = Head(s) \/ x \in ToSet(Tail(s))
  <2>1. PICK i \in DOMAIN s : x = s[i]
    BY <1>1 DEF ToSet
  <2>2. CASE i = 1
    BY <2>1, <2>2
  <2>3. CASE i # 1
    <3>1. i - 1 \in DOMAIN Tail(s) /\ Tail(s)[i - 1] = x
      BY <2>1, <2>3
    <3> QED
      BY <3>1 DEF ToSet
  <2> QED
    BY <2>2, <2>3
<1>2. Head(s) \in ToSet(s)
  <2>1. 1 \in DOMAIN s /\ Head(s) = s[1]
    OBVIOUS
  <2> QED
    BY <2>1 DEF ToSet
<1>3. ASSUME NEW x \in ToSet(Tail(s)) PROVE x \in ToSet(s)
  <2>1. PICK i \in DOMAIN Tail(s) : x = Tail(s)[i]
    BY <1>3 DEF ToSet
  <2>2. i + 1 \in DOMAIN s /\ s[i + 1] = x
    BY <2>1
  <2> QED
    BY <2>2 DEF ToSet
<1> QED
  BY <1>1, <1>2, <1>3

LEMMA ElementsOfAppend ==
    ASSUME NEW S, NEW s \in Seq(S), NEW x
    PROVE  ToSet(Append(s, x)) = ToSet(s) \cup {x}
<1>1. DOMAIN Append(s, x) = DOMAIN s \cup {Len(s) + 1}
  OBVIOUS
<1>2. Append(s, x)[Len(s) + 1] = x /\ \A i \in DOMAIN s : Append(s, x)[i] = s[i]
  OBVIOUS
<1> QED
  BY <1>1, <1>2 DEF ToSet

(* All of a service's connections are left when none has been closed.      *)
LEMMA AllLeft ==
    ASSUME Shape, NEW i \in 1 .. Len(served)
    PROVE  Left(i, 1) = Owned(i)
<1>1. served[i] \in AttestationTypes
  BY DEF Shape
<1>2. DOMAIN Close(served[i]) = 1 .. Len(Close(served[i]))
  BY <1>1, CloseFacts, SMTT(30), SMTT(60)
<1> QED
  BY <1>2, SMTT(30), SMTT(60) DEF Left, Owned, Of, ToSet

-----------------------------------------------------------------------------
(***************************************************************************)
(* The connections.                                                        *)
(***************************************************************************)
LEMMA OpenInvInit == Init => OpenInv
<1> SUFFICES ASSUME Init PROVE OpenInv
  OBVIOUS
<1>1. Shape
  <2>1. served \in Seq(AttestationTypes)
    BY LifecycleAssumption DEF Init
  <2>2. loaded = 0 /\ loaded < Len(served) => Len(Calls) \in Nat
    <3>1. 0 < Len(served) => served[0 + 1] \in AttestationTypes
      BY <2>1
    <3> QED
      BY <3>1, ConstructorFacts DEF Calls
  <2> QED
    BY <2>1, <2>2 DEF Init, Shape, Phases, Up
<1>2. Collected
  BY DEF Init, Collected
<1>3. Accounted
  <2>1. UnderConstruction = {}
    <3>1. HeldAfter(served[loaded + 1], built) = {}
      BY DEF Init, HeldAfter
    <3> QED
      BY <3>1 DEF UnderConstruction, Of
  <2>2. closeAll(closers) = {}
    BY DEF Init, closeAll, ToSet
  <2> QED
    BY <2>1, <2>2 DEF Init, Accounted
<1> QED
  BY <1>1, <1>2, <1>3 DEF OpenInv

(* A step that touches neither the services nor their connections, within  *)
(* a phase or to one that promises no more.                                *)
LEMMA OpenInvKept ==
    ASSUME OpenInv, UNCHANGED <<served, loaded, built, closers, open, released>>, phase' \in Phases,
           \/ phase' = phase
           \/ phase' \in {"killed", "crashed"}
           \/ phase \in {"serving", "draining"} /\ phase' = "draining"
    PROVE  OpenInv'
<1>1. Calls' = Calls
  BY DEF Calls
<1>2. Shape' /\ Collected'
  BY <1>1 DEF OpenInv, Shape, Collected
<1>3. closeAll(closers)' = closeAll(closers) /\ UnderConstruction' = UnderConstruction
  <2>1. closeAll(closers)' = closeAll(closers)
    BY SMTT(30), SMTT(60) DEF closeAll
  <2>2. UnderConstruction' = UnderConstruction
    BY DEF UnderConstruction
  <2> QED
    BY <2>1, <2>2
<1>4. CASE phase' # phase
  BY <1>2, <1>3, <1>4 DEF OpenInv, Accounted
<1>5. CASE phase' = phase
  <2>1. closeAll(Tail(closers))' = closeAll(Tail(closers))
    BY SMTT(30), SMTT(60) DEF closeAll
  <2>2. Left(Head(closers), released + 1)' = Left(Head(closers), released + 1)
    BY DEF Left
  <2>3. Unconfigured' = Unconfigured
    BY <1>1 DEF Unconfigured
  <2> QED
    BY <1>2, <1>3, <1>5, <2>1, <2>2, <2>3 DEF OpenInv, Accounted
<1> QED
  BY <1>2, <1>4, <1>5 DEF OpenInv

LEMMA CallSucceedsKeeps == ASSUME OpenInv, CallSucceeds PROVE OpenInv'
<1> USE DEF CallSucceeds, Loading
<1>1. Shape /\ Collected /\ Accounted
  BY DEF OpenInv
<1> DEFINE t == served[loaded + 1]
<1>2. t \in AttestationTypes
  BY <1>1 DEF Shape
<1>3. Len(Calls) \in Nat
  BY <1>2, ConstructorFacts DEF Calls
<1>4. Calls' = Calls
  BY DEF Calls
<1>5. Shape' /\ Collected'
  <2>1. Shape'
    BY <1>1, <1>3, <1>4 DEF Shape
  <2>2. Collected'
    BY <1>1 DEF Collected
  <2> QED
    BY <2>1, <2>2
<1>6. HeldAfter(t, built + 1) = HeldAfter(t, built) \cup Calls[built + 1].opens
  <2>1. 1 .. (built + 1) = (1 .. built) \cup {built + 1}
    BY <1>1 DEF Shape
  <2> QED
    BY <1>3, <2>1 DEF HeldAfter, Calls
<1>7. UnderConstruction' = UnderConstruction \cup Of(loaded + 1, Calls[built + 1].opens)
  <2>1. UnderConstruction' = Of(loaded + 1, HeldAfter(t, built + 1))
    BY DEF UnderConstruction
  <2> QED
    BY <1>6, <2>1 DEF UnderConstruction, Of
<1>8. closeAll(closers)' = closeAll(closers)
  BY SMTT(30), SMTT(60) DEF closeAll
<1>9. phase' = "loading" /\ open' = closeAll(closers)' \cup UnderConstruction'
  BY <1>1, <1>7, <1>8 DEF Accounted
<1> QED
  BY <1>5, <1>9 DEF OpenInv, Accounted

LEMMA RegisterKeeps == ASSUME OpenInv, registerVerifier PROVE OpenInv'
<1> USE DEF registerVerifier, Loading
<1>1. Shape /\ Collected /\ Accounted
  BY DEF OpenInv
<1> DEFINE i == loaded + 1
<1>2. i \in 1 .. Len(served) /\ served[i] \in AttestationTypes /\ loaded \in Nat
  BY <1>1 DEF Shape
<1>3. Shape'
  <2>1. i < Len(served) => served[i + 1] \in AttestationTypes
    BY <1>1, <1>2 DEF Shape
  <2>2. i < Len(served) => Len(Constructor(served[i + 1])) \in Nat
    BY <2>1, ConstructorFacts
  <2>3. Calls' = Constructor(served[i + 1])
    BY DEF Calls
  <2> QED
    BY <1>1, <1>2, <2>2, <2>3 DEF Shape
<1>4. UnderConstruction = Owned(i)
  <2>1. HeldAfter(served[i], built) = ToSet(Close(served[i]))
    BY <1>2, ConstructorFacts DEF Calls
  <2> QED
    BY <2>1 DEF UnderConstruction, Owned
<1>5. UnderConstruction' = {}
  <2>1. \A t : HeldAfter(t, 0) = {}
    BY DEF HeldAfter
  <2>2. UnderConstruction' = Of(loaded' + 1, HeldAfter(served'[loaded' + 1], 0))
    BY DEF UnderConstruction
  <2> QED
    BY <2>1, <2>2 DEF Of
<1>6. closeAll(closers)' = UNION {Owned(j) : j \in ToSet(closers')}
  BY SMTT(30), SMTT(60) DEF closeAll, Owned
<1>7. closeAll(closers) = UNION {Owned(j) : j \in ToSet(closers)}
  BY DEF closeAll, Owned
<1>8. CASE served[i] = "PMWMultisigAccountConfigured"
  <2>1. Close(served[i]) = <<>>
    BY <1>2, <1>8, CloseFacts
  <2>2. Owned(i) = {}
    BY <2>1 DEF Owned, Of, ToSet
  <2>3. closers' = closers
    BY <1>8
  <2>4. Collected'
    <3>1. closers \in Seq(1 .. loaded')
      BY <1>1, <1>2, SequenceWidens DEF Collected
    <3>2. \A j \in 1 .. loaded' : j = i \/ j \in 1 .. loaded
      BY <1>2
    <3> QED
      BY <1>1, <2>1, <2>3, <3>1, <3>2 DEF Collected
  <2>5. open' = closeAll(closers)' \cup UnderConstruction'
    BY <1>1, <1>4, <1>5, <1>6, <1>7, <2>2, <2>3 DEF Accounted
  <2> QED
    BY <1>3, <2>4, <2>5 DEF OpenInv, Accounted
<1>9. CASE served[i] # "PMWMultisigAccountConfigured"
  <2>1. closers' = Append(closers, i)
    BY <1>9
  <2>2. ToSet(closers') = ToSet(closers) \cup {i}
    BY <1>1, <2>1, ElementsOfAppend DEF Collected
  <2>3. Collected'
    <3>1. closers \in Seq(1 .. loaded) /\ loaded \in Nat
      BY <1>1 DEF Collected, Shape
    <3>2. closers' \in Seq(1 .. loaded')
      <4>1. 1 .. loaded \subseteq 1 .. loaded' /\ i \in 1 .. loaded'
        BY <3>1
      <4>2. closers \in Seq(1 .. loaded')
        BY <3>1, <4>1, SequenceWidens
      <4> QED
        BY <2>1, <4>1, <4>2, AppendWithin
    <3>3. /\ DOMAIN closers' = DOMAIN closers \cup {Len(closers) + 1}
          /\ closers'[Len(closers) + 1] = i
          /\ \A a \in DOMAIN closers : closers'[a] = closers[a] /\ closers[a] < i /\ a <= Len(closers)
      BY <2>1, <3>1
    <3>4. \A a \in DOMAIN closers' : Close(served'[closers'[a]]) # <<>>
      <4>1. Close(served[i]) # <<>>
        BY <1>2, <1>9, CloseFacts
      <4> QED
        BY <1>1, <3>3, <4>1 DEF Collected
    <3>5. ASSUME NEW a \in DOMAIN closers', NEW b \in DOMAIN closers', a < b
          PROVE  closers'[a] < closers'[b]
      <4>1. a \in DOMAIN closers
        BY <3>1, <3>3, <3>5
      <4>2. CASE b \in DOMAIN closers
        BY <1>1, <3>3, <3>5, <4>1, <4>2 DEF Collected
      <4>3. CASE b = Len(closers) + 1
        BY <3>3, <4>1, <4>3
      <4> QED
        BY <3>3, <4>2, <4>3
    <3>6. ASSUME NEW j \in 1 .. loaded', Close(served'[j]) # <<>> PROVE j \in ToSet(closers')
      <4>1. j = i \/ j \in 1 .. loaded
        BY <1>2, <3>6
      <4> QED
        BY <1>1, <2>2, <3>6, <4>1 DEF Collected
    <3> QED
      BY <3>2, <3>4, <3>5, <3>6 DEF Collected
  <2>4. closeAll(closers)' = closeAll(closers) \cup Owned(i)
    BY <1>6, <1>7, <2>2
  <2>5. open' = closeAll(closers)' \cup UnderConstruction'
    BY <1>1, <1>4, <1>5, <2>4 DEF Accounted
  <2> QED
    BY <1>3, <2>3, <2>5 DEF OpenInv, Accounted
<1> QED
  BY <1>8, <1>9

(* The constructor's branch and closeAll leave nothing open but the pool   *)
(* whose configuration failed: neither closes the other's.                 *)
LEMMA ConstructorFailsKeeps == ASSUME OpenInv, ConstructorFails PROVE OpenInv'
<1> USE DEF ConstructorFails, Loading, Die
<1>1. Shape /\ Collected /\ Accounted
  BY DEF OpenInv
<1> DEFINE i == loaded + 1
           t == served[i]
           held == HeldAfter(t, built)
           c == Calls[built + 1]
<1>2. t \in AttestationTypes /\ i \notin 1 .. loaded
  BY <1>1 DEF Shape
<1>3. Undone(t, built)
  <2>1. Len(Constructor(t)) \in Nat /\ \A n \in 0 .. (Len(Constructor(t)) - 1) : Undone(t, n)
    BY <1>2, ConstructorFacts
  <2>2. built \in 0 .. (Len(Constructor(t)) - 1)
    BY <1>1, <2>1 DEF Shape, Calls
  <2> QED
    BY <2>1, <2>2
<1>4. i \notin ToSet(closers)
  BY <1>1, <1>2, ElementsWithin DEF Collected
<1>5. Of(i, held) \cap closeAll(closers) = {}
  BY <1>4, SMTT(30), SMTT(60) DEF closeAll, Of
<1>6. open = closeAll(closers) \cup Of(i, held)
  BY <1>1 DEF Accounted, UnderConstruction
<1>7. open' = Of(i, held \ c.closes)
  <2>1. Of(i, held) \ Of(i, c.closes) = Of(i, held \ c.closes)
    BY DEF Of
  <2>2. open' = (open \ Of(i, c.closes)) \ closeAll(closers)
    OBVIOUS
  <2> QED
    BY <1>5, <1>6, <2>1, <2>2
<1>8. open' = Unconfigured
  <2>1. CASE c.name = "configurePool"
    BY <1>3, <1>7, <2>1 DEF Undone, Unconfigured, Calls
  <2>2. CASE c.name # "configurePool"
    <3>1. held \ c.closes = {}
      BY <1>3, <2>2 DEF Undone, Calls
    <3> QED
      BY <1>7, <2>2, <3>1 DEF Unconfigured, Of
  <2> QED
    BY <2>1, <2>2
<1>9. Calls' = Calls /\ Unconfigured' = Unconfigured
  BY DEF Calls, Unconfigured
<1>10. Shape' /\ Collected'
  BY <1>1, <1>9 DEF Shape, Collected, Phases
<1> QED
  BY <1>8, <1>9, <1>10 DEF OpenInv, Accounted

(* srv.Shutdown returns: the services are about to be closed, and the      *)
(* first still has everything it opened.                                   *)
LEMMA ShutdownKeeps == ASSUME OpenInv, ShutdownReturns PROVE OpenInv'
<1> USE DEF ShutdownReturns
<1>1. Shape /\ Collected /\ open = closeAll(closers) /\ released = 0
  BY DEF OpenInv, Accounted, Shape
<1>2. Shape' /\ Collected'
  <2>1. Calls' = Calls
    BY DEF Calls
  <2> QED
    BY <1>1, <2>1 DEF Shape, Collected, Phases, Up
<1>3. closers = <<>> => open = {}
  BY <1>1 DEF closeAll, ToSet
<1>4. ASSUME closers # <<>>
      PROVE  /\ 1 \in 1 .. Len(Close(served[Head(closers)]))
             /\ open = closeAll(Tail(closers)) \cup Left(Head(closers), 1)
  <2>1. Head(closers) \in 1 .. Len(served) /\ Head(closers) = closers[1] /\ 1 \in DOMAIN closers
    BY <1>1, <1>4 DEF Shape, Collected
  <2>2. Close(served[Head(closers)]) # <<>> /\ served[Head(closers)] \in AttestationTypes
    BY <1>1, <2>1 DEF Shape, Collected
  <2>3. 1 \in 1 .. Len(Close(served[Head(closers)]))
    BY <2>2, CloseFacts, HeadFacts
  <2>4. Left(Head(closers), 1) = Owned(Head(closers))
    BY <1>1, <2>1, AllLeft
  <2>5. ToSet(closers) = {Head(closers)} \cup ToSet(Tail(closers))
    BY <1>1, <1>4, ElementsOfTail DEF Collected
  <2>6. closeAll(closers) = Owned(Head(closers)) \cup closeAll(Tail(closers))
    BY <2>5 DEF closeAll, Owned
  <2> QED
    BY <1>1, <2>3, <2>4, <2>6
<1>5. /\ closeAll(Tail(closers))' = closeAll(Tail(closers))
      /\ Left(Head(closers), 1)' = Left(Head(closers), 1)
  BY SMTT(30), SMTT(60) DEF closeAll, Left
<1>6. Accounted'
  <2>1. released' + 1 = 1
    BY <1>1
  <2> QED
    BY <1>3, <1>4, <1>5, <2>1 DEF Accounted
<1> QED
  BY <1>2, <1>6 DEF OpenInv

(* Close of one connection: it is the first one left of the first service. *)
LEMMA CloseKeeps == ASSUME OpenInv, CloseService PROVE OpenInv'
<1>1. Shape /\ Collected /\ Accounted /\ phase = "closing" /\ closers # <<>>
  BY DEF OpenInv, CloseService
<1> DEFINE i == Head(closers)
           owned == Close(served[i])
           rest == Tail(closers)
           n == released + 1
<1>2. i \in 1 .. Len(served) /\ 1 \in DOMAIN closers /\ i = closers[1]
  BY <1>1 DEF Shape, Collected
<1>3. served[i] \in AttestationTypes
  BY <1>1, <1>2 DEF Shape
<1>4. /\ Len(owned) \in Nat
      /\ \A j, k \in 1 .. Len(owned) : owned[j] = owned[k] => j = k
  BY <1>3, CloseFacts, SMTT(30), SMTT(60)
<1>5. n \in 1 .. Len(owned) /\ open = closeAll(rest) \cup Left(i, n)
  BY <1>1 DEF Accounted
<1>6. /\ open' = open \ {<<i, owned[n]>>}
      /\ closers' = IF n = Len(owned) THEN rest ELSE closers
      /\ released' = IF n = Len(owned) THEN 0 ELSE n
  BY DEF CloseService
<1>7. /\ rest \in Seq(1 .. loaded)
      /\ \A a \in DOMAIN rest : a + 1 \in DOMAIN closers /\ rest[a] = closers[a + 1]
  BY <1>1 DEF Collected
<1>8. i \notin ToSet(rest)
  <2>1. \A a \in DOMAIN rest : closers[1] < closers[a + 1] /\ closers[1] \in Nat
    BY <1>1, <1>2, <1>7, SMTT(30), SMTT(60) DEF Collected, Shape
  <2>2. \A a \in DOMAIN rest : rest[a] # i
    BY <1>1, <1>2, <1>7, <2>1 DEF Collected, Shape
  <2> QED
    BY <2>2 DEF ToSet
<1>9. \A d : <<i, d>> \notin closeAll(rest)
  BY <1>8, SMTT(30), SMTT(60) DEF closeAll, Of
<1>10. UNCHANGED <<served, phase, loaded, built, grace, request>>
  BY DEF CloseService
<1> HIDE DEF n
<1>11. open' = closeAll(rest) \cup Left(i, n + 1)
  <2>1. Left(i, n) = Left(i, n + 1) \cup {<<i, owned[n]>>}
    <3>1. n .. Len(owned) = ((n + 1) .. Len(owned)) \cup {n}
      BY <1>4, <1>5, SMTT(30), SMTT(60)
    <3> QED
      BY <3>1 DEF Left
  <2>2. <<i, owned[n]>> \notin Left(i, n + 1)
    BY <1>4, <1>5, SMTT(30), SMTT(60) DEF Left
  <2> QED
    BY <1>5, <1>6, <1>9, <2>1, <2>2
<1>12. Shape'
  <2>1. Calls' = Calls
    BY <1>10 DEF Calls
  <2> QED
    BY <1>1, <1>10, <2>1 DEF Shape
<1>13. CASE n # Len(owned)
  <2>1. closers' = closers /\ released' = n
    BY <1>6, <1>13
  <2>2. released' + 1 \in 1 .. Len(owned)
    BY <1>4, <1>5, <1>13, <2>1, SMTT(30), SMTT(60)
  <2>3. Collected'
    BY <1>1, <1>10, <2>1 DEF Collected
  <2>4. open' = closeAll(Tail(closers))' \cup Left(Head(closers), released + 1)'
    BY <1>10, <1>11, <2>1, SMTT(30), SMTT(60) DEF closeAll, Left
  <2>5. Accounted'
    BY <1>1, <1>10, <2>1, <2>2, <2>4 DEF Accounted
  <2> QED
    BY <1>12, <2>3, <2>5 DEF OpenInv
<1>14. CASE n = Len(owned)
  <2>1. closers' = rest /\ released' = 0
    BY <1>6, <1>14
  <2>2. open' = closeAll(rest)
    BY <1>4, <1>11, <1>14, SMTT(30), SMTT(60) DEF Left
  <2>3. Collected'
    <3>1. \A a \in DOMAIN rest : Close(served[rest[a]]) # <<>>
      BY <1>1, <1>7 DEF Collected
    <3>2. \A a, b \in DOMAIN rest : a < b => rest[a] < rest[b]
      BY <1>1, <1>7, SMTT(30), SMTT(60) DEF Collected
    <3> QED
      BY <1>1, <1>7, <1>10, <2>1, <3>1, <3>2 DEF Collected
  <2>4. rest = <<>> => open' = {}
    <3>1. ASSUME rest = <<>> PROVE ToSet(rest) = {}
      BY <3>1 DEF ToSet
    <3> HIDE DEF rest
    <3>2. ToSet(rest) = {} => closeAll(rest) = {}
      BY DEF closeAll
    <3> QED
      BY <2>2, <3>1, <3>2
  <2>5. ASSUME rest # <<>>
        PROVE  /\ 1 \in 1 .. Len(Close(served[Head(rest)]))
               /\ open' = closeAll(Tail(rest)) \cup Left(Head(rest), 1)
    <3>1. 1 \in DOMAIN rest /\ Head(rest) = rest[1] /\ Head(rest) \in 1 .. Len(served)
      <4>1. 1 \in DOMAIN rest /\ Head(rest) = rest[1] /\ Head(rest) \in 1 .. loaded
        BY <1>7, <2>5, HeadFacts
      <4> QED
        BY <1>1, <4>1 DEF Shape
    <3>2. Close(served[Head(rest)]) # <<>> /\ served[Head(rest)] \in AttestationTypes
      BY <1>1, <1>7, <3>1 DEF Collected, Shape
    <3>3. 1 \in 1 .. Len(Close(served[Head(rest)]))
      BY <3>2, CloseFacts, HeadFacts
    <3>4. ToSet(rest) = {Head(rest)} \cup ToSet(Tail(rest))
      BY <1>7, <2>5, ElementsOfTail
    <3>5. closeAll(rest) = Owned(Head(rest)) \cup closeAll(Tail(rest))
      BY <3>4 DEF closeAll, Owned
    <3> QED
      BY <1>1, <2>2, <3>1, <3>3, <3>5, AllLeft
  <2>6. /\ closeAll(Tail(closers))' = closeAll(Tail(rest))
        /\ Left(Head(closers), released + 1)' = Left(Head(rest), 1)
    BY <1>10, <2>1, SMTT(30), SMTT(60) DEF closeAll, Left
  <2>7. Accounted'
    BY <1>1, <1>10, <2>1, <2>4, <2>5, <2>6 DEF Accounted
  <2> QED
    BY <1>12, <2>3, <2>7 DEF OpenInv
<1> QED
  BY <1>13, <1>14

LEMMA OpenInvStep == OpenInv /\ [Next]_vars => OpenInv'
<1> SUFFICES ASSUME OpenInv, [Next]_vars PROVE OpenInv'
  OBVIOUS
<1>1. Shape /\ Collected /\ Accounted
  BY DEF OpenInv
<1>2. CASE ListenAndServe
  <2>1. UnderConstruction = {}
    <3>1. HeldAfter(served[loaded + 1], built) = {}
      BY <1>1, <1>2 DEF ListenAndServe, Shape, HeldAfter
    <3> QED
      BY <3>1 DEF UnderConstruction, Of
  <2>2. closeAll(closers)' = closeAll(closers)
    BY <1>2, SMTT(30), SMTT(60) DEF ListenAndServe, closeAll
  <2>3. open' = closeAll(closers)' /\ phase' = "serving"
    BY <1>1, <1>2, <2>1, <2>2 DEF ListenAndServe, Accounted
  <2>4. Calls' = Calls
    BY <1>2 DEF ListenAndServe, Calls
  <2> QED
    BY <1>1, <1>2, <2>3, <2>4 DEF ListenAndServe, OpenInv, Shape, Collected, Accounted, Phases, Up
<1>3. CASE Exit
  <2>1. UNCHANGED <<served, loaded, built, closers, open, released>> /\ phase' = "exited"
    BY <1>3 DEF Exit, Die
  <2>2. open = {}
    BY <1>1, <1>3 DEF Exit, Accounted
  <2>3. Calls' = Calls
    BY <2>1 DEF Calls
  <2> QED
    BY <1>1, <2>1, <2>2, <2>3 DEF OpenInv, Shape, Collected, Accounted, Phases
<1>4. CASE SignalDuringLoad \/ ListenFails
  BY <1>4, OpenInvKept DEF SignalDuringLoad, ListenFails, Die, Phases
<1>5. CASE Signal
  BY <1>5, OpenInvKept DEF Signal, Phases, Up
<1>6. phase \in Phases
  BY <1>1 DEF Shape
<1>7. ASSUME NEW r \in Requests, Step(r) PROVE OpenInv'
  <2>1. UNCHANGED <<served, phase, loaded, built, closers, open, released>>
    BY <1>7 DEF Step, Receive, RejectMalformed, ReadSucceeds, NothingThere, ReadFails, Conclude,
                DeadlineExceeded
  <2> QED
    BY <1>6, <2>1, OpenInvKept
<1>8. CASE Tick \/ UNCHANGED vars
  BY <1>6, <1>8, OpenInvKept DEF Tick, vars
<1> QED
  BY <1>2, <1>3, <1>4, <1>5, <1>7, <1>8, CallSucceedsKeeps, RegisterKeeps, ConstructorFailsKeeps,
     ShutdownKeeps, CloseKeeps DEF Next

LEMMA OpenInvInvariant == Spec => []OpenInv
  BY OpenInvInit, OpenInvStep, PTL DEF Spec

(* No connection leaks: whichever call of whichever constructor fails, its *)
(* own branch and LoadModule's closeAll have closed all that was opened on *)
(* the way but the pool configurePool failed on, and ShutdownServer all.   *)
THEOREM NoConnectionLeaks == Spec => []NothingLeaks
<1>1. OpenInv => NothingLeaks
  BY DEF OpenInv, Accounted, NothingLeaks
<1> QED
  BY <1>1, OpenInvInvariant, PTL

(* The connections open while serving are those of the registered types,   *)
(* and while closing those of the services not yet closed.                 *)
THEOREM OpenAreStillToBeClosed == Spec => []OpenMatchesClosers
<1>1. ASSUME OpenInv, phase = "closing", closers # <<>>
      PROVE  open \subseteq closeAll(closers) /\ closeAll(Tail(closers)) \subseteq open
  <2>1. /\ released + 1 \in 1 .. Len(Close(served[Head(closers)]))
        /\ open = closeAll(Tail(closers)) \cup Left(Head(closers), released + 1)
    BY <1>1 DEF OpenInv, Accounted
  <2>2. ToSet(closers) = {Head(closers)} \cup ToSet(Tail(closers))
    BY <1>1, ElementsOfTail DEF OpenInv, Collected
  <2>3. closeAll(closers) = Owned(Head(closers)) \cup closeAll(Tail(closers))
    BY <2>2 DEF closeAll, Owned
  <2>4. Head(closers) \in 1 .. Len(served)
    BY <1>1 DEF OpenInv, Collected, Shape
  <2>5. Left(Head(closers), 1) = Owned(Head(closers))
    BY <1>1, <2>4, AllLeft DEF OpenInv
  <2>6. Left(Head(closers), released + 1) \subseteq Left(Head(closers), 1)
    BY <2>1, SMTT(30), SMTT(60) DEF Left
  <2> QED
    BY <2>1, <2>3, <2>5, <2>6
<1>2. OpenInv => OpenMatchesClosers
  BY <1>1 DEF OpenInv, Accounted, OpenMatchesClosers
<1> QED
  BY <1>2, OpenInvInvariant, PTL

-----------------------------------------------------------------------------
(***************************************************************************)
(* The requests.                                                           *)
(***************************************************************************)
Request ==
    [pc : {"idle", "running", "answered", "cut"}, type : Nat, step : Nat, age : Nat,
     metClosed : BOOLEAN, status : {"none", "VERIFIED", "REJECTED", "RETRY"}]

(* The inductive invariant of the requests: one that runs is at a read of  *)
(* a type that is served; what runs when the services are being closed had *)
(* the whole grace; and only then can a connection be found closed.        *)
RequestInv ==
    /\ request \in [Requests -> Request]
    /\ \A r \in Requests : request[r].pc = "running" =>
          /\ phase \in {"serving", "draining", "closing"}
          /\ request[r].type \in 1 .. Len(served) /\ request[r].step # 0
    /\ phase = "closing" => Running = {} \/ grace = ShutdownAfter
    /\ \A r \in Requests : request[r].metClosed =>
          /\ phase \in {"closing", "exited"}
          /\ grace = ShutdownAfter /\ request[r].status = "RETRY"

(* A verifier reads connections of its own service, or a remote server.    *)
LEMMA VerifyFacts ==
    ASSUME NEW t \in AttestationTypes
    PROVE  /\ Len(Verify(t)) \in Nat
           /\ \A k \in 1 .. Len(Verify(t)) :
                 Verify(t)[k].on \in ToSet(Close(t)) \cup {"remote"}
<1> USE DEF Read
<1>1. CASE t = "PMWPaymentStatus"
  <2>1. /\ Len(Verify(t)) = 3
        /\ \A k \in 1 .. 3 : Verify(t)[k].on \in Dependencies
    BY <1>1, SMTT(30), SMTT(60) DEF Verify, Dependencies, Databases
  <2> QED
    BY <1>1, <2>1, CloseFacts
<1>2. CASE t = "PMWFeeProof"
  <2>1. /\ Len(Verify(t)) = 4
        /\ \A k \in 1 .. 4 : Verify(t)[k].on \in Dependencies
    BY <1>2, SMTT(30), SMTT(60) DEF Verify, Dependencies, Databases
  <2> QED
    BY <1>2, <2>1, CloseFacts
<1>3. CASE t = "TeeAvailabilityCheck"
  <2>1. /\ Len(Verify(t)) = 3
        /\ \A k \in 1 .. 3 : Verify(t)[k].on \in {"rpc", "remote"}
    BY <1>3, SMTT(30), SMTT(60) DEF Verify
  <2> QED
    BY <1>3, <2>1, CloseFacts
<1>4. CASE t = "PMWMultisigAccountConfigured"
  <2>1. /\ Len(Verify(t)) = 2
        /\ \A k \in 1 .. 2 : Verify(t)[k].on = "remote"
    BY <1>4, SMTT(30), SMTT(60) DEF Verify
  <2> QED
    BY <1>4, <2>1
<1> QED
  BY <1>1, <1>2, <1>3, <1>4 DEF AttestationTypes

(* Until the shutdown starts to close, a request finds every connection it *)
(* reads open.                                                             *)
LEMMA OpenUntilClosing ==
    ASSUME OpenInv, RequestInv, NEW r \in Requests, AtRead(r), IsClosed(r)
    PROVE  phase = "closing" /\ grace = ShutdownAfter
<1> DEFINE i == request[r].type
           d == NextRead(r).on
<1>1. request[r].pc = "running" /\ phase \in {"serving", "draining", "closing"}
  BY DEF AtRead, RequestInv
<1>2. i \in 1 .. Len(served) /\ served[i] \in AttestationTypes /\ loaded = Len(served)
  BY <1>1 DEF RequestInv, OpenInv, Shape
<1>3. d \in ToSet(Close(served[i]))
  <2>1. request[r].step \in 1 .. Len(Verify(served[i]))
    <3>1. request[r].step \in Nat \ {0}
      BY <1>1 DEF RequestInv, Request
    <3> QED
      BY <1>2, <3>1, VerifyFacts DEF AtRead
  <2>2. d \in ToSet(Close(served[i])) \cup {"remote"}
    BY <1>2, <2>1, VerifyFacts DEF NextRead
  <2> QED
    BY <2>2 DEF IsClosed, Dependencies, Databases
<1>4. ASSUME phase \in {"serving", "draining"} PROVE FALSE
  <2>1. Close(served[i]) # <<>>
    BY <1>3 DEF ToSet
  <2>2. i \in ToSet(closers)
    BY <1>2, <1>4, <2>1 DEF OpenInv, Collected
  <2>3. <<i, d>> \in closeAll(closers)
    BY <1>3, <2>2, SMTT(30), SMTT(60) DEF closeAll, Of
  <2> QED
    BY <1>4, <2>3 DEF OpenInv, Accounted, IsClosed
<1>5. r \in Running
  BY <1>1 DEF Running
<1> QED
  BY <1>1, <1>4, <1>5 DEF RequestInv

(* What a read of a closed connection fails with is retried.               *)
LEMMA ClosedIsRetried ==
    ASSUME NEW r \in Requests, IsClosed(r), NEW err \in ReadErrors(r)
    PROVE  classifyVerifyStatus(err) = "RETRY"
<1>1. NextRead(r).on \in {"sourceDB", "cchainDB", "rpc"}
  BY DEF IsClosed, Dependencies, Databases
<1>2. err \in {ErrDatabase, Wrap({"ErrUnknown"}, nil)}
  BY <1>1 DEF ReadErrors, Databases
<1>3. err \in {{"error", "ErrDatabase"}, {"error", "ErrUnknown"}}
  BY <1>2 DEF ErrDatabase, Wrap, nil
<1> QED
  BY <1>3 DEF classifyVerifyStatus, IsAny, Is, TerminalSentinels

LEMMA RequestInvStep == OpenInv /\ RequestInv /\ [Next]_vars => RequestInv'
<1> SUFFICES ASSUME OpenInv, RequestInv, [Next]_vars PROVE RequestInv'
  OBVIOUS
<1>0. served \in Seq(AttestationTypes) /\ Len(served) \in Nat
  BY DEF OpenInv, Shape
<1>1. CASE UNCHANGED <<served, phase, grace, request>>
  <2>1. Running' = Running
    BY <1>1 DEF Running
  <2> QED
    BY <1>1, <2>1 DEF RequestInv
<1>2. ASSUME NEW how \in {"loadFailed", "killed", "crashed", "exited"}, Die(how),
             UNCHANGED <<served, grace>>,
             (phase = "closing" /\ how = "exited") \/ phase \in {"loading", "serving"}
      PROVE  RequestInv'
  <2> DEFINE cut == [NoRequest EXCEPT !.pc = "cut"]
  <2>1. cut \in Request /\ ~cut.metClosed /\ cut.pc # "running"
    BY DEF NoRequest, Request
  <2> HIDE DEF cut
  <2>2. phase' = how /\ request' = [r \in Requests |-> IF r \in Running THEN cut ELSE request[r]]
    BY <1>2 DEF Die, cut
  <2>3. \A r \in Requests : request'[r] = cut \/ (request'[r] = request[r] /\ request[r].pc # "running")
    BY <2>2 DEF Running
  <2>4. request' \in [Requests -> Request]
    BY <2>1, <2>2 DEF RequestInv
  <2> QED
    BY <1>2, <2>1, <2>2, <2>3, <2>4 DEF RequestInv
<1>3. ASSUME UNCHANGED <<served, phase, grace>>, NEW r \in Requests, NEW v \in Request,
             request' = [request EXCEPT ![r] = v],
             v.pc = "running" => /\ phase = "serving" \/ request[r].pc = "running"
                                 /\ v.type \in 1 .. Len(served) /\ v.step # 0,
             v.metClosed => phase = "closing" /\ grace = ShutdownAfter /\ v.status = "RETRY"
      PROVE  RequestInv'
  <2>1. request' \in [Requests -> Request]
    BY <1>3 DEF RequestInv
  <2>2. ASSUME NEW q \in Requests
        PROVE  request'[q] = IF q = r THEN v ELSE request[q]
    BY <1>3 DEF RequestInv
  <2>3. phase' = "closing" => Running' = {} \/ grace' = ShutdownAfter
    <3>1. phase = "closing" => Running' \subseteq Running
      BY <1>3, <2>2 DEF Running
    <3> QED
      BY <1>3, <3>1 DEF RequestInv
  <2>4. ASSUME NEW q \in Requests, request'[q].pc = "running"
        PROVE  /\ phase' \in {"serving", "draining", "closing"}
               /\ request'[q].type \in 1 .. Len(served') /\ request'[q].step # 0
    BY <1>3, <2>2, <2>4 DEF RequestInv
  <2>5. ASSUME NEW q \in Requests, request'[q].metClosed
        PROVE  /\ phase' \in {"closing", "exited"}
               /\ grace' = ShutdownAfter /\ request'[q].status = "RETRY"
    BY <1>3, <2>2, <2>5 DEF RequestInv
  <2> QED
    BY <2>1, <2>3, <2>4, <2>5 DEF RequestInv
<1>4. ASSUME NEW r \in Requests, Receive(r) PROVE RequestInv'
  <2>1. PICK i \in 1 .. Len(served) :
          request' = [request EXCEPT ![r] = [NoRequest EXCEPT !.pc = "running", !.type = i, !.step = 1]]
    BY <1>4 DEF Receive
  <2> DEFINE v == [NoRequest EXCEPT !.pc = "running", !.type = i, !.step = 1]
  <2>2. v \in Request /\ v.type \in 1 .. Len(served) /\ v.step # 0 /\ ~v.metClosed
    <3>1. i \in Nat
      BY <1>0
    <3>2. NoRequest = [pc |-> "idle", type |-> 0, step |-> 0, age |-> 0, metClosed |-> FALSE,
                       status |-> "none"]
      BY DEF NoRequest
    <3>3. v.type = i /\ v.step = 1 /\ v.metClosed = FALSE
      BY <3>2
    <3>4. v \in Request
      BY <3>1, <3>2 DEF Request
    <3> QED
      BY <3>3, <3>4
  <2>3. request' = [request EXCEPT ![r] = v] /\ UNCHANGED <<served, phase, grace>> /\ phase = "serving"
    BY <1>4, <2>1 DEF Receive
  <2> HIDE DEF v
  <2> QED
    BY <1>3, <2>2, <2>3
<1>5. ASSUME NEW r \in Requests, NEW status \in {"VERIFIED", "REJECTED", "RETRY"},
             Respond(r, status), UNCHANGED <<served, phase, grace>>
      PROVE  RequestInv'
  <2> DEFINE v == [NoRequest EXCEPT !.pc = "answered", !.status = status]
  <2>1. v \in Request /\ v.pc # "running" /\ ~v.metClosed
    BY DEF NoRequest, Request
  <2> HIDE DEF v
  <2>2. request' = [request EXCEPT ![r] = v]
    BY <1>5 DEF Respond, v
  <2> QED
    BY <1>3, <1>5, <2>1, <2>2
<1>6. ASSUME NEW r \in Requests,
             RejectMalformed(r) \/ NothingThere(r) \/ Conclude(r) \/ DeadlineExceeded(r)
      PROVE  RequestInv'
  <2>1. \A err : classifyVerifyStatus(err) \in {"VERIFIED", "REJECTED", "RETRY"}
    BY DEF classifyVerifyStatus
  <2> QED
    BY <1>5, <1>6, <2>1 DEF RejectMalformed, NothingThere, Conclude, DeadlineExceeded
<1>7. ASSUME NEW r \in Requests, ReadSucceeds(r) PROVE RequestInv'
  <2> DEFINE v == [request[r] EXCEPT !.step = @ + 1]
  <2>1. request[r] \in Request
    BY DEF RequestInv
  <2>2. /\ v \in Request /\ v.type = request[r].type /\ v.step # 0
        /\ v.metClosed = request[r].metClosed /\ v.status = request[r].status
    BY <2>1, SMTT(30), SMTT(60) DEF Request
  <2>3. /\ request' = [request EXCEPT ![r] = v] /\ UNCHANGED <<served, phase, grace>>
        /\ request[r].pc = "running"
    BY <1>7 DEF ReadSucceeds, AtRead
  <2> HIDE DEF v
  <2>4. /\ v.type \in 1 .. Len(served)
        /\ v.metClosed => phase = "closing" /\ grace = ShutdownAfter /\ v.status = "RETRY"
    BY <2>2, <2>3 DEF RequestInv
  <2> QED
    BY <1>3, <2>2, <2>3, <2>4
<1>8. ASSUME NEW r \in Requests, ReadFails(r) PROVE RequestInv'
  <2>1. PICK err \in ReadErrors(r) :
          request' = [request EXCEPT ![r] = [NoRequest EXCEPT !.pc = "answered",
                        !.metClosed = IsClosed(r), !.status = classifyVerifyStatus(err)]]
    BY <1>8 DEF ReadFails
  <2> DEFINE v == [NoRequest EXCEPT !.pc = "answered", !.metClosed = IsClosed(r),
                                    !.status = classifyVerifyStatus(err)]
  <2>2. /\ classifyVerifyStatus(err) \in {"REJECTED", "RETRY"}
        /\ IsClosed(r) => classifyVerifyStatus(err) = "RETRY"
    <3>1. classifyVerifyStatus(err) \in {"REJECTED", "RETRY"}
      BY DEF classifyVerifyStatus
    <3> QED
      BY <3>1, ClosedIsRetried
  <2>3. IsClosed(r) \in BOOLEAN
    BY DEF IsClosed
  <2>4. v \in Request /\ v.pc # "running" /\ v.metClosed = IsClosed(r)
        /\ v.status = classifyVerifyStatus(err)
    BY <2>2, <2>3 DEF NoRequest, Request
  <2> HIDE DEF v
  <2>5. request' = [request EXCEPT ![r] = v] /\ UNCHANGED <<served, phase, grace>> /\ AtRead(r)
    BY <1>8, <2>1 DEF ReadFails, v
  <2>6. v.metClosed => phase = "closing" /\ grace = ShutdownAfter /\ v.status = "RETRY"
    BY <2>2, <2>4, <2>5, OpenUntilClosing
  <2> QED
    BY <1>3, <2>4, <2>5, <2>6
<1>9. CASE Tick
  <2> DEFINE Older(v) == [v EXCEPT !.age = Later(@, WorkTimeout)]
  <2>1. ASSUME NEW v \in Request
        PROVE  /\ Older(v) \in Request /\ Older(v).pc = v.pc /\ Older(v).type = v.type
               /\ Older(v).step = v.step /\ Older(v).metClosed = v.metClosed
               /\ Older(v).status = v.status
    <3>1. Later(v.age, WorkTimeout) \in Nat
      BY LifecycleAssumption DEF Later, Request
    <3> QED
      BY <3>1, SMTT(30), SMTT(60) DEF Request
  <2> HIDE DEF Older
  <2>2. /\ request' = [r \in Requests |-> IF r \in Running THEN Older(request[r]) ELSE request[r]]
        /\ UNCHANGED <<served, phase>> /\ (phase # "draining" => grace' = grace)
    BY <1>9 DEF Tick, Older
  <2>3. ASSUME NEW r \in Requests
        PROVE  /\ request'[r] \in Request /\ request'[r].pc = request[r].pc
               /\ request'[r].type = request[r].type /\ request'[r].step = request[r].step
               /\ request'[r].metClosed = request[r].metClosed
               /\ request'[r].status = request[r].status
    <3>1. request[r] \in Request
      BY DEF RequestInv
    <3> QED
      BY <2>1, <2>2, <3>1
  <2>4. request' \in [Requests -> Request] /\ Running' = Running
    BY <2>2, <2>3 DEF Running
  <2> QED
    BY <2>2, <2>3, <2>4, SMTT(30), SMTT(60) DEF RequestInv
<1>10. CASE CallSucceeds \/ registerVerifier \/ CloseService \/ UNCHANGED vars
  BY <1>1, <1>10 DEF CallSucceeds, registerVerifier, CloseService, vars
<1>11. CASE ListenAndServe \/ Signal \/ ShutdownReturns
  <2>1. UNCHANGED <<served, grace, request>>
    BY <1>11 DEF ListenAndServe, Signal, ShutdownReturns
  <2>2. Running' = Running
    BY <2>1 DEF Running
  <2>3. phase' = "closing" => Running = {} \/ grace = ShutdownAfter
    BY <1>11 DEF ListenAndServe, Signal, ShutdownReturns
  <2>4. phase \in {"loading", "serving", "draining"} /\ phase' \in {"serving", "draining", "closing"}
    BY <1>11 DEF ListenAndServe, Signal, ShutdownReturns
  <2> QED
    BY <2>1, <2>2, <2>3, <2>4 DEF RequestInv
<1>12. CASE ConstructorFails \/ SignalDuringLoad \/ ListenFails \/ Exit
  BY <1>2, <1>12 DEF ConstructorFails, SignalDuringLoad, ListenFails, Exit, Loading
<1> QED
  BY <1>4, <1>6, <1>7, <1>8, <1>9, <1>10, <1>11, <1>12 DEF Next, Step

LEMMA RequestInvInit == Init => RequestInv
  BY SMTT(30), SMTT(60) DEF Init, RequestInv, Request, NoRequest

(* No request loses a connection to the shutdown before the whole grace    *)
(* has passed, and the one that does afterwards is told to retry.          *)
THEOREM GraceIsHonoured == Spec => []ClosedOnlyAfterGrace
<1>1. RequestInv => ClosedOnlyAfterGrace
  BY DEF RequestInv, ClosedOnlyAfterGrace
<1> QED
  BY <1>1, RequestInvInit, RequestInvStep, OpenInvInvariant, PTL DEF Spec
=============================================================================
