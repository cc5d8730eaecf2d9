------------------------ MODULE PaymentStatusProofs -------------------------
(***************************************************************************)
(* PaymentStatus for any rows, requests, accounts, capacity and width.     *)
(***************************************************************************)
EXTENDS PaymentStatus, NonceBinderProofs, WellFoundedInduction

(* The backends of every step that does not name its own: each twice, so   *)
(* that a slow machine costs time and not the proof.                       *)
USE ZenonT(20), SMTT(30), ZenonT(60), SMTT(60)

-----------------------------------------------------------------------------
(***************************************************************************)
(* The rows: what the builder can fail with, and which rows it answers.    *)
(***************************************************************************)

(* A non-empty set of natural numbers has a least element.                 *)
LEMMA MinOfNats ==
    ASSUME NEW S \in SUBSET Nat, S # {}
    PROVE  Min(S) \in S /\ \A y \in S : Min(S) <= y
<1>1. PICK x \in S : \A y \in S : ~ (<<y, x>> \in OpToRel(<, Nat))
  BY NatLessThanWellFounded, WFMin
<1>2. OpToRel(<, Nat) = { ss \in Nat \X Nat : ss[1] < ss[2] }
  BY DEF OpToRel
<1>3. \A y \in S : x <= y
  <2> SUFFICES ASSUME NEW y \in S, y < x PROVE FALSE
    OBVIOUS
  <2>1. <<y, x>> \in { ss \in Nat \X Nat : ss[1] < ss[2] }
    OBVIOUS
  <2> QED
    BY <1>1, <1>2, <2>1
<1> QED
  BY <1>3 DEF Min

(* The first error of a list is one of the list, and nil only if all are.  *)
LEMMA FirstErrorIsOne ==
    ASSUME NEW n \in Nat, NEW errs, DOMAIN errs = 1 .. n
    PROVE  /\ FirstError(errs) = nil \/ \E i \in 1 .. n : FirstError(errs) = errs[i]
           /\ FirstError(errs) = nil => \A i \in 1 .. n : errs[i] = nil
<1> DEFINE failing == { i \in DOMAIN errs : errs[i] # nil }
<1>1. CASE failing = {}
  BY <1>1 DEF FirstError
<1>2. CASE failing # {}
  <2>1. failing \in SUBSET Nat
    BY SMTT(30), SMTT(60)
  <2>2. Min(failing) \in failing
    BY <1>2, <2>1, MinOfNats
  <2> QED
    BY <1>2, <2>2 DEF FirstError
<1> QED
  BY <1>1, <1>2

RowErrors == {nil, Untagged, ErrDatabase}

(* A list of row errors gives a row error.                                 *)
LEMMA FirstOfRowErrors ==
    ASSUME NEW n \in Nat, NEW errs, DOMAIN errs = 1 .. n, \A i \in 1 .. n : errs[i] \in RowErrors
    PROVE  FirstError(errs) \in RowErrors
  BY FirstErrorIsOne DEF RowErrors

(* Metadata is refused as corrupt, never as a verdict.                     *)
LEMMA MetadataErrors ==
    ASSUME NEW nodes, Len(nodes) \in Nat, DOMAIN nodes = 1 .. Len(nodes)
    PROVE  ReceivedAmountError(nodes) \in RowErrors
<1>1. ASSUME NEW node PROVE NodeError(node) \in RowErrors
  <2> DEFINE errs == [i \in DOMAIN Balances(node) |-> BalanceError(Balances(node)[i])]
  <2>1. \E n \in Nat : DOMAIN errs = 1 .. n
    <3>1. DOMAIN Balances(node) = 1 .. 1 \/ DOMAIN Balances(node) = 1 .. 2
      BY DEF Balances
    <3> QED
      BY <3>1
  <2>2. \A i \in DOMAIN errs : errs[i] \in RowErrors
    BY DEF BalanceError, When, RowErrors
  <2>3. FirstError(errs) \in RowErrors
    BY <2>1, <2>2, FirstOfRowErrors
  <2> QED
    BY <2>3 DEF NodeError, RowErrors
<1> DEFINE errs == [i \in DOMAIN nodes |-> NodeError(nodes[i])]
<1>2. DOMAIN errs = 1 .. Len(nodes) /\ \A i \in 1 .. Len(nodes) : errs[i] \in RowErrors
  BY <1>1
<1>3. FirstError(errs) \in RowErrors
  BY <1>2, FirstOfRowErrors
<1> QED
  BY <1>3 DEF ReceivedAmountError

(* The rows that pass every check of the builder.                          *)
Sound(msg, tx) ==
    /\ tx.type = "Payment" /\ ~ msg.token /\ tx.defect # "badHash"
    /\ getTransactionStatus(tx.result) # "none" /\ ~ (tx.fee < 0)
    /\ \A v \in {msg.amount, msg.maxFee, tx.fee} : checkDropsBound(v) = nil
    /\ ReceivedAmountError(tx.nodes) = nil

(* The builder fails with a row error, or its rows are sound.              *)
LEMMA BuildErrors ==
    ASSUME NEW msg, NEW tx, Len(tx.nodes) \in Nat, DOMAIN tx.nodes = 1 .. Len(tx.nodes)
    PROVE  /\ BuildError(msg, tx) \in RowErrors
           /\ BuildError(msg, tx) = nil => Sound(msg, tx)
<1> DEFINE errs == <<
        When(tx.type # "Payment", Untagged),
        When(msg.token, Untagged),
        checkDropsBound(msg.amount),
        checkDropsBound(msg.maxFee),
        When(getTransactionStatus(tx.result) = "none", ErrDatabase),
        When(tx.fee < 0, Untagged),
        checkDropsBound(tx.fee),
        When(tx.defect = "badHash", Untagged),
        ReceivedAmountError(tx.nodes) >>
<1>1. DOMAIN errs = 1 .. 9
  OBVIOUS
<1>2. ASSUME NEW cond PROVE When(cond, Untagged) \in RowErrors /\ When(cond, ErrDatabase) \in RowErrors
  BY DEF When, RowErrors
<1>3. ASSUME NEW v PROVE checkDropsBound(v) \in RowErrors
  BY <1>2 DEF checkDropsBound
<1>4. ReceivedAmountError(tx.nodes) \in RowErrors
  BY MetadataErrors
<1>5. \A i \in 1 .. 9 : errs[i] \in RowErrors
  <2>1. errs[1] \in RowErrors /\ errs[2] \in RowErrors /\ errs[5] \in RowErrors
        /\ errs[6] \in RowErrors /\ errs[8] \in RowErrors
    BY <1>2
  <2>2. errs[3] \in RowErrors /\ errs[4] \in RowErrors /\ errs[7] \in RowErrors
    BY <1>3
  <2>3. errs[9] \in RowErrors
    BY <1>4
  <2>4. \A i \in 1 .. 9 : i = 1 \/ i = 2 \/ i = 3 \/ i = 4 \/ i = 5 \/ i = 6 \/ i = 7 \/ i = 8 \/ i = 9
    OBVIOUS
  <2> HIDE DEF errs
  <2> QED
    BY <2>1, <2>2, <2>3, <2>4
<1>6. /\ errs[1] = When(tx.type # "Payment", Untagged) /\ errs[2] = When(msg.token, Untagged)
      /\ errs[3] = checkDropsBound(msg.amount) /\ errs[4] = checkDropsBound(msg.maxFee)
      /\ errs[5] = When(getTransactionStatus(tx.result) = "none", ErrDatabase)
      /\ errs[6] = When(tx.fee < 0, Untagged) /\ errs[7] = checkDropsBound(tx.fee)
      /\ errs[8] = When(tx.defect = "badHash", Untagged) /\ errs[9] = ReceivedAmountError(tx.nodes)
  OBVIOUS
<1>7. BuildError(msg, tx) = FirstError(errs)
  BY DEF BuildError
<1> HIDE DEF errs
<1>8. FirstError(errs) \in RowErrors
  BY <1>1, <1>5, FirstOfRowErrors
<1>9. ASSUME FirstError(errs) = nil PROVE Sound(msg, tx)
  <2>1. 9 \in Nat
    OBVIOUS
  <2>2. \A i \in 1 .. 9 : errs[i] = nil
    BY <1>1, <1>9, <2>1, FirstErrorIsOne
  <2>3. /\ errs[1] = nil /\ errs[2] = nil /\ errs[3] = nil /\ errs[4] = nil /\ errs[5] = nil
        /\ errs[6] = nil /\ errs[7] = nil /\ errs[8] = nil /\ errs[9] = nil
    BY <2>2
  <2>4. Untagged # nil /\ ErrDatabase # nil
    BY DEF Untagged, ErrDatabase, Wrap, nil
  <2> QED
    BY <1>6, <2>3, <2>4 DEF When, Sound
<1> QED
  BY <1>7, <1>8, <1>9

(* The builder's answer is an error on its own that is a row error, or a   *)
(* response of sound rows.                                                 *)
LEMMA ResponseOrError ==
    ASSUME NEW msg, NEW tx, Len(tx.nodes) \in Nat, DOMAIN tx.nodes = 1 .. Len(tx.nodes),
           NEW received, received = FindReceivedAmountForAddress(tx.nodes, NormalizeAddress(msg.recipient))
    PROVE  \/ \E err \in RowErrors \ {nil} : BuildPaymentStatusResponse(msg, tx) = [err |-> err]
           \/ /\ Sound(msg, tx) /\ ~ ExceedsMaxXRPDrops(received)
              /\ BuildPaymentStatusResponse(msg, tx) =
                   [err |-> nil, amount |-> msg.amount, maxFee |-> msg.maxFee,
                    status |-> getTransactionStatus(tx.result), received |-> received, fee |-> tx.fee]
<1> DEFINE over == When(ExceedsMaxXRPDrops(received), ErrDatabase)
           errs == << BuildError(msg, tx), over >>
<1>1. BuildError(msg, tx) \in RowErrors /\ (BuildError(msg, tx) = nil => Sound(msg, tx))
  BY BuildErrors
<1>2. over \in RowErrors /\ (over = nil => ~ ExceedsMaxXRPDrops(received))
  BY DEF When, RowErrors, ErrDatabase, Wrap, nil
<1> HIDE DEF over
<1>3. DOMAIN errs = 1 .. 2 /\ errs[1] = BuildError(msg, tx) /\ errs[2] = over /\ \A i \in 1 .. 2 : errs[i] \in RowErrors
  BY <1>1, <1>2
<1>4. BuildPaymentStatusResponse(msg, tx) =
        IF FirstError(errs) # nil THEN [err |-> FirstError(errs)]
        ELSE [err |-> nil, amount |-> msg.amount, maxFee |-> msg.maxFee,
              status |-> getTransactionStatus(tx.result), received |-> received, fee |-> tx.fee]
  BY DEF BuildPaymentStatusResponse, over
<1> HIDE DEF errs
<1>5. FirstError(errs) \in RowErrors /\ (FirstError(errs) = nil => errs[1] = nil /\ errs[2] = nil)
  <2>1. 2 \in Nat /\ 1 \in 1 .. 2 /\ 2 \in 1 .. 2
    OBVIOUS
  <2>2. FirstError(errs) \in RowErrors
    BY <1>3, <2>1, FirstOfRowErrors
  <2>3. FirstError(errs) = nil => \A i \in 1 .. 2 : errs[i] = nil
    BY <1>3, <2>1, FirstErrorIsOne
  <2> QED
    BY <2>1, <2>2, <2>3
<1>6. CASE FirstError(errs) # nil
  BY <1>4, <1>5, <1>6
<1>7. CASE FirstError(errs) = nil
  BY <1>1, <1>2, <1>3, <1>4, <1>5, <1>7
<1> QED
  BY <1>6, <1>7

(* The balances of metadata that passes the checks are within the supply.  *)
LEMMA SoundBalances ==
    ASSUME NEW nodes, Metadata(nodes), ReceivedAmountError(nodes) = nil,
           NEW i \in DOMAIN nodes, Counts(nodes[i])
    PROVE  nodes[i].final \in 0 .. MaxXRPDrops /\ nodes[i].previous \in 0 .. MaxXRPDrops
<1> DEFINE errs == [j \in DOMAIN nodes |-> NodeError(nodes[j])]
           bs == Balances(nodes[i])
           berrs == [j \in DOMAIN bs |-> BalanceError(bs[j])]
<1>1. /\ Len(nodes) \in Nat /\ DOMAIN nodes = 1 .. Len(nodes)
      /\ nodes[i].final \in Int \cup {Null} /\ nodes[i].previous \in Int \cup {Null}
      /\ nodes[i].kind = "created" => nodes[i].previous = 0
  BY DEF Metadata
<1>2. NodeError(nodes[i]) = nil
  <2>1. DOMAIN errs = 1 .. Len(nodes) /\ errs[i] = NodeError(nodes[i]) /\ FirstError(errs) = nil
    BY <1>1 DEF ReceivedAmountError
  <2> HIDE DEF errs
  <2> QED
    BY <1>1, <2>1, FirstErrorIsOne
<1>3. FirstError(berrs) = nil
  BY <1>2 DEF NodeError
<1>4. ASSUME NEW b \in Int, BalanceError(b) = nil PROVE b \in 0 .. MaxXRPDrops
  <2>1. Untagged # nil /\ ErrDatabase # nil
    BY DEF Untagged, ErrDatabase, Wrap, nil
  <2>2. ~ (b < 0) /\ ~ (b > MaxXRPDrops)
    BY <1>4, <2>1 DEF BalanceError, When, ExceedsMaxXRPDrops
  <2> QED
    BY <2>2, RowsAssumption
<1>5. CASE nodes[i].kind = "created"
  <2>1. bs = <<nodes[i].final>>
    BY <1>5 DEF Balances
  <2>2. DOMAIN bs = 1 .. 1 /\ bs[1] = nodes[i].final /\ 1 \in 1 .. 1 /\ 1 \in Nat
    BY <2>1
  <2> HIDE DEF bs
  <2>3. DOMAIN berrs = 1 .. 1 /\ berrs[1] = BalanceError(nodes[i].final)
    BY <2>2
  <2> HIDE DEF berrs
  <2>4. berrs[1] = nil
    BY <1>3, <2>2, <2>3, FirstErrorIsOne
  <2>5. nodes[i].final # Null
    BY <2>2 DEF Counts, bs
  <2>6. 0 \in 0 .. MaxXRPDrops
    BY RowsAssumption
  <2> QED
    BY <1>1, <1>4, <1>5, <2>3, <2>4, <2>5, <2>6
<1>6. CASE nodes[i].kind # "created"
  <2>1. bs = <<nodes[i].final, nodes[i].previous>>
    BY <1>6 DEF Balances
  <2>2. /\ DOMAIN bs = 1 .. 2 /\ bs[1] = nodes[i].final /\ bs[2] = nodes[i].previous
        /\ 1 \in 1 .. 2 /\ 2 \in 1 .. 2 /\ 2 \in Nat
    BY <2>1
  <2> HIDE DEF bs
  <2>3. /\ DOMAIN berrs = 1 .. 2 /\ berrs[1] = BalanceError(nodes[i].final)
        /\ berrs[2] = BalanceError(nodes[i].previous)
    BY <2>2
  <2> HIDE DEF berrs
  <2>4. berrs[1] = nil /\ berrs[2] = nil
    BY <1>3, <2>2, <2>3, FirstErrorIsOne
  <2>5. nodes[i].final # Null /\ nodes[i].previous # Null
    BY <2>2 DEF Counts, bs
  <2> QED
    BY <1>1, <1>4, <2>3, <2>4, <2>5
<1> QED
  BY <1>5, <1>6

(* The larger of zero and a number.                                        *)
LEMMA MaxWithZero ==
    \A g \in Int : (g >= 0 => Max({0, g}) = g) /\ (g <= 0 => Max({0, g}) = 0)
<1> SUFFICES ASSUME NEW g \in Int
             PROVE  (g >= 0 => Max({0, g}) = g) /\ (g <= 0 => Max({0, g}) = 0)
  OBVIOUS
<1>1. \E x \in {0, g} : \A y \in {0, g} : x >= y
  BY SMTT(30), SMTT(60)
<1>2. Max({0, g}) \in {0, g} /\ \A y \in {0, g} : Max({0, g}) >= y
  BY <1>1 DEF Max
<1> QED
  BY <1>2

(* What FindReceivedAmountForAddress finds in sound metadata is the gain   *)
(* of the account's root.                                                  *)
LEMMA FoundIsGain ==
    ASSUME NEW nodes, Metadata(nodes), ReceivedAmountError(nodes) = nil, NEW account, NEW received,
           received = FindReceivedAmountForAddress(nodes, account)
    PROVE  LET mine == { i \in Roots(nodes) : nodes[i].account = account }
           IN  /\ received \in Nat
               /\ mine = {} => received = 0
               /\ \A i \in mine : received = Max({0, nodes[i].final - nodes[i].previous})
               /\ \A i \in Roots(nodes) : {nodes[i].final, nodes[i].previous} \subseteq 0 .. MaxXRPDrops
<1> DEFINE mine == { i \in Roots(nodes) : nodes[i].account = account }
           found == { i \in DOMAIN nodes : Received(nodes[i]) /\ nodes[i].account = account }
<1>1. DOMAIN nodes \subseteq Nat
  BY SMTT(30), SMTT(60) DEF Metadata
<1>2. ASSUME NEW i \in DOMAIN nodes PROVE i \in Roots(nodes) <=> Counts(nodes[i])
  <2>1. /\ nodes[i].kind \in {"modified", "created", "deleted"}
        /\ nodes[i].kind = "created" => nodes[i].previous = 0
    BY DEF Metadata
  <2>2. CASE nodes[i].kind = "created"
    <3>1. Balances(nodes[i]) = <<nodes[i].final>>
      BY <2>2 DEF Balances
    <3>2. (\A j \in DOMAIN Balances(nodes[i]) : Balances(nodes[i])[j] # Null) <=> nodes[i].final # Null
      BY <3>1
    <3>3. nodes[i].previous # Null
      BY <2>1, <2>2, RowsAssumption
    <3> QED
      BY <2>2, <3>2, <3>3 DEF Counts, Roots
  <2>3. CASE nodes[i].kind # "created"
    <3>1. Balances(nodes[i]) = <<nodes[i].final, nodes[i].previous>>
      BY <2>3 DEF Balances
    <3>2. (\A j \in DOMAIN Balances(nodes[i]) : Balances(nodes[i])[j] # Null)
             <=> nodes[i].final # Null /\ nodes[i].previous # Null
      BY <3>1
    <3> QED
      BY <2>1, <2>3, <3>2 DEF Counts, Roots
  <2> QED
    BY <2>2, <2>3
<1>3. ASSUME NEW i \in Roots(nodes)
      PROVE  nodes[i].final \in 0 .. MaxXRPDrops /\ nodes[i].previous \in 0 .. MaxXRPDrops
  BY <1>2, <1>3, SoundBalances DEF Roots
<1>4. \A i \in DOMAIN nodes : nodes[i].kind = "created" => nodes[i].previous = 0
  BY DEF Metadata
<1>5. ASSUME NEW i \in Roots(nodes)
      PROVE  LET gain == nodes[i].final - nodes[i].previous
             IN  /\ gain \in Int /\ Gain(nodes[i]) = gain
                 /\ Received(nodes[i]) => gain >= 0
                 /\ ~ Received(nodes[i]) => gain <= 0
  <2>1. i \in DOMAIN nodes /\ Counts(nodes[i])
    BY <1>2 DEF Roots
  <2>2. nodes[i].final \in Nat /\ nodes[i].previous \in Nat
    BY <1>3, RowsAssumption
  <2>3. CASE nodes[i].kind = "created"
    BY <1>4, <2>1, <2>2, <2>3 DEF Gain, Received
  <2>4. CASE nodes[i].kind # "created"
    BY <2>1, <2>2, <2>4 DEF Gain, Received
  <2> QED
    BY <2>3, <2>4
<1>6. found \subseteq mine
  BY <1>2 DEF Received
<1>7. \A i, j \in mine : i = j
  BY DEF Metadata, Roots
<1>8. received = IF found = {} THEN 0 ELSE Gain(nodes[Min(found)])
  BY DEF FindReceivedAmountForAddress
<1>9. CASE found = {}
  <2>1. ASSUME NEW i \in mine PROVE received = Max({0, nodes[i].final - nodes[i].previous})
    <3>1. i \in Roots(nodes) /\ ~ Received(nodes[i])
      BY <1>9 DEF Roots
    <3> QED
      BY <1>5, <1>8, <1>9, <3>1, MaxWithZero
  <2> QED
    BY <1>3, <1>8, <1>9, <2>1
<1>10. CASE found # {}
  <2> DEFINE m == Min(found)
  <2>1. m \in found
    BY <1>1, <1>10, MinOfNats
  <2>2. m \in mine /\ m \in Roots(nodes) /\ Received(nodes[m])
    BY <1>6, <2>1
  <2>3. received = nodes[m].final - nodes[m].previous
    BY <1>5, <1>8, <1>10, <2>2
  <2>4. received \in Int /\ received >= 0
    BY <1>5, <2>2, <2>3
  <2>5. Max({0, received}) = received
    BY <2>4, MaxWithZero
  <2>6. \A i \in mine : received = Max({0, nodes[i].final - nodes[i].previous})
    BY <1>7, <2>2, <2>3, <2>5
  <2> QED
    BY <1>3, <2>2, <2>4, <2>6
<1> QED
  BY <1>9, <1>10

-----------------------------------------------------------------------------
(***************************************************************************)
(* The requests, and the binder they share.                                *)
(***************************************************************************)

(* The requests of the service use the binder as it is meant to be used:   *)
(* every step of the service is a step of the binder or leaves it alone.   *)
THEOREM ServiceRunsBinder == ServiceSpec => Spec
<1>1. ServiceInit => Init
  BY DEF ServiceInit
<1>2. [ServiceNext]_allVars => [Next]_vars
  <2>1. ASSUME NEW r \in Requests, Request(r) PROVE [Next]_vars
    BY <2>1 DEF Request, Verify, FetchInstructionLog, CallBinder, BinderStep, BinderReturns,
                FetchTransaction, Next, Step
  <2>2. ASSUME NEW b, IndexEvent(b) PROVE UNCHANGED vars
    BY <2>2 DEF IndexEvent
  <2>3. ASSUME NEW q, IndexTransaction(q) PROVE UNCHANGED vars
    BY <2>3 DEF IndexTransaction
  <2>4. ASSUME UNCHANGED allVars PROVE UNCHANGED vars
    BY <2>4 DEF allVars
  <2> QED
    BY <2>1, <2>2, <2>3, <2>4 DEF ServiceNext
<1> QED
  BY <1>1, <1>2, PTL DEF ServiceSpec, Spec

(* The service accepts only the sequence the contract assigns: the binder's*)
(* theorem holds of the binder its requests share.                         *)
THEOREM ServiceBindsSequence == ServiceSpec => []AcceptedIsAssigned
  BY ServiceRunsBinder, OnlyAssignedAccepted, PTL

-----------------------------------------------------------------------------
Stages == {"idle", "FetchInstructionLog", "VerifySequence", "binder", "FetchTransaction", "answered"}

(* The indexes hold rows of the known kinds, and the requests' variables   *)
(* are functions.                                                          *)
Shape ==
    /\ scenario \in Scenarios
    /\ events = [b \in DOMAIN events |-> events[b]]
    /\ txs = [q \in DOMAIN txs |-> txs[q]]
    /\ Bodies[scenario] \subseteq DOMAIN events
    /\ \A b \in DOMAIN events : \A row \in EventRows[scenario][b] \cup ({events[b]} \ {Null}) :
          EventRow(b, row, DOMAIN txs)
    /\ \A q \in DOMAIN txs : \A tx \in TransactionRows[scenario][q] \cup ({txs[q]} \ {Null}) :
          TransactionRow(tx)
    /\ stage \in [Requests -> Stages]
    /\ body \in [Requests -> Bodies[scenario] \cup {None}]
    /\ message = [r \in Requests |-> message[r]]
    /\ answer = [r \in Requests |-> answer[r]]

(* What a request has established when it is about to make its next call:  *)
(* its message is the event the index still has, the binder was asked      *)
(* about it, and the sequence it queries is one the binder accepted.       *)
Established ==
    \A r \in Requests :
        /\ stage[r] = "idle" => body[r] = None
        /\ stage[r] # "idle" => body[r] \in Bodies[scenario]
        /\ stage[r] # "answered" => answer[r] = None
        /\ stage[r] \in {"VerifySequence", "binder", "FetchTransaction"} =>
              message[r] = events[body[r]] /\ message[r] # Null /\ message[r].defect = "none"
        /\ stage[r] \in {"binder", "FetchTransaction"} => arg[r] = Question(r)
        /\ stage[r] = "FetchTransaction" => pc[r] = "done" /\ verdict[r] = nil

(* An empty service satisfies the invariant.                               *)
LEMMA EstablishedInit == ServiceInit => Shape /\ Established
<1> SUFFICES ASSUME ServiceInit PROVE Shape /\ Established
  OBVIOUS
<1>1. PICK index \in Indexed[scenario] : events = index.events /\ txs = index.txs
  BY DEF ServiceInit
<1>2. scenario \in Scenarios
  BY DEF ServiceInit
<1>3. /\ Bodies[scenario] \subseteq DOMAIN events
      /\ events = [b \in DOMAIN events |-> events[b]]
      /\ txs = [q \in DOMAIN txs |-> txs[q]]
      /\ \A b \in DOMAIN events : \A row \in EventRows[scenario][b] \cup ({events[b]} \ {Null}) :
            EventRow(b, row, DOMAIN txs)
      /\ \A q \in DOMAIN txs : \A tx \in TransactionRows[scenario][q] \cup ({txs[q]} \ {Null}) :
            TransactionRow(tx)
  BY <1>1, <1>2, PaymentStatusAssumption
<1>4. Shape
  BY <1>2, <1>3 DEF ServiceInit, Shape, Stages
<1>5. Established
  BY DEF ServiceInit, Established
<1> QED
  BY <1>4, <1>5

(* A binder step of one request leaves the others' questions and verdicts. *)
LEMMA BinderStepsAreSeparate ==
    ASSUME TypeOK, NEW r \in Requests, Step(r)
    PROVE  \A q \in Requests \ {r} : arg'[q] = arg[q] /\ pc'[q] = pc[q] /\ verdict'[q] = verdict[q]
  BY DEF TypeOK, Step, VerifySequence, cachedNonce, initialNonce, Store, Decide

(* A row that is found, converted and decoded is there and sound.          *)
LEMMA SoundEvent ==
    ASSUME Shape, NEW b \in Bodies[scenario], NEW fault,
           FetchInstructionLogError(events[b], fault) = nil, DecodeError(events[b]) = nil
    PROVE  events[b] # Null /\ events[b].defect = "none"
<1>1. ErrDatabase # nil /\ ErrDataSource # nil /\ Untagged # nil /\ ErrRecordNotFound # nil
      /\ Wrap({"ErrDatabase"}, fault) # nil
  BY DEF ErrDatabase, ErrDataSource, ErrRecordNotFound, Untagged, Wrap, nil
<1>2. events[b] # Null
  BY <1>1 DEF FetchInstructionLogError
<1>3. b \in DOMAIN events /\ events[b] \in {events[b]} \ {Null}
  BY <1>2 DEF Shape
<1>4. events[b].defect \in EventDefects
  BY <1>3 DEF Shape, EventRow
<1>5. events[b].defect \notin {"duplicate", "unconvertible"}
  BY <1>1, <1>2, <1>4 DEF FetchInstructionLogError, EventDefects
<1>6. events[b].defect \notin {"undecodable", "foreign"}
  BY <1>1, <1>4 DEF DecodeError, EventDefects
<1> QED
  BY <1>2, <1>4, <1>5, <1>6 DEF EventDefects

(* A request's own step keeps the invariant.                               *)
LEMMA RequestEstablishes ==
    ASSUME TypeOK, Shape, Established, NEW r \in Requests, Request(r)
    PROVE  Shape' /\ Established'
<1>1. CASE Verify(r)
  <2>1. PICK b \in Bodies[scenario] : body' = [body EXCEPT ![r] = b]
    BY <1>1 DEF Verify
  <2>2. /\ stage[r] = "idle" /\ stage' = [stage EXCEPT ![r] = "FetchInstructionLog"]
        /\ UNCHANGED <<vars, indexVars, message, answer>>
    BY <1>1 DEF Verify, At, GoTo
  <2>3. Shape'
    BY <2>1, <2>2 DEF Shape, Stages, indexVars
  <2>4. Established'
    BY <2>1, <2>2 DEF Shape, Established, Question, indexVars, vars
  <2> QED
    BY <2>3, <2>4
<1>2. CASE FetchInstructionLog(r)
  <2> DEFINE row == events[body[r]]
  <2>1. /\ stage[r] = "FetchInstructionLog" /\ UNCHANGED <<vars, indexVars, body>>
        /\ body[r] \in Bodies[scenario]
    BY <1>2 DEF FetchInstructionLog, At, Established
  <2>2. \/ \E a : /\ answer' = [answer EXCEPT ![r] = a]
                   /\ stage' = [stage EXCEPT ![r] = "answered"] /\ UNCHANGED message
        \/ /\ \E fault : FetchInstructionLogError(row, fault) = nil
           /\ DecodeError(row) = nil
           /\ message' = [message EXCEPT ![r] = row]
           /\ stage' = [stage EXCEPT ![r] = "VerifySequence"] /\ UNCHANGED answer
    BY <1>2 DEF FetchInstructionLog, Return, GoTo
  <2>3. CASE \E a : /\ answer' = [answer EXCEPT ![r] = a]
                    /\ stage' = [stage EXCEPT ![r] = "answered"] /\ UNCHANGED message
    <3>1. Shape'
      BY <2>1, <2>3 DEF Shape, Stages, indexVars
    <3>2. Established'
      BY <2>1, <2>3, SMTT(30), SMTT(60) DEF Shape, Established, Question, indexVars, vars
    <3> QED
      BY <3>1, <3>2
  <2>4. CASE /\ \E fault : FetchInstructionLogError(row, fault) = nil
             /\ DecodeError(row) = nil
             /\ message' = [message EXCEPT ![r] = row]
             /\ stage' = [stage EXCEPT ![r] = "VerifySequence"] /\ UNCHANGED answer
    <3>1. row # Null /\ row.defect = "none"
      BY <2>1, <2>4, SoundEvent
    <3>2. Shape'
      BY <2>1, <2>4 DEF Shape, Stages, indexVars
    <3>3. Established'
      BY <2>1, <2>4, <3>1 DEF Shape, Established, Question, indexVars, vars
    <3> QED
      BY <3>2, <3>3
  <2> QED
    BY <2>2, <2>3, <2>4
<1>3. CASE CallBinder(r)
  <2>1. /\ stage[r] = "VerifySequence" /\ stage' = [stage EXCEPT ![r] = "binder"]
        /\ VerifySequence(r) /\ arg'[r] = Question(r)
        /\ UNCHANGED <<indexVars, body, message, answer>>
    BY <1>3 DEF CallBinder, At, GoTo
  <2>2. \A q \in Requests \ {r} : arg'[q] = arg[q] /\ pc'[q] = pc[q] /\ verdict'[q] = verdict[q]
    BY <2>1, BinderStepsAreSeparate DEF Step
  <2>3. Shape'
    BY <2>1 DEF Shape, Stages, indexVars
  <2>4. Established'
    BY <2>1, <2>2, SMTT(30), SMTT(60) DEF Shape, Established, Question, indexVars
  <2> QED
    BY <2>3, <2>4
<1>4. CASE BinderStep(r)
  <2>1. /\ stage[r] = "binder" /\ Step(r) /\ UNCHANGED <<indexVars, requestVars, arg>>
    BY <1>4 DEF BinderStep, At, Step, cachedNonce, initialNonce, Store
  <2>2. \A q \in Requests \ {r} : arg'[q] = arg[q] /\ pc'[q] = pc[q] /\ verdict'[q] = verdict[q]
    BY <2>1, BinderStepsAreSeparate
  <2>3. Shape'
    BY <2>1 DEF Shape, indexVars, requestVars
  <2>4. Established'
    BY <2>1, <2>2 DEF Shape, Established, Question, indexVars, requestVars
  <2> QED
    BY <2>3, <2>4
<1>5. CASE BinderReturns(r)
  <2>1. /\ stage[r] = "binder" /\ pc[r] = "done" /\ UNCHANGED <<vars, indexVars, body, message>>
    BY <1>5 DEF BinderReturns, At
  <2>2. \/ verdict[r] = nil /\ stage' = [stage EXCEPT ![r] = "FetchTransaction"] /\ UNCHANGED answer
        \/ \E a : answer' = [answer EXCEPT ![r] = a] /\ stage' = [stage EXCEPT ![r] = "answered"]
    BY <1>5 DEF BinderReturns, Return, GoTo
  <2>3. Shape'
    BY <2>1, <2>2 DEF Shape, Stages, indexVars
  <2>4. Established'
    BY <2>1, <2>2, SMTT(30), SMTT(60) DEF Shape, Established, Question, indexVars, vars
  <2> QED
    BY <2>3, <2>4
<1>6. CASE FetchTransaction(r)
  <2>1. /\ stage[r] = "FetchTransaction" /\ UNCHANGED <<vars, indexVars, body, message>>
    BY <1>6 DEF FetchTransaction, At
  <2>2. \E a : answer' = [answer EXCEPT ![r] = a] /\ stage' = [stage EXCEPT ![r] = "answered"]
    BY <1>6 DEF FetchTransaction, Return, GoTo
  <2>3. Shape'
    BY <2>1, <2>2 DEF Shape, Stages, indexVars
  <2>4. Established'
    BY <2>1, <2>2, SMTT(30), SMTT(60) DEF Shape, Established, Question, indexVars, vars
  <2> QED
    BY <2>3, <2>4
<1> QED
  BY <1>1, <1>2, <1>3, <1>4, <1>5, <1>6 DEF Request

(* An indexer writes a row that no request has read.                       *)
LEMMA IndexersKeepEstablished ==
    ASSUME Shape, Established,
           \/ \E b \in DOMAIN events : IndexEvent(b)
           \/ \E q \in DOMAIN txs : IndexTransaction(q)
    PROVE  Shape' /\ Established'
<1>1. ASSUME NEW b \in DOMAIN events, IndexEvent(b) PROVE Shape' /\ Established'
  <2>1. PICK row \in EventRows[scenario][b] : events' = [events EXCEPT ![b] = row]
    BY <1>1 DEF IndexEvent
  <2>2. events[b] = Null /\ UNCHANGED <<vars, scenario, txs, requestVars>>
    BY <1>1 DEF IndexEvent
  <2>3. /\ DOMAIN events' = DOMAIN events /\ events'[b] = row
        /\ \A c \in DOMAIN events \ {b} : events'[c] = events[c]
    BY <2>1 DEF Shape
  <2>4. \A c \in DOMAIN events : \A e \in EventRows[scenario][c] \cup ({events'[c]} \ {Null}) :
          EventRow(c, e, DOMAIN txs)
    BY <2>3 DEF Shape
  <2>5. Shape'
    BY <2>1, <2>2, <2>3, <2>4 DEF Shape, requestVars
  <2>6. Established'
    BY <2>2, <2>3, SMTT(30), SMTT(60) DEF Shape, Established, Question, requestVars, vars
  <2> QED
    BY <2>5, <2>6
<1>2. ASSUME NEW q \in DOMAIN txs, IndexTransaction(q) PROVE Shape' /\ Established'
  <2>1. PICK tx \in TransactionRows[scenario][q] : txs' = [txs EXCEPT ![q] = tx]
    BY <1>2 DEF IndexTransaction
  <2>2. UNCHANGED <<vars, scenario, events, requestVars>>
    BY <1>2 DEF IndexTransaction
  <2>3. /\ DOMAIN txs' = DOMAIN txs /\ txs'[q] = tx
        /\ \A c \in DOMAIN txs \ {q} : txs'[c] = txs[c]
    BY <2>1 DEF Shape
  <2>4. \A c \in DOMAIN txs : \A t \in TransactionRows[scenario][c] \cup ({txs'[c]} \ {Null}) :
          TransactionRow(t)
    BY <2>3 DEF Shape
  <2>5. Shape'
    BY <2>1, <2>2, <2>3, <2>4 DEF Shape, requestVars
  <2>6. Established'
    BY <2>2 DEF Established, Question, requestVars, vars
  <2> QED
    BY <2>5, <2>6
<1> QED
  BY <1>1, <1>2

(* Every step of the service keeps the invariant.                          *)
LEMMA ServiceStepEstablishes ==
    TypeOK /\ Shape /\ Established /\ [ServiceNext]_allVars => Shape' /\ Established'
<1> SUFFICES ASSUME TypeOK, Shape, Established, [ServiceNext]_allVars PROVE Shape' /\ Established'
  OBVIOUS
<1>1. CASE \E r \in Requests : Request(r)
  BY <1>1, RequestEstablishes
<1>2. CASE \/ \E b \in DOMAIN events : IndexEvent(b)
           \/ \E q \in DOMAIN txs : IndexTransaction(q)
  BY <1>2, IndexersKeepEstablished
<1>3. CASE UNCHANGED allVars
  BY <1>3 DEF allVars, indexVars, requestVars, vars, Shape, Established, Question
<1> QED
  BY <1>1, <1>2, <1>3 DEF ServiceNext

-----------------------------------------------------------------------------
(***************************************************************************)
(* PaymentStatus implements PaymentOracle.                                 *)
(***************************************************************************)

(* The oracle's errors and its classifier are the service's.               *)
LEMMA SameClassifier ==
    /\ Oracle!nil = nil /\ Oracle!ErrRecordNotFound = ErrRecordNotFound
    /\ \A err : Oracle!classifyVerifyStatus(err) = classifyVerifyStatus(err)
<1>1. Oracle!nil = nil /\ Oracle!ErrRecordNotFound = ErrRecordNotFound
  BY DEF Oracle!nil, nil, Oracle!ErrRecordNotFound, ErrRecordNotFound, Oracle!Wrap, Wrap
<1>2. Oracle!TerminalSentinels = TerminalSentinels
  BY DEF Oracle!TerminalSentinels, TerminalSentinels
<1>3. ASSUME NEW err PROVE Oracle!classifyVerifyStatus(err) = classifyVerifyStatus(err)
  BY <1>2 DEF Oracle!classifyVerifyStatus, classifyVerifyStatus, Oracle!IsAny, IsAny, Oracle!Is, Is
<1> QED
  BY <1>1, <1>3

(* What the rows and the binder fail with is no verdict.                   *)
LEMMA FailuresAreNoVerdict ==
    \A err \in {Untagged, ErrDatabase, ErrDataSource} :
        err # nil /\ classifyVerifyStatus(err) = "RETRY"
<1>1. \A err \in {Untagged, ErrDatabase, ErrDataSource} :
        err \cap (TerminalSentinels \cup {"ErrTEEDataValidation", "ErrInvalidInput"}) = {} /\ err # nil
  BY DEF Untagged, ErrDatabase, ErrDataSource, Wrap, nil, TerminalSentinels
<1> QED
  BY <1>1 DEF classifyVerifyStatus, IsAny, Is

(* A failed query is an error.                                             *)
LEMMA FaultIsError ==
    /\ ErrRecordNotFound # nil
    /\ \A fault : Wrap({"ErrDatabase"}, fault) # nil
  BY DEF ErrRecordNotFound, Wrap, nil

(* An open request that is told an error which is no verdict asks again.   *)
LEMMA ErrorAsksAgain ==
    ASSUME Shape, Established, NEW r \in Requests, stage[r] \notin {"idle", "answered"},
           NEW err, err # nil, classifyVerifyStatus(err) = "RETRY",
           Return(r, [err |-> err]), UNCHANGED <<events, txs, body>>
    PROVE  [Oracle!Next]_Oracle!vars
<1>1. body[r] # None /\ answer[r] = None
  BY PaymentStatusAssumption DEF Shape, Established
<1>2. answer' = [answer EXCEPT ![r] = [err |-> err]] /\ answer'[r] = [err |-> err]
  BY DEF Return, Shape
<1>3. CASE [err |-> err] # None
  <2>1. DOMAIN answer'[r] = {"err"} /\ answer'[r].err = err /\ answer'[r] # None
    BY <1>2, <1>3
  <2>2. Oracle!classifyVerifyStatus(err) = "RETRY" /\ err # Oracle!nil
    BY SameClassifier
  <2>3. Oracle!AskAgain(r)
    BY <1>1, <1>2, <2>1, <2>2 DEF Oracle!AskAgain, Oracle!Open, Oracle!Reply
  <2> QED
    BY <2>3 DEF Oracle!Next
<1>4. CASE [err |-> err] = None
  BY <1>1, <1>2, <1>4 DEF Oracle!vars, Shape
<1> QED
  BY <1>3, <1>4

(* The first query ends the request with its row missing, or with an error *)
(* that is no verdict, or does not end it.                                 *)
LEMMA EventQueryRefines ==
    ASSUME Shape, Established, NEW r \in Requests, FetchInstructionLog(r)
    PROVE  [Oracle!Next]_Oracle!vars
<1> DEFINE row == events[body[r]]
<1>1. /\ stage[r] = "FetchInstructionLog" /\ UNCHANGED <<events, txs, body>>
      /\ body[r] \in Bodies[scenario] /\ body[r] # None /\ answer[r] = None
  BY PaymentStatusAssumption DEF FetchInstructionLog, At, Established, Shape, indexVars
<1>2. PICK fault \in Faults[scenario] :
        LET err == FetchInstructionLogError(row, fault)
        IN  \/ err # nil /\ Return(r, [err |-> err])
            \/ DecodeError(row) # nil /\ Return(r, [err |-> DecodeError(row)])
            \/ UNCHANGED answer
  BY DEF FetchInstructionLog
<1>3. CASE fault # nil /\ Return(r, [err |-> Wrap({"ErrDatabase"}, fault)])
  <2>1. classifyVerifyStatus(Wrap({"ErrDatabase"}, fault)) = "RETRY" /\ Wrap({"ErrDatabase"}, fault) # nil
    BY PaymentStatusAssumption DEF Shape, Wrap, nil
  <2> QED
    BY <1>1, <1>3, <2>1, ErrorAsksAgain
<1>4. CASE row = Null /\ Return(r, [err |-> ErrRecordNotFound])
  <2>1. Oracle!NotFound(r)
    BY <1>1, <1>4, SameClassifier DEF Oracle!NotFound, Oracle!Open, Oracle!Reply, Return
  <2> QED
    BY <2>1 DEF Oracle!Next
<1>5. CASE \E err \in {Untagged, ErrDatabase, ErrDataSource} : Return(r, [err |-> err])
  BY <1>1, <1>5, FailuresAreNoVerdict, ErrorAsksAgain
<1>6. CASE UNCHANGED answer
  BY <1>1, <1>6 DEF Oracle!vars
<1>7. FetchInstructionLogError(row, fault) # nil =>
        \/ fault # nil /\ FetchInstructionLogError(row, fault) = Wrap({"ErrDatabase"}, fault)
        \/ row = Null /\ FetchInstructionLogError(row, fault) = ErrRecordNotFound
        \/ FetchInstructionLogError(row, fault) \in {Untagged, ErrDatabase}
  BY DEF FetchInstructionLogError
<1>8. DecodeError(row) # nil => DecodeError(row) \in {ErrDatabase, ErrDataSource}
  BY DEF DecodeError
<1> QED
  BY <1>2, <1>3, <1>4, <1>5, <1>6, <1>7, <1>8

(* The second query is of the assigned sequence, so that it ends the       *)
(* request with what both indexes have at this instant.                    *)
LEMMA TransactionQueryRefines ==
    ASSUME BinderInv, Shape, Established, NEW r \in Requests, FetchTransaction(r)
    PROVE  [Oracle!Next]_Oracle!vars
<1> DEFINE b == body[r]
           q == <<b.account, message[r].nonce>>
           tx == txs[q]
<1>1. /\ stage[r] = "FetchTransaction" /\ UNCHANGED <<events, txs, body>>
      /\ b \in Bodies[scenario] /\ b # None /\ b \in DOMAIN events /\ answer[r] = None
  BY PaymentStatusAssumption DEF FetchTransaction, At, Established, Shape, indexVars
<1>2. message[r] = events[b] /\ events[b] # Null /\ events[b].defect = "none"
  BY <1>1 DEF Established
<1>3. b.paymentId >= 1 /\ message[r].nonce = GetInitialNonce[b.account] + b.paymentId - 1
  <2>1. arg[r] = Question(r) /\ pc[r] = "done" /\ verdict[r] = nil
    BY <1>1 DEF Established
  <2>2. /\ arg[r].account = b.account /\ arg[r].paymentId = b.paymentId
        /\ arg[r].gotSequence = message[r].nonce
    BY <2>1 DEF Question
  <2> QED
    BY <2>1, <2>2 DEF BinderInv, AcceptedIsAssigned
<1>4. q \in DOMAIN txs
  BY <1>1, <1>2 DEF Shape, EventRow
<1>5. PICK fault \in Faults[scenario] :
        LET err == FetchTransactionBySourceAndSequence(tx, fault)
        IN  Return(r, IF err # nil THEN [err |-> err]
                      ELSE IF RowError(tx) # nil THEN [err |-> RowError(tx)]
                      ELSE BuildPaymentStatusResponse(message[r], tx))
  BY DEF FetchTransaction
<1> HIDE DEF tx
<1>6. CASE fault # nil /\ Return(r, [err |-> Wrap({"ErrDatabase"}, fault)])
  <2>1. classifyVerifyStatus(Wrap({"ErrDatabase"}, fault)) = "RETRY" /\ Wrap({"ErrDatabase"}, fault) # nil
    BY PaymentStatusAssumption DEF Shape, Wrap, nil
  <2> QED
    BY <1>1, <1>6, <2>1, ErrorAsksAgain
<1>7. CASE tx = Null /\ Return(r, [err |-> ErrRecordNotFound])
  <2>1. Oracle!NotFound(r)
    BY <1>1, <1>3, <1>4, <1>7, SameClassifier
    DEF Oracle!NotFound, Oracle!Open, Oracle!Reply, Return, tx
  <2> QED
    BY <2>1 DEF Oracle!Next
<1>8. CASE \E err \in {Untagged, ErrDatabase, ErrDataSource} : Return(r, [err |-> err])
  BY <1>1, <1>8, FailuresAreNoVerdict, ErrorAsksAgain
<1>9. CASE /\ tx # Null /\ tx.defect = "none"
           /\ Return(r, BuildPaymentStatusResponse(message[r], tx))
  <2>1. Oracle!Found(r)
    BY <1>1, <1>2, <1>3, <1>4, <1>9 DEF Oracle!Found, Oracle!Open, Oracle!Reply, Return, tx
  <2> QED
    BY <2>1 DEF Oracle!Next
<1>10. CASE tx # Null /\ tx.defect # "none" /\ FetchTransactionBySourceAndSequence(tx, fault) = nil
            /\ RowError(tx) = nil /\ Return(r, BuildPaymentStatusResponse(message[r], tx))
  <2>1. TransactionRow(tx)
    BY <1>4, <1>10 DEF Shape, tx
  <2>2. ErrDatabase # nil /\ ErrDataSource # nil
    BY FailuresAreNoVerdict
  <2>3. tx.defect = "badHash"
    BY <1>10, <2>1, <2>2, FaultIsError
    DEF TransactionRow, TransactionDefects, RowError, FetchTransactionBySourceAndSequence, When
  <2>4. \E err \in RowErrors \ {nil} : BuildPaymentStatusResponse(message[r], tx) = [err |-> err]
    BY <2>1, <2>3, ResponseOrError DEF TransactionRow, Metadata, Sound
  <2> QED
    BY <1>8, <1>10, <2>4 DEF RowErrors
<1>11. FetchTransactionBySourceAndSequence(tx, fault) # nil =>
        \/ /\ fault # nil
           /\ FetchTransactionBySourceAndSequence(tx, fault) = Wrap({"ErrDatabase"}, fault)
        \/ tx = Null /\ FetchTransactionBySourceAndSequence(tx, fault) = ErrRecordNotFound
        \/ FetchTransactionBySourceAndSequence(tx, fault) = ErrDatabase
  BY DEF FetchTransactionBySourceAndSequence, When
<1>12. RowError(tx) # nil => RowError(tx) \in {ErrDatabase, ErrDataSource}
  BY DEF RowError
<1>13. FetchTransactionBySourceAndSequence(tx, fault) = nil => tx # Null
  BY FaultIsError DEF FetchTransactionBySourceAndSequence
<1> QED
  BY <1>5, <1>6, <1>7, <1>8, <1>9, <1>10, <1>11, <1>12, <1>13

(* Every step of the service is one step of the oracle, or none.           *)
LEMMA ServiceStepRefines ==
    ASSUME BinderInv, Shape, Established, [ServiceNext]_allVars
    PROVE  [Oracle!Next]_Oracle!vars
<1>1. ASSUME NEW r \in Requests, Verify(r) PROVE [Oracle!Next]_Oracle!vars
  <2>1. PICK b \in Bodies[scenario] : body' = [body EXCEPT ![r] = b]
    BY <1>1 DEF Verify
  <2>2. /\ stage[r] = "idle" /\ body[r] = None /\ b \in DOMAIN events
        /\ UNCHANGED <<events, txs, answer>>
    BY <1>1 DEF Verify, At, Established, Shape, indexVars
  <2>3. Oracle!Ask(r)
    BY <2>1, <2>2 DEF Oracle!Ask
  <2> QED
    BY <2>3 DEF Oracle!Next
<1>2. ASSUME NEW r \in Requests, CallBinder(r) \/ BinderStep(r) PROVE UNCHANGED Oracle!vars
  BY <1>2 DEF CallBinder, BinderStep, indexVars, requestVars, Oracle!vars
<1>3. ASSUME NEW r \in Requests, BinderReturns(r) PROVE [Oracle!Next]_Oracle!vars
  <2>1. stage[r] = "binder" /\ UNCHANGED <<events, txs, body>> /\ verdict[r] \in {nil, ErrDatabase}
    BY <1>3 DEF BinderReturns, At, indexVars, BinderInv, TypeOK
  <2>2. CASE UNCHANGED answer
    BY <2>1, <2>2 DEF Oracle!vars
  <2>3. CASE verdict[r] # nil /\ Return(r, [err |-> verdict[r]])
    BY <2>1, <2>3, FailuresAreNoVerdict, ErrorAsksAgain
  <2> QED
    BY <1>3, <2>2, <2>3 DEF BinderReturns
<1>4. ASSUME NEW b \in DOMAIN events, IndexEvent(b) PROVE [Oracle!Next]_Oracle!vars
  <2>1. PICK row \in EventRows[scenario][b] : events' = [events EXCEPT ![b] = row]
    BY <1>4 DEF IndexEvent
  <2>2. events[b] = Null /\ UNCHANGED <<txs, body, answer>>
    BY <1>4 DEF IndexEvent, requestVars
  <2>3. events' = [events EXCEPT ![b] = events'[b]]
    BY <2>1
  <2>4. Oracle!IndexEvent(b)
    BY <2>2, <2>3 DEF Oracle!IndexEvent
  <2> QED
    BY <2>4 DEF Oracle!Next
<1>5. ASSUME NEW q \in DOMAIN txs, IndexTransaction(q) PROVE [Oracle!Next]_Oracle!vars
  <2>1. PICK tx \in TransactionRows[scenario][q] : txs' = [txs EXCEPT ![q] = tx]
    BY <1>5 DEF IndexTransaction
  <2>2. txs[q] = Null /\ UNCHANGED <<events, body, answer>>
    BY <1>5 DEF IndexTransaction, requestVars
  <2>3. txs' = [txs EXCEPT ![q] = txs'[q]]
    BY <2>1
  <2>4. Oracle!IndexTransaction(q)
    BY <2>2, <2>3 DEF Oracle!IndexTransaction
  <2> QED
    BY <2>4 DEF Oracle!Next
<1>6. CASE UNCHANGED allVars
  BY <1>6 DEF allVars, indexVars, requestVars, Oracle!vars
<1> QED
  BY <1>1, <1>2, <1>3, <1>4, <1>5, <1>6, EventQueryRefines, TransactionQueryRefines
  DEF ServiceNext, Request

(* The payment status service, with its queries, the binder's RPC and      *)
(* cache, any number of requests and both indexers interleaved, implements *)
(* the service that answers from both indexes at one instant.              *)
THEOREM ServiceImplementsOracle == ServiceSpec => ImplementsPaymentOracle
<1>1. ServiceInit => Oracle!Init
  BY DEF ServiceInit, Oracle!Init
<1>2. ServiceSpec => []BinderInv
  BY ServiceRunsBinder, BinderInvInit, BinderInvStep, PTL DEF Spec
<1>3. BinderInv => TypeOK
  BY DEF BinderInv
<1>4. BinderInv /\ Shape /\ Established /\ [ServiceNext]_allVars => [Oracle!Next]_Oracle!vars
  BY ServiceStepRefines
<1> QED
  BY <1>1, <1>2, <1>3, <1>4, EstablishedInit, ServiceStepEstablishes, PTL
  DEF ServiceSpec, ImplementsPaymentOracle, Oracle!Spec

-----------------------------------------------------------------------------
(***************************************************************************)
(* The response is of the assigned payment, and its received amount the    *)
(* recipient's gain.                                                       *)
(***************************************************************************)

(* What a response says of the event and the transaction it is made from.  *)
Describes(a, tx, event) ==
    /\ tx # Null /\ event # Null /\ tx.defect = "none" /\ event.defect = "none"
    /\ a.fee = tx.fee /\ tx.type = "Payment" /\ ~ event.token
    /\ a.status = IF tx.result = "tes" THEN "Success" ELSE "Reverted"
    /\ tx.result \in {"tes", "tec"}
    /\ \A v \in {a.amount, a.maxFee, a.fee, a.received} : v \in 0 .. MaxXRPDrops
    /\ LET mine == { i \in Roots(tx.nodes) : tx.nodes[i].account = event.recipient.account }
       IN  /\ mine = {} => a.received = 0
           /\ \A i \in mine : a.received = Max({0, tx.nodes[i].final - tx.nodes[i].previous})
           /\ \A i \in Roots(tx.nodes) :
                 {tx.nodes[i].final, tx.nodes[i].previous} \subseteq 0 .. MaxXRPDrops

(* A response is of rows that both indexes have and keep.                  *)
ResponseInv ==
    \A r \in Requests : OK(r) =>
        /\ stage[r] = "answered"
        /\ body[r] \in DOMAIN events /\ AssignedTo(r) \in DOMAIN txs
        /\ Describes(answer[r], txs[AssignedTo(r)], events[body[r]])

(* A response the builder makes of an event and a transaction of the       *)
(* index describes them.                                                   *)
LEMMA BuiltDescribes ==
    ASSUME NEW msg, NEW tx, NEW a, msg # Null, msg.defect = "none",
           {msg.amount, msg.maxFee} \subseteq Nat \cup {Null},
           tx # Null, tx.defect \in {"none", "badHash"}, TransactionRow(tx),
           a = BuildPaymentStatusResponse(msg, tx), a.err = nil
    PROVE  Describes(a, tx, msg)
<1> DEFINE received == FindReceivedAmountForAddress(tx.nodes, NormalizeAddress(msg.recipient))
<1>1. Metadata(tx.nodes) /\ tx.fee \in Int
  BY DEF TransactionRow
<1>2. Len(tx.nodes) \in Nat /\ DOMAIN tx.nodes = 1 .. Len(tx.nodes)
  BY <1>1 DEF Metadata
<1>3. ASSUME NEW err \in RowErrors \ {nil}, a = [err |-> err] PROVE FALSE
  BY <1>3
<1>4. /\ Sound(msg, tx) /\ ~ ExceedsMaxXRPDrops(received)
      /\ a = [err |-> nil, amount |-> msg.amount, maxFee |-> msg.maxFee,
              status |-> getTransactionStatus(tx.result), received |-> received, fee |-> tx.fee]
  BY <1>2, <1>3, ResponseOrError
<1>5. /\ a.amount = msg.amount /\ a.maxFee = msg.maxFee /\ a.fee = tx.fee
      /\ a.received = received /\ a.status = getTransactionStatus(tx.result)
  BY <1>4
<1>6. LET mine == { i \in Roots(tx.nodes) : tx.nodes[i].account = msg.recipient.account }
      IN  /\ received \in Nat
          /\ mine = {} => received = 0
          /\ \A i \in mine : received = Max({0, tx.nodes[i].final - tx.nodes[i].previous})
          /\ \A i \in Roots(tx.nodes) :
                {tx.nodes[i].final, tx.nodes[i].previous} \subseteq 0 .. MaxXRPDrops
  BY <1>1, <1>4, FoundIsGain DEF Sound, NormalizeAddress
<1> HIDE DEF received
<1>7. ASSUME NEW v \in Nat \cup {Null}, checkDropsBound(v) = nil PROVE v \in 0 .. MaxXRPDrops
  <2>1. v # Null /\ ~ (v > MaxXRPDrops)
    BY <1>7 DEF checkDropsBound, When, ExceedsMaxXRPDrops, ErrDatabase, Wrap, nil
  <2> QED
    BY <2>1, RowsAssumption, SMTT(30), SMTT(60)
<1>8. a.amount \in 0 .. MaxXRPDrops /\ a.maxFee \in 0 .. MaxXRPDrops
  BY <1>4, <1>5, <1>7 DEF Sound
<1>9. a.fee \in 0 .. MaxXRPDrops
  <2>1. tx.fee \in Nat /\ checkDropsBound(tx.fee) = nil
    BY <1>1, <1>4 DEF Sound
  <2> QED
    BY <1>5, <1>7, <2>1
<1>10. a.received \in 0 .. MaxXRPDrops
  <2>1. received \in Nat /\ ~ (received > MaxXRPDrops)
    BY <1>4, <1>6 DEF ExceedsMaxXRPDrops
  <2> QED
    BY <1>5, <2>1, RowsAssumption, SMTT(30), SMTT(60)
<1>11. tx.result \in {"tes", "tec"} /\ a.status = IF tx.result = "tes" THEN "Success" ELSE "Reverted"
  BY <1>4, <1>5 DEF Sound, getTransactionStatus
<1>12. tx.type = "Payment" /\ ~ msg.token /\ tx.defect = "none"
  BY <1>4 DEF Sound
<1> QED
  BY <1>5, <1>6, <1>8, <1>9, <1>10, <1>11, <1>12 DEF Describes

(* The query of the assigned transaction answers with a response of it.    *)
LEMMA QueryAnswersRight ==
    ASSUME BinderInv, Shape, Established, NEW r \in Requests, FetchTransaction(r), OK(r)'
    PROVE  /\ body[r] \in DOMAIN events /\ AssignedTo(r) \in DOMAIN txs
           /\ Describes(answer'[r], txs[AssignedTo(r)], events[body[r]])
<1> DEFINE b == body[r]
           q == <<b.account, message[r].nonce>>
           tx == txs[q]
<1>1. stage[r] = "FetchTransaction" /\ b \in Bodies[scenario] /\ b \in DOMAIN events
  BY DEF FetchTransaction, At, Established, Shape
<1>2. message[r] = events[b] /\ message[r] # Null /\ message[r].defect = "none"
  BY <1>1 DEF Established
<1>3. EventRow(b, message[r], DOMAIN txs)
  BY <1>1, <1>2 DEF Shape
<1>4. message[r].nonce = GetInitialNonce[b.account] + b.paymentId - 1
  <2>1. arg[r] = Question(r) /\ pc[r] = "done" /\ verdict[r] = nil
    BY <1>1 DEF Established
  <2>2. /\ arg[r].account = b.account /\ arg[r].paymentId = b.paymentId
        /\ arg[r].gotSequence = message[r].nonce
    BY <2>1 DEF Question
  <2> QED
    BY <2>1, <2>2 DEF BinderInv, AcceptedIsAssigned
<1>5. q \in DOMAIN txs /\ q = AssignedTo(r)
  BY <1>3, <1>4 DEF EventRow, AssignedTo
<1>6. PICK fault \in Faults[scenario] :
        LET err == FetchTransactionBySourceAndSequence(tx, fault)
        IN  answer' = [answer EXCEPT ![r] =
                          IF err # nil THEN [err |-> err]
                          ELSE IF RowError(tx) # nil THEN [err |-> RowError(tx)]
                          ELSE BuildPaymentStatusResponse(message[r], tx)]
  BY DEF FetchTransaction, Return
<1> HIDE DEF tx
<1> DEFINE err == FetchTransactionBySourceAndSequence(tx, fault)
<1>7. answer'[r] = IF err # nil THEN [err |-> err]
                   ELSE IF RowError(tx) # nil THEN [err |-> RowError(tx)]
                   ELSE BuildPaymentStatusResponse(message[r], tx)
  BY <1>6 DEF Shape
<1> HIDE DEF err
<1>8. answer'[r].err = nil
  BY DEF OK
<1>9. /\ err = nil /\ RowError(tx) = nil
      /\ answer'[r] = BuildPaymentStatusResponse(message[r], tx)
  BY <1>7, <1>8
<1>10. tx # Null
  BY <1>9, FaultIsError DEF FetchTransactionBySourceAndSequence, err
<1>11. TransactionRow(tx)
  BY <1>5, <1>10 DEF Shape, tx
<1>12. tx.defect \in {"none", "badHash"}
  BY <1>9, <1>10, <1>11, FailuresAreNoVerdict, FaultIsError
  DEF TransactionRow, TransactionDefects, RowError, FetchTransactionBySourceAndSequence, When, err
<1>13. {message[r].amount, message[r].maxFee} \subseteq Nat \cup {Null}
  BY <1>3 DEF EventRow
<1>14. Describes(answer'[r], tx, message[r])
  BY <1>2, <1>8, <1>9, <1>10, <1>11, <1>12, <1>13, BuiltDescribes
<1> QED
  BY <1>1, <1>2, <1>5, <1>14 DEF tx

(* A row that is there stays.                                              *)
RowsStay ==
    /\ DOMAIN events' = DOMAIN events /\ DOMAIN txs' = DOMAIN txs
    /\ \A b \in DOMAIN events : events[b] # Null => events'[b] = events[b]
    /\ \A q \in DOMAIN txs : txs[q] # Null => txs'[q] = txs[q]

(* A request that is answered keeps its answer, and a response is new only *)
(* where the query of the transaction gave it.                             *)
LEMMA ResponseMoves ==
    ASSUME Shape, Established, [ServiceNext]_allVars, NEW r \in Requests, OK(r)'
    PROVE  /\ RowsStay
           /\ \/ OK(r) /\ answer'[r] = answer[r] /\ (stage[r] = "answered" => body'[r] = body[r])
                 /\ (stage[r] = "answered" => stage'[r] = "answered")
              \/ FetchTransaction(r) /\ body'[r] = body[r] /\ stage'[r] = "answered"
<1>1. ASSUME NEW p \in Requests, Request(p), p # r
      PROVE  answer'[r] = answer[r] /\ body'[r] = body[r] /\ stage'[r] = stage[r]
  BY <1>1 DEF Request, Verify, FetchInstructionLog, CallBinder, BinderStep, BinderReturns,
                     FetchTransaction, Return, GoTo, requestVars, Shape
<1>2. ASSUME NEW p \in Requests, Request(p) PROVE UNCHANGED <<events, txs>>
  BY <1>2 DEF Request, Verify, FetchInstructionLog, CallBinder, BinderStep, BinderReturns,
                     FetchTransaction, indexVars
<1>3. ASSUME NEW err, err # nil, Return(r, [err |-> err]) PROVE FALSE
  <2>1. answer'[r] = [err |-> err]
    BY <1>3 DEF Return, Shape
  <2> QED
    BY <1>3, <2>1 DEF OK
<1>4. CASE Request(r)
  <2>1. CASE Verify(r) \/ CallBinder(r) \/ BinderStep(r)
    <3>1. stage[r] # "answered" /\ UNCHANGED answer
      BY <2>1 DEF Verify, CallBinder, BinderStep, At, requestVars
    <3> QED
      BY <1>2, <1>4, <3>1 DEF OK, RowsStay
  <2>2. CASE FetchInstructionLog(r)
    <3>1. stage[r] # "answered" /\ UNCHANGED answer
      BY <1>3, <2>2 DEF FetchInstructionLog, At
    <3> QED
      BY <1>2, <1>4, <3>1 DEF OK, RowsStay
  <2>3. CASE BinderReturns(r)
    <3>1. stage[r] # "answered" /\ UNCHANGED answer
      BY <1>3, <2>3 DEF BinderReturns, At
    <3> QED
      BY <1>2, <1>4, <3>1 DEF OK, RowsStay
  <2>4. CASE FetchTransaction(r)
    <3>1. UNCHANGED body /\ stage'[r] = "answered"
      BY <2>4 DEF FetchTransaction, Return, GoTo, Shape
    <3> QED
      BY <1>2, <1>4, <2>4, <3>1 DEF RowsStay
  <2> QED
    BY <1>4, <2>1, <2>2, <2>3, <2>4 DEF Request
<1>5. CASE \E p \in Requests : Request(p) /\ p # r
  BY <1>1, <1>2, <1>5 DEF OK, RowsStay
<1>6. ASSUME NEW b \in DOMAIN events, IndexEvent(b)
      PROVE  RowsStay /\ UNCHANGED requestVars
  <2>1. PICK row \in EventRows[scenario][b] : events' = [events EXCEPT ![b] = row]
    BY <1>6 DEF IndexEvent
  <2>2. events[b] = Null /\ UNCHANGED <<txs, requestVars>>
    BY <1>6 DEF IndexEvent
  <2>3. DOMAIN events' = DOMAIN events /\ \A c \in DOMAIN events \ {b} : events'[c] = events[c]
    BY <2>1 DEF Shape
  <2> QED
    BY <2>2, <2>3 DEF RowsStay
<1>7. ASSUME NEW q \in DOMAIN txs, IndexTransaction(q)
      PROVE  RowsStay /\ UNCHANGED requestVars
  <2>1. PICK tx \in TransactionRows[scenario][q] : txs' = [txs EXCEPT ![q] = tx]
    BY <1>7 DEF IndexTransaction
  <2>2. txs[q] = Null /\ UNCHANGED <<events, requestVars>>
    BY <1>7 DEF IndexTransaction
  <2>3. DOMAIN txs' = DOMAIN txs /\ \A c \in DOMAIN txs \ {q} : txs'[c] = txs[c]
    BY <2>1 DEF Shape
  <2> QED
    BY <2>2, <2>3 DEF RowsStay
<1>8. CASE UNCHANGED allVars
  BY <1>8 DEF allVars, indexVars, requestVars, OK, RowsStay
<1> QED
  BY <1>4, <1>5, <1>6, <1>7, <1>8 DEF ServiceNext, requestVars, OK

(* Every step of the service keeps the responses right.                    *)
LEMMA ServiceStepAnswersRight ==
    BinderInv /\ Shape /\ Established /\ ResponseInv /\ [ServiceNext]_allVars => ResponseInv'
<1> SUFFICES ASSUME BinderInv, Shape, Established, ResponseInv, [ServiceNext]_allVars,
                    NEW r \in Requests, OK(r)'
             PROVE  /\ stage'[r] = "answered"
                    /\ body'[r] \in DOMAIN events' /\ AssignedTo(r)' \in DOMAIN txs'
                    /\ Describes(answer'[r], txs'[AssignedTo(r)'], events'[body'[r]])
  BY DEF ResponseInv
<1>1. RowsStay
  BY ResponseMoves
<1>2. ASSUME body'[r] = body[r], stage'[r] = "answered",
             body[r] \in DOMAIN events, AssignedTo(r) \in DOMAIN txs,
             Describes(answer'[r], txs[AssignedTo(r)], events[body[r]])
      PROVE  /\ stage'[r] = "answered"
             /\ body'[r] \in DOMAIN events' /\ AssignedTo(r)' \in DOMAIN txs'
             /\ Describes(answer'[r], txs'[AssignedTo(r)'], events'[body'[r]])
  <2>1. AssignedTo(r)' = AssignedTo(r)
    BY <1>2 DEF AssignedTo
  <2>2. txs[AssignedTo(r)] # Null /\ events[body[r]] # Null
    BY <1>2 DEF Describes
  <2>3. txs'[AssignedTo(r)] = txs[AssignedTo(r)] /\ events'[body[r]] = events[body[r]]
    BY <1>1, <1>2, <2>2 DEF RowsStay
  <2> QED
    BY <1>1, <1>2, <2>1, <2>3 DEF RowsStay
<1>3. CASE OK(r) /\ answer'[r] = answer[r] /\ (stage[r] = "answered" => body'[r] = body[r])
           /\ (stage[r] = "answered" => stage'[r] = "answered")
  BY <1>2, <1>3 DEF ResponseInv
<1>4. CASE FetchTransaction(r) /\ body'[r] = body[r] /\ stage'[r] = "answered"
  BY <1>2, <1>4, QueryAnswersRight
<1> QED
  BY <1>3, <1>4, ResponseMoves

(* The responses are right at all times.                                   *)
LEMMA ResponsesAreRight == ServiceSpec => []ResponseInv
<1>1. ServiceSpec => []BinderInv
  BY ServiceRunsBinder, BinderInvInit, BinderInvStep, PTL DEF Spec
<1>2. BinderInv => TypeOK
  BY DEF BinderInv
<1>3. ServiceInit => ResponseInv
  BY DEF ServiceInit, ResponseInv, OK
<1> QED
  BY <1>1, <1>2, <1>3, EstablishedInit, ServiceStepEstablishes, ServiceStepAnswersRight, PTL
  DEF ServiceSpec

(* A response is made from the sound row with the sequence the contract    *)
(* assigned to the payment, whatever the rows, the faults, the cache and   *)
(* the interleaving of requests and indexers.                              *)
THEOREM ResponsesAreOfAssignedPayments == ServiceSpec => []ResponseIsOfAssignedPayment
<1>1. ResponseInv => ResponseIsOfAssignedPayment
  BY DEF ResponseInv, Describes, ResponseIsOfAssignedPayment
<1> QED
  BY <1>1, ResponsesAreRight, PTL

(* The received amount of a response is the recipient's gain by the        *)
(* transaction's metadata, of any number of nodes.                         *)
THEOREM ReceivedAmountsAreGains == ServiceSpec => []ReceivedIsGain
<1>1. ResponseInv => ReceivedIsGain
  BY DEF ResponseInv, Describes, ReceivedIsGain
<1> QED
  BY <1>1, ResponsesAreRight, PTL
=============================================================================
