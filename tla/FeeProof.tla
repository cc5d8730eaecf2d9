------------------------------ MODULE FeeProof ------------------------------
(***************************************************************************)
(* The fee proof of a batch of payments (pmwfeeproof/xrp/verifier.go over  *)
(* pmwfeeproof/db/repo.go).  One request reads the pay events of the whole *)
(* batch in one query, the reissue events one by one, and the transactions *)
(* in one query.  Between two queries the indexers go on: the C-chain      *)
(* index gains events in block order and drops what is older than its      *)
(* retention, the XRP index gains transactions.                            *)
(***************************************************************************)
EXTENDS Integers, Sequences, FiniteSetsExt, Totals, ErrorChains

CONSTANTS
    Scenarios,      \* the outside worlds considered, by name; for each of them:
    Requests,       \*   the request bodies: [FirstPaymentId, BatchCount, UntilTimestamp]
    Payments,       \*   the payment ids the contract has assigned
    MaxFees,        \*   the values of an event's maxFee
    TxFees,         \*   the values of a transaction's Fee
    EventDefects,   \*   what can be wrong with an indexed event, "none" included
    TxDefects,      \*   what can be wrong with an indexed transaction, "none" included
    MaxEvents,      \*   bound: events of one payment
    MaxHorizon,     \*   bound: the oldest block timestamp retention moves to
    MaxUint,        \* 2^64 - 1
    MaxBatchRange,
    MaxReissuesPerPayment,
    MaxXRPDrops,    \* the total supply
    MaxFeeSum,      \* 2^256 - 1
    InitialNonce,   \* the account's XRP sequence at registration
    Faults,         \* what a query can fail with, nil included
    MaxNow,         \* bound: the block timestamp of the C-chain index
    None

(* A query that fails is no verdict.                                       *)
ASSUME FeeProofAssumption ==
    /\ MaxUint \in Nat \ {0} /\ MaxBatchRange \in Nat \ {0}
    /\ MaxReissuesPerPayment \in Nat \ {0}
    /\ MaxXRPDrops \in Nat /\ MaxFeeSum \in Nat /\ InitialNonce \in Nat
    /\ nil \in Faults
    /\ \A fault \in Faults : classifyVerifyStatus(Wrap({"ErrDatabase"}, fault)) = "RETRY"
    /\ \A s \in Scenarios :
        /\ MaxFees[s] \subseteq Nat /\ TxFees[s] \subseteq Nat
        /\ TxDefects[s] \subseteq {"none", "duplicate", "oversized", "notJSON", "foreign", "noFee"}
        /\ Payments[s] \subseteq 1 .. MaxUint
        /\ Requests[s] \subseteq [FirstPaymentId : 0 .. MaxUint, BatchCount : 0 .. MaxUint,
                                  UntilTimestamp : Nat]

VARIABLES
    scenario,
    logs,      \* per payment its events: the first is PAY, the n+1st REISSUE n
    txs,       \* per XRP sequence the sender's transaction, or None
    now,       \* the block timestamp the C-chain index has reached
    horizon,   \* events before this timestamp are dropped from the index
    pc,        \* the query the request is about to make
    req,       \* its body
    payLogs,   \* the pay events its batch query returned: payment -> row
    at,        \* the payment and the reissue number the scan is at
    estimatedFee,
    queries,   \* history: the queries made
    floor,     \* history: the reference estimate when the pay events were read
    answer     \* [err] or [err, LastPaymentId, ActualFee, EstimatedFee]

index == <<scenario, logs, txs, now, horizon>>
vars == <<index, pc, req, payLogs, at, estimatedFee, queries, floor, answer>>

SequenceOf(p) == InitialNonce + p - 1
Sequences == UNION { {SequenceOf(p), SequenceOf(p) + 1} : p \in Payments[scenario] }

Init ==
    /\ scenario \in Scenarios
    /\ logs = [p \in Payments[scenario] |-> <<>>]
    /\ txs = [q \in Sequences |-> None]
    /\ now = 0 /\ horizon = 0
    /\ pc = "FetchInstructionLogs"
    /\ req \in Requests[scenario]
    /\ payLogs = <<>> /\ at = <<0, 0>> /\ estimatedFee = 0
    /\ queries = 0 /\ floor = 0 /\ answer = None

-----------------------------------------------------------------------------
(***************************************************************************)
(* The rows.  An event has the timestamp of its block, the maxFee and the  *)
(* nonce of its message, and a defect:                                     *)
(*   "duplicate"      a second row with the same instruction id            *)
(*   "unconvertible"  the row is no chain log                              *)
(*   "undecodable"    the data is too large or not the ABI's               *)
(*   "foreign"        op, source, sender or payment id of something else   *)
(*   "sequence"       the nonce is that of the payment after it            *)
(***************************************************************************)
Visible(p, n) == n + 1 \in DOMAIN logs[p] /\ logs[p][n + 1].time >= horizon
Row(p, n) == logs[p][n + 1]

RowError(row) ==
    CASE row.defect = "duplicate" -> ErrDatabase
      [] row.defect = "unconvertible" -> Untagged
      [] OTHER -> nil

(* DecodeTeeInstructionsSentEventData, then CheckInstructionConsistency.   *)
DecodeError(row) ==
    CASE row.defect = "undecodable" -> ErrDataSource
      [] row.defect = "foreign" -> ErrDatabase
      [] OTHER -> nil

Nonce(p, row) == IF row.defect = "sequence" THEN SequenceOf(p) + 1 ELSE SequenceOf(p)

ExceedsMaxXRPDrops(v) == v > MaxXRPDrops

VerifySequenceTrustsIndex(p, got, rpc) == IF rpc = nil THEN nil ELSE ErrDatabase

(* The sequence binder, by what it promises: see NonceBinder.              *)
VerifySequence(p, got, rpc) ==
    IF p # 0 /\ rpc = nil /\ SequenceOf(p) <= MaxUint /\ got = SequenceOf(p) THEN nil ELSE ErrDatabase

FetchInstructionLogAnyErrorIsNotFound(p, n, fault) ==
    IF fault # nil \/ ~ Visible(p, n) THEN Wrap({"ErrRecordNotFound"}, fault)
    ELSE RowError(Row(p, n))

(* FetchInstructionLog: nil with a row, or an error.                       *)
FetchInstructionLog(p, n, fault) ==
    IF fault # nil THEN Wrap({"ErrDatabase"}, fault)
    ELSE IF ~ Visible(p, n) THEN Wrap({"ErrRecordNotFound"}, nil)
    ELSE RowError(Row(p, n))

-----------------------------------------------------------------------------
(***************************************************************************)
(* The request.                                                            *)
(***************************************************************************)
validateBatchRangeUncapped(r) ==
    r.BatchCount > 0 /\ r.FirstPaymentId <= MaxUint - (r.BatchCount - 1)

validateBatchRange(r) ==
    /\ r.BatchCount > 0
    /\ r.BatchCount <= MaxBatchRange
    /\ r.FirstPaymentId <= MaxUint - (r.BatchCount - 1)

(* The i-th payment of the batch, in unsigned arithmetic.                  *)
PaymentID(i) == (req.FirstPaymentId + i) % (MaxUint + 1)
Batch == { PaymentID(i) : i \in 0 .. req.BatchCount - 1 }
LastPaymentId == (req.FirstPaymentId + req.BatchCount - 1) % (MaxUint + 1)

Return(err) ==
    /\ answer' = [err |-> err]
    /\ pc' = "answered"
    /\ UNCHANGED <<payLogs, at, estimatedFee>>

Residual(fee, payFee) == Max({0, fee - payFee})

(***************************************************************************)
(* The reference: what the events of a batch cost up to UntilTimestamp.    *)
(***************************************************************************)
InWindow(p) == { k \in DOMAIN logs[p] : k > 1 /\ logs[p][k].time <= req.UntilTimestamp }

(* The pay events and, in the window, the reissues: <<p, k>> stands for    *)
(* the k-th event of payment p.  A reissue that is no dearer than the      *)
(* payment costs nothing more.                                             *)
Charged ==
    UNION { {p} \X { k \in DOMAIN logs[p] : k = 1 \/ k \in InWindow(p) } : p \in Batch \cap DOMAIN logs }
Charge(p, k) == IF k = 1 THEN logs[p][1].maxFee ELSE logs[p][k].maxFee - logs[p][1].maxFee
Charges == [e \in Charged |-> Charge(e[1], e[2])]

ReferenceEstimate == Total(Charges)

(* Verify up to the batch query of the pay events: every row is converted, *)
(* a duplicate or a row that does not convert fails the batch.             *)
FetchInstructionLogs ==
    /\ pc = "FetchInstructionLogs"
    /\ IF ~ validateBatchRange(req)
       THEN Return(Wrap({"ErrBatchRangeTooLarge"}, nil)) /\ UNCHANGED <<queries, floor>>
       ELSE LET found == { p \in Batch \cap DOMAIN logs : Visible(p, 0) }
                bad == { RowError(Row(p, 0)) : p \in found } \ {nil}
            IN  /\ queries' = queries + 1
                /\ floor' = ReferenceEstimate
                /\ \E fault \in Faults :
                      \/ /\ fault # nil
                         /\ Return(Wrap({"ErrDatabase"}, fault))
                      \/ /\ fault = nil /\ \E err \in bad : Return(err)
                      \/ /\ fault = nil /\ bad = {}
                         /\ payLogs' = [p \in found |-> Row(p, 0)]
                         /\ pc' = "Pay" /\ at' = <<0, 0>>
                         /\ UNCHANGED <<estimatedFee, answer>>
    /\ UNCHANGED <<index, req>>

(* The body of computeEstimatedFee's outer loop up to its first reissue    *)
(* lookup; past the last payment the transactions are next.  rpc is what   *)
(* reading initialNonce may fail with.                                     *)
Pay ==
    /\ pc = "Pay"
    /\ LET p == PaymentID(at[1])
           row == payLogs[p]
       IN  \/ /\ at[1] = req.BatchCount
              /\ pc' = "FetchTransactions"
              /\ UNCHANGED <<payLogs, at, estimatedFee, answer>>
           \/ /\ at[1] < req.BatchCount /\ p \notin DOMAIN payLogs
              /\ Return(Wrap({"ErrMissingPayEvent"}, nil))
           \/ /\ at[1] < req.BatchCount /\ p \in DOMAIN payLogs
              /\ \E rpc \in Faults :
                 LET binder == VerifySequence(p, Nonce(p, row), rpc)
                     err == IF DecodeError(row) # nil THEN DecodeError(row)
                            ELSE IF binder # nil THEN binder
                            ELSE IF ExceedsMaxXRPDrops(row.maxFee) THEN ErrDatabase ELSE nil
                 IN  IF err # nil
                     THEN Return(err)
                     ELSE /\ estimatedFee' = estimatedFee + row.maxFee
                          /\ at' = <<at[1], 1>> /\ pc' = "Reissue"
                          /\ UNCHANGED <<payLogs, answer>>
    /\ UNCHANGED <<index, req, queries, floor>>

NextPayment ==
    /\ at' = <<at[1] + 1, 0>> /\ pc' = "Pay"
    /\ UNCHANGED <<payLogs, estimatedFee, answer>>

ReissueAnyTime ==
    /\ pc = "Reissue"
    /\ \E fault \in Faults :
       LET p == PaymentID(at[1])
           err == FetchInstructionLog(p, at[2], fault)
       IN  IF Is(err, "ErrRecordNotFound") THEN NextPayment
           ELSE IF err # nil THEN Return(err)
           ELSE /\ estimatedFee' = estimatedFee + Residual(Row(p, at[2]).maxFee, payLogs[p].maxFee)
                /\ at' = <<at[1], at[2] + 1>>
                /\ pc' = IF at[2] < MaxReissuesPerPayment THEN "Reissue" ELSE "Probe"
                /\ UNCHANGED <<payLogs, answer>>
    /\ queries' = queries + 1
    /\ UNCHANGED <<index, req, floor>>

(* One turn of the reissue loop.  A failed query is an error; only a row   *)
(* that is not there, or is past the window, ends the scan.                *)
Reissue ==
    /\ pc = "Reissue"
    /\ \E fault \in Faults :
       LET p == PaymentID(at[1])
           err == FetchInstructionLog(p, at[2], fault)
           row == Row(p, at[2])
           bad == IF DecodeError(row) # nil THEN DecodeError(row)
                  ELSE IF ExceedsMaxXRPDrops(row.maxFee) THEN ErrDatabase ELSE nil
       IN  IF Is(err, "ErrRecordNotFound") THEN NextPayment
           ELSE IF err # nil THEN Return(err)
           ELSE IF row.time > req.UntilTimestamp THEN NextPayment
           ELSE IF bad # nil THEN Return(bad)
           ELSE /\ estimatedFee' = estimatedFee + Residual(row.maxFee, payLogs[p].maxFee)
                /\ at' = <<at[1], at[2] + 1>>
                /\ pc' = IF at[2] < MaxReissuesPerPayment THEN "Reissue" ELSE "Probe"
                /\ UNCHANGED <<payLogs, answer>>
    /\ queries' = queries + 1
    /\ UNCHANGED <<index, req, floor>>

ProbeIgnoresWindow ==
    /\ pc = "Probe"
    /\ \E fault \in Faults :
       LET err == FetchInstructionLog(PaymentID(at[1]), at[2], fault)
       IN  IF Is(err, "ErrRecordNotFound") THEN NextPayment
           ELSE IF err # nil THEN Return(err)
           ELSE Return(Wrap({"ErrReissueLimitExceeded"}, nil))
    /\ queries' = queries + 1
    /\ UNCHANGED <<index, req, floor>>

(* The lookup past the cap: exactly the cap is fine, one more is refused.  *)
Probe ==
    /\ pc = "Probe"
    /\ \E fault \in Faults :
       LET p == PaymentID(at[1])
           err == FetchInstructionLog(p, at[2], fault)
       IN  IF Is(err, "ErrRecordNotFound") THEN NextPayment
           ELSE IF err # nil THEN Return(err)
           ELSE IF Row(p, at[2]).time > req.UntilTimestamp THEN NextPayment
           ELSE Return(Wrap({"ErrReissueLimitExceeded"}, nil))
    /\ queries' = queries + 1
    /\ UNCHANGED <<index, req, floor>>

(***************************************************************************)
(* computeActualFee.  A transaction's defect is "duplicate" (a second row  *)
(* with its sequence), "oversized", "notJSON", "foreign" (hash, account or *)
(* sequence of something else) or "noFee" (missing, or not a number).      *)
(***************************************************************************)
SequenceAt(i) == Nonce(PaymentID(i), payLogs[PaymentID(i)])

(* The row's consistency, then its fee.                                    *)
TxError(tx) ==
    CASE tx = None -> Wrap({"ErrMissingTransaction"}, nil)
      [] tx # None /\ tx.defect \in {"oversized", "foreign"} -> ErrDatabase
      [] tx # None /\ tx.defect \in {"notJSON", "noFee"} -> ErrDataSource
      [] tx # None /\ tx.defect = "none" /\ ExceedsMaxXRPDrops(tx.fee) -> ErrDatabase
      [] OTHER -> nil

FetchTransactions ==
    /\ pc = "FetchTransactions"
    /\ \E fault \in Faults :
       LET rows == [i \in 0 .. req.BatchCount - 1 |-> txs[SequenceAt(i)]]
           failing == { i \in DOMAIN rows : TxError(rows[i]) # nil }
           actualFee == Total([i \in DOMAIN rows |-> rows[i].fee])
       IN  IF fault # nil THEN Return(Wrap({"ErrDatabase"}, fault))
           ELSE IF \E i \in DOMAIN rows : rows[i] # None /\ rows[i].defect = "duplicate"
           THEN Return(ErrDatabase)
           ELSE IF failing # {} THEN Return(TxError(rows[Min(failing)]))
           ELSE IF estimatedFee > MaxFeeSum \/ actualFee > MaxFeeSum THEN Return(ErrDatabase)
           ELSE /\ answer' = [err |-> nil, LastPaymentId |-> LastPaymentId,
                              ActualFee |-> actualFee, EstimatedFee |-> estimatedFee]
                /\ pc' = "answered"
                /\ UNCHANGED <<payLogs, at, estimatedFee>>
    /\ queries' = queries + 1
    /\ UNCHANGED <<index, req, floor>>

-----------------------------------------------------------------------------
(***************************************************************************)
(* The indexers.  The contract emits a payment's events in order, each in  *)
(* a block whose timestamp is at least the last one's.                     *)
(***************************************************************************)
request == <<pc, req, payLogs, at, estimatedFee, queries, floor, answer>>

IndexEvent(p) ==
    /\ pc # "answered"
    /\ Len(logs[p]) < MaxEvents[scenario]
    /\ \E fee \in MaxFees[scenario], defect \in EventDefects[scenario] :
          logs' = [logs EXCEPT ![p] = Append(@, [time |-> now, maxFee |-> fee, defect |-> defect])]
    /\ UNCHANGED <<scenario, txs, now, horizon, request>>

IndexTransaction(q) ==
    /\ pc # "answered"
    /\ txs[q] = None
    /\ \E fee \in TxFees[scenario], defect \in TxDefects[scenario] :
          txs' = [txs EXCEPT ![q] = [fee |-> fee, defect |-> defect]]
    /\ UNCHANGED <<scenario, logs, now, horizon, request>>

IndexBlock ==
    /\ pc # "answered" /\ now < MaxNow
    /\ now' = now + 1
    /\ UNCHANGED <<scenario, logs, txs, horizon, request>>

Prune ==
    /\ pc # "answered" /\ horizon < now /\ horizon < MaxHorizon[scenario]
    /\ horizon' = horizon + 1
    /\ UNCHANGED <<scenario, logs, txs, now, request>>

Next ==
    \/ FetchInstructionLogs \/ Pay \/ Reissue \/ Probe \/ FetchTransactions
    \/ \E p \in Payments[scenario] : IndexEvent(p)
    \/ \E q \in Sequences : IndexTransaction(q)
    \/ IndexBlock \/ Prune

Spec == Init /\ [][Next]_vars

-----------------------------------------------------------------------------
Answered == answer # None
OK == Answered /\ answer.err = nil

(* Retention has dropped none of the batch's events.                       *)
Retained ==
    \A p \in Batch \cap DOMAIN logs : \A k \in DOMAIN logs[p] : logs[p][k].time >= horizon

(* No undercount (computeEstimatedFee): an estimate that is returned       *)
(* counts every reissue the index held, up to UntilTimestamp, when the pay *)
(* events were read, provided retention has not reached them.  When the    *)
(* index had passed UntilTimestamp by then, that is every reissue there    *)
(* will ever be.                                                           *)
NoUndercount == OK /\ Retained => answer.EstimatedFee >= floor

(* As docs/SPEC.md has it, a request outside retention is refused for      *)
(* missing data: no estimate leaves out what retention has dropped.        *)
OutsideRetentionIsRefused == OK => answer.EstimatedFee >= floor

(* No overcount: the estimate never exceeds what the indexed events up to  *)
(* UntilTimestamp cost, however far the index moved on during the scan and *)
(* whatever retention dropped from it.                                     *)
NoOvercount == OK => answer.EstimatedFee <= ReferenceEstimate

(* The actual fee is the sum over the transactions with the sequences the  *)
(* contract assigned to the batch's payments, each row sound and within    *)
(* the supply: never the fee of a transaction a faulty event points to.    *)
ActualFeeIsAssigned ==
    OK => /\ \A p \in Batch : txs[SequenceOf(p)] # None /\ txs[SequenceOf(p)].defect = "none"
          /\ answer.ActualFee = Total([p \in Batch |-> txs[SequenceOf(p)].fee])
          /\ answer.ActualFee <= MaxBatchRange * MaxXRPDrops

(* A final answer is about the batch, never about a query that failed or a *)
(* row that is corrupt (classifyVerifyStatus): the batch is empty, longer  *)
(* than MaxBatchRange or ends past the last uint64; the event of a payment *)
(* was not there when it was read; a transaction is not there; or some     *)
(* payment has more than MaxReissuesPerPayment reissues up to              *)
(* UntilTimestamp.  All limits are exact: a batch that just meets them is  *)
(* not refused for it.                                                     *)
RejectedOnlyForCause ==
    Answered /\ answer.err # nil /\ classifyVerifyStatus(answer.err) = "REJECTED"
        => \/ req.BatchCount \notin 1 .. MaxBatchRange
           \/ req.FirstPaymentId + req.BatchCount > MaxUint + 1
           \/ queries > 0 /\ Batch \ DOMAIN payLogs # {}
           \/ \E p \in Batch : txs[SequenceOf(p)] = None
           \/ \E p \in Batch : Cardinality(InWindow(p)) > MaxReissuesPerPayment

(* The work of any request is bounded by the two caps, whatever it asks    *)
(* for and however many reissues an index holds (MaxBatchRange,            *)
(* MaxReissuesPerPayment): two batch queries, and per payment the scan and *)
(* its probe.                                                              *)
QueriesBounded == queries <= 2 + MaxBatchRange * (MaxReissuesPerPayment + 1)
=============================================================================
