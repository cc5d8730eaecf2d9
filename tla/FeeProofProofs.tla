--------------------------- MODULE FeeProofProofs ---------------------------
(***************************************************************************)
(* FeeProof for any batch, indexes, faults, caps and widths.               *)
(***************************************************************************)
EXTENDS FeeProof, FiniteSetTheorems, WellFoundedInduction, TLAPS

(* The backends of every step that does not name its own: each twice, so   *)
(* that a slow machine costs time and not the proof.                       *)
USE ZenonT(20), SMTT(30), ZenonT(60), SMTT(60)

M == MaxReissuesPerPayment
K == MaxReissuesPerPayment + 1

(* The constants the proofs use most.                                      *)
LEMMA Caps == M \in Nat /\ M >= 1 /\ K = M + 1 /\ K \in Nat
  BY FeeProofAssumption, SMTT(30), SMTT(60) DEF M, K

(* A non-empty set of natural numbers has a least element.                 *)
LEMMA MinIsMember ==
    ASSUME NEW S \in SUBSET Nat, S # {}
    PROVE  Min(S) \in S
<1>1. PICK x \in S : \A y \in S : ~ (<<y, x>> \in OpToRel(<, Nat))
  BY NatLessThanWellFounded, WFMin
<1>2. OpToRel(<, Nat) = { ss \in Nat \X Nat : ss[1] < ss[2] }
  BY DEF OpToRel
<1>3. \A y \in S : x <= y
  <2> SUFFICES ASSUME NEW y \in S, y < x PROVE FALSE
    OBVIOUS
  <2>1. <<y, x>> \in { ss \in Nat \X Nat : ss[1] < ss[2] }
    OBVIOUS
  <2> QED
    BY <1>1, <1>2, <2>1
<1> QED
  BY <1>3 DEF Min

-----------------------------------------------------------------------------
(***************************************************************************)
(* The request's variables, and how far its scan has come.                 *)
(***************************************************************************)
Calls == {"FetchInstructionLogs", "Pay", "Reissue", "Probe", "FetchTransactions", "answered"}

TypeInv ==
    /\ scenario \in Scenarios /\ req \in Requests[scenario]
    /\ pc \in Calls /\ at \in Nat \X Nat /\ queries \in Nat
    /\ pc # "answered" => answer = None

(* The queries made so far, where a is the payment the scan is at, n the   *)
(* number of the reissue it looks up next, and b the batch's count.        *)
Budget(call, a, n, b, q) ==
    /\ call = "FetchInstructionLogs" => q = 0
    /\ call = "Pay" => a <= b /\ q <= 1 + a * K
    /\ call = "Reissue" => a < b /\ n >= 1 /\ n <= M /\ q + 1 <= 1 + a * K + n
    /\ call = "Probe" => a < b /\ n = M + 1 /\ q <= 1 + a * K + M
    /\ call = "FetchTransactions" => a = b /\ q <= 1 + b * K
    /\ call = "answered" => q <= 2 + b * K

BudgetInv == Budget(pc, at[1], at[2], req.BatchCount, queries)

(* The indexers' steps; they leave the request alone.                      *)
IndexStep ==
    \/ \E p \in Payments[scenario] : IndexEvent(p)
    \/ \E q \in Sequences : IndexTransaction(q)
    \/ IndexBlock \/ Prune

LEMMA IndexersKeepRequest == IndexStep => UNCHANGED <<scenario, request>> /\ pc # "answered"
  BY DEF IndexStep, IndexEvent, IndexTransaction, IndexBlock, Prune

(* The batch of a request.                                                 *)
LEMMA RequestType ==
    ASSUME TypeInv
    PROVE  /\ req.BatchCount \in Nat /\ req.FirstPaymentId \in Nat /\ req.UntilTimestamp \in Nat
           /\ at[1] \in Nat /\ at[2] \in Nat
<1>1. req \in [FirstPaymentId : 0 .. MaxUint, BatchCount : 0 .. MaxUint, UntilTimestamp : Nat]
  BY FeeProofAssumption DEF TypeInv
<1>2. MaxUint \in Nat
  BY FeeProofAssumption
<1>3. at \in Nat \X Nat
  BY DEF TypeInv
<1> QED
  BY <1>1, <1>2, <1>3, SMTT(30), SMTT(60)

-----------------------------------------------------------------------------
(***************************************************************************)
(* What each step of the request does, and why it ends the request.        *)
(***************************************************************************)

(* The request is told err; it is told an error that is no verdict.        *)
Told(err) == answer' = [err |-> err] /\ pc' = "answered" /\ UNCHANGED <<payLogs, at>>
ToldToRetry == \E err : Told(err) /\ err # nil /\ classifyVerifyStatus(err) = "RETRY"

(* What the rows and the binder fail with is no verdict, nor is a query    *)
(* that fails.                                                             *)
LEMMA FailuresAreNoVerdict ==
    /\ \A err \in {Untagged, ErrDatabase, ErrDataSource} :
          err # nil /\ classifyVerifyStatus(err) = "RETRY" /\ ~ Is(err, "ErrRecordNotFound")
    /\ \A fault \in Faults :
          /\ Wrap({"ErrDatabase"}, fault) # nil
          /\ classifyVerifyStatus(Wrap({"ErrDatabase"}, fault)) = "RETRY"
<1>1. \A err \in {Untagged, ErrDatabase, ErrDataSource} :
        err \cap (TerminalSentinels \cup {"ErrTEEDataValidation", "ErrInvalidInput"}) = {} /\ err # nil
  BY DEF Untagged, ErrDatabase, ErrDataSource, Wrap, nil, TerminalSentinels
<1>2. \A err \in {Untagged, ErrDatabase, ErrDataSource} : ~ Is(err, "ErrRecordNotFound")
  BY DEF Untagged, ErrDatabase, ErrDataSource, Wrap, nil, Is
<1>3. \A err \in {Untagged, ErrDatabase, ErrDataSource} : classifyVerifyStatus(err) = "RETRY"
  BY <1>1 DEF classifyVerifyStatus, IsAny, Is
<1>4. \A fault \in Faults : classifyVerifyStatus(Wrap({"ErrDatabase"}, fault)) = "RETRY"
  BY FeeProofAssumption
<1>5. \A fault : Wrap({"ErrDatabase"}, fault) # nil
  BY DEF Wrap, nil
<1> QED
  BY <1>1, <1>2, <1>3, <1>4, <1>5

(* The rows fail with one of these.                                        *)
LEMMA RowFailures ==
    /\ \A row : RowError(row) \in {nil, ErrDatabase, Untagged}
    /\ \A row : DecodeError(row) \in {nil, ErrDatabase, ErrDataSource}
    /\ \A p, got, rpc : VerifySequence(p, got, rpc) \in {nil, ErrDatabase}
  BY DEF RowError, DecodeError, VerifySequence

(* Return tells the request.                                               *)
LEMMA ReturnTells == \A err : Return(err) => Told(err)
  BY DEF Return, Told

(* The batch query ends the request for its range or without a verdict, or *)
(* gives it pay events of the batch.                                       *)
LEMMA BatchQueryMoves ==
    ASSUME FetchInstructionLogs
    PROVE  /\ pc = "FetchInstructionLogs" /\ UNCHANGED <<index, req>>
           /\ queries' = queries \/ queries' = queries + 1
           /\ \/ ToldToRetry
              \/ ~ validateBatchRange(req) /\ (\E err : Told(err) /\ err # nil)
              \/ /\ pc' = "Pay" /\ at' = <<0, 0>> /\ queries' = queries + 1 /\ UNCHANGED answer
                 /\ validateBatchRange(req) /\ floor' = ReferenceEstimate /\ UNCHANGED estimatedFee
                 /\ \E found \in SUBSET (Batch \cap DOMAIN logs) :
                       payLogs' = [p \in found |-> Row(p, 0)] /\ \A p \in found : Visible(p, 0)
<1> DEFINE found == { p \in Batch \cap DOMAIN logs : Visible(p, 0) }
           bad == { RowError(Row(p, 0)) : p \in found } \ {nil}
<1>1. pc = "FetchInstructionLogs" /\ UNCHANGED <<index, req>>
  BY DEF FetchInstructionLogs
<1>2. CASE ~ validateBatchRange(req)
  <2>1. Return(Wrap({"ErrBatchRangeTooLarge"}, nil)) /\ queries' = queries
    BY <1>2 DEF FetchInstructionLogs
  <2>2. Wrap({"ErrBatchRangeTooLarge"}, nil) # nil
    BY DEF Wrap, nil
  <2> QED
    BY <1>1, <1>2, <2>1, <2>2, ReturnTells
<1>3. CASE validateBatchRange(req)
  <2>1. queries' = queries + 1 /\ floor' = ReferenceEstimate
    BY <1>3 DEF FetchInstructionLogs
  <2>2. PICK fault \in Faults :
          \/ fault # nil /\ Return(Wrap({"ErrDatabase"}, fault))
          \/ fault = nil /\ \E err \in bad : Return(err)
          \/ /\ payLogs' = [p \in found |-> Row(p, 0)] /\ pc' = "Pay" /\ at' = <<0, 0>>
             /\ UNCHANGED <<estimatedFee, answer>>
    BY <1>3 DEF FetchInstructionLogs
  <2>3. \A err \in bad : err \in {Untagged, ErrDatabase, ErrDataSource}
    BY RowFailures
  <2>4. CASE fault # nil /\ Return(Wrap({"ErrDatabase"}, fault))
    BY <1>1, <2>1, <2>4, ReturnTells, FailuresAreNoVerdict DEF ToldToRetry
  <2>5. CASE \E err \in bad : Return(err)
    BY <1>1, <2>1, <2>3, <2>5, ReturnTells, FailuresAreNoVerdict DEF ToldToRetry
  <2>6. CASE /\ payLogs' = [p \in found |-> Row(p, 0)] /\ pc' = "Pay" /\ at' = <<0, 0>>
             /\ UNCHANGED <<estimatedFee, answer>>
    <3>1. found \in SUBSET (Batch \cap DOMAIN logs) /\ \A p \in found : Visible(p, 0)
      OBVIOUS
    <3> QED
      BY <1>1, <1>3, <2>1, <2>6, <3>1
  <2> QED
    BY <2>2, <2>4, <2>5, <2>6
<1> QED
  BY <1>2, <1>3

(* A payment whose sequence the binder accepts goes on to its reissues.    *)
LEMMA PayMoves ==
    ASSUME Pay, NEW p, p = PaymentID(at[1])
    PROVE  /\ pc = "Pay" /\ UNCHANGED <<index, req, queries, floor>>
           /\ \/ /\ at[1] = req.BatchCount /\ pc' = "FetchTransactions"
                 /\ UNCHANGED <<payLogs, at, estimatedFee, answer>>
              \/ /\ at[1] < req.BatchCount /\ p \notin DOMAIN payLogs
                 /\ \E err : Told(err) /\ err # nil
              \/ at[1] < req.BatchCount /\ ToldToRetry
              \/ /\ at[1] < req.BatchCount /\ p \in DOMAIN payLogs
                 /\ Nonce(p, payLogs[p]) = SequenceOf(p)
                 /\ estimatedFee' = estimatedFee + payLogs[p].maxFee
                 /\ at' = <<at[1], 1>> /\ pc' = "Reissue" /\ UNCHANGED <<payLogs, answer>>
<1> DEFINE row == payLogs[p]
<1>1. pc = "Pay" /\ UNCHANGED <<index, req, queries, floor>>
  BY DEF Pay
<1>2. CASE /\ at[1] = req.BatchCount /\ pc' = "FetchTransactions"
           /\ UNCHANGED <<payLogs, at, estimatedFee, answer>>
  BY <1>1, <1>2
<1>3. CASE at[1] < req.BatchCount /\ p \notin DOMAIN payLogs /\ Return(Wrap({"ErrMissingPayEvent"}, nil))
  <2>1. Wrap({"ErrMissingPayEvent"}, nil) # nil
    BY DEF Wrap, nil
  <2> QED
    BY <1>1, <1>3, <2>1, ReturnTells
<1>4. CASE /\ at[1] < req.BatchCount /\ p \in DOMAIN payLogs
           /\ \E rpc \in Faults :
                LET binder == VerifySequence(p, Nonce(p, row), rpc)
                    err == IF DecodeError(row) # nil THEN DecodeError(row)
                           ELSE IF binder # nil THEN binder
                           ELSE IF ExceedsMaxXRPDrops(row.maxFee) THEN ErrDatabase ELSE nil
                IN  IF err # nil
                    THEN Return(err)
                    ELSE /\ estimatedFee' = estimatedFee + row.maxFee
                         /\ at' = <<at[1], 1>> /\ pc' = "Reissue"
                         /\ UNCHANGED <<payLogs, answer>>
  <2>1. PICK rpc \in Faults :
          LET binder == VerifySequence(p, Nonce(p, row), rpc)
              err == IF DecodeError(row) # nil THEN DecodeError(row)
                     ELSE IF binder # nil THEN binder
                     ELSE IF ExceedsMaxXRPDrops(row.maxFee) THEN ErrDatabase ELSE nil
          IN  IF err # nil
              THEN Return(err)
              ELSE /\ estimatedFee' = estimatedFee + row.maxFee
                   /\ at' = <<at[1], 1>> /\ pc' = "Reissue" /\ UNCHANGED <<payLogs, answer>>
    BY <1>4
  <2> DEFINE binder == VerifySequence(p, Nonce(p, row), rpc)
             err == IF DecodeError(row) # nil THEN DecodeError(row)
                    ELSE IF binder # nil THEN binder
                    ELSE IF ExceedsMaxXRPDrops(row.maxFee) THEN ErrDatabase ELSE nil
  <2>2. err \in {nil, ErrDatabase, ErrDataSource}
    BY RowFailures
  <2>3. CASE err # nil /\ Return(err)
    BY <1>1, <1>4, <2>2, <2>3, ReturnTells, FailuresAreNoVerdict DEF ToldToRetry
  <2>4. CASE /\ err = nil /\ estimatedFee' = estimatedFee + row.maxFee
             /\ at' = <<at[1], 1>> /\ pc' = "Reissue" /\ UNCHANGED <<payLogs, answer>>
    <3>1. binder = nil
      BY <2>4
    <3>2. Nonce(p, row) = SequenceOf(p)
      BY <3>1, FailuresAreNoVerdict DEF VerifySequence
    <3> QED
      BY <1>1, <1>4, <2>4, <3>2
  <2> QED
    BY <2>1, <2>3, <2>4
<1> QED
  BY <1>2, <1>3, <1>4 DEF Pay

(* A lookup finds the row, or does not, or fails without a verdict.        *)
LEMMA LookupErrors ==
    ASSUME NEW p, NEW n, NEW fault \in Faults, NEW err, err = FetchInstructionLog(p, n, fault)
    PROVE  /\ err = nil => Visible(p, n)
           /\ Is(err, "ErrRecordNotFound") => ~ Visible(p, n)
           /\ err # nil /\ ~ Is(err, "ErrRecordNotFound") => classifyVerifyStatus(err) = "RETRY"
<1>1. CASE fault # nil
  <2>1. err = Wrap({"ErrDatabase"}, fault)
    BY <1>1 DEF FetchInstructionLog
  <2>2. ~ Is(err, "ErrRecordNotFound")
    <3>1. \A e : Is(e, "ErrRecordNotFound") => classifyVerifyStatus(e) = "REJECTED"
      BY DEF classifyVerifyStatus, IsAny, Is, TerminalSentinels
    <3> QED
      BY <2>1, <3>1, FailuresAreNoVerdict
  <2> QED
    BY <2>1, <2>2, FailuresAreNoVerdict
<1>2. CASE fault = nil /\ ~ Visible(p, n)
  <2>1. err = Wrap({"ErrRecordNotFound"}, nil)
    BY <1>2 DEF FetchInstructionLog
  <2>2. Is(err, "ErrRecordNotFound") /\ err # nil
    BY <2>1 DEF Is, Wrap, nil
  <2> QED
    BY <1>2, <2>2
<1>3. CASE fault = nil /\ Visible(p, n)
  <2>1. err \in {nil, ErrDatabase, Untagged}
    BY <1>3, RowFailures DEF FetchInstructionLog
  <2>2. ~ Is(nil, "ErrRecordNotFound")
    BY DEF Is, nil
  <2> QED
    BY <1>3, <2>1, <2>2, FailuresAreNoVerdict
<1> QED
  BY <1>1, <1>2, <1>3

(* The scan goes on to the next payment, having found no row in the window *)
(* where it is.                                                            *)
ScanEnds ==
    /\ ~ Visible(PaymentID(at[1]), at[2]) \/ Row(PaymentID(at[1]), at[2]).time > req.UntilTimestamp
    /\ at' = <<at[1] + 1, 0>> /\ pc' = "Pay" /\ UNCHANGED <<payLogs, estimatedFee, answer>>

(* A reissue is counted only when it is there, in the window.              *)
LEMMA ReissueMoves ==
    ASSUME Reissue, NEW p, p = PaymentID(at[1])
    PROVE  /\ pc = "Reissue" /\ queries' = queries + 1 /\ UNCHANGED <<index, req, floor>>
           /\ \/ ScanEnds
              \/ ToldToRetry
              \/ /\ Visible(p, at[2]) /\ ~ (Row(p, at[2]).time > req.UntilTimestamp)
                 /\ estimatedFee' = estimatedFee + Residual(Row(p, at[2]).maxFee, payLogs[p].maxFee)
                 /\ at' = <<at[1], at[2] + 1>>
                 /\ pc' = IF at[2] < M THEN "Reissue" ELSE "Probe"
                 /\ UNCHANGED <<payLogs, answer>>
<1> DEFINE row == Row(p, at[2])
           bad == IF DecodeError(row) # nil THEN DecodeError(row)
                  ELSE IF ExceedsMaxXRPDrops(row.maxFee) THEN ErrDatabase ELSE nil
<1>1. pc = "Reissue" /\ queries' = queries + 1 /\ UNCHANGED <<index, req, floor>>
  BY DEF Reissue
<1>2. PICK fault \in Faults :
        LET err == FetchInstructionLog(p, at[2], fault)
        IN  IF Is(err, "ErrRecordNotFound") THEN NextPayment
            ELSE IF err # nil THEN Return(err)
            ELSE IF row.time > req.UntilTimestamp THEN NextPayment
            ELSE IF bad # nil THEN Return(bad)
            ELSE /\ estimatedFee' = estimatedFee + Residual(row.maxFee, payLogs[p].maxFee)
                 /\ at' = <<at[1], at[2] + 1>>
                 /\ pc' = IF at[2] < M THEN "Reissue" ELSE "Probe"
                 /\ UNCHANGED <<payLogs, answer>>
  BY DEF Reissue, M
<1> DEFINE err == FetchInstructionLog(p, at[2], fault)
<1>3. /\ err = nil => Visible(p, at[2])
      /\ Is(err, "ErrRecordNotFound") => ~ Visible(p, at[2])
      /\ err # nil /\ ~ Is(err, "ErrRecordNotFound") => classifyVerifyStatus(err) = "RETRY"
  BY LookupErrors
<1>4. bad \in {nil, ErrDatabase, ErrDataSource}
  BY RowFailures
<1> HIDE DEF err, bad
<1>5. CASE NextPayment /\ (Is(err, "ErrRecordNotFound") \/ row.time > req.UntilTimestamp)
  BY <1>1, <1>3, <1>5 DEF NextPayment, ScanEnds
<1>6. CASE err # nil /\ ~ Is(err, "ErrRecordNotFound") /\ Return(err)
  BY <1>1, <1>3, <1>6, ReturnTells DEF ToldToRetry
<1>7. CASE bad # nil /\ Return(bad)
  BY <1>1, <1>4, <1>7, ReturnTells, FailuresAreNoVerdict DEF ToldToRetry
<1>8. CASE /\ err = nil /\ ~ (row.time > req.UntilTimestamp)
           /\ estimatedFee' = estimatedFee + Residual(row.maxFee, payLogs[p].maxFee)
           /\ at' = <<at[1], at[2] + 1>>
           /\ pc' = IF at[2] < M THEN "Reissue" ELSE "Probe"
           /\ UNCHANGED <<payLogs, answer>>
  BY <1>1, <1>3, <1>8
<1> QED
  BY <1>2, <1>5, <1>6, <1>7, <1>8 DEF err

(* The lookup past the cap refuses the batch only for a row in the window. *)
LEMMA ProbeMoves ==
    ASSUME Probe, NEW p, p = PaymentID(at[1])
    PROVE  /\ pc = "Probe" /\ queries' = queries + 1 /\ UNCHANGED <<index, req, floor>>
           /\ \/ ScanEnds
              \/ ToldToRetry
              \/ /\ Visible(p, at[2]) /\ ~ (Row(p, at[2]).time > req.UntilTimestamp)
                 /\ \E err : Told(err) /\ err # nil
<1>1. pc = "Probe" /\ queries' = queries + 1 /\ UNCHANGED <<index, req, floor>>
  BY DEF Probe
<1>2. PICK fault \in Faults :
        LET err == FetchInstructionLog(p, at[2], fault)
        IN  IF Is(err, "ErrRecordNotFound") THEN NextPayment
            ELSE IF err # nil THEN Return(err)
            ELSE IF Row(p, at[2]).time > req.UntilTimestamp THEN NextPayment
            ELSE Return(Wrap({"ErrReissueLimitExceeded"}, nil))
  BY DEF Probe
<1> DEFINE err == FetchInstructionLog(p, at[2], fault)
<1>3. /\ err = nil => Visible(p, at[2])
      /\ Is(err, "ErrRecordNotFound") => ~ Visible(p, at[2])
      /\ err # nil /\ ~ Is(err, "ErrRecordNotFound") => classifyVerifyStatus(err) = "RETRY"
  BY LookupErrors
<1> HIDE DEF err
<1>4. CASE NextPayment /\ (Is(err, "ErrRecordNotFound") \/ Row(p, at[2]).time > req.UntilTimestamp)
  BY <1>1, <1>3, <1>4 DEF NextPayment, ScanEnds
<1>5. CASE err # nil /\ ~ Is(err, "ErrRecordNotFound") /\ Return(err)
  BY <1>1, <1>3, <1>5, ReturnTells DEF ToldToRetry
<1>6. CASE /\ err = nil /\ ~ (Row(p, at[2]).time > req.UntilTimestamp)
           /\ Return(Wrap({"ErrReissueLimitExceeded"}, nil))
  <2>1. Wrap({"ErrReissueLimitExceeded"}, nil) # nil
    BY DEF Wrap, nil
  <2> QED
    BY <1>1, <1>3, <1>6, <2>1, ReturnTells
<1> QED
  BY <1>2, <1>4, <1>5, <1>6 DEF err

(* The transactions' fees are summed only when each row is sound; a row    *)
(* that is not there is the only verdict.                                  *)
LEMMA TransactionQueryMoves ==
    ASSUME FetchTransactions, req.BatchCount \in Nat
    PROVE  LET rows == [i \in 0 .. req.BatchCount - 1 |-> txs[SequenceAt(i)]]
           IN  /\ pc = "FetchTransactions" /\ queries' = queries + 1 /\ UNCHANGED <<index, req>>
               /\ pc' = "answered" /\ UNCHANGED <<payLogs, at, floor>>
               /\ \/ ToldToRetry
                  \/ (\E i \in DOMAIN rows : rows[i] = None) /\ answer'.err # nil
                  \/ /\ answer'.err = nil /\ answer'.EstimatedFee = estimatedFee
                     /\ answer'.ActualFee = Total([i \in DOMAIN rows |-> rows[i].fee])
                     /\ \A i \in DOMAIN rows :
                           /\ TxError(rows[i]) = nil
                           /\ rows[i] # None => rows[i].defect # "duplicate"
<1> DEFINE rows == [i \in 0 .. req.BatchCount - 1 |-> txs[SequenceAt(i)]]
           failing == { i \in DOMAIN rows : TxError(rows[i]) # nil }
           actualFee == Total([i \in DOMAIN rows |-> rows[i].fee])
<1>1. pc = "FetchTransactions" /\ queries' = queries + 1 /\ UNCHANGED <<index, req, floor>>
  BY DEF FetchTransactions
<1>2. PICK fault \in Faults :
        IF fault # nil THEN Return(Wrap({"ErrDatabase"}, fault))
        ELSE IF \E i \in DOMAIN rows : rows[i] # None /\ rows[i].defect = "duplicate"
        THEN Return(ErrDatabase)
        ELSE IF failing # {} THEN Return(TxError(rows[Min(failing)]))
        ELSE IF estimatedFee > MaxFeeSum \/ actualFee > MaxFeeSum THEN Return(ErrDatabase)
        ELSE /\ answer' = [err |-> nil, LastPaymentId |-> LastPaymentId,
                           ActualFee |-> actualFee, EstimatedFee |-> estimatedFee]
             /\ pc' = "answered"
             /\ UNCHANGED <<payLogs, at, estimatedFee>>
  BY DEF FetchTransactions
<1>3. DOMAIN rows = 0 .. req.BatchCount - 1 /\ DOMAIN rows \subseteq Nat
  OBVIOUS
<1> HIDE DEF rows, actualFee
<1>4. CASE \E err \in {ErrDatabase} \cup { Wrap({"ErrDatabase"}, f) : f \in Faults } : Return(err)
  <2>1. PICK err \in {ErrDatabase} \cup { Wrap({"ErrDatabase"}, f) : f \in Faults } : Return(err)
    BY <1>4
  <2>2. err # nil /\ classifyVerifyStatus(err) = "RETRY"
    BY FailuresAreNoVerdict
  <2>3. ToldToRetry /\ pc' = "answered" /\ UNCHANGED <<payLogs, at>>
    BY <2>1, <2>2 DEF ToldToRetry, Told, Return
  <2> QED
    BY <1>1, <2>3 DEF rows
<1>5. CASE failing # {} /\ Return(TxError(rows[Min(failing)]))
  <2> DEFINE m == Min(failing)
  <2>1. m \in failing
    BY <1>3, <1>5, MinIsMember
  <2>2. m \in DOMAIN rows /\ TxError(rows[m]) # nil
    BY <2>1
  <2>3. rows[m] # None => TxError(rows[m]) \in {nil, ErrDatabase, ErrDataSource}
    BY DEF TxError
  <2> HIDE DEF m
  <2>4. Told(TxError(rows[m]))
    BY <1>5, ReturnTells DEF m
  <2>5. CASE rows[m] # None
    BY <1>1, <2>2, <2>3, <2>4, <2>5, FailuresAreNoVerdict DEF ToldToRetry, Told, rows
  <2>6. CASE rows[m] = None
    <3>1. answer'.err = TxError(rows[m])
      BY <2>4 DEF Told
    <3> QED
      BY <1>1, <2>2, <2>4, <2>6, <3>1 DEF Told, rows
  <2> QED
    BY <2>5, <2>6
<1>6. CASE /\ ~ \E i \in DOMAIN rows : rows[i] # None /\ rows[i].defect = "duplicate"
           /\ failing = {}
           /\ answer' = [err |-> nil, LastPaymentId |-> LastPaymentId,
                         ActualFee |-> actualFee, EstimatedFee |-> estimatedFee]
           /\ pc' = "answered" /\ UNCHANGED <<payLogs, at, estimatedFee>>
  <2>1. answer'.err = nil /\ answer'.EstimatedFee = estimatedFee /\ answer'.ActualFee = actualFee
    BY <1>6
  <2> QED
    BY <1>1, <1>6, <2>1 DEF rows, actualFee
<1> QED
  BY <1>2, <1>4, <1>5, <1>6

-----------------------------------------------------------------------------
(***************************************************************************)
(* The queries are bounded.                                                *)
(***************************************************************************)

(* What a told request is.                                                 *)
LEMMA ToldEnds == ToldToRetry \/ (\E err : Told(err)) => pc' = "answered" /\ at' = at
  BY DEF ToldToRetry, Told

(* The types are kept.                                                     *)
LEMMA TypeStep == TypeInv /\ [Next]_vars => TypeInv'
<1> SUFFICES ASSUME TypeInv, [Next]_vars PROVE TypeInv'
  OBVIOUS
<1> DEFINE p == PaymentID(at[1])
<1>1. at[1] \in Nat /\ at[2] \in Nat /\ req.BatchCount \in Nat
  BY RequestType
<1>2. <<0, 0>> \in Nat \X Nat /\ <<at[1], 1>> \in Nat \X Nat /\ <<at[1], at[2] + 1>> \in Nat \X Nat
      /\ <<at[1] + 1, 0>> \in Nat \X Nat /\ queries + 1 \in Nat
  BY <1>1 DEF TypeInv
<1>3. ASSUME UNCHANGED <<index, req>>, queries' = queries \/ queries' = queries + 1,
             \/ pc' = "answered" /\ at' = at
             \/ /\ pc' \in Calls \ {"answered"} /\ pc # "answered" /\ UNCHANGED answer
                /\ at' \in {at, <<0, 0>>, <<at[1], 1>>, <<at[1], at[2] + 1>>, <<at[1] + 1, 0>>}
      PROVE  TypeInv'
  <2>1. scenario' = scenario /\ req' = req
    BY <1>3 DEF index
  <2>2. at' \in Nat \X Nat /\ queries' \in Nat
    BY <1>2, <1>3 DEF TypeInv
  <2>3. pc' \in Calls /\ (pc' # "answered" => answer' = None)
    BY <1>3 DEF TypeInv, Calls
  <2> QED
    BY <2>1, <2>2, <2>3 DEF TypeInv
<1>4. CASE FetchInstructionLogs
  <2>1. UNCHANGED <<index, req>> /\ (queries' = queries \/ queries' = queries + 1)
    BY <1>4, BatchQueryMoves
  <2>2. \/ pc' = "answered" /\ at' = at
        \/ pc' = "Pay" /\ pc = "FetchInstructionLogs" /\ UNCHANGED answer /\ at' = <<0, 0>>
    BY <1>4, BatchQueryMoves, ToldEnds
  <2> QED
    BY <1>3, <2>1, <2>2 DEF Calls
<1>5. CASE Pay
  <2>1. UNCHANGED <<index, req, queries>>
    BY <1>5, PayMoves
  <2>2. \/ pc' = "answered" /\ at' = at
        \/ pc' \in {"FetchTransactions", "Reissue"} /\ pc = "Pay" /\ UNCHANGED answer
           /\ at' \in {at, <<at[1], 1>>}
    BY <1>5, PayMoves, ToldEnds
  <2> QED
    BY <1>3, <2>1, <2>2 DEF Calls
<1>6. CASE Reissue
  <2>1. UNCHANGED <<index, req>> /\ queries' = queries + 1
    BY <1>6, ReissueMoves
  <2>2. \/ pc' = "answered" /\ at' = at
        \/ pc' \in {"Pay", "Reissue", "Probe"} /\ pc = "Reissue" /\ UNCHANGED answer
           /\ at' \in {<<at[1] + 1, 0>>, <<at[1], at[2] + 1>>}
    BY <1>6, ReissueMoves, ToldEnds DEF ScanEnds
  <2> QED
    BY <1>3, <2>1, <2>2 DEF Calls
<1>7. CASE Probe
  <2>1. UNCHANGED <<index, req>> /\ queries' = queries + 1
    BY <1>7, ProbeMoves
  <2>2. \/ pc' = "answered" /\ at' = at
        \/ pc' = "Pay" /\ pc = "Probe" /\ UNCHANGED answer /\ at' = <<at[1] + 1, 0>>
    BY <1>7, ProbeMoves, ToldEnds DEF ScanEnds
  <2> QED
    BY <1>3, <2>1, <2>2 DEF Calls
<1>8. CASE FetchTransactions
  <2>1. UNCHANGED <<index, req>> /\ queries' = queries + 1 /\ pc' = "answered" /\ at' = at
    BY <1>1, <1>8, TransactionQueryMoves
  <2> QED
    BY <1>3, <2>1
<1>9. CASE IndexStep
  <2>1. UNCHANGED <<scenario, request>>
    BY <1>9, IndexersKeepRequest
  <2> QED
    BY <2>1 DEF request, TypeInv
<1>10. CASE UNCHANGED vars
  BY <1>10 DEF vars, index, TypeInv
<1> QED
  BY <1>4, <1>5, <1>6, <1>7, <1>8, <1>9, <1>10 DEF Next, IndexStep

(* The budget of a payment is K queries.                                   *)
LEMMA PaymentBudget ==
    ASSUME NEW a \in Nat, NEW b \in Nat, a < b
    PROVE  a * K \in Nat /\ (a + 1) * K = a * K + K /\ a * K + K <= b * K /\ b * K \in Nat
<1>1. K \in Nat
  BY Caps
<1>2. \A x, y, k \in Nat : x < y => /\ x * k \in Nat /\ (x + 1) * k = x * k + k
                                    /\ x * k + k <= y * k /\ y * k \in Nat
  <2> SUFFICES ASSUME NEW x \in Nat, NEW y \in Nat, NEW k \in Nat, x < y
               PROVE  /\ x * k \in Nat /\ (x + 1) * k = x * k + k
                      /\ x * k + k <= y * k /\ y * k \in Nat
    OBVIOUS
  <2>1. PICK d \in Nat : y = x + 1 + d
    <3>1. y - (x + 1) \in Nat /\ y = x + 1 + (y - (x + 1))
      OBVIOUS
    <3> QED
      BY <3>1
  <2>2. x * k \in Nat /\ d * k \in Nat /\ y * k \in Nat
    OBVIOUS
  <2>3. (x + 1) * k = x * k + k
    OBVIOUS
  <2>4. y * k = x * k + k + d * k
    BY <2>1
  <2> QED
    BY <2>2, <2>3, <2>4
<1> QED
  BY <1>1, <1>2

(* The budget is kept.                                                     *)
LEMMA BudgetStep == TypeInv /\ BudgetInv /\ [Next]_vars => BudgetInv'
<1> SUFFICES ASSUME TypeInv, BudgetInv, [Next]_vars PROVE BudgetInv'
  OBVIOUS
<1> DEFINE a == at[1]
           n == at[2]
           b == req.BatchCount
           q == queries
<1>1. a \in Nat /\ n \in Nat /\ b \in Nat /\ q \in Nat /\ pc \in Calls
  BY RequestType DEF TypeInv
<1>2. Budget(pc, a, n, b, q)
  BY DEF BudgetInv
<1>3. M \in Nat /\ M >= 1 /\ K = M + 1 /\ K \in Nat
  BY Caps
<1>4. 0 * K = 0 /\ b * K \in Nat /\ a * K \in Nat
  BY <1>1, <1>3
<1>5. a < b => (a + 1) * K = a * K + K /\ a * K + K <= b * K
  BY <1>1, PaymentBudget
<1>6. a = b => a * K = b * K
  OBVIOUS
<1> HIDE DEF a, n, b, q
<1>7. ASSUME NEW a2, NEW n2, at' = <<a2, n2>>, req' = req, Budget(pc', a2, n2, b, queries')
      PROVE  BudgetInv'
  <2>1. at'[1] = a2 /\ at'[2] = n2
    BY <1>7
  <2> QED
    BY <1>7, <2>1 DEF BudgetInv, b
<1>8. at = <<a, n>>
  BY DEF a, n, TypeInv
<1>9. CASE FetchInstructionLogs
  <2>1. req' = req /\ pc = "FetchInstructionLogs" /\ (queries' = q \/ queries' = q + 1)
    BY <1>9, BatchQueryMoves DEF q
  <2>2. \/ pc' = "answered" /\ at' = at
        \/ pc' = "Pay" /\ at' = <<0, 0>>
    BY <1>9, BatchQueryMoves, ToldEnds
  <2>3. q = 0
    BY <1>2, <2>1 DEF Budget
  <2>4. CASE pc' = "answered" /\ at' = at
    <3>1. Budget(pc', a, n, b, queries')
      BY <1>1, <1>4, <2>1, <2>3, <2>4 DEF Budget
    <3> QED
      BY <1>7, <1>8, <2>1, <2>4, <3>1
  <2>5. CASE pc' = "Pay" /\ at' = <<0, 0>>
    <3>1. Budget(pc', 0, 0, b, queries')
      BY <1>1, <1>4, <2>1, <2>3, <2>5 DEF Budget
    <3> QED
      BY <1>7, <2>1, <2>5, <3>1
  <2> QED
    BY <2>2, <2>4, <2>5
<1>10. CASE Pay
  <2>1. req' = req /\ pc = "Pay" /\ queries' = q
    BY <1>10, PayMoves DEF q
  <2>2. \/ a = b /\ pc' = "FetchTransactions" /\ at' = at
        \/ a < b /\ pc' = "answered" /\ at' = at
        \/ a < b /\ pc' = "Reissue" /\ at' = <<a, 1>>
    BY <1>10, PayMoves, ToldEnds DEF a, b
  <2>3. q <= 1 + a * K
    BY <1>2, <2>1 DEF Budget
  <2>4. CASE a = b /\ pc' = "FetchTransactions" /\ at' = at
    <3>1. Budget(pc', a, n, b, queries')
      BY <2>1, <2>3, <2>4 DEF Budget
    <3> QED
      BY <1>7, <1>8, <2>1, <2>4, <3>1
  <2>5. CASE a < b /\ pc' = "answered" /\ at' = at
    <3>1. q <= 2 + b * K
      BY <1>1, <1>3, <1>4, <1>5, <2>3, <2>5
    <3>2. Budget(pc', a, n, b, queries')
      BY <2>1, <2>5, <3>1 DEF Budget
    <3> QED
      BY <1>7, <1>8, <2>1, <2>5, <3>2
  <2>6. CASE a < b /\ pc' = "Reissue" /\ at' = <<a, 1>>
    <3>1. q + 1 <= 1 + a * K + 1
      BY <1>1, <1>4, <2>3
    <3>2. Budget(pc', a, 1, b, queries')
      BY <1>3, <2>1, <2>6, <3>1 DEF Budget
    <3> QED
      BY <1>7, <2>1, <2>6, <3>2
  <2> QED
    BY <2>2, <2>4, <2>5, <2>6
<1>11. CASE Reissue
  <2>1. req' = req /\ pc = "Reissue" /\ queries' = q + 1
    BY <1>11, ReissueMoves DEF q
  <2>2. \/ pc' = "Pay" /\ at' = <<a + 1, 0>>
        \/ pc' = "answered" /\ at' = at
        \/ pc' = (IF n < M THEN "Reissue" ELSE "Probe") /\ at' = <<a, n + 1>>
    BY <1>11, ReissueMoves, ToldEnds DEF ScanEnds, a, n
  <2>3. a < b /\ n >= 1 /\ n <= M /\ q + 1 <= 1 + a * K + n
    BY <1>2, <2>1 DEF Budget
  <2>4. CASE pc' = "Pay" /\ at' = <<a + 1, 0>>
    <3>1. a + 1 <= b /\ q + 1 <= 1 + (a + 1) * K
      BY <1>1, <1>3, <1>4, <1>5, <2>3
    <3>2. Budget(pc', a + 1, 0, b, queries')
      BY <2>1, <2>4, <3>1 DEF Budget
    <3> QED
      BY <1>7, <2>1, <2>4, <3>2
  <2>5. CASE pc' = "answered" /\ at' = at
    <3>1. q + 1 <= 2 + b * K
      BY <1>1, <1>3, <1>4, <1>5, <2>3
    <3>2. Budget(pc', a, n, b, queries')
      BY <2>1, <2>5, <3>1 DEF Budget
    <3> QED
      BY <1>7, <1>8, <2>1, <2>5, <3>2
  <2>6. CASE pc' = (IF n < M THEN "Reissue" ELSE "Probe") /\ at' = <<a, n + 1>>
    <3>1. n + 1 >= 1 /\ (n < M => n + 1 <= M) /\ (~ (n < M) => n = M)
      BY <1>1, <1>3, <2>3
    <3>2. q + 1 + 1 <= 1 + a * K + (n + 1)
      BY <1>1, <1>4, <2>3
    <3>3. Budget(pc', a, n + 1, b, queries')
      BY <2>1, <2>3, <2>6, <3>1, <3>2 DEF Budget
    <3> QED
      BY <1>7, <2>1, <2>6, <3>3
  <2> QED
    BY <2>2, <2>4, <2>5, <2>6
<1>12. CASE Probe
  <2>1. req' = req /\ pc = "Probe" /\ queries' = q + 1
    BY <1>12, ProbeMoves DEF q
  <2>2. \/ pc' = "Pay" /\ at' = <<a + 1, 0>>
        \/ pc' = "answered" /\ at' = at
    BY <1>12, ProbeMoves, ToldEnds DEF ScanEnds, a
  <2>3. a < b /\ q <= 1 + a * K + M
    BY <1>2, <2>1 DEF Budget
  <2>4. a + 1 <= b /\ q + 1 <= 1 + (a + 1) * K /\ q + 1 <= 2 + b * K
    BY <1>1, <1>3, <1>4, <1>5, <2>3
  <2>5. CASE pc' = "Pay" /\ at' = <<a + 1, 0>>
    <3>1. Budget(pc', a + 1, 0, b, queries')
      BY <2>1, <2>4, <2>5 DEF Budget
    <3> QED
      BY <1>7, <2>1, <2>5, <3>1
  <2>6. CASE pc' = "answered" /\ at' = at
    <3>1. Budget(pc', a, n, b, queries')
      BY <2>1, <2>4, <2>6 DEF Budget
    <3> QED
      BY <1>7, <1>8, <2>1, <2>6, <3>1
  <2> QED
    BY <2>2, <2>5, <2>6
<1>13. CASE FetchTransactions
  <2>1. /\ req' = req /\ pc = "FetchTransactions" /\ queries' = q + 1
        /\ pc' = "answered" /\ at' = at
    BY <1>1, <1>13, TransactionQueryMoves DEF q, b
  <2>2. q <= 1 + b * K
    BY <1>2, <2>1 DEF Budget
  <2>3. q + 1 <= 2 + b * K
    BY <1>1, <1>4, <2>2
  <2>4. Budget(pc', a, n, b, queries')
    BY <2>1, <2>3 DEF Budget
  <2> QED
    BY <1>7, <1>8, <2>1, <2>4
<1>14. CASE IndexStep
  <2>1. UNCHANGED request
    BY <1>14, IndexersKeepRequest
  <2> QED
    BY <2>1 DEF request, BudgetInv
<1>15. CASE UNCHANGED vars
  BY <1>15 DEF vars, BudgetInv
<1> QED
  BY <1>9, <1>10, <1>11, <1>12, <1>13, <1>14, <1>15 DEF Next, IndexStep

(* A request starts with nothing asked.                                    *)
LEMMA BudgetInit == Init => TypeInv /\ BudgetInv
<1> SUFFICES ASSUME Init PROVE TypeInv /\ BudgetInv
  OBVIOUS
<1>1. /\ scenario \in Scenarios /\ req \in Requests[scenario] /\ pc = "FetchInstructionLogs"
      /\ at = <<0, 0>> /\ queries = 0 /\ answer = None
  BY DEF Init
<1> QED
  BY <1>1 DEF TypeInv, BudgetInv, Budget, Calls

(* Nothing is asked for a batch that validateBatchRange refuses, and the   *)
(* scan begins with a query.                                               *)
RangeInv ==
    /\ queries > 0 => validateBatchRange(req)
    /\ pc \in {"Pay", "Reissue", "Probe", "FetchTransactions"} => queries > 0

LEMMA RangeStep == TypeInv /\ BudgetInv /\ RangeInv /\ [Next]_vars => RangeInv'
<1> SUFFICES ASSUME TypeInv, BudgetInv, RangeInv, [Next]_vars PROVE RangeInv'
  OBVIOUS
<1>1. queries \in Nat
  BY DEF TypeInv
<1>2. ASSUME req' = req PROVE validateBatchRange(req)' <=> validateBatchRange(req)
  BY <1>2 DEF validateBatchRange
<1>3. CASE FetchInstructionLogs
  <2>1. /\ req' = req /\ pc = "FetchInstructionLogs" /\ queries = 0
        /\ pc' = "answered" \/ (pc' = "Pay" /\ queries' = queries + 1)
    BY <1>3, BatchQueryMoves, ToldEnds DEF BudgetInv, Budget
  <2>2. validateBatchRange(req) \/ queries' = queries
    BY <1>3 DEF FetchInstructionLogs
  <2> QED
    BY <1>2, <2>1, <2>2 DEF RangeInv
<1>4. ASSUME pc \in {"Pay", "Reissue", "Probe", "FetchTransactions"}, req' = req,
             queries' = queries \/ queries' = queries + 1
      PROVE  RangeInv'
  BY <1>1, <1>2, <1>4 DEF RangeInv
<1>5. CASE Pay
  BY <1>4, <1>5 DEF Pay
<1>6. CASE Reissue
  BY <1>4, <1>6 DEF Reissue
<1>7. CASE Probe
  BY <1>4, <1>7 DEF Probe
<1>8. CASE FetchTransactions
  BY <1>4, <1>8 DEF FetchTransactions
<1>9. CASE IndexStep \/ UNCHANGED vars
  <2>1. UNCHANGED <<pc, req, queries>>
    BY <1>9, IndexersKeepRequest DEF request, vars
  <2> QED
    BY <1>2, <2>1 DEF RangeInv
<1> QED
  BY <1>3, <1>5, <1>6, <1>7, <1>8, <1>9 DEF Next, IndexStep

LEMMA RangeInit == Init => RangeInv
  BY DEF Init, RangeInv

(* One request makes at most two batch queries and, for each payment a     *)
(* batch may have, one query per reissue up to the cap and one past it:    *)
(* whatever it asks for and whatever the indexes hold or gain meanwhile.   *)
THEOREM WorkIsBounded == Spec => []QueriesBounded
<1>1. TypeInv /\ BudgetInv => queries <= 2 + req.BatchCount * K
  <2> SUFFICES ASSUME TypeInv, BudgetInv PROVE queries <= 2 + req.BatchCount * K
    OBVIOUS
  <2>1. /\ at[1] \in Nat /\ at[2] \in Nat /\ req.BatchCount \in Nat /\ queries \in Nat /\ pc \in Calls
    BY RequestType DEF TypeInv
  <2>2. M \in Nat /\ K = M + 1 /\ K \in Nat
    BY Caps
  <2>3. req.BatchCount * K \in Nat /\ at[1] * K \in Nat
    BY <2>1, <2>2
  <2>4. at[1] < req.BatchCount => at[1] * K + K <= req.BatchCount * K
    BY <2>1, PaymentBudget
  <2>5. at[1] <= req.BatchCount => at[1] < req.BatchCount \/ at[1] = req.BatchCount
    BY <2>1
  <2>6. Budget(pc, at[1], at[2], req.BatchCount, queries)
    BY DEF BudgetInv
  <2>7. \/ queries = 0
        \/ at[1] <= req.BatchCount /\ queries <= 1 + at[1] * K
        \/ at[1] < req.BatchCount /\ at[2] <= M /\ queries + 1 <= 1 + at[1] * K + at[2]
        \/ at[1] < req.BatchCount /\ queries <= 1 + at[1] * K + M
        \/ queries <= 1 + req.BatchCount * K
        \/ queries <= 2 + req.BatchCount * K
    BY <2>1, <2>6 DEF Budget, Calls
  <2> QED
    BY <2>1, <2>2, <2>3, <2>4, <2>5, <2>7
<1>2. TypeInv /\ BudgetInv /\ RangeInv => QueriesBounded
  <2> SUFFICES ASSUME TypeInv, BudgetInv, RangeInv PROVE queries <= 2 + MaxBatchRange * K
    BY DEF QueriesBounded, K
  <2>1. req.BatchCount \in Nat /\ queries \in Nat /\ MaxBatchRange \in Nat /\ K \in Nat
    BY RequestType, FeeProofAssumption, Caps DEF TypeInv
  <2>2. CASE queries = 0
    <3>1. MaxBatchRange * K \in Nat
      BY <2>1
    <3> QED
      BY <2>2, <3>1
  <2>3. CASE queries > 0
    <3>1. req.BatchCount <= MaxBatchRange
      BY <2>3 DEF RangeInv, validateBatchRange
    <3>2. req.BatchCount < MaxBatchRange => req.BatchCount * K + K <= MaxBatchRange * K
      BY <2>1, PaymentBudget
    <3>3. req.BatchCount * K \in Nat /\ MaxBatchRange * K \in Nat
      BY <2>1
    <3>4. req.BatchCount = MaxBatchRange \/ req.BatchCount < MaxBatchRange
      BY <2>1, <3>1
    <3> QED
      BY <1>1, <2>1, <3>2, <3>3, <3>4
  <2> QED
    BY <2>1, <2>2, <2>3
<1> QED
  BY <1>2, BudgetInit, RangeInit, TypeStep, BudgetStep, RangeStep, PTL DEF Spec

-----------------------------------------------------------------------------
(***************************************************************************)
(* The verdicts have a cause.                                              *)
(***************************************************************************)
EventRecord == [time : Nat, maxFee : MaxFees[scenario], defect : EventDefects[scenario]]
TxRecord == [fee : TxFees[scenario], defect : TxDefects[scenario]]

IndexInv ==
    /\ now \in Nat
    /\ logs \in [Payments[scenario] -> Seq(EventRecord)]
    /\ txs \in [Sequences -> TxRecord \cup {None}]

(* The i-th payment's event was read, and names the assigned sequence.     *)
BoundTo(i) ==
    PaymentID(i) \in DOMAIN payLogs /\ SequenceAt(i) = SequenceOf(PaymentID(i))

(* The payments the scan has passed are bound to their sequences, and the  *)
(* reissues it has counted for the payment it is at are in the window.     *)
ScanInv ==
    /\ DOMAIN payLogs \subseteq Payments[scenario]
    /\ pc \in {"Pay", "Reissue", "Probe", "FetchTransactions"} =>
          \A i \in Nat : i < at[1] => BoundTo(i)
    /\ pc \in {"Reissue", "Probe"} =>
          /\ BoundTo(at[1])
          /\ \A k \in Nat : k > 1 /\ k <= at[2] => k \in InWindow(PaymentID(at[1]))

(* A fee is of the sound row with the assigned sequence.                   *)
SummedRowsAreSound ==
    OK => \A p \in Batch : LET tx == txs[SequenceOf(p)]
                           IN  tx # None /\ tx.defect = "none" /\ tx.fee \in 0 .. MaxXRPDrops

(* A step of the request leaves the indexes alone.                         *)
LEMMA RequestKeepsIndex ==
    ASSUME TypeInv, FetchInstructionLogs \/ Pay \/ Reissue \/ Probe \/ FetchTransactions
    PROVE  UNCHANGED <<index, req>>
  BY DEF FetchInstructionLogs, Pay, Reissue, Probe, FetchTransactions

(* The indexes gain rows of the known shape at their ends.                 *)
LEMMA IndexGrows ==
    ASSUME IndexInv, IndexStep
    PROVE  /\ IndexInv'
           /\ \A p \in Payments[scenario] : \A k \in DOMAIN logs[p] :
                 k \in DOMAIN logs'[p] /\ logs'[p][k] = logs[p][k]
<1>1. scenario' = scenario
  BY IndexersKeepRequest
<1>2. now \in Nat /\ logs \in [Payments[scenario] -> Seq(EventRecord)]
      /\ txs \in [Sequences -> TxRecord \cup {None}]
  BY DEF IndexInv
<1>3. EventRecord' = EventRecord /\ TxRecord' = TxRecord /\ Sequences' = Sequences
  BY <1>1 DEF EventRecord, TxRecord, Sequences
<1>4. ASSUME NEW p \in Payments[scenario], IndexEvent(p)
      PROVE  /\ IndexInv'
             /\ \A c \in Payments[scenario] : \A k \in DOMAIN logs[c] :
                   k \in DOMAIN logs'[c] /\ logs'[c][k] = logs[c][k]
  <2>1. PICK fee \in MaxFees[scenario], defect \in EventDefects[scenario] :
          logs' = [logs EXCEPT ![p] = Append(@, [time |-> now, maxFee |-> fee, defect |-> defect])]
    BY <1>4 DEF IndexEvent
  <2>2. now' = now /\ txs' = txs
    BY <1>4 DEF IndexEvent
  <2> DEFINE e == [time |-> now, maxFee |-> fee, defect |-> defect]
             s == logs[p]
  <2>3. e \in EventRecord /\ s \in Seq(EventRecord)
    BY <1>2 DEF EventRecord
  <2> HIDE DEF e
  <2>4. /\ Append(s, e) \in Seq(EventRecord)
        /\ \A k \in DOMAIN s : k \in DOMAIN Append(s, e) /\ Append(s, e)[k] = s[k]
    <3> HIDE DEF s
    <3> QED
      BY <2>3
  <2>5. logs' = [logs EXCEPT ![p] = Append(s, e)]
    BY <2>1 DEF e
  <2> HIDE DEF s
  <2>6. logs' \in [Payments[scenario] -> Seq(EventRecord)]
    BY <1>2, <2>4, <2>5
  <2>7. /\ logs'[p] = Append(s, e)
        /\ \A c \in Payments[scenario] \ {p} : logs'[c] = logs[c]
    BY <1>2, <2>5
  <2>8. \A c \in Payments[scenario] : \A k \in DOMAIN logs[c] :
          k \in DOMAIN logs'[c] /\ logs'[c][k] = logs[c][k]
    BY <2>4, <2>7 DEF s
  <2> QED
    BY <1>1, <1>2, <1>3, <2>2, <2>6, <2>8 DEF IndexInv
<1>5. ASSUME NEW q \in Sequences, IndexTransaction(q) PROVE IndexInv' /\ logs' = logs
  <2>1. PICK fee \in TxFees[scenario], defect \in TxDefects[scenario] :
          txs' = [txs EXCEPT ![q] = [fee |-> fee, defect |-> defect]]
    BY <1>5 DEF IndexTransaction
  <2>2. now' = now /\ logs' = logs
    BY <1>5 DEF IndexTransaction
  <2>3. [fee |-> fee, defect |-> defect] \in TxRecord
    BY DEF TxRecord
  <2>4. txs' \in [Sequences -> TxRecord \cup {None}]
    BY <1>2, <2>1, <2>3
  <2> QED
    BY <1>1, <1>2, <1>3, <2>2, <2>4 DEF IndexInv
<1>6. ASSUME IndexBlock \/ Prune PROVE IndexInv' /\ logs' = logs
  <2>1. logs' = logs /\ txs' = txs
    BY <1>6 DEF IndexBlock, Prune
  <2>2. now' = now \/ now' = now + 1
    BY <1>6 DEF IndexBlock, Prune
  <2>3. now' \in Nat
    BY <1>2, <2>2, SMTT(30), SMTT(60)
  <2> QED
    BY <1>1, <1>2, <1>3, <2>1, <2>3 DEF IndexInv
<1> QED
  BY <1>4, <1>5, <1>6 DEF IndexStep

(* Every step keeps the shape of the indexes.                              *)
LEMMA IndexInvStep == TypeInv /\ IndexInv /\ [Next]_vars => IndexInv'
<1> SUFFICES ASSUME TypeInv, IndexInv, [Next]_vars PROVE IndexInv'
  OBVIOUS
<1>1. ASSUME UNCHANGED index PROVE IndexInv'
  BY <1>1 DEF index, IndexInv, EventRecord, TxRecord, Sequences
<1>2. CASE UNCHANGED vars
  BY <1>1, <1>2 DEF vars
<1> QED
  BY <1>1, <1>2, RequestKeepsIndex, IndexGrows DEF Next, IndexStep

(* A row that is seen in the window is counted there.                      *)
LEMMA SeenInWindow ==
    ASSUME TypeInv, IndexInv, NEW p \in Payments[scenario], NEW n \in Nat, n >= 1,
           Visible(p, n), ~ (Row(p, n).time > req.UntilTimestamp)
    PROVE  n + 1 \in InWindow(p)
<1>1. n + 1 \in DOMAIN logs[p] /\ ~ (logs[p][n + 1].time > req.UntilTimestamp)
  BY DEF Visible, Row
<1>2. logs[p] \in Seq(EventRecord)
  BY DEF IndexInv
<1>3. logs[p][n + 1] \in EventRecord
  BY <1>1, <1>2
<1>4. logs[p][n + 1].time \in Nat
  BY <1>3 DEF EventRecord
<1>5. req.UntilTimestamp \in Nat
  BY RequestType
<1>6. \A t, u \in Nat : ~ (t > u) => t <= u
  OBVIOUS
<1>7. n + 1 > 1
  OBVIOUS
<1> QED
  BY <1>1, <1>4, <1>5, <1>6, <1>7 DEF InWindow

(* Whether a payment is bound depends on the request alone.                *)
LEMMA BoundStays ==
    ASSUME UNCHANGED <<req, payLogs>>
    PROVE  \A i : (BoundTo(i)' <=> BoundTo(i)) /\ PaymentID(i)' = PaymentID(i)
  BY DEF BoundTo, PaymentID, SequenceAt, Nonce, SequenceOf

(* The scan stays right: for the request's own steps ...                   *)
LEMMA RequestScans ==
    ASSUME TypeInv, IndexInv, BudgetInv, ScanInv,
           FetchInstructionLogs \/ Pay \/ Reissue \/ Probe \/ FetchTransactions
    PROVE  ScanInv'
<1> DEFINE a == at[1]
           n == at[2]
           p == PaymentID(a)
<1>1. a \in Nat /\ n \in Nat /\ req.BatchCount \in Nat
  BY RequestType
<1>2. UNCHANGED <<index, req>>
  BY RequestKeepsIndex
<1>3. scenario' = scenario /\ logs' = logs
  BY <1>2 DEF index
<1>4. \A c : InWindow(c)' = InWindow(c)
  BY <1>2, <1>3 DEF InWindow
<1>5. ASSUME pc' = "answered", UNCHANGED payLogs PROVE ScanInv'
  BY <1>3, <1>5 DEF ScanInv
<1>6. ASSUME ToldToRetry \/ \E err : Told(err) PROVE ScanInv'
  BY <1>5, <1>6 DEF ToldToRetry, Told
<1>7. ASSUME ScanEnds, pc \in {"Reissue", "Probe"} PROVE ScanInv'
  <2>1. at' = <<a + 1, 0>> /\ pc' = "Pay" /\ UNCHANGED <<req, payLogs>>
    BY <1>2, <1>7 DEF ScanEnds
  <2>2. at'[1] = a + 1
    BY <2>1
  <2>3. BoundTo(a) /\ \A i \in Nat : i < a => BoundTo(i)
    BY <1>7 DEF ScanInv
  <2>4. \A i \in Nat : i < a + 1 => i < a \/ i = a
    BY <1>1
  <2>5. \A i \in Nat : i < at'[1] => BoundTo(i)'
    BY <2>1, <2>2, <2>3, <2>4, BoundStays
  <2> QED
    BY <1>3, <2>1, <2>5 DEF ScanInv
<1>8. CASE FetchInstructionLogs
  <2>1. CASE pc' = "Pay" /\ at' = <<0, 0>> /\ \E found \in SUBSET (Batch \cap DOMAIN logs) :
                       payLogs' = [c \in found |-> Row(c, 0)]
    <3>1. DOMAIN payLogs' \subseteq Payments[scenario]
      BY <2>1 DEF IndexInv
    <3>2. at'[1] = 0
      BY <2>1
    <3>3. \A i \in Nat : ~ (i < 0)
      OBVIOUS
    <3> QED
      BY <1>3, <2>1, <3>1, <3>2, <3>3 DEF ScanInv
  <2> QED
    BY <1>6, <1>8, <2>1, BatchQueryMoves
<1>9. CASE Pay
  <2>1. pc = "Pay"
    BY <1>9, PayMoves
  <2>2. \A i \in Nat : i < a => BoundTo(i)
    BY <2>1 DEF ScanInv
  <2>3. CASE pc' = "FetchTransactions" /\ UNCHANGED <<payLogs, at>>
    BY <1>2, <1>3, <2>2, <2>3, BoundStays DEF ScanInv
  <2>4. CASE /\ p \in DOMAIN payLogs /\ Nonce(p, payLogs[p]) = SequenceOf(p)
             /\ at' = <<a, 1>> /\ pc' = "Reissue" /\ UNCHANGED payLogs
    <3>1. at'[1] = a /\ at'[2] = 1
      BY <2>4
    <3>2. BoundTo(a)
      BY <2>4 DEF BoundTo, SequenceAt
    <3>3. \A k \in Nat : ~ (k > 1 /\ k <= 1)
      OBVIOUS
    <3> QED
      BY <1>2, <1>3, <2>2, <2>4, <3>1, <3>2, <3>3, BoundStays DEF ScanInv
  <2> QED
    BY <1>6, <1>9, <2>3, <2>4, PayMoves
<1>10. CASE Reissue
  <2>1. pc = "Reissue"
    BY <1>10, ReissueMoves
  <2>2. CASE /\ Visible(p, n) /\ ~ (Row(p, n).time > req.UntilTimestamp)
             /\ at' = <<a, n + 1>> /\ pc' \in {"Reissue", "Probe"} /\ UNCHANGED payLogs
    <3>1. at'[1] = a /\ at'[2] = n + 1
      BY <2>2
    <3>2. /\ BoundTo(a) /\ \A i \in Nat : i < a => BoundTo(i)
          /\ \A k \in Nat : k > 1 /\ k <= n => k \in InWindow(p)
      BY <2>1 DEF ScanInv
    <3>3. p \in Payments[scenario]
      BY <3>2 DEF BoundTo, ScanInv
    <3>4. n >= 1
      BY <2>1 DEF BudgetInv, Budget
    <3>5. n + 1 \in InWindow(p)
      BY <1>1, <2>2, <3>3, <3>4, SeenInWindow
    <3>6. \A k \in Nat : k <= n + 1 => k <= n \/ k = n + 1
      BY <1>1
    <3>7. \A k \in Nat : k > 1 /\ k <= n + 1 => k \in InWindow(p)
      BY <3>2, <3>5, <3>6
    <3>8. PaymentID(a)' = p
      BY <1>2, <2>2, BoundStays
    <3>9. PaymentID(at[1])' = p
      BY <1>2, <2>2, <3>1 DEF PaymentID
    <3> QED
      BY <1>2, <1>3, <1>4, <2>2, <3>1, <3>2, <3>7, <3>9, BoundStays DEF ScanInv
  <2> QED
    BY <1>6, <1>7, <1>10, <2>1, <2>2, ReissueMoves
<1>11. CASE Probe
  BY <1>6, <1>7, <1>11, ProbeMoves
<1>12. CASE FetchTransactions
  BY <1>1, <1>5, <1>12, TransactionQueryMoves
<1> QED
  BY <1>8, <1>9, <1>10, <1>11, <1>12

(* ... and while the indexes grow, since a reissue stays in its window.    *)
LEMMA IndexersKeepScan ==
    ASSUME TypeInv, IndexInv, ScanInv, IndexStep
    PROVE  ScanInv'
<1>1. UNCHANGED <<scenario, request>>
  BY IndexersKeepRequest
<1>2. UNCHANGED <<scenario, pc, req, payLogs, at>>
  BY <1>1 DEF request
<1>3. ASSUME NEW p \in Payments[scenario], NEW k \in InWindow(p) PROVE k \in InWindow(p)'
  <2>1. k \in DOMAIN logs'[p] /\ logs'[p][k] = logs[p][k]
    BY IndexGrows DEF InWindow
  <2> QED
    BY <1>2, <2>1 DEF InWindow
<1>4. CASE pc \in {"Reissue", "Probe"}
  <2>1. PaymentID(at[1])' = PaymentID(at[1])
    BY <1>2 DEF PaymentID
  <2>2. PaymentID(at[1]) \in Payments[scenario]
    BY <1>4 DEF ScanInv, BoundTo
  <2>3. \A k \in Nat : k > 1 /\ k <= at[2] => k \in InWindow(PaymentID(at[1]))'
    BY <1>2, <1>3, <1>4, <2>1, <2>2 DEF ScanInv
  <2> QED
    BY <1>2, <1>4, <2>3, BoundStays DEF ScanInv
<1>5. CASE pc \notin {"Reissue", "Probe"}
  BY <1>2, <1>5, BoundStays DEF ScanInv
<1> QED
  BY <1>4, <1>5

(* More reissues in the window than the cap allows.                        *)
LEMMA OverTheCap ==
    ASSUME TypeInv, IndexInv, NEW p \in Payments[scenario],
           \A k \in Nat : k > 1 /\ k <= M + 2 => k \in InWindow(p)
    PROVE  Cardinality(InWindow(p)) > MaxReissuesPerPayment
<1>1. M \in Nat /\ 2 \in Int /\ M + 2 \in Int
  BY Caps
<1>2. 2 .. M + 2 \subseteq InWindow(p)
  BY <1>1
<1>3. IsFiniteSet(InWindow(p))
  <2>1. logs[p] \in Seq(EventRecord)
    BY DEF IndexInv
  <2>2. Len(logs[p]) \in Nat /\ DOMAIN logs[p] = 1 .. Len(logs[p])
    BY <2>1
  <2>3. IsFiniteSet(1 .. Len(logs[p]))
    BY <2>2, FS_Interval
  <2>4. InWindow(p) \in SUBSET (1 .. Len(logs[p]))
    BY <2>2 DEF InWindow
  <2> QED
    BY <2>3, <2>4, FS_Subset
<1>4. Cardinality(2 .. M + 2) = M + 1
  <2>1. Cardinality(2 .. M + 2) = IF 2 > M + 2 THEN 0 ELSE M + 2 - 2 + 1
    BY <1>1, FS_Interval, SMTT(30), SMTT(60)
  <2> QED
    BY <1>1, <2>1
<1>5. Cardinality(2 .. M + 2) <= Cardinality(InWindow(p))
  BY <1>2, <1>3, FS_Subset
<1>6. Cardinality(InWindow(p)) \in Nat
  BY <1>3, FS_CardinalityType
<1>7. M = MaxReissuesPerPayment
  BY DEF M
<1> QED
  BY <1>1, <1>4, <1>5, <1>6, <1>7

(* Why a request may be told an error that is a verdict.                   *)
Cause ==
    \/ ~ validateBatchRange(req)
    \/ queries > 0 /\ Batch \ DOMAIN payLogs # {}
    \/ \E p \in Batch : txs[SequenceOf(p)] = None
    \/ \E p \in Batch : Cardinality(InWindow(p)) > MaxReissuesPerPayment

CauseInv == RejectedOnlyForCause /\ SummedRowsAreSound

(* What validateBatchRange refuses is empty, over the cap or past the last *)
(* payment id.                                                             *)
LEMMA RefusedRange ==
    ASSUME NEW first \in 0 .. MaxUint, NEW count \in 0 .. MaxUint
    PROVE  ~ (count > 0 /\ count <= MaxBatchRange /\ first <= MaxUint - (count - 1))
               => count \notin 1 .. MaxBatchRange \/ first + count > MaxUint + 1
  BY FeeProofAssumption, SMTT(30), SMTT(60)

(* The queries made are counted.                                           *)
LEMMA RequestAsks ==
    ASSUME FetchInstructionLogs \/ Pay \/ Reissue \/ Probe \/ FetchTransactions
    PROVE  queries' = queries \/ queries' = queries + 1
  BY BatchQueryMoves DEF Pay, Reissue, Probe, FetchTransactions

(* A step that ends the request does so for a cause, or for none that is a *)
(* verdict, or with the fees of sound rows.                                *)
LEMMA EndsForCause ==
    ASSUME TypeInv, IndexInv, BudgetInv, RangeInv, ScanInv, pc' = "answered",
           FetchInstructionLogs \/ Pay \/ Reissue \/ Probe \/ FetchTransactions
    PROVE  CauseInv'
<1> DEFINE a == at[1]
           n == at[2]
           p == PaymentID(a)
           b == req.BatchCount
<1>1. a \in Nat /\ n \in Nat /\ b \in Nat
  BY RequestType
<1>2. UNCHANGED <<index, req>>
  BY RequestKeepsIndex
<1>3. scenario' = scenario /\ logs' = logs /\ txs' = txs
  BY <1>2 DEF index
<1>4. Batch' = Batch
  BY <1>2 DEF Batch, PaymentID
<1>5. ASSUME UNCHANGED payLogs, Cause PROVE Cause'
  <2>1. \A c : InWindow(c)' = InWindow(c)
    BY <1>2, <1>3 DEF InWindow
  <2>2. validateBatchRange(req)' <=> validateBatchRange(req)
    BY <1>2 DEF validateBatchRange
  <2>3. queries > 0 => queries' > 0
    BY RequestAsks DEF TypeInv
  <2> QED
    BY <1>3, <1>4, <1>5, <2>1, <2>2, <2>3 DEF Cause, SequenceOf
<1>6. ASSUME answer'.err # nil, Cause, UNCHANGED payLogs PROVE CauseInv'
  <2>1. SummedRowsAreSound'
    BY <1>6 DEF SummedRowsAreSound, OK
  <2>2. req.FirstPaymentId \in 0 .. MaxUint /\ req.BatchCount \in 0 .. MaxUint
    BY FeeProofAssumption DEF TypeInv
  <2>3. ~ validateBatchRange(req) => \/ req.BatchCount \notin 1 .. MaxBatchRange
                                    \/ req.FirstPaymentId + req.BatchCount > MaxUint + 1
    BY <2>2, RefusedRange DEF validateBatchRange
  <2>4. RejectedOnlyForCause'
    BY <1>2, <1>5, <1>6, <2>3 DEF RejectedOnlyForCause, Cause, validateBatchRange
  <2> QED
    BY <2>1, <2>4 DEF CauseInv
<1>7. ASSUME ToldToRetry PROVE CauseInv'
  <2>1. PICK err : Told(err) /\ err # nil /\ classifyVerifyStatus(err) = "RETRY"
    BY <1>7 DEF ToldToRetry
  <2>2. answer'.err = err
    BY <2>1 DEF Told
  <2>3. answer'.err # nil /\ classifyVerifyStatus(answer'.err) # "REJECTED"
    BY <2>1, <2>2
  <2> QED
    BY <2>3 DEF CauseInv, SummedRowsAreSound, RejectedOnlyForCause, OK
<1>8. ASSUME Cause, \E err : Told(err) /\ err # nil PROVE CauseInv'
  <2>1. PICK err : Told(err) /\ err # nil
    BY <1>8
  <2>2. answer'.err = err /\ UNCHANGED payLogs
    BY <2>1 DEF Told
  <2> QED
    BY <1>6, <1>8, <2>1, <2>2
<1>9. a < b => p \in Batch
  <2>1. a < b => a \in 0 .. b - 1
    BY <1>1
  <2> QED
    BY <2>1 DEF Batch
<1>10. CASE FetchInstructionLogs
  <2>1. "answered" # "Pay"
    OBVIOUS
  <2> QED
    BY <1>7, <1>8, <1>10, <2>1, BatchQueryMoves DEF Cause
<1>11. CASE Pay
  <2>1. "answered" # "FetchTransactions" /\ "answered" # "Reissue"
    OBVIOUS
  <2>2. ASSUME a < b, p \notin DOMAIN payLogs PROVE Cause
    <3>1. queries > 0
      BY <1>11, PayMoves DEF RangeInv
    <3> QED
      BY <1>9, <2>2, <3>1 DEF Cause
  <2> QED
    BY <1>7, <1>8, <1>11, <2>1, <2>2, PayMoves
<1>12. CASE Reissue
  <2>1. "answered" # "Pay" /\ "answered" # "Reissue" /\ "answered" # "Probe"
    OBVIOUS
  <2> QED
    BY <1>7, <1>12, <2>1, ReissueMoves DEF ScanEnds
<1>13. CASE Probe
  <2>1. pc = "Probe" /\ "answered" # "Pay"
    BY <1>13, ProbeMoves
  <2>2. a < b /\ n = M + 1
    BY <2>1 DEF BudgetInv, Budget
  <2>3. BoundTo(a) /\ \A k \in Nat : k > 1 /\ k <= n => k \in InWindow(p)
    BY <2>1 DEF ScanInv
  <2>4. p \in Payments[scenario]
    BY <2>3 DEF BoundTo, ScanInv
  <2>5. ASSUME Visible(p, n), ~ (Row(p, n).time > req.UntilTimestamp) PROVE Cause
    <3>1. n >= 1 /\ n + 1 = M + 2
      BY <2>2, Caps
    <3>2. n + 1 \in InWindow(p)
      BY <1>1, <2>4, <2>5, <3>1, SeenInWindow
    <3>3. \A k \in Nat : k <= M + 2 => k <= n \/ k = n + 1
      BY <2>2, Caps
    <3>4. \A k \in Nat : k > 1 /\ k <= M + 2 => k \in InWindow(p)
      BY <2>3, <3>2, <3>3
    <3>5. Cardinality(InWindow(p)) > MaxReissuesPerPayment
      BY <2>4, <3>4, OverTheCap
    <3> QED
      BY <1>9, <2>2, <3>5 DEF Cause
  <2> QED
    BY <1>7, <1>8, <1>13, <2>1, <2>5, ProbeMoves DEF ScanEnds
<1>14. CASE FetchTransactions
  <2> DEFINE rows == [i \in 0 .. b - 1 |-> txs[SequenceAt(i)]]
  <2>1. pc = "FetchTransactions" /\ UNCHANGED payLogs
    BY <1>1, <1>14, TransactionQueryMoves
  <2>2. a = b
    BY <2>1 DEF BudgetInv, Budget
  <2>3. \A i \in 0 .. b - 1 : i \in Nat /\ i < b
    BY <1>1
  <2>4. ASSUME NEW i \in 0 .. b - 1
        PROVE  /\ BoundTo(i) /\ PaymentID(i) \in Batch /\ PaymentID(i) \in Payments[scenario]
               /\ rows[i] = txs[SequenceOf(PaymentID(i))]
    <3>1. BoundTo(i)
      BY <2>1, <2>2, <2>3 DEF ScanInv
    <3>2. PaymentID(i) \in Batch
      BY DEF Batch
    <3>3. rows[i] = txs[SequenceAt(i)]
      OBVIOUS
    <3> QED
      BY <3>1, <3>2, <3>3 DEF BoundTo, ScanInv
  <2>5. CASE (\E i \in DOMAIN rows : rows[i] = None) /\ answer'.err # nil
    <3>1. PICK i \in 0 .. b - 1 : rows[i] = None
      BY <2>5
    <3>2. Cause
      BY <2>4, <3>1 DEF Cause
    <3> QED
      BY <1>6, <2>1, <2>5, <3>2
  <2>6. CASE /\ answer'.err = nil
             /\ \A i \in DOMAIN rows : /\ TxError(rows[i]) = nil
                                       /\ rows[i] # None => rows[i].defect # "duplicate"
    <3>1. ASSUME NEW c \in Batch
          PROVE  /\ txs[SequenceOf(c)] # None /\ txs[SequenceOf(c)].defect = "none"
                 /\ txs[SequenceOf(c)].fee \in 0 .. MaxXRPDrops
      <4>1. PICK i \in 0 .. b - 1 : c = PaymentID(i)
        BY DEF Batch
      <4> DEFINE tx == txs[SequenceOf(c)]
      <4>2. rows[i] = tx /\ c \in Payments[scenario]
        BY <2>4, <4>1
      <4>3. DOMAIN rows = 0 .. b - 1
        OBVIOUS
      <4>4. TxError(tx) = nil /\ (tx # None => tx.defect # "duplicate")
        BY <2>6, <4>2, <4>3
      <4>5. SequenceOf(c) \in Sequences
        BY <4>2, SMTT(30), SMTT(60) DEF Sequences
      <4>6. tx \in TxRecord \cup {None}
        BY <4>5 DEF IndexInv
      <4> HIDE DEF tx, rows
      <4>7. Wrap({"ErrMissingTransaction"}, nil) # nil /\ ErrDatabase # nil /\ ErrDataSource # nil
        BY DEF Wrap, nil, ErrDatabase, ErrDataSource
      <4>8. tx # None
        BY <4>4, <4>7 DEF TxError
      <4>9. tx.fee \in Nat /\ tx.defect \in TxDefects[scenario]
        BY <4>6, <4>8, FeeProofAssumption DEF TxRecord, TypeInv
      <4>10. tx.defect \in {"none", "duplicate", "oversized", "notJSON", "foreign", "noFee"}
        BY <4>9, FeeProofAssumption DEF TypeInv
      <4>11. tx.defect = "none" /\ ~ ExceedsMaxXRPDrops(tx.fee)
        BY <4>4, <4>7, <4>8, <4>10 DEF TxError
      <4>12. tx.fee \in 0 .. MaxXRPDrops
        <5>1. MaxXRPDrops \in Nat
          BY FeeProofAssumption
        <5> QED
          BY <4>9, <4>11, <5>1 DEF ExceedsMaxXRPDrops
      <4> QED
        BY <4>8, <4>11, <4>12 DEF tx
    <3>2. SummedRowsAreSound'
      BY <1>3, <1>4, <3>1 DEF SummedRowsAreSound, SequenceOf
    <3>3. RejectedOnlyForCause'
      BY <2>6 DEF RejectedOnlyForCause
    <3> QED
      BY <3>2, <3>3 DEF CauseInv
  <2> QED
    BY <1>1, <1>7, <1>14, <2>5, <2>6, TransactionQueryMoves
<1> QED
  BY <1>10, <1>11, <1>12, <1>13, <1>14

(* Every step keeps the invariants.                                        *)
LEMMA CauseStep ==
    TypeInv /\ IndexInv /\ BudgetInv /\ RangeInv /\ ScanInv /\ CauseInv /\ [Next]_vars
        => ScanInv' /\ CauseInv'
<1> SUFFICES ASSUME TypeInv, IndexInv, BudgetInv, RangeInv, ScanInv, CauseInv, [Next]_vars
             PROVE  ScanInv' /\ CauseInv'
  OBVIOUS
<1>1. TypeInv'
  BY TypeStep
<1>2. ASSUME pc' # "answered" PROVE CauseInv'
  BY <1>1, <1>2 DEF TypeInv, CauseInv, RejectedOnlyForCause, SummedRowsAreSound, OK, Answered
<1>3. CASE FetchInstructionLogs \/ Pay \/ Reissue \/ Probe \/ FetchTransactions
  BY <1>2, <1>3, RequestScans, EndsForCause
<1>4. CASE IndexStep
  <2>1. pc' = pc /\ pc # "answered"
    BY <1>4, IndexersKeepRequest DEF request
  <2> QED
    BY <1>2, <1>4, <2>1, IndexersKeepScan
<1>5. CASE UNCHANGED vars
  <2>1. UNCHANGED <<scenario, logs, txs, pc, req, payLogs, at, queries, answer>>
    BY <1>5 DEF vars, index
  <2>2. ScanInv'
    BY <2>1 DEF ScanInv, BoundTo, PaymentID, SequenceAt, Nonce, SequenceOf, InWindow
  <2>3. Batch' = Batch /\ \A c : InWindow(c)' = InWindow(c)
    BY <2>1 DEF Batch, PaymentID, InWindow
  <2>4. SummedRowsAreSound'
    BY <2>1, <2>3 DEF CauseInv, SummedRowsAreSound, OK, Answered, SequenceOf
  <2>5. RejectedOnlyForCause'
    BY <2>1, <2>3 DEF CauseInv, RejectedOnlyForCause, Answered, SequenceOf
  <2> QED
    BY <2>2, <2>4, <2>5 DEF CauseInv
<1> QED
  BY <1>3, <1>4, <1>5 DEF Next, IndexStep

(* The empty indexes and the request that has asked nothing.               *)
LEMMA CauseInit == Init => IndexInv /\ ScanInv /\ CauseInv
<1> SUFFICES ASSUME Init PROVE IndexInv /\ ScanInv /\ CauseInv
  OBVIOUS
<1>1. /\ logs = [p \in Payments[scenario] |-> <<>>] /\ txs = [q \in Sequences |-> None]
      /\ now = 0 /\ pc = "FetchInstructionLogs" /\ payLogs = <<>> /\ answer = None
  BY DEF Init
<1>2. <<>> \in Seq(EventRecord) /\ 0 \in Nat /\ DOMAIN payLogs = {}
  BY <1>1
<1>3. IndexInv
  BY <1>1, <1>2 DEF IndexInv
<1>4. ScanInv
  BY <1>1, <1>2 DEF ScanInv
<1>5. CauseInv
  BY <1>1 DEF CauseInv, RejectedOnlyForCause, SummedRowsAreSound, OK, Answered
<1> QED
  BY <1>3, <1>4, <1>5

(* The whole invariant.                                                    *)
LEMMA CauseAlways == Spec => []CauseInv
  BY BudgetInit, RangeInit, TypeStep, BudgetStep, RangeStep, CauseInit, IndexInvStep, CauseStep, PTL
     DEF Spec

(* A final answer has a cause in the batch, whatever fails and however the *)
(* indexes move during the scan; the cap on reissues is exact.             *)
THEOREM VerdictsHaveCause == Spec => []RejectedOnlyForCause
<1>1. CauseInv => RejectedOnlyForCause
  BY DEF CauseInv
<1> QED
  BY <1>1, CauseAlways, PTL

-----------------------------------------------------------------------------
(***************************************************************************)
(* Sums by counting units.                                                 *)
(***************************************************************************)
LEMMA UnitsAre ==
    ASSUME NEW f, NEW u
    PROVE  u \in Units(f) <=> \E x \in DOMAIN f : \E k \in 1 .. f[x] : u = <<x, k>>
<1>1. \A x : u \in {x} \X (1 .. f[x]) <=> \E k \in 1 .. f[x] : u = <<x, k>>
  OBVIOUS
<1>2. u \in Units(f) <=> \E x \in DOMAIN f : u \in {x} \X (1 .. f[x])
  BY DEF Units
<1> QED
  BY <1>1, <1>2

LEMMA UnitsFinite ==
    ASSUME NEW D, IsFiniteSet(D), NEW f \in [D -> Int]
    PROVE  IsFiniteSet(Units(f)) /\ Total(f) \in Nat
<1> DEFINE part == [x \in D |-> {x} \X (1 .. f[x])]
           parts == {{x} \X (1 .. f[x]) : x \in D}
<1>1. part \in Surjection(D, parts)
  <2>1. part \in [D -> parts] /\ \A x \in D : part[x] = {x} \X (1 .. f[x])
    OBVIOUS
  <2>2. \A P \in parts : \E x \in D : part[x] = P
    BY <2>1
  <2> HIDE DEF part, parts
  <2> QED
    BY <2>1, <2>2 DEF Surjection
<1>2. ASSUME NEW P \in parts PROVE IsFiniteSet(P)
  <2>1. PICK x \in D : P = {x} \X (1 .. f[x])
    OBVIOUS
  <2>2. IsFiniteSet({x})
    BY FS_Singleton
  <2>3. IsFiniteSet(1 .. f[x])
    <3>1. f[x] \in Int /\ 1 \in Int
      BY SMTT(30), SMTT(60)
    <3> QED
      BY <3>1, FS_Interval
  <2> QED
    BY <2>1, <2>2, <2>3, FS_Product
<1>3. Units(f) = UNION parts
  BY DEF Units
<1> HIDE DEF part, parts
<1>4. IsFiniteSet(parts)
  BY <1>1, FS_Surjection
<1> QED
  BY <1>2, <1>3, <1>4, FS_UNION, FS_CardinalityType DEF Total

(* A sum does not depend on how its terms are named.                       *)
LEMMA TotalRenamed ==
    ASSUME NEW D, IsFiniteSet(D), NEW E, NEW g \in Bijection(D, E), NEW f \in [E -> Int],
           NEW h \in [D -> Int], \A x \in D : h[x] = f[g[x]]
    PROVE  Total(h) = Total(f)
<1> DEFINE m == [u \in Units(h) |-> <<g[u[1]], u[2]>>]
<1>1. \A x \in D : g[x] \in E
  BY DEF Bijection, Injection, Surjection
<1>2. \A x, y \in D : g[x] = g[y] => x = y
  BY DEF Bijection, Injection, IsInjective
<1>3. \A y \in E : \E x \in D : g[x] = y
  BY DEF Bijection, Surjection
<1>4. \A u : u \in Units(h) <=> \E x \in D : \E k \in 1 .. h[x] : u = <<x, k>>
  BY UnitsAre, SMTT(30), SMTT(60)
<1>5. \A u : u \in Units(f) <=> \E y \in E : \E k \in 1 .. f[y] : u = <<y, k>>
  BY UnitsAre, SMTT(30), SMTT(60)
<1>6. m \in [Units(h) -> Units(f)]
  <2> SUFFICES ASSUME NEW u \in Units(h) PROVE <<g[u[1]], u[2]>> \in Units(f)
    OBVIOUS
  <2>1. PICK x \in D : \E k \in 1 .. h[x] : u = <<x, k>>
    BY <1>4
  <2>2. PICK k \in 1 .. h[x] : u = <<x, k>>
    BY <2>1
  <2>3. <<g[u[1]], u[2]>> = <<g[x], k>> /\ g[x] \in E /\ k \in 1 .. f[g[x]]
    BY <1>1, <2>2
  <2> QED
    BY <1>5, <2>3
<1>7. ASSUME NEW u \in Units(h), NEW v \in Units(h), m[u] = m[v] PROVE u = v
  <2>1. PICK x \in D : \E k \in 1 .. h[x] : u = <<x, k>>
    BY <1>4
  <2>2. PICK k \in 1 .. h[x] : u = <<x, k>>
    BY <2>1
  <2>3. PICK y \in D : \E l \in 1 .. h[y] : v = <<y, l>>
    BY <1>4
  <2>4. PICK l \in 1 .. h[y] : v = <<y, l>>
    BY <2>3
  <2>5. m[u] = <<g[x], k>> /\ m[v] = <<g[y], l>>
    BY <2>2, <2>4
  <2>6. g[x] = g[y] /\ k = l
    BY <1>7, <2>5
  <2> QED
    BY <1>2, <2>2, <2>4, <2>6
<1>8. ASSUME NEW v \in Units(f) PROVE \E u \in Units(h) : m[u] = v
  <2>1. PICK y \in E : \E k \in 1 .. f[y] : v = <<y, k>>
    BY <1>5
  <2>2. PICK k \in 1 .. f[y] : v = <<y, k>>
    BY <2>1
  <2>3. PICK x \in D : g[x] = y
    BY <1>3
  <2>4. <<x, k>> \in Units(h)
    BY <1>4, <2>3
  <2>5. m[<<x, k>>] = v
    BY <2>2, <2>3, <2>4
  <2> QED
    BY <2>4, <2>5
<1> HIDE DEF m
<1>9. m \in Bijection(Units(h), Units(f))
  BY <1>6, <1>7, <1>8 DEF Bijection, Injection, Surjection, IsInjective
<1>10. IsFiniteSet(Units(h))
  BY UnitsFinite
<1> QED
  BY <1>9, <1>10, FS_Bijection DEF ExistsBijection, Total

(* A sum of so many terms, each bounded.                                   *)
LEMMA TotalBounded ==
    ASSUME NEW D, IsFiniteSet(D), NEW n \in Nat, NEW f \in [D -> 0 .. n]
    PROVE  Total(f) <= Cardinality(D) * n
<1>1. Units(f) \subseteq D \X (1 .. n)
  <2> SUFFICES ASSUME NEW u \in Units(f) PROVE u \in D \X (1 .. n)
    OBVIOUS
  <2>1. PICK x \in D : \E k \in 1 .. f[x] : u = <<x, k>>
    BY UnitsAre, SMTT(30), SMTT(60)
  <2>2. PICK k \in 1 .. f[x] : u = <<x, k>>
    BY <2>1
  <2>3. k \in 1 .. n
    BY <2>2
  <2> QED
    BY <2>2, <2>3
<1>2. IsFiniteSet(1 .. n) /\ Cardinality(1 .. n) = n
  <2>1. IsFiniteSet(1 .. n) /\ Cardinality(1 .. n) = IF 1 > n THEN 0 ELSE n - 1 + 1
    BY FS_Interval
  <2> QED
    BY <2>1
<1>3. IsFiniteSet(D \X (1 .. n)) /\ Cardinality(D \X (1 .. n)) = Cardinality(D) * n
  BY <1>2, FS_Product
<1> QED
  BY <1>1, <1>3, FS_Subset, SMTT(30), SMTT(60) DEF Total

-----------------------------------------------------------------------------
(***************************************************************************)
(* The estimate counts units of the reference.  C are the units the scan   *)
(* has counted, F those of the reference when the pay events were read, U  *)
(* those of the reference now; est and fl are the sums, the scan is past   *)
(* the first n events of the payment p and past all payments before it.    *)
(* ret says that retention has dropped nothing.                            *)
(***************************************************************************)
PassedAt(u, p, n) == u[1][1] < p \/ (u[1][1] = p /\ u[1][2] <= n)

Counts(C, F, U, est, fl, p, n, ret) ==
    /\ IsFiniteSet(C) /\ Cardinality(C) = est
    /\ C \subseteq U /\ \A u \in C : PassedAt(u, p, n)
    /\ IsFiniteSet(F) /\ Cardinality(F) = fl /\ F \subseteq U
    /\ ret => \A u \in F : PassedAt(u, p, n) => u \in C

(* A unit is one of an event of a payment.                                 *)
EventUnit == (Nat \X (Nat \ {0})) \X Nat

(* Counting one more event adds what it costs.                             *)
LEMMA CountOne ==
    ASSUME NEW C, IsFiniteSet(C), NEW e, NEW price \in Int, \A u \in C : u[1] # e
    PROVE  LET D == C \cup ({e} \X (1 .. price))
           IN  IsFiniteSet(D) /\ Cardinality(D) = Cardinality(C) + IF price > 0 THEN price ELSE 0
<1> DEFINE N == {e} \X (1 .. price)
<1>1. IsFiniteSet({e}) /\ Cardinality({e}) = 1
  BY FS_Singleton
<1>2. IsFiniteSet(1 .. price) /\ Cardinality(1 .. price) = IF 1 > price THEN 0 ELSE price - 1 + 1
  BY FS_Interval
<1>3. IsFiniteSet(N) /\ Cardinality(N) = Cardinality({e}) * Cardinality(1 .. price)
  BY <1>1, <1>2, FS_Product
<1>4. Cardinality(N) = IF price > 0 THEN price ELSE 0
  BY <1>1, <1>2, <1>3
<1>5. C \cap N = {}
  OBVIOUS
<1> HIDE DEF N
<1>6. IsFiniteSet(C \cup N)
      /\ Cardinality(C \cup N) = Cardinality(C) + Cardinality(N) - Cardinality(C \cap N)
  BY <1>3, FS_Union
<1>7. Cardinality(C \cap N) = 0
  BY <1>5, FS_EmptySet
<1>8. Cardinality(C) \in Nat /\ Cardinality(N) \in Nat
  BY <1>3, FS_CardinalityType
<1> QED
  BY <1>4, <1>6, <1>7, <1>8 DEF N

(* The scan counts the event it is at.                                     *)
LEMMA CountsEvent ==
    ASSUME NEW C, NEW F, NEW U \in SUBSET EventUnit, NEW est, NEW fl, NEW p \in Nat, NEW n \in Nat,
           NEW ret, Counts(C, F, U, est, fl, p, n, ret), NEW price \in Int,
           \A d : <<<<p, n + 1>>, d>> \in U <=> d \in 1 .. price
    PROVE  \E D : Counts(D, F, U, est + (IF price > 0 THEN price ELSE 0), fl, p, n + 1, ret)
<1> DEFINE e == <<p, n + 1>>
           N == {e} \X (1 .. price)
           D == C \cup N
<1>1. \A u \in U : u[1][1] \in Nat /\ u[1][2] \in Nat /\ u[1] = <<u[1][1], u[1][2]>> /\ u = <<u[1], u[2]>>
  BY DEF EventUnit
<1>2. \A u \in C : u \in U /\ PassedAt(u, p, n)
  BY DEF Counts
<1>3. \A u \in C : u[1] # e
  BY <1>1, <1>2 DEF PassedAt
<1>4. IsFiniteSet(C) /\ Cardinality(C) = est
  BY DEF Counts
<1>5. IsFiniteSet(D) /\ Cardinality(D) = est + IF price > 0 THEN price ELSE 0
  BY <1>3, <1>4, CountOne
<1>6. ASSUME NEW u \in N PROVE u \in U /\ PassedAt(u, p, n + 1)
  <2>1. PICK d \in 1 .. price : u = <<<<p, n + 1>>, d>>
    OBVIOUS
  <2> QED
    BY <2>1 DEF PassedAt
<1>7. \A u \in C : PassedAt(u, p, n + 1)
  BY <1>1, <1>2 DEF PassedAt
<1>8. D \subseteq U /\ \A u \in D : PassedAt(u, p, n + 1)
  BY <1>2, <1>6, <1>7
<1>9. ASSUME ret, NEW u \in F, PassedAt(u, p, n + 1) PROVE u \in D
  <2>1. u \in U
    BY DEF Counts
  <2>2. CASE PassedAt(u, p, n)
    BY <1>9, <2>2 DEF Counts
  <2>3. CASE ~ PassedAt(u, p, n)
    <3>1. u[1] = e
      BY <1>1, <1>9, <2>1, <2>3, SMTT(30), SMTT(60) DEF PassedAt
    <3>2. u[2] \in 1 .. price
      BY <1>1, <2>1, <3>1, SMTT(30), SMTT(60)
    <3>3. u \in N
      BY <1>1, <2>1, <3>1, <3>2, SMTT(30), SMTT(60)
    <3> QED
      BY <3>3
  <2> QED
    BY <2>2, <2>3
<1>10. IsFiniteSet(F) /\ Cardinality(F) = fl /\ F \subseteq U
  BY DEF Counts
<1> HIDE DEF D
<1>11. Counts(D, F, U, est + (IF price > 0 THEN price ELSE 0), fl, p, n + 1, ret)
  BY <1>5, <1>8, <1>9, <1>10 DEF Counts
<1> QED
  BY <1>11

(* The scan goes on to the next payment.                                   *)
LEMMA CountsPayment ==
    ASSUME NEW C, NEW F, NEW U \in SUBSET EventUnit, NEW est, NEW fl, NEW p \in Nat, NEW n \in Nat,
           NEW ret, Counts(C, F, U, est, fl, p, n, ret),
           ret => \A u \in U : u[1][1] = p => u[1][2] <= n
    PROVE  Counts(C, F, U, est, fl, p + 1, 0, ret)
<1>1. \A u \in U : u[1][1] \in Nat /\ u[1][2] \in Nat \ {0}
  BY DEF EventUnit
<1>2. \A u \in U : PassedAt(u, p, n) => PassedAt(u, p + 1, 0)
  BY <1>1 DEF PassedAt
<1>3. ret => \A u \in U : PassedAt(u, p + 1, 0) => PassedAt(u, p, n)
  BY <1>1 DEF PassedAt
<1> QED
  BY <1>2, <1>3 DEF Counts

(* The scan is over.                                                       *)
LEMMA CountsAll ==
    ASSUME NEW C, NEW F, NEW U \in SUBSET EventUnit, NEW est, NEW fl, NEW p \in Nat, NEW n, NEW ret,
           Counts(C, F, U, est, fl, p, n, ret), IsFiniteSet(U), \A u \in U : u[1][1] < p
    PROVE  est <= Cardinality(U) /\ (ret => est >= fl)
<1>1. IsFiniteSet(C) /\ C \subseteq U /\ Cardinality(C) = est
      /\ IsFiniteSet(F) /\ F \subseteq U /\ Cardinality(F) = fl
  BY DEF Counts
<1>2. est <= Cardinality(U)
  BY <1>1, FS_Subset
<1>3. ret => F \subseteq C
  BY <1>1 DEF Counts, PassedAt
<1>4. est \in Nat /\ fl \in Nat
  BY <1>1, FS_CardinalityType
<1>5. F \subseteq C => fl <= est
  BY <1>1, FS_Subset
<1> QED
  BY <1>2, <1>3, <1>4, <1>5

(***************************************************************************)
(* The reference's units, from the events they are made of.                *)
(***************************************************************************)
IsCharged(lg, t, p, k) ==
    k = 1 \/ k \in {j \in DOMAIN lg[p] : j > 1 /\ lg[p][j].time <= t}
PriceOf(lg, p, k) == IF k = 1 THEN lg[p][1].maxFee ELSE lg[p][k].maxFee - lg[p][1].maxFee
EventsOf(P, lg, t) == UNION {{p} \X {k \in DOMAIN lg[p] : IsCharged(lg, t, p, k)} : p \in P}
ChargesOf(P, lg, t) == [e \in EventsOf(P, lg, t) |-> PriceOf(lg, e[1], e[2])]

LEMMA EventsAre ==
    ASSUME NEW P, NEW lg, NEW t, NEW e
    PROVE  e \in EventsOf(P, lg, t) <=> \E p \in P : \E k \in DOMAIN lg[p] :
                                            IsCharged(lg, t, p, k) /\ e = <<p, k>>
<1>1. e \in EventsOf(P, lg, t) <=>
        \E p \in P : e \in {p} \X {k \in DOMAIN lg[p] : IsCharged(lg, t, p, k)}
  BY DEF EventsOf
<1>2. ASSUME NEW p
      PROVE  e \in {p} \X {k \in DOMAIN lg[p] : IsCharged(lg, t, p, k)} <=>
             \E k \in DOMAIN lg[p] : IsCharged(lg, t, p, k) /\ e = <<p, k>>
  OBVIOUS
<1> QED
  BY <1>1, <1>2

LEMMA ChargeUnits ==
    ASSUME NEW P, NEW lg, NEW t, NEW u
    PROVE  u \in Units(ChargesOf(P, lg, t)) <=>
               \E p \in P : \E k \in DOMAIN lg[p] :
                   /\ IsCharged(lg, t, p, k)
                   /\ \E d \in 1 .. PriceOf(lg, p, k) : u = <<<<p, k>>, d>>
<1> DEFINE f == ChargesOf(P, lg, t)
<1>1. DOMAIN f = EventsOf(P, lg, t)
  BY DEF ChargesOf
<1>2. ASSUME NEW p \in P, NEW k \in DOMAIN lg[p], IsCharged(lg, t, p, k)
      PROVE  <<p, k>> \in DOMAIN f /\ f[<<p, k>>] = PriceOf(lg, p, k)
  <2>1. <<p, k>> \in EventsOf(P, lg, t)
    BY <1>2, EventsAre
  <2>2. <<p, k>>[1] = p /\ <<p, k>>[2] = k
    OBVIOUS
  <2>3. f[<<p, k>>] = PriceOf(lg, <<p, k>>[1], <<p, k>>[2])
    BY <2>1 DEF ChargesOf
  <2> QED
    BY <1>1, <2>1, <2>2, <2>3
<1>3. \A e \in DOMAIN f : \E p \in P : \E k \in DOMAIN lg[p] : IsCharged(lg, t, p, k) /\ e = <<p, k>>
  <2> SUFFICES ASSUME NEW e \in DOMAIN f
               PROVE  \E p \in P : \E k \in DOMAIN lg[p] : IsCharged(lg, t, p, k) /\ e = <<p, k>>
    OBVIOUS
  <2>1. e \in EventsOf(P, lg, t)
    BY <1>1
  <2> QED
    BY <2>1, EventsAre, SMTT(30), SMTT(60)
<1> HIDE DEF f
<1>4. u \in Units(f) <=> \E e \in DOMAIN f : \E d \in 1 .. f[e] : u = <<e, d>>
  BY UnitsAre, SMTT(30), SMTT(60)
<1>5. ASSUME u \in Units(f)
      PROVE  \E p \in P : \E k \in DOMAIN lg[p] :
                 IsCharged(lg, t, p, k) /\ \E d \in 1 .. PriceOf(lg, p, k) : u = <<<<p, k>>, d>>
  <2>1. PICK e \in DOMAIN f : \E d \in 1 .. f[e] : u = <<e, d>>
    BY <1>4, <1>5
  <2>2. PICK p \in P : \E k \in DOMAIN lg[p] : IsCharged(lg, t, p, k) /\ e = <<p, k>>
    BY <1>3
  <2>3. PICK k \in DOMAIN lg[p] : IsCharged(lg, t, p, k) /\ e = <<p, k>>
    BY <2>2
  <2>4. f[e] = PriceOf(lg, p, k)
    BY <1>2, <2>3
  <2> QED
    BY <2>1, <2>3, <2>4
<1>6. ASSUME NEW p \in P, NEW k \in DOMAIN lg[p], IsCharged(lg, t, p, k),
             NEW d \in 1 .. PriceOf(lg, p, k), u = <<<<p, k>>, d>>
      PROVE  u \in Units(f)
  BY <1>2, <1>4, <1>6
<1> QED
  BY <1>5, <1>6 DEF f

LEMMA ChargesAre ==
    /\ Charges = ChargesOf(Batch \cap DOMAIN logs, logs, req.UntilTimestamp)
    /\ Charges' = ChargesOf(Batch' \cap DOMAIN logs', logs', req'.UntilTimestamp)
<1>1. Charges = ChargesOf(Batch \cap DOMAIN logs, logs, req.UntilTimestamp)
  BY DEF Charges, Charged, Charge, InWindow, ChargesOf, EventsOf, IsCharged, PriceOf
<1>2. Charges' = ChargesOf(Batch' \cap DOMAIN logs', logs', req'.UntilTimestamp)
  BY DEF Charges, Charged, Charge, InWindow, ChargesOf, EventsOf, IsCharged, PriceOf
<1> QED
  BY <1>1, <1>2

(* A valid batch does not wrap around.                                     *)
LEMMA BatchRange ==
    ASSUME TypeInv, validateBatchRange(req)
    PROVE  /\ req.BatchCount \in 1 .. MaxBatchRange
           /\ \A i \in 0 .. req.BatchCount - 1 : PaymentID(i) = req.FirstPaymentId + i
           /\ Batch = req.FirstPaymentId .. req.FirstPaymentId + req.BatchCount - 1
<1> DEFINE first == req.FirstPaymentId
           b == req.BatchCount
<1>1. first \in Nat /\ b \in Nat /\ MaxUint \in Nat /\ MaxBatchRange \in Nat
  BY RequestType, FeeProofAssumption
<1>2. b > 0 /\ b <= MaxBatchRange /\ first <= MaxUint - (b - 1)
  BY DEF validateBatchRange
<1>3. \A x, m \in Nat : x <= m => x % (m + 1) = x
  OBVIOUS
<1>4. \A i \in 0 .. b - 1 : PaymentID(i) = first + i
  <2> SUFFICES ASSUME NEW i \in 0 .. b - 1 PROVE PaymentID(i) = first + i
    OBVIOUS
  <2>1. first + i \in Nat /\ first + i <= MaxUint
    BY <1>1, <1>2
  <2> QED
    BY <1>1, <1>3, <2>1 DEF PaymentID
<1>5. Batch = {first + i : i \in 0 .. b - 1}
  BY <1>4 DEF Batch
<1> HIDE DEF first, b
<1>6. {first + i : i \in 0 .. b - 1} = first .. first + b - 1
  <2>1. \A x \in first .. first + b - 1 : x - first \in 0 .. b - 1 /\ x = first + (x - first)
    BY <1>1
  <2>2. \A i \in 0 .. b - 1 : first + i \in first .. first + b - 1
    BY <1>1
  <2> QED
    BY <2>1, <2>2
<1> QED
  BY <1>1, <1>2, <1>4, <1>5, <1>6, SMTT(30), SMTT(60) DEF first, b

(* A batch has finitely many events, so its reference is a sum; its units  *)
(* are those of the events that are charged.                               *)
LEMMA EventsFinite ==
    ASSUME NEW P, IsFiniteSet(P), NEW lg, NEW t, \A p \in P : IsFiniteSet(DOMAIN lg[p])
    PROVE  IsFiniteSet(EventsOf(P, lg, t))
<1> DEFINE own(p) == {p} \X {k \in DOMAIN lg[p] : IsCharged(lg, t, p, k)}
           part == [p \in P |-> own(p)]
           parts == {own(p) : p \in P}
<1>1. part \in Surjection(P, parts)
  <2>1. part \in [P -> parts] /\ \A p \in P : part[p] = own(p)
    OBVIOUS
  <2>2. \A S \in parts : \E p \in P : part[p] = S
    BY <2>1
  <2> HIDE DEF part, parts
  <2> QED
    BY <2>1, <2>2 DEF Surjection
<1>2. ASSUME NEW S \in parts PROVE IsFiniteSet(S)
  <2>1. PICK p \in P : S = own(p)
    OBVIOUS
  <2>2. {k \in DOMAIN lg[p] : IsCharged(lg, t, p, k)} \in SUBSET (DOMAIN lg[p])
    OBVIOUS
  <2>3. IsFiniteSet({k \in DOMAIN lg[p] : IsCharged(lg, t, p, k)}) /\ IsFiniteSet({p})
    BY <2>2, FS_Subset, FS_Singleton
  <2> QED
    BY <2>1, <2>3, FS_Product
<1>3. EventsOf(P, lg, t) = UNION parts
  BY DEF EventsOf
<1> HIDE DEF part, parts
<1>4. IsFiniteSet(parts)
  BY <1>1, FS_Surjection
<1> QED
  BY <1>2, <1>3, <1>4, FS_UNION

LEMMA ChargesShape ==
    ASSUME TypeInv, IndexInv, validateBatchRange(req)
    PROVE  /\ Units(Charges) \in SUBSET EventUnit /\ IsFiniteSet(Units(Charges))
           /\ \A u \in Units(Charges) :
                 /\ u[1][1] \in Batch \cap Payments[scenario]
                 /\ u[1][2] \in DOMAIN logs[u[1][1]]
                 /\ u[1][2] = 1 \/ u[1][2] \in InWindow(u[1][1])
           /\ \A p \in Batch \cap Payments[scenario] : \A k \in DOMAIN logs[p] :
                 k = 1 \/ k \in InWindow(p) =>
                    /\ Charge(p, k) \in Int
                    /\ \A d : <<<<p, k>>, d>> \in Units(Charges) <=> d \in 1 .. Charge(p, k)
<1> DEFINE P == Batch \cap Payments[scenario]
           t == req.UntilTimestamp
<1>1. DOMAIN logs = Payments[scenario] /\ P \subseteq Nat /\ IsFiniteSet(P)
  <2>1. DOMAIN logs = Payments[scenario]
    BY DEF IndexInv
  <2>2. req.FirstPaymentId \in Nat /\ req.BatchCount \in Nat
    BY RequestType
  <2>3. Batch \subseteq Nat
    BY <2>2, BatchRange
  <2>4. IsFiniteSet(req.FirstPaymentId .. req.FirstPaymentId + req.BatchCount - 1)
    <3>1. \A x, y \in Int : IsFiniteSet(x .. y)
      BY FS_Interval
    <3>2. req.FirstPaymentId \in Int /\ req.FirstPaymentId + req.BatchCount - 1 \in Int
      BY <2>2
    <3> QED
      BY <3>1, <3>2
  <2>5. IsFiniteSet(Batch)
    BY <2>4, BatchRange
  <2> QED
    BY <2>1, <2>3, <2>5, FS_Subset
<1>2. ASSUME NEW p \in P
      PROVE  /\ DOMAIN logs[p] \subseteq Nat \ {0} /\ IsFiniteSet(DOMAIN logs[p])
             /\ \A k \in DOMAIN logs[p] : PriceOf(logs, p, k) \in Int
  <2>1. logs[p] \in Seq(EventRecord)
    BY DEF IndexInv
  <2>2. Len(logs[p]) \in Nat /\ DOMAIN logs[p] = 1 .. Len(logs[p])
        /\ \A k \in DOMAIN logs[p] : logs[p][k] \in EventRecord
    BY <2>1
  <2>3. IsFiniteSet(DOMAIN logs[p])
    BY <2>2, FS_Interval
  <2>4. MaxFees[scenario] \subseteq Nat
    BY FeeProofAssumption DEF TypeInv
  <2>5. \A k \in DOMAIN logs[p] : logs[p][k].maxFee \in Nat
    BY <2>2, <2>4 DEF EventRecord
  <2>6. \A k \in DOMAIN logs[p] : 1 \in DOMAIN logs[p]
    BY <2>2
  <2> QED
    BY <2>2, <2>3, <2>5, <2>6 DEF PriceOf
<1> HIDE DEF P
<1>3. Charges = ChargesOf(P, logs, t)
  BY <1>1, ChargesAre DEF P
<1>4. \A p, k : Charge(p, k) = PriceOf(logs, p, k)
  BY DEF Charge, PriceOf
<1>5. \A p, k : IsCharged(logs, t, p, k) <=> (k = 1 \/ k \in InWindow(p))
  BY DEF IsCharged, InWindow
<1>6. \A u : u \in Units(Charges) <=>
        \E p \in P : \E k \in DOMAIN logs[p] :
            IsCharged(logs, t, p, k) /\ \E d \in 1 .. PriceOf(logs, p, k) : u = <<<<p, k>>, d>>
  BY <1>3, ChargeUnits, SMTT(30), SMTT(60)
<1>7. ASSUME NEW u \in Units(Charges)
      PROVE  /\ u \in EventUnit /\ u[1][1] \in P /\ u[1][2] \in DOMAIN logs[u[1][1]]
             /\ u[1][2] = 1 \/ u[1][2] \in InWindow(u[1][1])
  <2>1. PICK p \in P : \E k \in DOMAIN logs[p] :
            IsCharged(logs, t, p, k) /\ \E d \in 1 .. PriceOf(logs, p, k) : u = <<<<p, k>>, d>>
    BY <1>6
  <2>2. PICK k \in DOMAIN logs[p] :
            IsCharged(logs, t, p, k) /\ \E d \in 1 .. PriceOf(logs, p, k) : u = <<<<p, k>>, d>>
    BY <2>1
  <2>3. PICK d \in 1 .. PriceOf(logs, p, k) : u = <<<<p, k>>, d>>
    BY <2>2
  <2>4. p \in Nat /\ k \in Nat \ {0} /\ d \in Nat
    BY <1>1, <1>2, <2>3, SMTT(30), SMTT(60)
  <2>5. u \in EventUnit /\ u[1][1] = p /\ u[1][2] = k
    BY <2>3, <2>4 DEF EventUnit
  <2> QED
    BY <1>5, <2>2, <2>5
<1>8. ASSUME NEW p \in P, NEW k \in DOMAIN logs[p], k = 1 \/ k \in InWindow(p), NEW d
      PROVE  <<<<p, k>>, d>> \in Units(Charges) <=> d \in 1 .. PriceOf(logs, p, k)
  <2>1. ASSUME d \in 1 .. PriceOf(logs, p, k) PROVE <<<<p, k>>, d>> \in Units(Charges)
    BY <1>5, <1>6, <1>8, <2>1
  <2>2. ASSUME <<<<p, k>>, d>> \in Units(Charges) PROVE d \in 1 .. PriceOf(logs, p, k)
    <3>1. PICK q \in P : \E j \in DOMAIN logs[q] : IsCharged(logs, t, q, j)
              /\ \E c \in 1 .. PriceOf(logs, q, j) : <<<<p, k>>, d>> = <<<<q, j>>, c>>
      BY <1>6, <2>2
    <3>2. PICK j \in DOMAIN logs[q] : IsCharged(logs, t, q, j)
              /\ \E c \in 1 .. PriceOf(logs, q, j) : <<<<p, k>>, d>> = <<<<q, j>>, c>>
      BY <3>1
    <3>3. PICK c \in 1 .. PriceOf(logs, q, j) : <<<<p, k>>, d>> = <<<<q, j>>, c>>
      BY <3>2
    <3>4. p = q /\ k = j /\ d = c
      BY <3>3
    <3> QED
      BY <3>3, <3>4
  <2> QED
    BY <2>1, <2>2
<1>9. IsFiniteSet(Units(Charges))
  <2>1. IsFiniteSet(EventsOf(P, logs, t))
    BY <1>1, <1>2, EventsFinite
  <2>2. Charges \in [EventsOf(P, logs, t) -> Int]
    <3> SUFFICES ASSUME NEW e \in EventsOf(P, logs, t) PROVE PriceOf(logs, e[1], e[2]) \in Int
      BY <1>3 DEF ChargesOf
    <3>1. PICK p \in P : \E k \in DOMAIN logs[p] : IsCharged(logs, t, p, k) /\ e = <<p, k>>
      BY EventsAre, SMTT(30), SMTT(60)
    <3>2. PICK k \in DOMAIN logs[p] : e = <<p, k>>
      BY <3>1
    <3>3. e[1] = p /\ e[2] = k
      BY <3>2
    <3> QED
      BY <1>2, <3>3
  <2> QED
    BY <2>1, <2>2, UnitsFinite
<1> QED
  BY <1>2, <1>4, <1>7, <1>8, <1>9 DEF P

-----------------------------------------------------------------------------
(***************************************************************************)
(* What the request has read is still there, and the events of a payment   *)
(* are in the order of their blocks.                                       *)
(***************************************************************************)
Scanning == pc \in {"Pay", "Reissue", "Probe", "FetchTransactions"}

InOrder(s, t) ==
    \A k \in DOMAIN s : s[k].time <= t /\ \A j \in DOMAIN s : j <= k => s[j].time <= s[k].time

OrderInv == horizon \in Nat /\ \A p \in Payments[scenario] : InOrder(logs[p], now)

ReadInv ==
    /\ \A p \in DOMAIN payLogs : 1 \in DOMAIN logs[p] /\ payLogs[p] = logs[p][1]
    /\ pc = "FetchInstructionLogs" => estimatedFee = 0
    /\ Scanning => validateBatchRange(req)
    /\ pc = "Pay" => at[2] = 0

(* An event indexed now comes after the others.                            *)
LEMMA InOrderAppend ==
    ASSUME NEW s \in Seq(EventRecord), NEW t \in Nat, InOrder(s, t),
           NEW e \in EventRecord, e.time = t
    PROVE  InOrder(Append(s, e), t)
<1> DEFINE r == Append(s, e)
<1>1. Len(s) \in Nat /\ DOMAIN s = 1 .. Len(s) /\ DOMAIN r = 1 .. Len(s) + 1
      /\ r[Len(s) + 1] = e /\ \A k \in DOMAIN s : r[k] = s[k]
  OBVIOUS
<1>2. \A k \in DOMAIN s : s[k].time <= t /\ \A j \in DOMAIN s : j <= k => s[j].time <= s[k].time
  BY DEF InOrder
<1> HIDE DEF r
<1>3. ASSUME NEW k \in DOMAIN r PROVE r[k].time <= t
  BY <1>1, <1>2
<1>4. ASSUME NEW k \in DOMAIN r, NEW j \in DOMAIN r, j <= k PROVE r[j].time <= r[k].time
  <2>1. CASE k = Len(s) + 1
    BY <1>1, <1>3, <2>1
  <2>2. CASE k # Len(s) + 1
    <3>1. k \in DOMAIN s /\ j \in DOMAIN s
      BY <1>1, <1>4, <2>2
    <3> QED
      BY <1>1, <1>2, <1>4, <3>1
  <2> QED
    BY <2>1, <2>2
<1> QED
  BY <1>3, <1>4 DEF InOrder, r

(* The indexers keep the order.                                            *)
LEMMA OrderStep == TypeInv /\ IndexInv /\ OrderInv /\ [Next]_vars => OrderInv'
<1> SUFFICES ASSUME TypeInv, IndexInv, OrderInv, [Next]_vars PROVE OrderInv'
  OBVIOUS
<1>1. now \in Nat /\ logs \in [Payments[scenario] -> Seq(EventRecord)]
  BY DEF IndexInv
<1>2. ASSUME UNCHANGED <<scenario, logs, now>>, horizon' \in {horizon, horizon + 1} PROVE OrderInv'
  <2>1. horizon' \in Nat
    BY <1>2 DEF OrderInv
  <2> QED
    BY <1>2, <2>1 DEF OrderInv
<1>3. ASSUME UNCHANGED index PROVE OrderInv'
  BY <1>2, <1>3 DEF index
<1>4. ASSUME NEW p \in Payments[scenario], IndexEvent(p) PROVE OrderInv'
  <2>1. PICK fee \in MaxFees[scenario], defect \in EventDefects[scenario] :
          logs' = [logs EXCEPT ![p] = Append(@, [time |-> now, maxFee |-> fee, defect |-> defect])]
    BY <1>4 DEF IndexEvent
  <2>2. now' = now /\ scenario' = scenario /\ horizon' = horizon
    BY <1>4 DEF IndexEvent
  <2> DEFINE e == [time |-> now, maxFee |-> fee, defect |-> defect]
  <2>3. e \in EventRecord /\ e.time = now
    BY <1>1 DEF EventRecord
  <2> HIDE DEF e
  <2>4. logs' = [logs EXCEPT ![p] = Append(logs[p], e)]
    BY <2>1 DEF e
  <2>5. /\ logs'[p] = Append(logs[p], e)
        /\ \A c \in Payments[scenario] \ {p} : logs'[c] = logs[c]
    BY <1>1, <2>4
  <2>6. logs[p] \in Seq(EventRecord) /\ InOrder(logs[p], now)
    BY <1>1 DEF OrderInv
  <2>7. InOrder(logs'[p], now)
    BY <1>1, <2>3, <2>5, <2>6, InOrderAppend
  <2> QED
    BY <2>2, <2>5, <2>7 DEF OrderInv
<1>5. CASE IndexBlock
  <2>1. now' = now + 1 /\ UNCHANGED <<scenario, logs, horizon>>
    BY <1>5 DEF IndexBlock
  <2>2. ASSUME NEW p \in Payments[scenario] PROVE InOrder(logs[p], now + 1)
    <3>1. \A k \in DOMAIN logs[p] : logs[p][k] \in EventRecord
      BY <1>1, SMTT(30), SMTT(60)
    <3>2. \A k \in DOMAIN logs[p] : logs[p][k].time \in Nat
      BY <3>1 DEF EventRecord
    <3>3. InOrder(logs[p], now)
      BY DEF OrderInv
    <3> QED
      BY <1>1, <3>2, <3>3, SMTT(30), SMTT(60) DEF InOrder
  <2> QED
    BY <2>1, <2>2 DEF OrderInv
<1>6. ASSUME (\E q \in Sequences : IndexTransaction(q)) \/ Prune PROVE OrderInv'
  <2>1. UNCHANGED <<scenario, logs, now>> /\ horizon' \in {horizon, horizon + 1}
    BY <1>6 DEF IndexTransaction, Prune
  <2> QED
    BY <1>2, <2>1
<1>7. CASE UNCHANGED vars
  BY <1>3, <1>7 DEF vars
<1> QED
  BY <1>3, <1>4, <1>5, <1>6, <1>7, RequestKeepsIndex DEF Next

(* What was read stays where it was read.                                  *)
LEMMA ReadStep == TypeInv /\ IndexInv /\ ScanInv /\ ReadInv /\ [Next]_vars => ReadInv'
<1> SUFFICES ASSUME TypeInv, IndexInv, ScanInv, ReadInv, [Next]_vars PROVE ReadInv'
  OBVIOUS
<1> DEFINE Kept == \A p \in DOMAIN payLogs' : 1 \in DOMAIN logs'[p] /\ payLogs'[p] = logs'[p][1]
<1>1. ASSUME UNCHANGED index, UNCHANGED payLogs PROVE Kept
  BY <1>1 DEF index, ReadInv
<1>2. ASSUME UNCHANGED req PROVE validateBatchRange(req)' <=> validateBatchRange(req)
  BY <1>2 DEF validateBatchRange
<1>3. ASSUME Kept, pc' = "answered" PROVE ReadInv'
  BY <1>3 DEF ReadInv, Scanning
<1>4. ASSUME ToldToRetry \/ (\E err : Told(err)), UNCHANGED index PROVE ReadInv'
  BY <1>1, <1>3, <1>4 DEF ToldToRetry, Told
<1>5. ASSUME UNCHANGED <<index, req, payLogs>>, Scanning, pc' \in {"Reissue", "Probe", "FetchTransactions"}
      PROVE  ReadInv'
  BY <1>1, <1>2, <1>5 DEF ReadInv
<1>6. ASSUME UNCHANGED <<index, req>>, ScanEnds, Scanning PROVE ReadInv'
  <2>1. at'[2] = 0
    BY <1>6 DEF ScanEnds
  <2>2. pc' = "Pay" /\ UNCHANGED payLogs
    BY <1>6 DEF ScanEnds
  <2> QED
    BY <1>1, <1>2, <1>6, <2>1, <2>2 DEF ReadInv
<1>7. CASE FetchInstructionLogs
  <2>1. UNCHANGED <<index, req>>
    BY <1>7, RequestKeepsIndex
  <2>2. CASE /\ pc' = "Pay" /\ at' = <<0, 0>> /\ validateBatchRange(req)
             /\ \E found \in SUBSET (Batch \cap DOMAIN logs) :
                   payLogs' = [p \in found |-> Row(p, 0)] /\ \A p \in found : Visible(p, 0)
    <3>1. PICK found \in SUBSET (Batch \cap DOMAIN logs) :
            payLogs' = [p \in found |-> Row(p, 0)] /\ \A p \in found : Visible(p, 0)
      BY <2>2
    <3>2. 0 + 1 = 1
      OBVIOUS
    <3>3. \A p \in found : 1 \in DOMAIN logs[p] /\ payLogs'[p] = logs[p][1]
      BY <3>1, <3>2 DEF Visible, Row
    <3>4. Kept
      BY <2>1, <3>1, <3>3 DEF index
    <3>5. at'[2] = 0
      BY <2>2
    <3> QED
      BY <1>2, <2>1, <2>2, <3>4, <3>5 DEF ReadInv
  <2> QED
    BY <1>4, <1>7, <2>1, <2>2, BatchQueryMoves
<1>8. CASE Pay
  <2>1. pc = "Pay" /\ UNCHANGED <<index, req>>
    BY <1>8, PayMoves
  <2>2. CASE UNCHANGED payLogs /\ pc' \in {"Reissue", "FetchTransactions"}
    BY <1>5, <2>1, <2>2 DEF Scanning
  <2> QED
    BY <1>4, <1>8, <2>1, <2>2, PayMoves
<1>9. CASE Reissue
  <2>1. pc = "Reissue" /\ UNCHANGED <<index, req>>
    BY <1>9, ReissueMoves
  <2>2. CASE UNCHANGED payLogs /\ pc' = IF at[2] < M THEN "Reissue" ELSE "Probe"
    BY <1>5, <2>1, <2>2 DEF Scanning
  <2> QED
    BY <1>4, <1>6, <1>9, <2>1, <2>2, ReissueMoves DEF Scanning
<1>10. CASE Probe
  BY <1>4, <1>6, <1>10, ProbeMoves DEF Scanning
<1>11. CASE FetchTransactions
  <2>1. req.BatchCount \in Nat
    BY RequestType
  <2>2. UNCHANGED <<index, payLogs>> /\ pc' = "answered"
    BY <1>11, <2>1, TransactionQueryMoves
  <2> QED
    BY <1>1, <1>3, <2>2
<1>12. CASE IndexStep
  <2>1. UNCHANGED <<scenario, pc, req, payLogs, at, estimatedFee>>
    BY <1>12, IndexersKeepRequest DEF request
  <2>2. Kept
    BY <1>12, <2>1, IndexGrows DEF ReadInv, ScanInv
  <2> QED
    BY <1>2, <2>1, <2>2 DEF ReadInv, Scanning
<1>13. CASE UNCHANGED vars
  <2>1. UNCHANGED <<index, pc, req, payLogs, at, estimatedFee>>
    BY <1>13 DEF vars
  <2> QED
    BY <1>1, <1>2, <2>1 DEF ReadInv, Scanning
<1> QED
  BY <1>7, <1>8, <1>9, <1>10, <1>11, <1>12, <1>13 DEF Next, IndexStep

-----------------------------------------------------------------------------
(***************************************************************************)
(* The estimate: the units counted are units of the reference, and all of  *)
(* those the scan has passed that the reference had when the pay events    *)
(* were read, unless retention dropped some.                               *)
(***************************************************************************)
EstimateInv ==
    Scanning => \E C, F : Counts(C, F, Units(Charges), estimatedFee, floor,
                                 req.FirstPaymentId + at[1], at[2], Retained)

(* Nothing is counted when the scan starts.                                *)
LEMMA EstimateStarts ==
    ASSUME TypeInv, IndexInv, validateBatchRange(req), NEW ret
    PROVE  LET U == Units(Charges)
           IN  Counts({}, U, U, 0, ReferenceEstimate, req.FirstPaymentId, 0, ret)
<1> DEFINE U == Units(Charges)
           first == req.FirstPaymentId
<1>1. IsFiniteSet({}) /\ Cardinality({}) = 0
  BY FS_EmptySet
<1>2. IsFiniteSet(U) /\ Cardinality(U) = ReferenceEstimate
  BY ChargesShape DEF ReferenceEstimate, Total
<1>3. U \in SUBSET EventUnit /\ \A u \in U : u[1][1] \in Batch
  BY ChargesShape
<1>4. first \in Nat /\ req.BatchCount \in Nat
  BY RequestType
<1>5. \A u \in U : u[1][1] \in Nat /\ u[1][2] \in Nat \ {0}
  BY <1>3 DEF EventUnit
<1>6. \A c \in Batch : c >= first
  BY <1>4, BatchRange
<1> HIDE DEF U
<1>7. \A u \in U : ~ PassedAt(u, first, 0)
  BY <1>3, <1>4, <1>5, <1>6 DEF PassedAt
<1> QED
  BY <1>1, <1>2, <1>7 DEF Counts, U

(* The largest of zero and a number.                                       *)
LEMMA ResidualIs ==
    ASSUME NEW x \in Int, NEW y \in Int
    PROVE  Residual(x, y) = IF x - y > 0 THEN x - y ELSE 0
<1> DEFINE g == x - y
<1>1. g \in Int
  OBVIOUS
<1> HIDE DEF g
<1>2. \E m \in {0, g} : \A c \in {0, g} : m >= c
  BY <1>1, SMTT(30), SMTT(60)
<1>3. Max({0, g}) \in {0, g} /\ \A c \in {0, g} : Max({0, g}) >= c
  BY <1>2 DEF Max
<1>4. Max({0, g}) = IF g > 0 THEN g ELSE 0
  BY <1>1, <1>3
<1> QED
  BY <1>4 DEF Residual, g

(* The payment the scan is at.                                             *)
LEMMA ScannedPayment ==
    ASSUME TypeInv, IndexInv, ScanInv, ReadInv, Scanning, at[1] < req.BatchCount,
           PaymentID(at[1]) \in DOMAIN payLogs
    PROVE  LET p == PaymentID(at[1])
           IN  /\ p = req.FirstPaymentId + at[1] /\ p \in Nat
               /\ p \in Batch \cap Payments[scenario]
               /\ 1 \in DOMAIN logs[p] /\ payLogs[p] = logs[p][1]
               /\ \E l \in Nat : DOMAIN logs[p] = 1 .. l
               /\ \A k \in DOMAIN logs[p] : logs[p][k].maxFee \in Nat /\ logs[p][k].time \in Nat
<1> DEFINE p == PaymentID(at[1])
<1>1. at[1] \in 0 .. req.BatchCount - 1 /\ req.FirstPaymentId \in Nat /\ at[1] \in Nat
  BY RequestType
<1>2. validateBatchRange(req)
  BY DEF ReadInv
<1>3. p = req.FirstPaymentId + at[1]
  BY <1>1, <1>2, BatchRange
<1>4. p \in Nat
  BY <1>1, <1>3
<1>5. p \in Batch /\ p \in Payments[scenario]
  BY <1>1 DEF Batch, ScanInv
<1>6. 1 \in DOMAIN logs[p] /\ payLogs[p] = logs[p][1]
  BY DEF ReadInv
<1>7. logs[p] \in Seq(EventRecord)
  BY <1>5 DEF IndexInv
<1> HIDE DEF p
<1>8. Len(logs[p]) \in Nat /\ DOMAIN logs[p] = 1 .. Len(logs[p])
      /\ \A k \in DOMAIN logs[p] : logs[p][k] \in EventRecord
  BY <1>7
<1>9. MaxFees[scenario] \subseteq Nat
  BY FeeProofAssumption DEF TypeInv
<1>10. \A k \in DOMAIN logs[p] : logs[p][k].maxFee \in Nat /\ logs[p][k].time \in Nat
  BY <1>8, <1>9 DEF EventRecord
<1> QED
  BY <1>3, <1>4, <1>5, <1>6, <1>8, <1>10 DEF p

(* Where the scan of a payment ends, no later event is in the window.      *)
LEMMA NothingMissed ==
    ASSUME TypeInv, IndexInv, ScanInv, OrderInv, ReadInv, pc \in {"Reissue", "Probe"},
           at[1] < req.BatchCount, at[2] >= 1, BoundTo(at[1]), Retained,
           \/ ~ Visible(PaymentID(at[1]), at[2])
           \/ Row(PaymentID(at[1]), at[2]).time > req.UntilTimestamp
    PROVE  \A u \in Units(Charges) : u[1][1] = PaymentID(at[1]) => u[1][2] <= at[2]
<1> DEFINE p == PaymentID(at[1])
           n == at[2]
           s == logs[p]
<1>1. /\ p \in Batch \cap Payments[scenario]
      /\ \E l \in Nat : DOMAIN s = 1 .. l
      /\ \A k \in DOMAIN s : s[k].time \in Nat
  BY ScannedPayment DEF BoundTo, Scanning
<1>2. n \in Nat /\ req.UntilTimestamp \in Nat /\ n >= 1
  BY RequestType
<1>3. DOMAIN logs = Payments[scenario]
  BY DEF IndexInv
<1>4. n + 1 \in DOMAIN s => s[n + 1].time > req.UntilTimestamp
  <2>1. \A k \in DOMAIN s : s[k].time >= horizon
    BY <1>1, <1>3 DEF Retained
  <2> QED
    BY <2>1 DEF Visible, Row
<1>5. \A k \in DOMAIN s : \A j \in DOMAIN s : j <= k => s[j].time <= s[k].time
  BY <1>1 DEF OrderInv, InOrder
<1>6. validateBatchRange(req)
  BY DEF ReadInv, Scanning
<1> SUFFICES ASSUME NEW u \in Units(Charges), u[1][1] = p PROVE u[1][2] <= n
  OBVIOUS
<1> DEFINE k == u[1][2]
<1>7. k \in DOMAIN s /\ (k = 1 \/ k \in InWindow(p))
  BY <1>6, ChargesShape
<1>8. k = 1 \/ s[k].time <= req.UntilTimestamp
  BY <1>7 DEF InWindow
<1> HIDE DEF k, s, n, p
<1>9. PICK l \in Nat : DOMAIN s = 1 .. l
  BY <1>1
<1> SUFFICES ASSUME k > n PROVE FALSE
  BY <1>2, <1>7, <1>9 DEF k
<1>10. n + 1 \in DOMAIN s /\ n + 1 <= k /\ k # 1
  BY <1>2, <1>7, <1>9
<1>11. s[n + 1].time <= s[k].time /\ s[k].time <= req.UntilTimestamp /\ s[n + 1].time > req.UntilTimestamp
  BY <1>4, <1>5, <1>7, <1>8, <1>10
<1> QED
  BY <1>1, <1>2, <1>7, <1>10, <1>11

(* The request's own steps keep the count.                                 *)
LEMMA RequestCounts ==
    ASSUME TypeInv, IndexInv, BudgetInv, ScanInv, OrderInv, ReadInv, EstimateInv,
           FetchInstructionLogs \/ Pay \/ Reissue \/ Probe \/ FetchTransactions
    PROVE  EstimateInv'
<1> DEFINE a == at[1]
           n == at[2]
           p == PaymentID(a)
           first == req.FirstPaymentId
           U == Units(Charges)
           ret == Retained
           est == estimatedFee
           fl == floor
<1>1. a \in Nat /\ n \in Nat /\ first \in Nat /\ req.BatchCount \in Nat
  BY RequestType
<1>2. UNCHANGED <<index, req>>
  BY RequestKeepsIndex
<1>3. Charges' = Charges
  <2>1. Batch' = Batch /\ logs' = logs /\ req' = req
    BY <1>2 DEF index, Batch, PaymentID
  <2> QED
    BY <2>1, ChargesAre
<1>4. Retained' <=> Retained
  BY <1>2 DEF index, Retained, Batch, PaymentID
<1>5. ASSUME NEW C, NEW F, Counts(C, F, U, estimatedFee', floor', first + at'[1], at'[2], ret)
      PROVE  EstimateInv'
  <2>1. Counts(C, F, Units(Charges'), estimatedFee', floor', req'.FirstPaymentId + at'[1], at'[2], Retained')
    BY <1>2, <1>3, <1>4, <1>5 DEF Counts
  <2> QED
    BY <2>1 DEF EstimateInv
<1>6. ASSUME pc' = "answered" PROVE EstimateInv'
  BY <1>6 DEF EstimateInv, Scanning
<1>7. ASSUME ToldToRetry \/ \E err : Told(err) PROVE EstimateInv'
  BY <1>6, <1>7, ToldEnds
<1>8. ASSUME Scanning
      PROVE  /\ validateBatchRange(req) /\ U \in SUBSET EventUnit
             /\ \E C, F : Counts(C, F, U, est, fl, first + a, n, ret)
  <2>1. validateBatchRange(req)
    BY <1>8 DEF ReadInv
  <2> QED
    BY <1>8, <2>1, ChargesShape DEF EstimateInv
<1>9. ASSUME ScanEnds, pc \in {"Reissue", "Probe"}, UNCHANGED floor PROVE EstimateInv'
  <2>1. BoundTo(a) /\ Scanning
    BY <1>9 DEF ScanInv, Scanning
  <2>2. a < req.BatchCount /\ n >= 1
    BY <1>9, Caps DEF BudgetInv, Budget
  <2>3. p = first + a /\ p \in Nat
    BY <2>1, <2>2, ScannedPayment DEF BoundTo
  <2>4. ret => \A u \in U : u[1][1] = p => u[1][2] <= n
    BY <1>9, <2>1, <2>2, NothingMissed DEF ScanEnds
  <2>5. PICK C, F : Counts(C, F, U, est, fl, p, n, ret)
    BY <1>8, <2>1, <2>3
  <2>6. U \in SUBSET EventUnit
    BY <1>8, <2>1
  <2> HIDE DEF p, n, U, ret, est, fl
  <2>7. Counts(C, F, U, est, fl, p + 1, 0, ret)
    BY <1>1, <2>3, <2>4, <2>5, <2>6, CountsPayment
  <2>8. at'[1] = a + 1 /\ at'[2] = 0 /\ first + (a + 1) = p + 1
    BY <1>1, <1>9, <2>3 DEF ScanEnds
  <2>9. estimatedFee' = est /\ floor' = fl
    BY <1>9 DEF ScanEnds, est, fl
  <2> QED
    BY <1>5, <2>7, <2>8, <2>9 DEF U, ret
<1>10. CASE FetchInstructionLogs
  <2>1. CASE /\ pc' = "Pay" /\ at' = <<0, 0>> /\ validateBatchRange(req)
             /\ floor' = ReferenceEstimate /\ UNCHANGED estimatedFee
    <3>1. estimatedFee' = 0
      BY <1>10, <2>1, BatchQueryMoves DEF ReadInv
    <3>2. at'[1] = 0 /\ at'[2] = 0 /\ first + 0 = first
      BY <1>1, <2>1
    <3>3. Counts({}, U, U, 0, ReferenceEstimate, first, 0, ret)
      BY <2>1, EstimateStarts
    <3> QED
      BY <1>5, <2>1, <3>1, <3>2, <3>3
  <2> QED
    BY <1>7, <1>10, <2>1, BatchQueryMoves
<1>11. CASE Pay
  <2>1. pc = "Pay" /\ Scanning /\ n = 0 /\ UNCHANGED floor
    BY <1>11, PayMoves DEF Scanning, ReadInv
  <2>2. PICK C, F : Counts(C, F, U, est, fl, first + a, n, ret)
    BY <1>8, <2>1
  <2>3. CASE UNCHANGED <<at, estimatedFee>>
    BY <1>5, <2>1, <2>2, <2>3
  <2>4. CASE /\ a < req.BatchCount /\ p \in DOMAIN payLogs
             /\ estimatedFee' = estimatedFee + payLogs[p].maxFee /\ at' = <<a, 1>>
    <3>1. /\ p = first + a /\ p \in Nat /\ p \in Batch \cap Payments[scenario]
          /\ 1 \in DOMAIN logs[p] /\ payLogs[p] = logs[p][1]
          /\ \A k \in DOMAIN logs[p] : logs[p][k].maxFee \in Nat
      BY <2>1, <2>4, ScannedPayment
    <3> DEFINE price == logs[p][1].maxFee
    <3>2. price \in Nat /\ price = Charge(p, 1)
      BY <3>1 DEF Charge
    <3>3. \A d : <<<<p, 1>>, d>> \in U <=> d \in 1 .. price
      BY <1>8, <2>1, <3>1, <3>2, ChargesShape
    <3>4. U \in SUBSET EventUnit /\ Counts(C, F, U, est, fl, p, 0, ret)
      BY <1>8, <2>1, <2>2, <3>1
    <3>5. estimatedFee' = est + price /\ at'[1] = a /\ at'[2] = 1
      BY <2>4, <3>1
    <3> HIDE DEF p, U, ret, est, fl, price
    <3>6. \E D : Counts(D, F, U, est + (IF price > 0 THEN price ELSE 0), fl, p, 0 + 1, ret)
      <4>1. price \in Int /\ 0 \in Nat /\ 0 + 1 = 1
        BY <3>2
      <4> QED
        BY <3>1, <3>3, <3>4, <4>1, CountsEvent
    <3>7. (IF price > 0 THEN price ELSE 0) = price /\ 0 + 1 = 1
      BY <3>2
    <3>8. floor' = fl
      BY <2>1 DEF fl
    <3> QED
      BY <1>5, <3>1, <3>5, <3>6, <3>7, <3>8 DEF U, ret
  <2> QED
    BY <1>7, <1>11, <2>3, <2>4, PayMoves
<1>12. CASE Reissue
  <2>1. pc = "Reissue" /\ Scanning /\ UNCHANGED floor
    BY <1>12, ReissueMoves DEF Scanning
  <2>2. CASE /\ Visible(p, n) /\ ~ (Row(p, n).time > req.UntilTimestamp)
             /\ estimatedFee' = estimatedFee + Residual(Row(p, n).maxFee, payLogs[p].maxFee)
             /\ at' = <<a, n + 1>>
    <3>1. BoundTo(a) /\ a < req.BatchCount /\ n >= 1
      BY <2>1 DEF BudgetInv, Budget, ScanInv
    <3>2. /\ p = first + a /\ p \in Nat /\ p \in Batch \cap Payments[scenario]
          /\ 1 \in DOMAIN logs[p] /\ payLogs[p] = logs[p][1]
          /\ \A k \in DOMAIN logs[p] : logs[p][k].maxFee \in Nat
      BY <2>1, <3>1, ScannedPayment DEF BoundTo
    <3>3. n + 1 \in InWindow(p)
      BY <1>1, <2>2, <3>1, <3>2, SeenInWindow
    <3>4. n + 1 \in DOMAIN logs[p] /\ n + 1 # 1
      BY <1>1, <3>1, <3>3 DEF InWindow
    <3> DEFINE price == logs[p][n + 1].maxFee - logs[p][1].maxFee
    <3>5. price \in Int
      BY <3>2, <3>4
    <3>6. price = Charge(p, n + 1)
      BY <3>4 DEF Charge
    <3>7. \A d : <<<<p, n + 1>>, d>> \in U <=> d \in 1 .. price
      BY <1>8, <2>1, <3>2, <3>3, <3>4, <3>6, ChargesShape
    <3>8. Residual(Row(p, n).maxFee, payLogs[p].maxFee) = IF price > 0 THEN price ELSE 0
      <4>1. Row(p, n).maxFee = logs[p][n + 1].maxFee /\ payLogs[p].maxFee = logs[p][1].maxFee
        BY <3>2 DEF Row
      <4>2. logs[p][n + 1].maxFee \in Int /\ logs[p][1].maxFee \in Int
        BY <3>2, <3>4
      <4> QED
        BY <4>1, <4>2, ResidualIs
    <3>9. PICK C, F : Counts(C, F, U, est, fl, p, n, ret)
      BY <1>8, <2>1, <3>2
    <3>10. U \in SUBSET EventUnit
      BY <1>8, <2>1
    <3>11. estimatedFee' = est + (IF price > 0 THEN price ELSE 0) /\ floor' = fl
      BY <2>1, <2>2, <3>8
    <3>12. at'[1] = a /\ at'[2] = n + 1
      BY <2>2
    <3> HIDE DEF p, n, U, ret, est, fl, price
    <3>13. \E D : Counts(D, F, U, est + (IF price > 0 THEN price ELSE 0), fl, p, n + 1, ret)
      BY <1>1, <3>2, <3>5, <3>7, <3>9, <3>10, CountsEvent
    <3> QED
      BY <1>5, <3>2, <3>11, <3>12, <3>13 DEF U, ret
  <2> QED
    BY <1>7, <1>9, <1>12, <2>1, <2>2, ReissueMoves
<1>13. CASE Probe
  BY <1>7, <1>9, <1>13, ProbeMoves
<1>14. CASE FetchTransactions
  BY <1>1, <1>6, <1>14, TransactionQueryMoves
<1> QED
  BY <1>10, <1>11, <1>12, <1>13, <1>14

(* The reference only grows with the index.                                *)
LEMMA UnitsGrow ==
    ASSUME NEW P, NEW lg, NEW lh, NEW t,
           \A p \in P : \A k \in DOMAIN lg[p] :
              1 \in DOMAIN lg[p] /\ k \in DOMAIN lh[p] /\ lh[p][k] = lg[p][k]
    PROVE  Units(ChargesOf(P, lg, t)) \subseteq Units(ChargesOf(P, lh, t))
<1> SUFFICES ASSUME NEW u \in Units(ChargesOf(P, lg, t)) PROVE u \in Units(ChargesOf(P, lh, t))
  OBVIOUS
<1>1. PICK p \in P : \E k \in DOMAIN lg[p] :
          IsCharged(lg, t, p, k) /\ \E d \in 1 .. PriceOf(lg, p, k) : u = <<<<p, k>>, d>>
  BY ChargeUnits, SMTT(30), SMTT(60)
<1>2. PICK k \in DOMAIN lg[p] :
          IsCharged(lg, t, p, k) /\ \E d \in 1 .. PriceOf(lg, p, k) : u = <<<<p, k>>, d>>
  BY <1>1
<1>3. k \in DOMAIN lh[p] /\ lh[p][k] = lg[p][k] /\ lh[p][1] = lg[p][1]
  OBVIOUS
<1>4. IsCharged(lh, t, p, k) /\ PriceOf(lh, p, k) = PriceOf(lg, p, k)
  BY <1>2, <1>3 DEF IsCharged, PriceOf
<1> QED
  BY <1>2, <1>3, <1>4, ChargeUnits

(* The indexers keep the count.                                            *)
LEMMA IndexersKeepCount ==
    ASSUME TypeInv, IndexInv, OrderInv, EstimateInv, IndexStep
    PROVE  EstimateInv'
<1> DEFINE P == Batch \cap Payments[scenario]
<1>1. UNCHANGED <<scenario, pc, req, at, estimatedFee, floor>>
  BY IndexersKeepRequest DEF request
<1>2. DOMAIN logs = Payments[scenario] /\ DOMAIN logs' = Payments[scenario]
  BY <1>1, IndexGrows DEF IndexInv
<1>3. Batch' = Batch
  BY <1>1 DEF Batch, PaymentID
<1>4. ASSUME NEW p \in Payments[scenario], NEW k \in DOMAIN logs[p]
      PROVE  /\ 1 \in DOMAIN logs[p] /\ k \in DOMAIN logs'[p] /\ logs'[p][k] = logs[p][k]
             /\ logs[p][k].time \in Nat
  <2>1. logs[p] \in Seq(EventRecord)
    BY DEF IndexInv
  <2>2. 1 \in DOMAIN logs[p] /\ logs[p][k] \in EventRecord
    BY <2>1
  <2>3. logs[p][k].time \in Nat
    BY <2>2 DEF EventRecord
  <2> QED
    BY <2>2, <2>3, IndexGrows
<1>5. Units(Charges) \subseteq Units(Charges')
  <2>1. Charges = ChargesOf(P, logs, req.UntilTimestamp) /\ Charges' = ChargesOf(P, logs', req.UntilTimestamp)
    BY <1>1, <1>2, <1>3, ChargesAre
  <2>2. \A p \in P : \A k \in DOMAIN logs[p] :
          1 \in DOMAIN logs[p] /\ k \in DOMAIN logs'[p] /\ logs'[p][k] = logs[p][k]
    BY <1>4
  <2> HIDE DEF P
  <2> QED
    BY <2>1, <2>2, UnitsGrow
<1>6. Retained' => Retained
  <2> SUFFICES ASSUME Retained', NEW p \in P, NEW k \in DOMAIN logs[p] PROVE logs[p][k].time >= horizon
    BY <1>2 DEF Retained
  <2>1. logs'[p][k].time >= horizon'
    BY <1>2, <1>3, <1>4 DEF Retained
  <2>2. horizon' \in {horizon, horizon + 1}
    BY DEF IndexStep, IndexEvent, IndexTransaction, IndexBlock, Prune
  <2>3. horizon \in Nat
    BY DEF OrderInv
  <2>4. logs'[p][k] = logs[p][k] /\ logs[p][k].time \in Nat
    BY <1>4
  <2> QED
    BY <2>1, <2>2, <2>3, <2>4
<1>7. CASE Scanning
  <2>1. PICK C, F : Counts(C, F, Units(Charges), estimatedFee, floor,
                           req.FirstPaymentId + at[1], at[2], Retained)
    BY <1>7 DEF EstimateInv
  <2>2. Counts(C, F, Units(Charges'), estimatedFee', floor', req'.FirstPaymentId + at'[1], at'[2], Retained')
    BY <1>1, <1>5, <1>6, <2>1 DEF Counts
  <2> QED
    BY <2>2 DEF EstimateInv
<1>8. CASE ~ Scanning
  BY <1>1, <1>8 DEF EstimateInv, Scanning
<1> QED
  BY <1>7, <1>8

-----------------------------------------------------------------------------
(***************************************************************************)
(* The sums a request is answered with.                                    *)
(***************************************************************************)
SumsInv == NoUndercount /\ NoOvercount /\ ActualFeeIsAssigned

(* Every payment of the batch is bound when the transactions are read.     *)
LEMMA BatchIsBound ==
    ASSUME TypeInv, BudgetInv, ScanInv, pc = "FetchTransactions"
    PROVE  at[1] = req.BatchCount /\ \A i \in 0 .. req.BatchCount - 1 : SequenceAt(i) = SequenceOf(PaymentID(i))
<1>1. at[1] = req.BatchCount /\ req.BatchCount \in Nat
  BY RequestType DEF BudgetInv, Budget
<1>2. \A i \in 0 .. req.BatchCount - 1 : i \in Nat /\ i < req.BatchCount
  BY <1>1
<1> QED
  BY <1>1, <1>2 DEF ScanInv, BoundTo

(* The estimate is complete when the transactions are read.                *)
LEMMA EstimateIsBounded ==
    ASSUME TypeInv, IndexInv, BudgetInv, ScanInv, ReadInv, EstimateInv, pc = "FetchTransactions"
    PROVE  estimatedFee <= ReferenceEstimate /\ (Retained => estimatedFee >= floor)
<1> DEFINE U == Units(Charges)
           p == req.FirstPaymentId + at[1]
           est == estimatedFee
           ret == Retained
<1>1. validateBatchRange(req)
  BY DEF ReadInv, Scanning
<1>2. PICK C, F : Counts(C, F, U, est, floor, p, at[2], ret)
  BY DEF EstimateInv, Scanning
<1>3. /\ U \in SUBSET EventUnit /\ IsFiniteSet(U)
      /\ \A u \in U : u[1][1] \in Batch
  BY <1>1, ChargesShape
<1>4. at[1] = req.BatchCount
  BY BatchIsBound
<1>5. p \in Nat /\ \A c \in Batch : c < p
  BY <1>1, <1>4, BatchRange, RequestType
<1>6. Cardinality(U) = ReferenceEstimate
  BY DEF ReferenceEstimate, Total
<1> HIDE DEF U, p, est, ret
<1>7. est <= Cardinality(U) /\ (ret => est >= floor)
  BY <1>2, <1>3, <1>5, CountsAll
<1> QED
  BY <1>6, <1>7 DEF est, ret

(* The transactions of the batch, one by one or payment by payment.        *)
LEMMA ActualFeeIs ==
    ASSUME TypeInv, BudgetInv, ScanInv, ReadInv, pc = "FetchTransactions",
           \A p \in Batch : txs[SequenceOf(p)].fee \in 0 .. MaxXRPDrops
    PROVE  LET rows == [i \in 0 .. req.BatchCount - 1 |-> txs[SequenceAt(i)]]
               actualFee == Total([i \in DOMAIN rows |-> rows[i].fee])
           IN  /\ actualFee = Total([p \in Batch |-> txs[SequenceOf(p)].fee])
               /\ actualFee <= MaxBatchRange * MaxXRPDrops
<1> DEFINE b == req.BatchCount
           D == 0 .. b - 1
           rows == [i \in D |-> txs[SequenceAt(i)]]
           h == [i \in DOMAIN rows |-> rows[i].fee]
           f == [p \in Batch |-> txs[SequenceOf(p)].fee]
           g == [i \in D |-> PaymentID(i)]
<1>1. validateBatchRange(req)
  BY DEF ReadInv, Scanning
<1>2. /\ b \in 1 .. MaxBatchRange /\ req.FirstPaymentId \in Nat
      /\ \A i \in D : PaymentID(i) = req.FirstPaymentId + i
  BY <1>1, BatchRange, RequestType
<1>3. MaxXRPDrops \in Nat /\ MaxBatchRange \in Nat
  BY FeeProofAssumption
<1>4. g \in Bijection(D, Batch)
  <2>1. g \in [D -> Batch] /\ \A i \in D : g[i] = PaymentID(i)
    BY DEF Batch
  <2>2. \A i, j \in D : PaymentID(i) = PaymentID(j) => i = j
    BY <1>2
  <2>3. \A c \in Batch : \E i \in D : g[i] = c
    BY <2>1 DEF Batch
  <2> HIDE DEF g, D
  <2> QED
    BY <2>1, <2>2, <2>3 DEF Bijection, Injection, Surjection, IsInjective
<1>5. ASSUME NEW i \in D
      PROVE  PaymentID(i) \in Batch /\ h[i] = txs[SequenceOf(PaymentID(i))].fee
  <2>1. rows[i] = txs[SequenceOf(PaymentID(i))]
    BY BatchIsBound
  <2>2. PaymentID(i) \in Batch
    BY DEF Batch
  <2> QED
    BY <2>1, <2>2
<1>6. DOMAIN h = D /\ h = [i \in D |-> h[i]]
  OBVIOUS
<1>7. h \in [D -> 0 .. MaxXRPDrops] /\ f \in [Batch -> 0 .. MaxXRPDrops]
  <2>1. \A i \in D : h[i] \in 0 .. MaxXRPDrops
    BY <1>5
  <2> HIDE DEF h
  <2>2. h \in [D -> 0 .. MaxXRPDrops]
    BY <1>6, <2>1
  <2> QED
    BY <2>2
<1>8. \A i \in D : h[i] = f[g[i]]
  BY <1>5
<1>9. IsFiniteSet(D) /\ Cardinality(D) = b
  <2>1. \A x, y \in Int : IsFiniteSet(x .. y) /\ Cardinality(x .. y) = IF x > y THEN 0 ELSE y - x + 1
    BY FS_Interval
  <2>2. 0 \in Int /\ b - 1 \in Int /\ ~ (0 > b - 1) /\ b - 1 - 0 + 1 = b
    BY <1>2, <1>3
  <2> QED
    BY <2>1, <2>2
<1> HIDE DEF D, h, f, g
<1>10. h \in [D -> Int] /\ f \in [Batch -> Int]
  <2>1. \A x \in 0 .. MaxXRPDrops : x \in Int
    BY <1>3
  <2> QED
    BY <1>7, <2>1
<1>11. Total(h) = Total(f)
  BY <1>4, <1>8, <1>9, <1>10, TotalRenamed, SMTT(30), SMTT(60)
<1>12. Total(h) <= b * MaxXRPDrops
  BY <1>3, <1>7, <1>9, TotalBounded
<1>13. b * MaxXRPDrops <= MaxBatchRange * MaxXRPDrops
  <2>1. \A x, y, m \in Nat : x <= y => x * m <= y * m
    OBVIOUS
  <2> QED
    BY <1>2, <1>3, <2>1
<1>14. Total(h) <= MaxBatchRange * MaxXRPDrops
  <2>1. Total(h) \in Nat
    BY <1>9, <1>10, UnitsFinite
  <2>2. b * MaxXRPDrops \in Nat /\ MaxBatchRange * MaxXRPDrops \in Nat
    BY <1>2, <1>3
  <2> QED
    BY <1>12, <1>13, <2>1, <2>2
<1> QED
  BY <1>11, <1>14 DEF h, f, D

(* A request that ends without an error has the sums of its batch.         *)
LEMMA EndsWithSums ==
    ASSUME TypeInv, IndexInv, BudgetInv, ScanInv, ReadInv, EstimateInv, pc' = "answered", CauseInv',
           FetchInstructionLogs \/ Pay \/ Reissue \/ Probe \/ FetchTransactions
    PROVE  SumsInv'
<1>1. ASSUME answer'.err # nil PROVE SumsInv'
  BY <1>1 DEF SumsInv, NoUndercount, NoOvercount, ActualFeeIsAssigned, OK
<1>2. ASSUME ToldToRetry \/ \E err : Told(err) /\ err # nil PROVE SumsInv'
  <2>1. PICK err : Told(err) /\ err # nil
    BY <1>2 DEF ToldToRetry
  <2>2. answer'.err = err
    BY <2>1 DEF Told
  <2> QED
    BY <1>1, <2>1, <2>2
<1>3. /\ "answered" # "Pay" /\ "answered" # "Reissue" /\ "answered" # "Probe"
      /\ "answered" # "FetchTransactions"
  OBVIOUS
<1>4. CASE FetchInstructionLogs
  BY <1>2, <1>3, <1>4, BatchQueryMoves
<1>5. CASE Pay
  BY <1>2, <1>3, <1>5, PayMoves
<1>6. CASE Reissue
  BY <1>2, <1>3, <1>6, ReissueMoves DEF ScanEnds
<1>7. CASE Probe
  BY <1>2, <1>3, <1>7, ProbeMoves DEF ScanEnds
<1>8. CASE FetchTransactions
  <2> DEFINE rows == [i \in 0 .. req.BatchCount - 1 |-> txs[SequenceAt(i)]]
             actualFee == Total([i \in DOMAIN rows |-> rows[i].fee])
  <2>1. req.BatchCount \in Nat
    BY RequestType
  <2>2. pc = "FetchTransactions" /\ UNCHANGED <<index, req, floor>>
    BY <1>8, <2>1, TransactionQueryMoves
  <2>3. CASE answer'.err = nil /\ answer'.EstimatedFee = estimatedFee /\ answer'.ActualFee = actualFee
    <3>1. Batch' = Batch /\ logs' = logs /\ txs' = txs /\ req' = req
      BY <2>2 DEF index, Batch, PaymentID
    <3>2. ReferenceEstimate' = ReferenceEstimate
      <4>1. Charges' = Charges
        BY <3>1, ChargesAre
      <4> QED
        BY <4>1 DEF ReferenceEstimate
    <3>3. Retained' <=> Retained
      BY <2>2, <3>1 DEF Retained, index
    <3>4. NoUndercount' /\ NoOvercount'
      BY <2>2, <2>3, <3>2, <3>3, EstimateIsBounded DEF NoUndercount, NoOvercount
    <3>5. CASE ~ OK'
      BY <3>4, <3>5 DEF SumsInv, ActualFeeIsAssigned
    <3>6. CASE OK'
      <4>1. \A p \in Batch : /\ txs[SequenceOf(p)] # None /\ txs[SequenceOf(p)].defect = "none"
                             /\ txs[SequenceOf(p)].fee \in 0 .. MaxXRPDrops
        BY <3>1, <3>6 DEF CauseInv, SummedRowsAreSound, SequenceOf
      <4>2. /\ actualFee = Total([p \in Batch |-> txs[SequenceOf(p)].fee])
            /\ actualFee <= MaxBatchRange * MaxXRPDrops
        BY <2>2, <4>1, ActualFeeIs
      <4> HIDE DEF actualFee
      <4>3. ActualFeeIsAssigned'
        BY <2>3, <3>1, <4>1, <4>2 DEF ActualFeeIsAssigned, SequenceOf
      <4> QED
        BY <3>4, <4>3 DEF SumsInv
    <3> QED
      BY <3>5, <3>6
  <2>4. CASE ToldToRetry
    BY <1>2, <2>4
  <2>5. CASE answer'.err # nil
    BY <1>1, <2>5
  <2> QED
    BY <1>8, <2>1, <2>3, <2>4, <2>5, TransactionQueryMoves
<1> QED
  BY <1>4, <1>5, <1>6, <1>7, <1>8

(* Every step keeps the count and the sums.                                *)
LEMMA SumsStep ==
    /\ TypeInv /\ IndexInv /\ BudgetInv /\ RangeInv /\ ScanInv /\ CauseInv
    /\ OrderInv /\ ReadInv /\ EstimateInv /\ SumsInv /\ [Next]_vars
    => EstimateInv' /\ SumsInv'
<1> SUFFICES ASSUME TypeInv, IndexInv, BudgetInv, RangeInv, ScanInv, CauseInv,
                    OrderInv, ReadInv, EstimateInv, SumsInv, [Next]_vars
             PROVE  EstimateInv' /\ SumsInv'
  OBVIOUS
<1>1. TypeInv' /\ CauseInv'
  BY TypeStep, CauseStep
<1>2. ASSUME pc' # "answered" PROVE SumsInv'
  BY <1>1, <1>2 DEF TypeInv, SumsInv, NoUndercount, NoOvercount, ActualFeeIsAssigned, OK, Answered
<1>3. CASE FetchInstructionLogs \/ Pay \/ Reissue \/ Probe \/ FetchTransactions
  BY <1>1, <1>2, <1>3, RequestCounts, EndsWithSums
<1>4. CASE IndexStep
  <2>1. pc' = pc /\ pc # "answered"
    BY <1>4, IndexersKeepRequest DEF request
  <2> QED
    BY <1>2, <1>4, <2>1, IndexersKeepCount
<1>5. CASE UNCHANGED vars
  <2>1. UNCHANGED <<logs, txs, horizon, pc, req, at, estimatedFee, floor, answer>>
    BY <1>5 DEF vars, index
  <2>2. Batch' = Batch
    BY <2>1 DEF Batch, PaymentID
  <2>3. Charges' = Charges
    BY <2>1, <2>2, ChargesAre
  <2>4. (Retained' <=> Retained) /\ ReferenceEstimate' = ReferenceEstimate
    BY <2>1, <2>2, <2>3 DEF Retained, ReferenceEstimate
  <2>5. EstimateInv'
    BY <2>1, <2>3, <2>4 DEF EstimateInv, Scanning, Counts
  <2>6. NoUndercount' /\ NoOvercount'
    BY <2>1, <2>4 DEF SumsInv, NoUndercount, NoOvercount, OK, Answered
  <2>7. ActualFeeIsAssigned'
    BY <2>1, <2>2 DEF SumsInv, ActualFeeIsAssigned, OK, Answered, SequenceOf
  <2> QED
    BY <2>5, <2>6, <2>7 DEF SumsInv
<1> QED
  BY <1>3, <1>4, <1>5 DEF Next, IndexStep

(* Nothing is indexed, read, counted or answered at first.                 *)
LEMMA SumsInit == Init => OrderInv /\ ReadInv /\ EstimateInv /\ SumsInv
<1> SUFFICES ASSUME Init PROVE OrderInv /\ ReadInv /\ EstimateInv /\ SumsInv
  OBVIOUS
<1>1. /\ logs = [p \in Payments[scenario] |-> <<>>] /\ horizon = 0 /\ pc = "FetchInstructionLogs"
      /\ payLogs = <<>> /\ estimatedFee = 0 /\ answer = None
  BY DEF Init
<1>2. DOMAIN payLogs = {} /\ horizon \in Nat /\ \A p \in Payments[scenario] : DOMAIN logs[p] = {}
  BY <1>1
<1>3. OrderInv
  BY <1>2 DEF OrderInv, InOrder
<1>4. ReadInv /\ EstimateInv
  BY <1>1, <1>2 DEF ReadInv, EstimateInv, Scanning
<1>5. SumsInv
  BY <1>1 DEF SumsInv, NoUndercount, NoOvercount, ActualFeeIsAssigned, OK, Answered
<1> QED
  BY <1>3, <1>4, <1>5

(* The whole invariant.                                                    *)
LEMMA SumsAlways == Spec => []SumsInv
  BY BudgetInit, RangeInit, TypeStep, BudgetStep, RangeStep, CauseInit, IndexInvStep, CauseStep,
     SumsInit, OrderStep, ReadStep, SumsStep, PTL DEF Spec

(* An estimate that is returned counts every reissue the index held, up to *)
(* UntilTimestamp, when the pay events were read, unless retention dropped *)
(* an event of the batch (computeEstimatedFee): for any batch, cap, prices *)
(* and interleaving with the indexers.                                     *)
THEOREM EstimateIsNotTooLow == Spec => []NoUndercount
<1>1. SumsInv => NoUndercount
  BY DEF SumsInv
<1> QED
  BY <1>1, SumsAlways, PTL

(* The estimate never exceeds what the indexed events up to UntilTimestamp *)
(* cost, however the index grows or is pruned during the scan.             *)
THEOREM EstimateIsNotTooHigh == Spec => []NoOvercount
<1>1. SumsInv => NoOvercount
  BY DEF SumsInv
<1> QED
  BY <1>1, SumsAlways, PTL

(* The actual fee is the sum over the sound transactions with the batch's  *)
(* assigned sequences (computeActualFee), and at most the supply for each  *)
(* payment of the largest batch.                                           *)
THEOREM ActualFeeIsOfTheBatch == Spec => []ActualFeeIsAssigned
<1>1. SumsInv => ActualFeeIsAssigned
  BY DEF SumsInv
<1> QED
  BY <1>1, SumsAlways, PTL
=============================================================================
