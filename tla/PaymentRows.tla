---------------------------- MODULE PaymentRows ----------------------------
(***************************************************************************)
(* What the payment status verifier makes of the rows it reads             *)
(* (pmwpaymentstatus/xrp/verifier.go, its builder and the XRP amounts),    *)
(* as functions of the rows.  A number that does not parse is -1.          *)
(*   event row        [defect, nonce, amount, maxFee, token, recipient]    *)
(*   transaction row  [defect, type, result, fee, nodes]                   *)
(* defect "none" is a sound row; result is the class of the engine result, *)
(* its first three letters, or "short".                                    *)
(***************************************************************************)
EXTENDS Integers, Sequences, FiniteSetsExt, ErrorChains

CONSTANTS
    MaxXRPDrops,    \* the total supply
    Null            \* a row or a field that is not there

ASSUME RowsAssumption == MaxXRPDrops \in Nat /\ Null \notin Int

(* The ways a row can be unfit.                                            *)
EventDefects == {"none", "duplicate", "unconvertible", "undecodable", "foreign"}
TransactionDefects == {"none", "duplicate", "oversized", "notJSON", "noResult", "foreign", "badHash"}

FirstError(errs) ==
    LET failing == { i \in DOMAIN errs : errs[i] # nil }
    IN  IF failing = {} THEN nil ELSE errs[Min(failing)]

When(cond, err) == IF cond THEN err ELSE nil

-----------------------------------------------------------------------------
(***************************************************************************)
(* The amounts.  A node of the metadata is                                 *)
(*   [kind, entry, account, final, previous]                               *)
(* with kind "modified", "created" or "deleted", entry "AccountRoot" or    *)
(* another ledger entry type, and Null for a field that is missing (a      *)
(* created node has its new balance in final, and had nothing before).     *)
(***************************************************************************)
ExceedsMaxXRPDrops(v) == v > MaxXRPDrops
checkDropsBound(v) == When(v = Null \/ ExceedsMaxXRPDrops(v), ErrDatabase)
BalanceError(b) == IF b < 0 THEN Untagged ELSE When(ExceedsMaxXRPDrops(b), ErrDatabase)

Balances(node) == IF node.kind = "created" THEN <<node.final>> ELSE <<node.final, node.previous>>

(* The nodes that are read: account roots with all their fields.           *)
Counts(node) ==
    /\ node.kind \in {"modified", "created"}
    /\ node.entry = "AccountRoot"
    /\ \A i \in DOMAIN Balances(node) : Balances(node)[i] # Null

NodeError(node) ==
    IF Counts(node)
    THEN FirstError([i \in DOMAIN Balances(node) |-> BalanceError(Balances(node)[i])])
    ELSE nil

Gain(node) == IF node.kind = "created" THEN node.final ELSE node.final - node.previous

ReceivedSkipsCreated(node) == node.kind = "modified" /\ Counts(node) /\ Gain(node) > 0

(* A modified node counts when the balance grew, a created one always.     *)
Received(node) == Counts(node) /\ (node.kind = "created" \/ Gain(node) > 0)

ReceivedAmountError(nodes) == FirstError([i \in DOMAIN nodes |-> NodeError(nodes[i])])

FindReceivedAmountForAddress(nodes, receiver) ==
    LET mine == { i \in DOMAIN nodes : Received(nodes[i]) /\ nodes[i].account = receiver }
    IN  IF mine = {} THEN 0 ELSE Gain(nodes[Min(mine)])

-----------------------------------------------------------------------------
(***************************************************************************)
(* The two queries, and what the code refuses of the rows they find.       *)
(***************************************************************************)
FetchInstructionLogError(row, fault) ==
    IF fault # nil THEN Wrap({"ErrDatabase"}, fault)
    ELSE IF row = Null THEN ErrRecordNotFound
    ELSE CASE row.defect = "duplicate" -> ErrDatabase
           [] row.defect = "unconvertible" -> Untagged
           [] OTHER -> nil

(* DecodeTeeInstructionsSentEventData, then CheckInstructionConsistency.   *)
DecodeError(row) ==
    CASE row.defect = "undecodable" -> ErrDataSource
      [] row.defect = "foreign" -> ErrDatabase
      [] OTHER -> nil

FetchTransactionErrorIsNotFound(tx, fault) ==
    IF fault # nil \/ tx = Null THEN ErrRecordNotFound
    ELSE When(tx.defect = "duplicate", ErrDatabase)

FetchTransactionBySourceAndSequence(tx, fault) ==
    IF fault # nil THEN Wrap({"ErrDatabase"}, fault)
    ELSE IF tx = Null THEN ErrRecordNotFound
    ELSE When(tx.defect = "duplicate", ErrDatabase)

(* parseRawTransactionData, then CheckRowConsistency.                      *)
RowError(tx) ==
    CASE tx.defect \in {"notJSON", "noResult"} -> ErrDataSource
      [] tx.defect \in {"oversized", "foreign"} -> ErrDatabase
      [] OTHER -> nil

-----------------------------------------------------------------------------
(***************************************************************************)
(* The response.                                                           *)
(***************************************************************************)
getTransactionStatus(result) ==
    CASE result = "tes" -> "Success"
      [] result = "tec" -> "Reverted"
      [] OTHER -> "none"

NormalizeAddress(addr) == addr.account

BuildError(message, tx) ==
    FirstError(<<
        When(tx.type # "Payment", Untagged),
        When(message.token, Untagged),
        checkDropsBound(message.amount),
        checkDropsBound(message.maxFee),
        When(getTransactionStatus(tx.result) = "none", ErrDatabase),
        When(tx.fee < 0, Untagged),
        checkDropsBound(tx.fee),
        When(tx.defect = "badHash", Untagged),
        ReceivedAmountError(tx.nodes) >>)

(* The answer: the response body, or the error that stands in its place.   *)
BuildPaymentStatusResponse(message, tx) ==
    LET received == FindReceivedAmountForAddress(tx.nodes, NormalizeAddress(message.recipient))
        err == FirstError(<< BuildError(message, tx),
                             When(ExceedsMaxXRPDrops(received), ErrDatabase) >>)
    IN  IF err # nil THEN [err |-> err]
        ELSE [err |-> nil, amount |-> message.amount, maxFee |-> message.maxFee,
              status |-> getTransactionStatus(tx.result), received |-> received, fee |-> tx.fee]
=============================================================================
