--------------------------- MODULE PaymentStatus ---------------------------
(***************************************************************************)
(* The payment status service (pmwpaymentstatus/xrp/verifier.go) and the   *)
(* sequence binder its requests share.  A request reads the pay event from *)
(* the C-chain index, calls the binder with the event's XRP sequence,      *)
(* reads the transaction with that sequence and answers.  Requests and     *)
(* both indexers interleave between those calls and inside the binder's.   *)
(* The binder is NonceBinder itself: its variables and steps are used here *)
(* as they are.                                                            *)
(***************************************************************************)
EXTENDS NonceBinder, PaymentRows

CONSTANTS
    Scenarios,
    Bodies,          \* per scenario the payments [account, paymentId] asked about
    Indexed,         \* per scenario the indexes [events, txs] it may start with
    EventRows,       \* per scenario and payment the rows its event may be written as
    TransactionRows, \* per scenario and <<account, sequence>> the same for a transaction
    MaxCalls,        \* per scenario the requests that arrive
    Faults           \* per scenario what a query can fail with, nil included

(* A row is of one of the known kinds; a pay event's sequence is one the   *)
(* XRP index can be asked for, and its amounts, when there, are unsigned.  *)
EventRow(b, row, keys) ==
    /\ row.defect \in EventDefects /\ <<b.account, row.nonce>> \in keys
    /\ row.token \in BOOLEAN /\ {row.amount, row.maxFee} \subseteq Nat \cup {Null}

(* The ledger gives an account one root, and a transaction's metadata a    *)
(* node for each entry it touched.                                         *)
Metadata(nodes) ==
    /\ Len(nodes) \in Nat /\ DOMAIN nodes = 1 .. Len(nodes)
    /\ \A i \in DOMAIN nodes :
          /\ nodes[i].kind \in {"modified", "created", "deleted"}
          /\ {nodes[i].final, nodes[i].previous} \subseteq Int \cup {Null}
          /\ nodes[i].kind = "created" => nodes[i].previous = 0
    /\ \A i, j \in DOMAIN nodes :
          /\ nodes[i].entry = "AccountRoot" /\ nodes[j].entry = "AccountRoot"
          /\ nodes[i].account = nodes[j].account
          => i = j

TransactionRow(tx) ==
    tx.defect \in TransactionDefects /\ tx.fee \in Int /\ Metadata(tx.nodes)

(* A query that fails is no verdict.                                       *)
ASSUME PaymentStatusAssumption ==
    \A s \in Scenarios :
        /\ nil \in Faults[s]
        /\ \A fault \in Faults[s] : classifyVerifyStatus(Wrap({"ErrDatabase"}, fault)) = "RETRY"
        /\ None \notin Bodies[s]
        /\ \A index \in Indexed[s] :
              /\ Bodies[s] \subseteq DOMAIN index.events
              /\ index.events = [b \in DOMAIN index.events |-> index.events[b]]
              /\ index.txs = [q \in DOMAIN index.txs |-> index.txs[q]]
              /\ \A b \in DOMAIN index.events :
                    \A row \in EventRows[s][b] \cup ({index.events[b]} \ {Null})  :
                       EventRow(b, row, DOMAIN index.txs)
              /\ \A q \in DOMAIN index.txs :
                    \A tx \in TransactionRows[s][q] \cup ({index.txs[q]} \ {Null}) : TransactionRow(tx)

VARIABLES
    scenario,
    events,   \* per payment the pay event's row in the C-chain index, or Null
    txs,      \* per <<account, sequence>> the row in the XRP index, or Null
    stage,    \* per request the call it is about to make or waits for
    body,     \* per request the payment it is about, or None
    message,  \* per request the decoded pay event, or None
    answer    \* per request its answer (BuildPaymentStatusResponse), or None

requestVars == <<stage, body, message, answer>>
indexVars == <<scenario, events, txs>>
allVars == <<vars, indexVars, requestVars>>

ServiceInit ==
    /\ Init
    /\ scenario \in Scenarios
    /\ \E index \in Indexed[scenario] : events = index.events /\ txs = index.txs
    /\ stage = [r \in Requests |-> "idle"]
    /\ body = [r \in Requests |-> None]
    /\ message = [r \in Requests |-> None]
    /\ answer = [r \in Requests |-> None]

At(r, call) == stage[r] = call
GoTo(r, call) == stage' = [stage EXCEPT ![r] = call]
Return(r, a) == answer' = [answer EXCEPT ![r] = a] /\ GoTo(r, "answered")

(* A request arrives; its instruction id is a hash of the payment.         *)
Verify(r) ==
    /\ At(r, "idle")
    /\ Cardinality({ q \in Requests : stage[q] # "idle" }) < MaxCalls[scenario]
    /\ \E b \in Bodies[scenario] : body' = [body EXCEPT ![r] = b]
    /\ GoTo(r, "FetchInstructionLog")
    /\ UNCHANGED <<vars, indexVars, message, answer>>

(* The query of the pay event, its conversion and its decoding.            *)
FetchInstructionLog(r) ==
    /\ At(r, "FetchInstructionLog")
    /\ \E fault \in Faults[scenario] :
       LET row == events[body[r]]
           err == FetchInstructionLogError(row, fault)
       IN  \/ err # nil /\ Return(r, [err |-> err]) /\ UNCHANGED message
           \/ /\ err = nil /\ DecodeError(row) # nil
              /\ Return(r, [err |-> DecodeError(row)]) /\ UNCHANGED message
           \/ /\ err = nil /\ DecodeError(row) = nil
              /\ message' = [message EXCEPT ![r] = row]
              /\ GoTo(r, "VerifySequence") /\ UNCHANGED answer
    /\ UNCHANGED <<vars, indexVars, body>>

Question(r) ==
    [account |-> body[r].account, paymentId |-> body[r].paymentId,
     gotSequence |-> message[r].nonce]

(* The call of the binder: its first step is the caller's.                 *)
CallBinder(r) ==
    /\ At(r, "VerifySequence")
    /\ VerifySequence(r) /\ arg'[r] = Question(r)
    /\ GoTo(r, "binder")
    /\ UNCHANGED <<indexVars, body, message, answer>>

BinderStep(r) ==
    /\ At(r, "binder")
    /\ cachedNonce(r) \/ initialNonce(r) \/ Store(r)
    /\ UNCHANGED <<indexVars, requestVars>>

BinderReturnsIgnoresVerdict(r) ==
    /\ At(r, "binder") /\ pc[r] = "done"
    /\ GoTo(r, "FetchTransaction") /\ UNCHANGED answer
    /\ UNCHANGED <<vars, indexVars, body, message>>

(* The binder's call returns.                                              *)
BinderReturns(r) ==
    /\ At(r, "binder") /\ pc[r] = "done"
    /\ \/ verdict[r] = nil /\ GoTo(r, "FetchTransaction") /\ UNCHANGED answer
       \/ verdict[r] # nil /\ Return(r, [err |-> verdict[r]])
    /\ UNCHANGED <<vars, indexVars, body, message>>

(* The query of the transaction by the bound sequence, and the response.   *)
FetchTransaction(r) ==
    /\ At(r, "FetchTransaction")
    /\ \E fault \in Faults[scenario] :
       LET tx == txs[<<body[r].account, message[r].nonce>>]
           err == FetchTransactionBySourceAndSequence(tx, fault)
       IN  Return(r, IF err # nil THEN [err |-> err]
                     ELSE IF RowError(tx) # nil THEN [err |-> RowError(tx)]
                     ELSE BuildPaymentStatusResponse(message[r], tx))
    /\ UNCHANGED <<vars, indexVars, body, message>>

-----------------------------------------------------------------------------
(* The indexers.  A row is written once.  Writing it before any request    *)
(* arrives is the same, for all of them, as writing it right after.        *)
Busy == \E r \in Requests : stage[r] \notin {"idle", "answered"}

IndexEvent(b) ==
    /\ Busy /\ events[b] = Null
    /\ \E row \in EventRows[scenario][b] : events' = [events EXCEPT ![b] = row]
    /\ UNCHANGED <<vars, scenario, txs, requestVars>>

IndexTransaction(q) ==
    /\ Busy /\ txs[q] = Null
    /\ \E tx \in TransactionRows[scenario][q] : txs' = [txs EXCEPT ![q] = tx]
    /\ UNCHANGED <<vars, scenario, events, requestVars>>

Request(r) ==
    \/ Verify(r) \/ FetchInstructionLog(r) \/ CallBinder(r) \/ BinderStep(r)
    \/ BinderReturns(r) \/ FetchTransaction(r)

ServiceNext ==
    \/ \E r \in Requests : Request(r)
    \/ \E b \in DOMAIN events : IndexEvent(b)
    \/ \E q \in DOMAIN txs : IndexTransaction(q)

ServiceSpec == ServiceInit /\ [][ServiceNext]_allVars

-----------------------------------------------------------------------------
OK(r) == answer[r] # None /\ answer[r].err = nil
AssignedTo(r) == <<body[r].account, GetInitialNonce[body[r].account] + body[r].paymentId - 1>>

(* The response is of the assigned transaction (Verify): the fee, the      *)
(* outcome and the amounts are those of the row with the sequence the      *)
(* contract assigned, a sound row of a ledger outcome, never of a row a    *)
(* faulty event, a partly written row or another request's nonce in the    *)
(* shared cache points to.                                                 *)
ResponseIsOfAssignedPayment ==
    \A r \in Requests : OK(r) =>
        LET tx == txs[AssignedTo(r)]
            event == events[body[r]]
        IN  /\ AssignedTo(r) \in DOMAIN txs
            /\ tx # Null /\ tx.defect = "none" /\ event.defect = "none"
            /\ answer[r].fee = tx.fee /\ tx.type = "Payment" /\ ~ event.token
            /\ answer[r].status = IF tx.result = "tes" THEN "Success" ELSE "Reverted"
            /\ tx.result \in {"tes", "tec"}
            /\ \A v \in {answer[r].amount, answer[r].maxFee, answer[r].fee, answer[r].received} :
                  v \in 0 .. MaxXRPDrops

(* The roots of accounts a transaction changed or made, fields complete.   *)
Roots(nodes) ==
    { i \in DOMAIN nodes : /\ nodes[i].entry = "AccountRoot" /\ nodes[i].kind # "deleted"
                           /\ Null \notin {nodes[i].final, nodes[i].previous} }

(* The received amount is the recipient's gain (ReceivedAmount): what the  *)
(* recipient's account has after the transaction beyond what it had        *)
(* before, zero when it lost or is not among the nodes, and never computed *)
(* from metadata that gives any account more than the supply.              *)
ReceivedIsGain ==
    \A r \in Requests : OK(r) =>
        LET nodes == txs[AssignedTo(r)].nodes
            mine == { i \in Roots(nodes) : nodes[i].account = events[body[r]].recipient.account }
        IN  /\ mine = {} => answer[r].received = 0
            /\ \A i \in mine : answer[r].received = Max({0, nodes[i].final - nodes[i].previous})
            /\ \A i \in Roots(nodes) : {nodes[i].final, nodes[i].previous} \subseteq 0 .. MaxXRPDrops

Oracle == INSTANCE PaymentOracle WITH
    Pending <- None, Response <- BuildPaymentStatusResponse

(* The service implements the atomic one (PaymentOracle): the queries, the *)
(* RPC and the shared cache of several requests, with both indexers at     *)
(* work between them, give every request a final answer that both indexes  *)
(* had at one instant, for the assigned sequence; a query, an RPC or a row *)
(* that fails is told RETRY (classifyVerifyStatus).                        *)
ImplementsPaymentOracle == Oracle!Spec
=============================================================================
