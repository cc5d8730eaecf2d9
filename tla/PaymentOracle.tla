--------------------------- MODULE PaymentOracle ---------------------------
(***************************************************************************)
(* What a payment status attestation promises (fdc2 IPMWPaymentStatus, as  *)
(* pmwpaymentstatus/xrp/verifier.go serves it): the final answer to a      *)
(* request is the status of the payment as both indexes had it at ONE      *)
(* instant while the request was open, the transaction being the one with  *)
(* the sequence the contract assigns the payment.  Anything else the       *)
(* request can be told leaves it to be asked again.                        *)
(***************************************************************************)
EXTENDS Integers, ErrorChains

CONSTANTS
    Requests,
    GetInitialNonce,
    Response(_, _),  \* the answer that an event's and a transaction's sound row give
    Null,            \* a row that is not there
    Pending

VARIABLES
    events,   \* per payment [account, paymentId] its pay event's row, or Null
    txs,      \* per <<account, sequence>> the transaction's row, or Null
    body,     \* per request the payment it asks about, or Pending
    answer    \* per request its answer, or Pending

vars == <<events, txs, body, answer>>

Init ==
    /\ body = [r \in Requests |-> Pending]
    /\ answer = [r \in Requests |-> Pending]

(* The indexers write a row that was not there.                            *)
IndexEvent(b) ==
    /\ events[b] = Null
    /\ events' = [events EXCEPT ![b] = events'[b]]
    /\ UNCHANGED <<txs, body, answer>>

IndexTransaction(q) ==
    /\ txs[q] = Null
    /\ txs' = [txs EXCEPT ![q] = txs'[q]]
    /\ UNCHANGED <<events, body, answer>>

Ask(r) ==
    /\ body[r] = Pending
    /\ \E b \in DOMAIN events : body' = [body EXCEPT ![r] = b]
    /\ UNCHANGED <<events, txs, answer>>

Open(r) == body[r] # Pending /\ answer[r] = Pending

Reply(r, a) ==
    /\ answer' = [answer EXCEPT ![r] = a]
    /\ UNCHANGED <<events, txs, body>>

NotFound(r) ==
    /\ Open(r)
    /\ \/ events[body[r]] = Null
       \/ LET b == body[r]
              q == <<b.account, GetInitialNonce[b.account] + b.paymentId - 1>>
          IN  b.paymentId >= 1 /\ q \in DOMAIN txs /\ txs[q] = Null
    /\ Reply(r, [err |-> ErrRecordNotFound])

Found(r) ==
    LET b == body[r]
        e == events[b]
        q == <<b.account, GetInitialNonce[b.account] + b.paymentId - 1>>
    IN  /\ Open(r)
        /\ b.paymentId >= 1 /\ q \in DOMAIN txs
        /\ e # Null /\ txs[q] # Null
        /\ e.defect = "none" /\ txs[q].defect = "none" /\ e.nonce = q[2]
        /\ Reply(r, Response(e, txs[q]))

AskAgain(r) ==
    /\ Open(r)
    /\ answer'[r] # Pending /\ DOMAIN answer'[r] = {"err"}
    /\ answer'[r].err # nil /\ classifyVerifyStatus(answer'[r].err) = "RETRY"
    /\ Reply(r, answer'[r])

Next ==
    \/ \E b \in DOMAIN events : IndexEvent(b)
    \/ \E q \in DOMAIN txs : IndexTransaction(q)
    \/ \E r \in Requests : Ask(r) \/ NotFound(r) \/ Found(r) \/ AskAgain(r)

Spec == Init /\ [][Next]_vars
=============================================================================
