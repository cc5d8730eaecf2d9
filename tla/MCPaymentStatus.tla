-------------------------- MODULE MCPaymentStatus --------------------------
(***************************************************************************)
(* PaymentStatus on small instances: a supply of 3 drops, 3-bit unsigned   *)
(* integers and accounts "a1" (whose sequences start near the top of the   *)
(* range, so that initialNonce + paymentId - 1 overflows), "a2" and "a3".  *)
(*   rows    one payment, any row in either index, written meanwhile       *)
(*   shared  several requests over three accounts and a cache of two; the  *)
(*           rows are there, of right and of foreign sequences             *)
(*   evict   one more request, so that a hit may come before an eviction   *)
(***************************************************************************)
EXTENDS PaymentStatus, TLC

MCGetInitialNonce == [a \in Accounts |-> CASE a = "a1" -> 6 [] a = "a2" -> 1 [] OTHER -> 0]

Payment(account, id) == [account |-> account, paymentId |-> id]

Event(defect, nonceOf, amount, maxFee, token, form) ==
    [defect |-> defect, nonce |-> nonceOf, amount |-> amount, maxFee |-> maxFee, token |-> token,
     recipient |-> [form |-> form, account |-> "r"]]

Tx(defect, type, result, fee, nodes) ==
    [defect |-> defect, type |-> type, result |-> result, fee |-> fee, nodes |-> nodes]

MCNode(kind, entry, account, final, previous) ==
    [kind |-> kind, entry |-> entry, account |-> account, final |-> final, previous |-> previous]

Paid == << MCNode("modified", "AccountRoot", "r", 2, 1) >>

-----------------------------------------------------------------------------
(* Scenario "rows": payment 2 of a2, whose sequence is 2.                  *)
AllEvents ==
    { Event(d, 2, 1, 1, FALSE, "classic") : d \in
        {"none", "duplicate", "unconvertible", "undecodable", "foreign"} }
    \cup { Event("none", 3, 1, 1, FALSE, "classic"), Event("none", 2, 1, 1, TRUE, "classic"),
           Event("none", 2, 4, 1, FALSE, "x"), Event("none", 2, 3, 4, FALSE, "x") }

AllTransactions ==
    { Tx(d, "Payment", "tes", 1, Paid) : d \in
        {"none", "duplicate", "oversized", "notJSON", "noResult", "foreign", "badHash"} }
    \cup { Tx("none", t, r, f, Paid) : t \in {"Payment", "Other"},
                                       r \in {"tes", "tec", "tem", "short"}, f \in {-1, 0, 2, 3, 4} }

(* Every metadata of at most one root per account, and one other entry.    *)
Nodes(account) ==
    { MCNode("modified", "AccountRoot", account, f, p) : f \in {-1, 0, 1, 3, 4, Null},
                                                       p \in {-1, 0, 1, 3, 4, Null} }
    \cup { MCNode("created", "AccountRoot", account, f, 0) : f \in {-1, 1, 3, 4, Null} }
    \cup { MCNode("deleted", "AccountRoot", account, 0, 1), MCNode("modified", "Offer", account, 3, 1) }

(* One node of each kind of another account: it can only be refused.       *)
Others ==
    { MCNode("modified", "AccountRoot", "s", v[1], v[2]) :
        v \in {<<3, 1>>, <<1, 3>>, <<4, 1>>, <<1, 4>>, <<-1, 1>>, <<1, -1>>, <<Null, 1>>, <<1, Null>>} }
    \cup { MCNode("created", "AccountRoot", "s", f, 0) : f \in {-1, 3, 4} }
    \cup { MCNode("deleted", "AccountRoot", "s", 0, 1), MCNode("modified", "Offer", "s", 3, 1) }

AnyMetadata ==
    { Tx("none", "Payment", "tec", 1, <<a, b>>) : a \in Others, b \in Nodes("r") }
    \cup { Tx("none", "Payment", "tes", 1, <<a>>) : a \in Nodes("r") \cup Nodes("s") }
    \cup { Tx("none", "Payment", "tes", 1, <<>>) }

(* Both indexes start empty.  The neighbour's row is a sound one.          *)
OnePayment == Payment("a2", 2)
Empty == [ events |-> [b \in {OnePayment} |-> Null],
           txs    |-> [q \in {<<"a2", 2>>, <<"a2", 3>>} |-> Null] ]

-----------------------------------------------------------------------------
(* Scenario "shared": every payment's event and every sequence's row.      *)
ManyPayments == { Payment("a1", 2), Payment("a1", 3), Payment("a2", 1), Payment("a3", 2),
                  Payment("a2", 0) }

(* The event of a1's third payment wraps around; a3's is right or foreign. *)
NonceOf(b, foreign) ==
    CASE b = Payment("a1", 2) -> 7
      [] b = Payment("a2", 1) -> 1
      [] b = Payment("a3", 2) -> IF foreign THEN 2 ELSE 1
      [] OTHER -> 0

Full(foreign) ==
    [ events |-> [b \in ManyPayments |-> Event("none", NonceOf(b, foreign), 1, 1, FALSE, "classic")],
      txs    |-> [q \in {<<"a1", 7>>, <<"a1", 0>>, <<"a2", 1>>, <<"a2", 0>>, <<"a3", 1>>, <<"a3", 2>>} |->
                     Tx("none", "Payment", "tes", IF q[1] = "a2" THEN 1 ELSE 2, Paid)] ]

MCBodies == [ rows |-> {OnePayment}, shared |-> ManyPayments,
              evict |-> { Payment("a1", 2), Payment("a2", 1), Payment("a3", 2) } ]
MCIndexed == [ rows |-> {Empty}, shared |-> {Full(TRUE), Full(FALSE)}, evict |-> {Full(FALSE)} ]
NoneWritten == [b \in ManyPayments |-> {}]
MCEventRows == [ rows |-> [b \in {OnePayment} |-> AllEvents],
                 shared |-> NoneWritten, evict |-> NoneWritten ]
MCTransactionRows ==
    [ rows |-> [q \in DOMAIN Empty.txs |->
                   IF q = <<"a2", 2>> THEN AllTransactions \cup AnyMetadata
                   ELSE { Tx("none", "Payment", "tes", 2, Paid), Tx("none", "Payment", "tec", 0, <<>>) }],
      shared |-> [q \in DOMAIN Full(TRUE).txs |-> {}], evict |-> [q \in DOMAIN Full(TRUE).txs |-> {}] ]

MCMaxCalls == [ rows |-> 1, shared |-> 3, evict |-> 4 ]

MCArgs ==
    { [account |-> b.account, paymentId |-> b.paymentId, gotSequence |-> NonceOf(b, foreign)] :
        b \in ManyPayments, foreign \in BOOLEAN }
    \cup { [account |-> "a2", paymentId |-> 2, gotSequence |-> q] : q \in {2, 3} }

AnyFault == {nil, Wrap(ContextErrors, nil)}
MCFaults == [ rows |-> AnyFault, shared |-> AnyFault, evict |-> {nil} ]
Symmetry == Permutations(Requests)
=============================================================================
