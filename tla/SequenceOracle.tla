--------------------------- MODULE SequenceOracle ---------------------------
(***************************************************************************)
(* What the sequence binder promises its callers (SequenceBinder in        *)
(* pmwnonce/binder.go): a question is answered once, in one step, with nil *)
(* exactly if the sequence is the one the contract assigns the payment, or *)
(* with an error because the contract could not be read.  There is no      *)
(* cache and no fixed-width arithmetic here.                               *)
(***************************************************************************)
EXTENDS Integers, ErrorChains

CONSTANTS Requests, Args, GetInitialNonce, None

VARIABLES
    asked,     \* per request the arguments of its question, or None
    answered   \* per request the error it was given, or None

vars == <<asked, answered>>

Init ==
    /\ asked = [r \in Requests |-> None]
    /\ answered = [r \in Requests |-> None]

Assigned(a) ==
    /\ a.paymentId >= 1
    /\ a.gotSequence = GetInitialNonce[a.account] + a.paymentId - 1

Ask(r, a) ==
    /\ asked[r] = None
    /\ asked' = [asked EXCEPT ![r] = a]
    /\ UNCHANGED answered

(* A payment id of zero is turned away without reading the contract.       *)
AskInVain(r, a) ==
    /\ asked[r] = None /\ ~ Assigned(a)
    /\ asked' = [asked EXCEPT ![r] = a]
    /\ answered' = [answered EXCEPT ![r] = ErrDatabase]

Answer(r) ==
    /\ asked[r] # None /\ answered[r] = None
    /\ \/ Assigned(asked[r]) /\ answered' = [answered EXCEPT ![r] = nil]
       \/ answered' = [answered EXCEPT ![r] = ErrDatabase]
    /\ UNCHANGED asked

Next ==
    \E r \in Requests :
        \/ \E a \in Args : Ask(r, a) \/ AskInVain(r, a)
        \/ Answer(r)

Spec == Init /\ [][Next]_vars
=============================================================================
