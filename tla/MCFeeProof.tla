----------------------------- MODULE MCFeeProof -----------------------------
(***************************************************************************)
(* FeeProof on small instances: a cap of one reissue, a supply of 3 drops. *)
(***************************************************************************)
EXTENDS FeeProof, FiniteSets

Request(first, count, until) ==
    [FirstPaymentId |-> first, BatchCount |-> count, UntilTimestamp |-> until]

(***************************************************************************)
(* window: two payments of sound rows, each with up to one reissue more    *)
(* than the cap, read on either side of UntilTimestamp, retention at rest. *)
(* defects: one payment, every defect of a row, retention at work.         *)
(* limits: every payment id there is, sound rows, and the batches          *)
(* validateBatchRange is about: empty, just the cap, over it, up to the    *)
(* top of the range, past it, and with payment id 0.                       *)
(* retention: one payment of sound rows, retention at work.                *)
(***************************************************************************)
MCRequests ==
    [ window    |-> { Request(1, 2, until) : until \in {0, 1} },
      defects   |-> { Request(1, 1, 0) },
      limits    |-> { Request(1, 0, 0), Request(1, 2, 0), Request(1, 3, 0), Request(2, 2, 0),
                      Request(3, 2, 0), Request(0, 1, 0) },
      retention |-> { Request(1, 1, until) : until \in {0, 1} } ]
MCPayments == [ window |-> {1, 2}, defects |-> {1}, limits |-> {1, 2, 3}, retention |-> {1} ]
MCMaxFees == [ window |-> {1, 3}, defects |-> {1, 4}, limits |-> {1}, retention |-> {1, 3} ]
MCTxFees == [ window |-> {1}, defects |-> {1, 4}, limits |-> {1}, retention |-> {1} ]
MCMaxEvents == [ window |-> 3, defects |-> 2, limits |-> 2, retention |-> 3 ]
MCMaxHorizon == [ window |-> 0, defects |-> 1, limits |-> 0, retention |-> 1 ]

MCEventDefects ==
    [ window    |-> {"none"},
      defects   |-> {"none", "duplicate", "unconvertible", "undecodable", "foreign", "sequence"},
      limits    |-> {"none"},
      retention |-> {"none"} ]
MCTxDefects ==
    [ window    |-> {"none"},
      defects   |-> {"none", "duplicate", "oversized", "notJSON", "foreign", "noFee"},
      limits    |-> {"none"},
      retention |-> {"none"} ]

QueryFaults == {nil, Wrap(ContextErrors, nil)}
=============================================================================
