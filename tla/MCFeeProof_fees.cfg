SPECIFICATION Spec
CONSTANTS
    Scenarios = {"window", "defects", "limits", "retention"}
    Requests <- MCRequests
    Payments <- MCPayments
    MaxFees <- MCMaxFees
    TxFees <- MCTxFees
    EventDefects <- MCEventDefects
    TxDefects <- MCTxDefects
    MaxEvents <- MCMaxEvents
    MaxHorizon <- MCMaxHorizon
    MaxUint = 3
    MaxBatchRange = 2
    MaxReissuesPerPayment = 1
    MaxXRPDrops = 3
    MaxFeeSum = 1000
    InitialNonce = 1
    Faults <- QueryFaults
    MaxNow = 1
    None = None
INVARIANTS NoUndercount NoOvercount ActualFeeIsAssigned RejectedOnlyForCause QueriesBounded
CHECK_DEADLOCK FALSE
