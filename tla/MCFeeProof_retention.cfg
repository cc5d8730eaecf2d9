SPECIFICATION Spec
CONSTANTS
    Scenarios = {"retention"}
    Requests <- MCRequests
    Payments <- MCPayments
    MaxFees <- MCMaxFees
    TxFees <- MCTxFees
    EventDefects <- MCEventDefects
    TxDefects <- MCTxDefects
    MaxEvents <- MCMaxEvents
    MaxHorizon <- MCMaxHorizon
    MaxUint = 3
    MaxBatchRange = 2
    MaxReissuesPerPayment = 1
    MaxXRPDrops = 3
    MaxFeeSum = 1000
    InitialNonce = 1
    Faults <- QueryFaults
    MaxNow = 1
    None = None
INVARIANTS OutsideRetentionIsRefused
CHECK_DEADLOCK FALSE
