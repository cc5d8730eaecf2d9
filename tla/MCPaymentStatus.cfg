SPECIFICATION ServiceSpec
CONSTANTS
    Requests = {r1, r2, r3, r4}
    Accounts = {"a1", "a2", "a3"}
    GetInitialNonce <- MCGetInitialNonce
    Args <- MCArgs
    MaxEntries = 2
    MaxUint = 7
    None = None
    MaxXRPDrops = 3
    Null = Null
    Scenarios = {"rows", "shared", "evict"}
    Bodies <- MCBodies
    Indexed <- MCIndexed
    EventRows <- MCEventRows
    TransactionRows <- MCTransactionRows
    MaxCalls <- MCMaxCalls
    Faults <- MCFaults
INVARIANTS
    IndexMatchesList
    AcceptedIsAssigned
    KeepsMostRecentlyUsed
    ResponseIsOfAssignedPayment
    ReceivedIsGain
PROPERTIES
    RefusedOnlyByRPC
    ImplementsSequenceOracle
    ImplementsPaymentOracle
SYMMETRY Symmetry
CHECK_DEADLOCK FALSE
