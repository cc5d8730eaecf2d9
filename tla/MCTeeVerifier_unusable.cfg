SPECIFICATION Spec
CONSTANTS
    None = None
    Scenarios = {"evidence"}
    Environments <- MCEnvironments
    Garbage = Garbage
    Responses <- MCResponses
    FetchErrors <- MCFetchErrors
    CallFaults <- MCCallFaults
    RelayHash <- MCRelayHash
    MaxRewardEpochID = 3
    MaxPoints = 2
INVARIANTS UnusableDataIsTerminal
CHECK_DEADLOCK FALSE
