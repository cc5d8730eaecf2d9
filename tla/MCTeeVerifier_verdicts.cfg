SPECIFICATION Spec
CONSTANTS
    None = None
    Scenarios = {"settings", "evidence", "policies", "faults"}
    Environments <- MCEnvironments
    Garbage = Garbage
    Responses <- MCResponses
    FetchErrors <- MCFetchErrors
    CallFaults <- MCCallFaults
    RelayHash <- MCRelayHash
    MaxRewardEpochID = 3
    MaxPoints = 2
INVARIANTS VerifiedMeansGenuine RejectedOnlyForCause RetriedOnlyForFault ClassifiersAgree
CHECK_DEADLOCK FALSE
