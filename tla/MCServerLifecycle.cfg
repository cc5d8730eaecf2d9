SPECIFICATION FairSpec
CONSTANTS
    r1 = r1
    r2 = r2
    Deployments <- MCDeployments
    Requests <- MCRequests
    ShutdownAfter = 2
    WorkTimeout = 5
INVARIANTS
    NothingLeaks
    OpenMatchesClosers
    ClosedOnlyAfterGrace
PROPERTY
    ShutdownEnds
CHECK_DEADLOCK FALSE
