SPECIFICATION Spec
CONSTANTS
    None = None
    Requests = {r1, r2, r3}
    Scenarios = {"pin", "deadline", "verdict", "clock"}
    Accounts <- MCAccounts
    Bodies <- MCBodies
    AccountInfos <- MCAccountInfos
    Nodes <- MCNodes
    MaxRequests <- MCMaxRequests
    MaxNow <- MCMaxNow
    MaxSetBack <- MCMaxSetBack
    MaxPublicKeys = 3
    VerifyTTL = 2
    ProbeTime = 2
    FetchTime = 1
    WorkTimeout = 3
SYMMETRY Symmetry
INVARIANTS NoProbeWhileFresh ConclusiveOnlyFromPinnedNode AnsweredInTime OKMeansThresholdOfKeys
CHECK_DEADLOCK FALSE
