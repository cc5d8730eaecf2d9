SPECIFICATION FairSpec
CONSTANTS
    None = None
    Requests = {r1, r2}
    Scenarios = {"progress"}
    Accounts <- MCAccounts
    Bodies <- MCBodies
    AccountInfos <- MCAccountInfos
    Nodes <- MCNodes
    MaxRequests <- MCMaxRequests
    MaxNow <- MCMaxNow
    MaxSetBack <- MCMaxSetBack
    MaxPublicKeys = 3
    VerifyTTL = 2
    ProbeTime = 1
    FetchTime = 1
    WorkTimeout = 3
PROPERTIES EveryRequestAnswered
CHECK_DEADLOCK FALSE
