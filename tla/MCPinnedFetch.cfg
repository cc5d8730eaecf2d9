SPECIFICATION Spec
CONSTANTS
    Callers = {"crl", "proxy"}
    AllowPrivate <- MCAllowPrivate
    FetchTimeout <- MCFetchTimeout
    URLs <- MCURLs
    Records <- MCRecords
    Bodies <- MCBodies
    dnsLookupTimeout = 1
    maxResponseSize = 2
    MaxNow = 6
    MaxRebinds = 1
    None = None
INVARIANTS DialsOnlyVetted WholeBodyOrError TransientIffMayPass EndsInTime
CHECK_DEADLOCK FALSE
