SPECIFICATION Spec
CONSTANTS
    Requests = {r1}
    Tokens <- ChainTokens
    TrustedRoot = "root"
    Certs = {"root", "interC", "leafC", "stranger"}
    Urls = {"u1", "u2"}
    CRLs = {"crlC", "crlR", "noHorizon"}
    RawSubject <- MCRawSubject
    PublicKey <- MCPublicKey
    SignedWith <- MCSignedWith
    NotBefore <- MCNotBefore
    NotAfter <- MCNotAfter
    CRLDistributionPoints <- MCCRLDistributionPoints
    RawIssuer <- MCRawIssuer
    CRLSignedWith <- MCCRLSignedWith
    NextUpdate <- MCNextUpdate
    FetchErrors <- Unreachable
    MaxEntries = 2
    MaxCacheTTL = 1
    FlightTime = 1
    MaxNow = 3
    None = None
INVARIANTS
    OutboundOnlyForTrustedChain
    StrictRevocation
PROPERTIES
    EvictStaleFirst
