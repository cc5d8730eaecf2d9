SPECIFICATION FairSpec
CONSTANTS
    Requests = {r1, r2}
    Tokens <- ProgressTokens
    TrustedRoot = "root"
    Certs = {"root", "interA", "leafAB", "stranger"}
    Urls = {"u1"}
    CRLs = {"crlA", "crlC"}
    RawSubject <- MCRawSubject
    PublicKey <- MCPublicKey
    SignedWith <- MCSignedWith
    NotBefore <- MCNotBefore
    NotAfter <- MCNotAfter
    CRLDistributionPoints <- MCCRLDistributionPoints
    RawIssuer <- MCRawIssuer
    CRLSignedWith <- MCCRLSignedWith
    NextUpdate <- MCNextUpdate
    FetchErrors <- NotFound
    MaxEntries = 1
    MaxCacheTTL = 1
    FlightTime = 1
    MaxNow = 2
    None = None
PROPERTIES
    EveryRequestAnswered
