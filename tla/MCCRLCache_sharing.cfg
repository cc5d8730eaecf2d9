SPECIFICATION Spec
CONSTANTS
    Requests = {r1, r2}
    Tokens <- SharedKeyTokens
    TrustedRoot = "root"
    Certs = {"root", "interA", "interB", "leafAB"}
    Urls = {"u1"}
    CRLs = {"crlA", "shortB"}
    RawSubject <- MCRawSubject
    PublicKey <- MCPublicKey
    SignedWith <- MCSignedWith
    NotBefore <- MCNotBefore
    NotAfter <- MCNotAfter
    CRLDistributionPoints <- MCCRLDistributionPoints
    RawIssuer <- MCRawIssuer
    CRLSignedWith <- MCCRLSignedWith
    NextUpdate <- MCNextUpdate
    FetchErrors <- Unreachable
    MaxEntries = 1
    MaxCacheTTL = 1
    FlightTime = 1
    MaxNow = 5
    None = None
INVARIANTS
    CallsMatchWaiters
    CacheBounded
    AnswersBindToIssuer
    FetchOnlyOnMiss
    FailuresAreJoined
    RecentAnswers
SYMMETRY Symmetry
