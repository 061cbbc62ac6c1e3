SPECIFICATION RouterSpec
CONSTANTS
    Admins = {a1, a2}
    Names = {n1}
    MaxSaves = 3
    MaxMinted = 2
    Ttl = 1
    MaxNow = 1
    NoAdmin = none
    think = think
    small = small
    other = other
    b1 = b1
    b2 = b2
    Aliases <- ThreeAliases
    BackendOf <- TheBackends
    SmallTier <- TheSmallTier
    Claude = claude
    Unknown = unknown
    NoBackend = none
    VisionEnabled = TRUE
    MaxTurns = 2
    MaxCalls = 2
    MaxChunks = 2
    Clients = {c1, c2}
    Queries = {q1, q2, q3}
    CacheTtl = 2
    MaxEntries = 2
    MaxCacheNow = 3
    Hosts = {h1, h2, h3}
    Denied = {h3}
    Addresses = {public, private}
    Private = {private}
    MaxRedirects = 2
    MaxBytes = 2
    NoAddress = none
    Calls = 2
    Parts = 2
    RunnerTtl = 3
    RenewAt = 1
    MaxKeys = 4
CHECK_DEADLOCK FALSE
INVARIANTS
    KeysTakeEffect
    OnlyCheckedLeaves
    AnswersAreWhole
PROPERTIES
    EveryAnswerEnds
