CONSTANTS
    Reader = {1}
    LastRound = 4
    Sigs <- MCSigs
    Signs <- MCSigns
    OnChain <- MCOnChain
    Genesis = 10
    NoPrev = 99
    Trusted <- MCTrusted
    NoTrust <- MCNoTrust
    StrictModes = {TRUE}
    CacheSize = 1
SPECIFICATION VerSpec
INVARIANT
    AcceptsGenuine
CHECK_DEADLOCK FALSE
