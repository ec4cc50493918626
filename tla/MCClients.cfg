CONSTANTS
    MaxSubs = 3
    AutoModes = {"full", "passive", "none"}
    c1 = c1
    c2 = c2
    pas = pas
    Source = {c1, c2, pas}
    Passive = {pas}
    Concurrency = 1
    Trips = {1, 2}
    MaxCalls = 2
    MaxWatches = 3
    MaxAsked = 4
    MaxResults = 1
    Reader = {1, 2}
    LastRound = 4
    Sigs <- MCSigs
    Signs <- MCSigns
    OnChain <- MCOnChain
    Genesis = 10
    NoPrev = 99
    Trusted <- MCTrusted
    NoTrust <- MCNoTrust
    StrictModes = {TRUE, FALSE}
    CacheSize = 1
    Chain = {"A", "B"}
    Nil = "nil"
    Contact = {"s1", "s2"}
    CacheSizes <- MCCacheSizes
    MaxOptions = 4
    URLs <- MCURLs
    Hashes = {"A", "B"}
    AnyHash = "any"
    Down = "down"
    PollPeriod = 2
    MaxTime = 7
    StreamKinds = {"rand", "sync", "watch", "follow"}
    Backlog = 2
    LastMsg = 5
    Addr = {"a1", "a2"}
    Caller = {1, 2}
    Methods = {"PartialBeacon", "PushDKGInfo"}
    Timed = {"PartialBeacon"}
    MaxConns = 3
    Req = {1, 2}
    MaxDue = 3
    MaxReset = 1
    Relay = {1}
    GWatch = {1, 2}
    LastDue = 2
    SubQueue = 1
    Invalid = {2}
    Begin = 1
    MaxS3 = 3
SPECIFICATION Spec
INVARIANTS
    WatchersServed
    
    WatchesAccounted
    
    
    
    
    SentOnKept
    ListedWhileWaiting
    HolesAreRepaired
PROPERTIES
    WatchGoesForward
CHECK_DEADLOCK FALSE
