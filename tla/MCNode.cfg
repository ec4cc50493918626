CONSTANTS
    s1 = s1
    s2 = s2
    pA = pA
    pB = pB
    Index <- TwoIndices
    Rounds <- TwoRounds
    Prev <- TwoPrevs
    MaxPartialsPerNode = 2
    MaxListed = 4
    a = a
    b = b
    f = f
    forged = forged
    da = da
    db1 = db1
    df1 = df1
    df2 = df2
    bad = bad
    Board = {a, b, f}
    HonestBoard = {a, b}
    Bundle = {da, db1, df1, df2, bad}
    SignedBy <- MCSignedBy
    ForgedBy = forged
    Kind <- MCKind
    QueueSize = 2
    MaxOdd = 2
    Putter = {"p1", "p2"}
    Worker = {"w1"}
    Stream = {"peer", "user", "proxy"}
    Mixes <- MCMixes
    KindOf <- MCKindOf
    AddrOf <- MCAddrOf
    QueueLen = 2
    LastRound = 3
    ByteBase = 3
    MaxDbRound = 5
    Peer = {"n1", "n2", "n3"}
    Resharings <- MCResharings
    OldThr = 2
    NewThr = 2
    IndexIn <- MCIndexIn
    TRound = 3
    LastClock = 5
SPECIFICATION Spec
INVARIANTS
    ListsMatchRounds
    WaitsOnlyForEquivocation
    EchoReaches
    StoredIsAnnounced
    StreamsAreWhole
    
    DatabaseIsChain
    CursorReturnsTail
    SharesInTurn
    ChainCrosses
PROPERTIES
    OthersUndisturbed
    ImplementsPartialSet
CHECK_DEADLOCK FALSE
