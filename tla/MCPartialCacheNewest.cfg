CONSTANTS
    s1 = s1
    s2 = s2
    pA = pA
    pB = pB
    Index <- OneIndex
    Rounds <- ThreeRounds
    Prev <- TwoPrevs
    MaxPartialsPerNode = 2
    MaxListed = 8
SPECIFICATION CacheSpec
INVARIANTS
    NewestIsListed
CHECK_DEADLOCK FALSE
