CONSTANTS
    n1 = n1
    n2 = n2
    n3 = n3
    Node <- ThreeNodes
    Faulty <- OneFaulty
    Threshold = 2
    Signature <- MCSignature
    NoSig <- MCNoSig
    GenesisSig <- MCGenesisSig
    Sig <- MCSig
    FaultyPartial <- SecondPartial
    FaultyBeacon <- InvalidBeacon
    Limit = 3
    Workers = 1
    MaxClock = 2
    MaxRound = 3
    MaxCrashes = 0
    MaxLosses = 0
SPECIFICATION TimelySpec
INVARIANTS
    Agreement
    NoEarlyPartial
    NoEarlyBeacon
SYMMETRY Symmetry
CHECK_DEADLOCK FALSE
