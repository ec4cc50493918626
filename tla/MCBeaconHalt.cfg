CONSTANTS
    n1 = n1
    n2 = n2
    n3 = n3
    Node <- TwoNodes
    Faulty = {}
    Threshold = 2
    Signature <- MCSignature
    NoSig <- MCNoSig
    GenesisSig <- MCGenesisSig
    Sig <- MCSig
    FaultyPartial = {}
    FaultyBeacon = {}
    Limit = 3
    Workers = 2
    MaxClock = 3
    MaxRound = 4
    MaxCrashes = 0
    MaxLosses = 0
SPECIFICATION PromptSpec
PROPERTIES
    Progress
CHECK_DEADLOCK FALSE
