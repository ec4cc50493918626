CONSTANTS
    t1 = t1
    t2 = t2
    f1 = f1
    f2 = f2
    l = l
    p1 = p1
    p2 = p2
    p3 = p3
    Leader = l
    Participant = {p1, p2, p3}
    Key <- MCKey
    Threshold = 2
    Cases <- MCCases
    OldThreshold = 2
    MaxSetups = 2
    Commands <- MCCommands
    MaxGiven = 4
    MaxFaults = 1
    Task = {t1, t2}
    Follow = {f1, f2}
    Endless = {}
    MaxEpoch = 2
    MaxCrashes = 1
    NodeKey = {1, 2, 3}
    First = {1, 2}
    GroupPeriods = {1500, 3000}
    MaxReshare = 2
    MaxKeys = 3
    MaxKeyCrash = 2
    Counts = {0, 1, 2, 3, 4}
    Durations = {0, 500, 1500, 3000}
    NotGiven <- MCNotGiven
    Delays = {0, 7}
    GenesisOffset = 2
    ReshareOffset = 5
    DKGTimeout = 4
    Clocks = {20, 40, 41}
    OldGroup <- MCOldGroup
    OldNode = {1, 2, 3}
    NewNode = {4}
    LeadNode = 1
    Upgraded = 1
SYMMETRY DaemonSymmetry
SPECIFICATION Spec
INVARIANTS
    DKGStartsRight
    SetupsKeepApart
    DKGEndsRight
    RunningFollowIsKnown
    NodesAgreeOnGroup
    PairBelongsTogether
    
    
CHECK_DEADLOCK FALSE
