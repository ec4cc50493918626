SPECIFICATION SetupSpec
CONSTANTS
    l = l
    p1 = p1
    p2 = p2
    p3 = p3
    Leader = l
    Participant = {p1, p2, p3}
    Key <- MCKey
    Threshold = 2
    Cases <- MCCases
    OldThreshold = 2
    MaxSetups = 2
    Commands <- MCCommands
    MaxGiven = 4
    MaxFaults = 1
INVARIANT
    StopBeforeGroup
CHECK_DEADLOCK FALSE
