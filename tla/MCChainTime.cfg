CONSTANTS
    WordBits = 10
    BufferBits = 5
    Periods <- MCPeriods
    Geneses <- MCGeneses
    MaxNow = 60
SPECIFICATION Spec
INVARIANTS
    TransitionTimeIsARound
    TimeOfRoundExact
PROPERTIES
    NoRoundSkipped
CHECK_DEADLOCK FALSE
