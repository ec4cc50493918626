CONSTANTS
    Task = {"t1"}
    Follow = {"f1"}
    Endless = {"f1"}
    MaxEpoch = 1
    MaxCrashes = 0
SPECIFICATION DaemonSpec
PROPERTY
    BeaconOutlastsFollow
CHECK_DEADLOCK FALSE
