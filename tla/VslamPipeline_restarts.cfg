CONSTANTS
    CounterSize = 3
    SocketCapacity = 1
    MaxResets = 3
    MaxSlamCrashes = 1
    MaxBridgeCrashes = 1
    MaxProbes = 1
    MayStop = TRUE
SPECIFICATION TrackingSpec
INVARIANTS TypeOK OneLiveConnection SameCounterSameFrame SpeedAcrossResetIsFlagged
PROPERTIES PosesFlow StopEndsBridge
