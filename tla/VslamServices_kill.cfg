CONSTANTS
    WatchdogSec = 4
    SlamNotify = 2
    BridgeNotify = 1
    RestartSec = 1
    StartTime = 1
    StopTime = 3
    Interval <- ScaledIntervals
    Burst = 3
    MaxOutage = 100
SPECIFICATION ServicesFairSpec
INVARIANTS KilledOnlyAfterGap
PROPERTIES HealsWithinLimit
