CONSTANTS
    Staleness = 4
    WatchdogSec = 3
    RestartSec = 1
    Threshold = 2
    NotifyEvery = 2
    Polls = 2
    BackoffMin = 1
    BackoffMax = 2
    FrameSize = 2
    RecvBuf = 3
    SocketBuf = 16
    MaxFaults = 2
SPECIFICATION Spec
INVARIANTS TypeOK BlackoutIsLeft KilledOnlyInBlackout NeverBlocked OldIsMarked
PROPERTIES FramesFlow TelemetryHeals
