SPECIFICATION FairSpec
CONSTANTS
    End = 9
    FrameSizes <- MCFrameSizes
    MaxBufs = 3
    MaxBuffer = 4
    Slack = 1
    WriteSize = 3
    DeviceSize = 6
    SilenceSize = 6
    Asyncs <- MCAsyncs
CHECK_DEADLOCK FALSE
INVARIANTS TypeOK SizeExact Continuous
PROPERTIES TimerTrue SilenceFlushes EndReached
