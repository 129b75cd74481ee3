SPECIFICATION FairSpec
CONSTANTS
    NStreams = 2
    TableSize <- MCTableSize
    Before <- MCBefore
    MayFail <- MCMayFail
    CacheSize = 3
    SizeLimit = 4
    MaxClears = 1
    SpuriousWakeups = TRUE
CHECK_DEADLOCK FALSE
INVARIANTS TypeOK RingInv SleepInv
PROPERTIES Delivers Serves
