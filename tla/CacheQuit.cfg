SPECIFICATION FairSpec
CONSTANTS
    NStreams = 2
    TableSize <- MCTableSize
    Before <- MCBefore
    MayFail <- MCMayFail
    CacheSize = 3
    SizeLimit = 4
    MaxClears = 0
    SpuriousWakeups = FALSE
CHECK_DEADLOCK FALSE
PROPERTIES QuitTerminates
