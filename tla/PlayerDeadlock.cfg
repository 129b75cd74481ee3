SPECIFICATION FairSpec
CONSTANTS
    HasVideo = TRUE
    HasAudio = TRUE
    VideoDropping = TRUE
    Buffers = 2
    StartFirst = TRUE
    SpuriousWakeups = FALSE
CHECK_DEADLOCK FALSE
PROPERTIES CallsReturn
