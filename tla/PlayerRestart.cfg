SPECIFICATION Spec
CONSTANTS
    HasVideo = TRUE
    HasAudio = TRUE
    VideoDropping = TRUE
    Buffers = 3
    StartFirst = TRUE
    SpuriousWakeups = TRUE
CHECK_DEADLOCK FALSE
INVARIANTS StartPlays
