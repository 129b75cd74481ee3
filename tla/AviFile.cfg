SPECIFICATION AllSpec
CONSTANTS
    Cell <- MCCell
    BufSize = 17
    HeaderSize = 16
    HeaderEvery = 2
    FileLimit = 70
    MaxOffset = 90
    OffsetSpan = 140
    Setups <- MCSetups
    Menu <- MCMenu
    MaxChunks = 3
    MaxFiles = 2
    MaxPacketSize = 1000
CHECK_DEADLOCK FALSE
INVARIANTS TypeOK PositionTrue SeekFindsChunk CrashRecovers
PROPERTIES WritesThrough RoundTrip
