CONSTANTS
    NULL = NULL
    RxSize = 3
    Lengths <- MCLengths
    MaxPackets = 3
    MaxFrames = 3
    MaxLink = 1
    MaxGlitches = 1
    MaxEvents = 3
    MAX_RETRIES = 2
    MAX_TX_RETRYCOUNT = 1
SPECIFICATION EncSpec
INVARIANTS RxInSync NothingLost TxWhole
PROPERTY FrameTaken
CHECK_DEADLOCK FALSE
