SPECIFICATION FairSpec
CONSTANTS
    SERIAL_BUFFERS_SIZE = 5
    NUL = NUL
    Garbage = Garbage
    MaxLines = 3
    MaxLen = 2
INVARIANTS TypeOK InOrder WholeLine
PROPERTY FinishedIsTaken
CHECK_DEADLOCK FALSE
