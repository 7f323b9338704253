SPECIFICATION Spec
CONSTANTS
    SERIAL_BUFFERS_SIZE = 4
    QUEUE_LENGTH = 1
    Entries <- MCEntries
    MaxReadings = 5
    MaxSaves = 2
INVARIANTS SliceInBounds ResultsKeepComing
PROPERTY AverageExact
CHECK_DEADLOCK FALSE
