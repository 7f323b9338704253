SPECIFICATION RaceSpec
CONSTANTS
    SERIAL_BUFFERS_SIZE = 2
    MaxPush = 6
    OneCore = TRUE
PROPERTY ImplementsFifo
