SPECIFICATION Spec
CONSTANTS
    KEEPALIVE = 2
    COMMAND_TIMEOUT = 1
    QUEUE_LENGTH = 1
    MAX_PACKET_ID = 2
INVARIANTS AckIsForThis ClosedWithoutSession
PROPERTY Delivers
