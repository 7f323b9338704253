CONSTANTS
    NULL = NULL
    p1 = p1
    p2 = p2
    m1 = m1
    m2 = m2
    Outgoing = {p1, p2}
    Incoming = {m1, m2}
    Qos <- MCQos
    Filters <- MCFilters
    TopicNames <- MCTopicNames
    MAX_PACKET_ID = 2
    MAX_INCOMING_QOS2_MESSAGES = 1
    MAX_MESSAGE_HANDLERS = 2
    MaxConnects = 3
    MaxCommands = 2
    MaxPings = 1
SPECIFICATION Spec
CHECK_DEADLOCK FALSE
INVARIANTS ExactlyOnce AtLeastOnce RightHandlers
