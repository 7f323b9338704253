\* Every packet type, every split of the bytes.
CONSTANTS
    NULL = NULL
    Messages <- MCMessages
    Noise <- MCNoise
    Slack <- MCSlack
    ReadSize = 131
    Border = {121, 122, 123, 124}
SPECIFICATION Spec
INVARIANTS InsideBuffers SplitMakesNoDifference RoundTrip
CHECK_DEADLOCK FALSE
