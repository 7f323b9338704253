SPECIFICATION Spec
CONSTANTS
    NULL = NULL
    sha1_transform <- MCTransform
    MEMP_NUM_NETCONN = 4
    QueueLength = 1
    Requests <- MCRequests
    ClientFrames <- MCClientFrames
    Sizes = {125, 126, 502, 503}
    MaxMessages = 2
    MaxFrames = 1
INVARIANTS NoLeak EstablishedHasSocket HandshakeAccepted FramesUnderstood
