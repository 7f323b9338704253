SPECIFICATION HttpdSpec
CONSTANTS
    NULL = NULL
    c1 = c1
    c2 = c2
    Conns <- MCConns
    Blocks <- MCBlocks
    SndBuf = 2
    HdrLen = 2
    BodyLen = 2
    ContentLens <- MCContentLens
    Requests <- MCRequests
    HTTPD_MAX_RETRIES = 2
    LWIP_HTTPD_REQ_QUEUELEN = 1
    MaxRecv <- MCMaxRecv
INVARIANTS OwnAnswer HeapExact ResponseComplete
PROPERTY ConnectionsEnd
CHECK_DEADLOCK FALSE
