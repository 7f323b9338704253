CONSTANTS
    None = None
    host_name <- MCHost
    domain_name <- MCDomain
    HostSize = 7
    Names <- MCNames
    Netifs <- MCNetifs
    inp = 2
    ip4_secondary_ip_address <- MCSecondary
    Clients <- MCClients
    Strays <- MCStrays
SPECIFICATION PortalSpec
INVARIANTS OneRedirect ReplyReturns
PROPERTY PageComesUp
