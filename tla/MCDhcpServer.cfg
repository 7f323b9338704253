SPECIFICATION DhcpSpec
CONSTANTS
    DHCPS_MAX_IP = 2
    Mac = {m1, m2, m3}
    NoMac = NoMac
    Granule = 3
    Units = 6
    LEASE_TIME = 6
    Absent = Absent
    Servers <- MCServers
    OtherOptions <- MCOtherOptions
SYMMETRY MacSymmetry
INVARIANTS NoDoubleLease OfferedIsFree MessagesUnderstood
