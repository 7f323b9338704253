CONSTANTS
    NULL = NULL
    Forms <- MCForms
    Short <- MCShort
    Long <- MCLong
    Bssids = {b1, b2}
    MAX_WIFI_NETWORKS = 1
    AtZero = 0
    Second = 1
    MaxSaves = 2
    MaxCuts = 1
    MaxDrops = 1
SPECIFICATION Spec
INVARIANTS RunningAsSaved PasswordKept 
PROPERTIES RestartFollows Reconnects
CHECK_DEADLOCK FALSE
