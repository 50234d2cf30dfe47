CONSTANTS
    a1 = a1
    a2 = a2
    a3 = a3
    a4 = a4
    Addrs <- MCAddrs
    NoAddr = NoAddr
    VPCMarksPrimary = FALSE
    MaxRefresh = 2
SPECIFICATION Spec
CHECK_DEADLOCK FALSE
INVARIANT ExactlyOnePrimary
