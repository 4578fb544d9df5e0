SPECIFICATION FairSpec
CONSTANTS
    Conns = {c1}
    Ips = {lan}
    Loopback = {}
    ClientIds = {k}
    MaxPerIp = 1
    MaxPerClient = 1
    EvictAfter = 1
    ReapAfter = 1
    None = None
PROPERTIES ClosedConnectionEnds
CHECK_DEADLOCK FALSE
