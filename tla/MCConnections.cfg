SPECIFICATION Spec
CONSTANTS
    Conns = {c1, c2, c3}
    Ips = {lan}
    Loopback = {}
    ClientIds = {k}
    MaxPerIp = 2
    MaxPerClient = 2
    EvictAfter = 1
    ReapAfter = 1
    None = None
SYMMETRY Symmetry
INVARIANTS SlotsCounted MainsServed
PROPERTIES OnlyNewerMainCloses
CHECK_DEADLOCK FALSE
