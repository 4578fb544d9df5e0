SPECIFICATION MCSpec
CONSTANTS
    Workers = {w1, w2}
    Threads = {rebuild, update}
    MaxCores = 3
    Conns = {c1, c2}
    Remote = {c1}
    Ips = {lan, here}
    Loopback = {here}
    ClientIds = {k}
    MaxPerIp = 1
    MaxPerClient = 2
    EvictAfter = 1
    ReapAfter = 1
    MaxCaptures = 2
    MaxApplies = 2
    MaxStarts = 2
    Calls = {call}
    MaxAttempts = 2
    MaxChanges = 3
    None = None
INVARIANTS NothingOutlivesStop FollowsCapture OneRoad ShownIsTried
PROPERTIES CallsReturn UnwantedLeave CaptureEnds ComesBack CallsSettleUnlessLeft
CHECK_DEADLOCK FALSE
