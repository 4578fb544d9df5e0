SPECIFICATION FairSpec
CONSTANTS
    Workers = {w1, w2}
    Threads = {}
    MaxCores = 1
PROPERTIES StopFinishes
CHECK_DEADLOCK FALSE
