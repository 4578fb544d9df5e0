SPECIFICATION Spec
CONSTANTS
    Workers = {}
    Threads = {rebuild}
    MaxCores = 2
PROPERTIES OnlyCorruptIsRecreated
CHECK_DEADLOCK FALSE
