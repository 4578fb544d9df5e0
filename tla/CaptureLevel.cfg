SPECIFICATION Spec
CONSTANTS
    MaxCaptures = 1
    MaxApplies = 0
    MaxStarts = 2
    None = None
INVARIANTS CaptureIsAtDebug
CHECK_DEADLOCK FALSE
