SPECIFICATION Spec
CONSTANTS
    Albums = {album}
    Singles = {single}
    MaxEvents = 1
    MaxTime = 2
PROPERTIES RebuildAsksAgain
CHECK_DEADLOCK FALSE
