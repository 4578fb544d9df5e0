SPECIFICATION MCSpec
CONSTANTS
    Paths = {a, b}
    Browsers = {page}
    Clients = {phone}
    Backfill = backfill
    MaxEvents = 2
    Albums = {album}
    Singles = {single}
    MaxArtEvents = 1
    MaxTime = 1
    Files = {f}
    MaxFileEvents = 2
    Commands = {"switch", "metadata", "covers", "stop", "silence"}
    MaxPassEvents = 3
SYMMETRY Symmetry
INVARIANTS RowsCurrent ClientsCurrent LogHoldsLibrary NoEditLost StaysInService CoversCurrent FilesKept TagsCurrent
CHECK_DEADLOCK FALSE
