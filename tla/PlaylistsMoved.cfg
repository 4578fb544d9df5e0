SPECIFICATION Spec
CONSTANTS
    Tracks = {x, y, z}
    PageSize = 1
    MaxEdits = 1
    MaxAsks = 3
    None = None
INVARIANTS MovedPlaylistRefused
CHECK_DEADLOCK FALSE
