SPECIFICATION MCSpec
CONSTANTS
    Paths = {1, 2}
    Readers = {r1}
    MaxTombstones = 1
    PageLimit = 1
    MaxGeneration = 4
    MaxEpoch = 2
    Commands = {"switch", "metadata", "covers", "stop", "silence"}
    MaxEvents = 2
    Files = {f}
    Phones = {phone}
    MaxFileEvents = 1
INVARIANTS CountsHold CopiesExact HeadReaderHoldsLibrary
PROPERTIES OnlyOldestForgotten ReadersCatchUp ImplementsReplica ComesToRest CopyComesRound
CHECK_DEADLOCK FALSE
