SPECIFICATION FairSpec
CONSTANTS
    Map = {a, b}
    NoMap = none
    NumChunks = 7
    Window = 2
    MaxLoads = 2
    MaxRejoin = 1
CHECK_DEADLOCK FALSE
INVARIANTS InGameOnMap WindowKept
PROPERTIES EntersOnLoadedMap EventuallyPlays
