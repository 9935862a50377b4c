SPECIFICATION Spec
CONSTANTS
    Map = {a, b}
    NoMap = none
    NumChunks = 2
    Window = 1
    MaxLoads = 1
    MaxRejoin = 0
CHECK_DEADLOCK FALSE
PROPERTY CalledWhenMapLoaded
