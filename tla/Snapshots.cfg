SPECIFICATION Spec
CONSTANTS
    Second = 2
    Keep = 4
    InitEvery = 2
    MaxErrors = 1
    MaxParts = 2
    MaxTick = 9
    MaxNet = 2
    MaxInputNet = 2
CHECK_DEADLOCK FALSE
INVARIANTS StoresSorted PointersAlive NeverMixed BaseHeld
PROPERTIES ScreenAdvances
