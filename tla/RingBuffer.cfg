SPECIFICATION Spec
CONSTANTS
    MemSize = 9
    Wanted = {2, 3, 5, 9, 10}
    Item = {a, b}
    None = none
INVARIANTS TypeOK WalkComplete
PROPERTIES ImplementsFifo
