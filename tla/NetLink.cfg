SPECIFICATION Spec
CONSTANTS
    MaxSeq = 4
    MaxChunks = 1
    BufCap = 1
    NonVital = {"client", "server"}
    MaxNet <- TwoToServer
    Lag = 2
    MaxSent <- OneWay4
CHECK_DEADLOCK FALSE
INVARIANTS NothingForgotten NeverLockedOut InOrder
