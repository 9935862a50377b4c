SPECIFICATION FairSpec
CONSTANTS
    MaxSeq = 6
    MaxChunks = 2
    BufCap = 2
    NonVital = {}
    MaxNet <- OneAndOne
    Lag = 3
    MaxSent <- OneWay2
CHECK_DEADLOCK FALSE
PROPERTIES EventuallyAcked ImplementsReliableLink
