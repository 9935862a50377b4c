SPECIFICATION FairSpec
CONSTANTS
    first = first
    second = second
    None = none
    MaxSeq = 8
    MaxChunks = 1
    BufCap = 2
    Client = {first}
    Sixup = {}
    IpOf <- OwnIps
    CodeOf <- OneCode
    NumSlots = 1
    MaxClientsPerIp = 1
    MaxRounds <- Twice
    MaxSay <- Once
    MaxTell = 0
    MaxNet = 1
CHECK_DEADLOCK FALSE
PROPERTIES ConnectResolves SlotsFreed HalfOpenEnds
