SPECIFICATION Spec
CONSTANTS
    first = first
    second = second
    None = none
    MaxSeq = 8
    MaxChunks = 1
    BufCap = 2
    Client = {first, second}
    Sixup = {second}
    IpOf <- OneIp
    CodeOf <- OneCode
    NumSlots = 2
    MaxClientsPerIp = 1
    MaxRounds <- FirstTwice
    MaxSay <- FirstOnce
    MaxTell = 0
    MaxNet = 1
CHECK_DEADLOCK FALSE
INVARIANTS PerIpLimit
