SPECIFICATION Spec
CONSTANTS
    first = first
    second = second
    None = none
    MaxSeq = 8
    MaxChunks = 1
    BufCap = 2
    Client = {first, second}
    Sixup = {}
    IpOf <- OwnIps
    CodeOf <- OneCode
    NumSlots = 2
    MaxClientsPerIp = 1
    MaxRounds <- Once
    MaxSay <- Once
    MaxTell = 1
    MaxNet = 1
SYMMETRY Exchange
CHECK_DEADLOCK FALSE
INVARIANTS OneSlotPerAddress JoinedIffOpen
PROPERTIES NeverHandedOver
