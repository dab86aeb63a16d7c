SPECIFICATION FairSpec
CONSTANTS
    p1 = p1
    p2 = p2
    a1 = a1
    a2 = a2
    c1 = c1
    c2 = c2
    d1 = d1
    Peer = {p1, p2}
    First = p1
    Addr = {a1, a2}
    NoAddr = NoAddr
    Client = {c1}
    NoClient = NoClient
    Dst = {d1}
    Workloads <- MCFlood
    MaxSock = 1
    MaxRelay = 1
    MaxData = 1
    Idling = FALSE
    StackCap = 1
    ActorCap = 1
    OutCap = 1
PROPERTIES ReceiveLoopFree
CHECK_DEADLOCK FALSE
