SPECIFICATION FairSpec
CONSTANTS
    Pkt <- MCPkt
    SidOf <- MCSidOf
    PidOf <- MCPidOf
    TotalOf <- MCTotalOf
    Workloads <- MCWorkloads
    Req = {r1}
    Str = {i1}
    MaxSess = 3
    MaxData = 1
    ChanCap = 1
    AuthNeeded = TRUE
    MasqProxy = TRUE
INVARIANTS TypeOK OnlyAuthenticated WholeDatagrams TableSound
PROPERTIES UnmappedOnlyByOlder SessionsEnd
CHECK_DEADLOCK FALSE
