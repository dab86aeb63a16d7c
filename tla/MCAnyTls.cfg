SPECIFICATION FairSpec
CONSTANTS
    Sid = {s1, s2}
    Envs <- MCEnvs
    MaxStreams = 2
    RxCap = 1
    WriteCap = 1
INVARIANTS TypeOK FinIsLast SynackFirst
PROPERTIES ReadLoopProgress SessionEndEndsStreams UnmappedUplinkEnds DownlinkWaitsOnlyForIdleUplink
CHECK_DEADLOCK FALSE
