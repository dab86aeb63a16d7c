SPECIFICATION FairSpec
CONSTANTS
    Sid = {s1}
    Envs <- OneStream
    MaxStreams = 1
    RxCap = 1
    WriteCap = 1
PROPERTY DownlinkConcurrent
CHECK_DEADLOCK FALSE
