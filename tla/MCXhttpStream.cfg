SPECIFICATION FairSpec
CONSTANTS
    N = 4
    Off <- MCOff
    UpCap = 3
    Copies = 2
    BufMax = 2
INVARIANTS TypeOK EndIsGenuine
PROPERTIES UplinkInOrder EverythingDelivered
CHECK_DEADLOCK FALSE
