SPECIFICATION FairSpec
CONSTANTS
    Sid = {s1}
    Obj = {o1, o2}
    Req = {r1, r2}
    UpCap = 1
    DownCap = 1
    ReadyCap = 1
    MaxFrames = 1
    NoObj = NoObj
    NoSid = NoSid
    Free = Free
PROPERTIES ExpiredSessionIsCleaned
CHECK_DEADLOCK FALSE
