SPECIFICATION FairSpec
CONSTANTS
    u1 = u1
    u2 = u2
    u3 = u3
    a1 = a1
    Clients <- MCClients
    MaxTasks = 3
    Uuid = {u1, u2, u3}
    Users = {u1, u2}
    Assoc = {a1}
    NoUuid = NoUuid
    NoAssoc = NoAssoc
    MaxReplies = 1
INVARIANTS TypeOK AuthorisedOnly SessionAccounted NoLostWakeup ReplyMode
PROPERTIES AuthOrClosed WaitersLeave DissociatedEnds
CHECK_DEADLOCK FALSE
