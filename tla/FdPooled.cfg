SPECIFICATION FairSpec
CONSTANTS
    Fd <- OneFd
    Pooled = TRUE
    Task <- ThreeTasks
    NoFd = NoFd
    EvilCheckErrno = TRUE
    MaxAvail = 2
    MaxEntries = 2
    t1 = t1
    t2 = t2
    t3 = t3
INVARIANTS
    TypeOK
    ReadyOrArmed
    WaitingIsWakeable
    CallbacksOfOwner
    WatchesOpenOnly
PROPERTY DataIsRead
