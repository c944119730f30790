SPECIFICATION Spec
CONSTANTS
    Conn <- OneConn
    Pid <- OnePid
    NoPid = NoPid
    NoHandler = NoHandler
    SizeMax = 2
    HasBody <- OneConn
    Body <- OneFirst
    MaxOut <- OneFirst
    Capacity = 1
    c1 = c1
    c2 = c2
    p1 = p1
    p2 = p2
INVARIANT FailureIsErrored
CHECK_DEADLOCK FALSE
