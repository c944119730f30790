SPECIFICATION FairSpec
CONSTANTS
    Conn <- OneConn
    Period = 1
    Pooled = FALSE
    MaxBytes = 1
    MaxClocks = 4
    MaxEntries = 2
    c1 = c1
PROPERTY SilentIsTimedOut
CHECK_DEADLOCK FALSE
