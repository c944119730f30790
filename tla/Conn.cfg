SPECIFICATION FairSpec
CONSTANTS
    Conn <- OneConn
    Period = 1
    Pooled = TRUE
    MaxBytes = 1
    MaxClocks = 3
    MaxEntries = 1
    c1 = c1
INVARIANTS
    TypeOK
    TimerWakes
    NotBeforeTime
    OneResponse
PROPERTY
    RespondEnds
CHECK_DEADLOCK FALSE
