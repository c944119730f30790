SPECIFICATION FairHandlingSpec
CONSTANTS
    ReadSize = 4
    Limits <- BothLimits
    SwitchSize = 3
    SizeModulus = 10
    Messages <- AllMessages
    Calls <- AllCalls
    PathLength = 2
INVARIANTS
    ParsedAsSent
    ServedHasHost
    ServerOfHost
    LongestLocation
    ServedIsAllowed
PROPERTIES
    ParseEnds
CHECK_DEADLOCK FALSE
