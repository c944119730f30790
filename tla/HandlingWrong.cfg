SPECIFICATION HandlingSpec
CONSTANTS
    ReadSize = 4
    Limits <- BothLimits
    SwitchSize = 3
    SizeModulus = 10
    Messages <- AllMessages
    Calls <- AllCalls
    PathLength = 2
INVARIANT WrongIsRefused
CHECK_DEADLOCK FALSE
