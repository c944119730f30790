SPECIFICATION FairSpec
CONSTANTS
    Fd <- OneFd
    Socket <- ListenFd
    Pooled = FALSE
    Listener = Listener
    MaxBacklog = 5
    MaxFailures = 1
    MaxEntries = 2
INVARIANTS
    TypeOK
    FlagBeforeWaker
    BlocksOnlyForLeaver
PROPERTY AcceptedUnlessFailed
