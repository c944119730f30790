SPECIFICATION FairSpec
CONSTANTS
    Main = Main
    NoTask = NoTask
    NoThread = NoThread
    Task <- ThreeTasks
    Root <- OneRoot
    Source <- TwoSources
    MaxQueued = 3
    MaxSelfWakes = 2
    r1 = r1
    c1 = c1
    c2 = c2
    read = read
    timeout = timeout
INVARIANTS
    ExitMeansAllDone
    NoTaskStranded
PROPERTIES
    StepEnds
    WokenIsPolled
    CompletionEndsRun
    ImplementsLifecycle
CHECK_DEADLOCK FALSE
