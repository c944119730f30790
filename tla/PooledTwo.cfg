SPECIFICATION FairSpec
CONSTANTS
    Main = Main
    NoTask = NoTask
    NoThread = NoThread
    WorkerCount = 2
    Task <- TwoTasks
    Root <- OneRoot
    Source <- OneSource
    MaxQueued = 1
    r1 = r1
    c1 = c1
    c2 = c2
    read = read
    timeout = timeout
INVARIANTS
    FutureOwnedOnce
    TasksRunningExact
    ExitLeavesOnlySpawner
PROPERTIES
    ImplementsLifecycle
    QueuedIsPolled
    CompletionEndsRun
CHECK_DEADLOCK FALSE
