SPECIFICATION Spec
CONSTANTS
    Main = Main
    NoTask = NoTask
    NoThread = NoThread
    WorkerCount = 2
    Task <- TwoTasks
    Root <- OneRoot
    Source <- OneSource
    MaxQueued = 3
    r1 = r1
    c1 = c1
    c2 = c2
    read = read
    timeout = timeout
INVARIANT NoTaskStranded
CHECK_DEADLOCK FALSE
