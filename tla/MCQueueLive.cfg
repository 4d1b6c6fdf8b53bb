SPECIFICATION FairSpec
CONSTANTS
    low = low
    high = high
    third = third
    q1 = q1
    q2 = q2
    Task = {idle, low, high}
    IdleTask = idle
    QueueHandle = {q1, q2}
    EventList <- MCEventList
    uxLength <- Length1
    Mutex = {q2}
    Recursive = {q2}
    TaskPriority <- TwoLevels
    Program <- Polling
    Handler <- BothHandlers
    configMAX_PRIORITIES = 2
    TickMod = 3
    MaxPendedTicks = 1
    MaxSuspended = 1
    MaxCritical = 1
    CriticalMasks = TRUE
    MaxMutexesHeld = 1
    MaxLocked = 1
    MaxRecursive = 1
    NULL = NULL
    xListEnd = xListEnd
PROPERTIES
    EveryWaitEnds
    TopTaskReturns
    ImplementsKernel
