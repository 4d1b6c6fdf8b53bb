SPECIFICATION QSpec
CONSTANTS
    low = low
    high = high
    third = third
    q1 = q1
    q2 = q2
    Task = {idle, low, high, third}
    IdleTask = idle
    QueueHandle = {q1, q2}
    EventList <- MCEventList
    uxLength <- Length1
    Mutex = {q1}
    Recursive = {}
    TaskPriority <- ThreeLevels
    Program <- GiveWithWaiter
    Handler <- NoHandler
    configMAX_PRIORITIES = 3
    TickMod = 4
    MaxPendedTicks = 0
    MaxSuspended = 1
    MaxCritical = 1
    CriticalMasks = TRUE
    MaxMutexesHeld = 1
    MaxLocked = 0
    MaxRecursive = 0
    NULL = NULL
    xListEnd = xListEnd
INVARIANTS
    HighestPriorityRuns
