SPECIFICATION QSpec
CONSTANTS
    low = low
    high = high
    third = third
    q1 = q1
    q2 = q2
    Task = {idle, low, high, third}
    IdleTask = idle
    QueueHandle = {q1, q2}
    EventList <- MCEventList
    uxLength <- Length1
    Mutex = {q1}
    Recursive = {}
    TaskPriority <- Staircase
    Program <- MutexAndSleep
    Handler <- WakingHandler
    configMAX_PRIORITIES = 4
    TickMod = 3
    MaxPendedTicks = 0
    MaxSuspended = 1
    MaxCritical = 1
    CriticalMasks = TRUE
    MaxMutexesHeld = 1
    MaxLocked = 0
    MaxRecursive = 0
    NULL = NULL
    xListEnd = xListEnd
INVARIANTS
    HolderOutranksWaiters
    NoPriorityIsLeftOver
VIEW
    LiveState
