SPECIFICATION FairSpec
CONSTANTS
    low = low
    high = high
    third = third
    q1 = q1
    q2 = q2
    Task = {idle, low, third}
    IdleTask = idle
    QueueHandle = {q1}
    EventList <- MCEventList
    uxLength <- Length1
    Mutex = {}
    Recursive = {}
    TaskPriority <- AllEqual
    Program <- NoCalls
    Handler <- NoHandler
    configMAX_PRIORITIES = 2
    TickMod = 2
    MaxPendedTicks = 0
    MaxSuspended = 1
    MaxCritical = 1
    CriticalMasks = TRUE
    MaxMutexesHeld = 0
    MaxLocked = 0
    MaxRecursive = 0
    NULL = NULL
    xListEnd = xListEnd
PROPERTIES
    EqualPrioritiesShare
