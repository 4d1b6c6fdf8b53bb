SPECIFICATION QSpec
CONSTANTS
    low = low
    high = high
    third = third
    q1 = q1
    q2 = q2
    Task = {idle, high}
    IdleTask = idle
    QueueHandle = {q1}
    EventList <- MCEventList
    uxLength <- Length1
    Mutex = {}
    Recursive = {}
    TaskPriority <- TwoLevels
    Program <- OneReader
    Handler <- SendingHandler
    configMAX_PRIORITIES = 2
    TickMod = 3
    MaxPendedTicks = 1
    MaxSuspended = 1
    MaxCritical = 2
    CriticalMasks = FALSE
    MaxMutexesHeld = 0
    MaxLocked = 1
    MaxRecursive = 0
    NULL = NULL
    xListEnd = xListEnd
INVARIANTS
    ReceiversAreNotForgotten
