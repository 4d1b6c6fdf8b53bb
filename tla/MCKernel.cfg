SPECIFICATION KernelOrInterruptSpec
CONSTANTS
    Task = {idle, a, b}
    IdleTask = idle
    EventList = {e}
    configMAX_PRIORITIES = 2
    TickMod = 3
    MaxPendedTicks = 1
    MaxSuspended = 1
    MaxCritical = 1
    CriticalMasks = TRUE
    MaxMutexesHeld = 2
    NULL = NULL
    xListEnd = xListEnd
    Device = {4}
    INUM_TICK = 6
    INUM_SOFT = 7
    INUM_WDT = 8
    CcountMod = 8
    ccount_interval = 2
    MaxLag = 5
INVARIANTS
    TypeOK
    ListsAreExclusive
    WakeTimesAreAhead
    UnblockTimeIsNotLate
    SelectionFindsHighest
    PrioritiesComeBack
    InterruptsAreServed
    SwitchesAreKept
    TicksKeepTime
PROPERTY
    SuspensionHoldsStill
SYMMETRY
    Symmetry
VIEW
    LiveState
