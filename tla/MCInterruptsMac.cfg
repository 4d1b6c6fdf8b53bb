SPECIFICATION InterruptSpec
CONSTANTS
    Device = {4}
    INUM_TICK = 6
    INUM_SOFT = 7
    INUM_WDT = 8
    CcountMod = 8
    ccount_interval = 2
    MaxLag = 5
INVARIANT
    MacRequestsAreKept
