CONSTANTS
    HoursPerDay = 2
    MinutesPerHour = 2
    SecondsPerMinute = 2
    TimeZone = 1
    TickMod = 24
    TicksPerSecond = 2
    BootTick = {23}
    SetClock <- MCSetClock
    SetMonth = {2, 12}
    SetDay = {0, 28, 31}
    SetLimit = 2
    TickLimit = 10
SPECIFICATION Spec
CHECK_DEADLOCK FALSE
INVARIANT KeepsTime
PROPERTY SettersKeepTheRest
