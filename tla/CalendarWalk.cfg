CONSTANTS
    HoursPerDay = 3
    MinutesPerHour = 2
    SecondsPerMinute = 2
    TimeZone = 1
    LastDay = 48300
SPECIFICATION WalkSpec
INVARIANTS
    GmtimeIsCivil
    LateDaysRoll
CHECK_DEADLOCK FALSE
