CONSTANTS
    TickMod = 8
    high = high
    middle = middle
    low = low
    Thread = {high, middle, low}
    Idle = idle
    NoThread = nobody
    Base <- MCBase
    WaitTicks = {2}
    SleepTicks = {0}
    HoldMax = 2
    SemMax = 1
SPECIFICATION Spec
INVARIANTS
    TypeOK
    SuspendedOnce
    TakeOutcome
    NoInversion
    PriorityReturned
    TokensConserved
    TimersOnTime
