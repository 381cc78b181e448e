CONSTANTS
    Colour = {green, red}
    Green = green
    Plain = {other}
    RxByte = {green, red, other}
    RxInTake = TRUE
    AllocMayFail = TRUE
    FifoCap = 1
    SemMax = 2
    HoldMax = 2
    StepTimeout = 4
    DrawTicks = 2
SPECIFICATION Spec
INVARIANTS
    MutexConsistent
    NoLostWakeup
    HighestRuns
    SerialKeepsCpu
    ThemeNotLost
