CONSTANTS
    Colour = {green, red}
    Green = green
    Plain = {other}
    RxByte = {other}
    RxInTake = TRUE
    AllocMayFail = FALSE
    FifoCap = 1
    SemMax = 2
    HoldMax = 2
    StepTimeout = 4
    DrawTicks = 2
SPECIFICATION Spec
INVARIANT SemaphoreSurvives
