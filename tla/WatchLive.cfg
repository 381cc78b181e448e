CONSTANTS
    Colour = {green, red}
    Green = green
    Plain = {other}
    RxByte = {red}
    RxInTake = FALSE
    AllocMayFail = TRUE
    FifoCap = 1
    SemMax = 2
    HoldMax = 2
    StepTimeout = 4
    DrawTicks = 2
SPECIFICATION FairSpec
INVARIANT SemaphoreSurvives
PROPERTIES
    FramesForever
    CommandsRead
    DefunctReclaimed
