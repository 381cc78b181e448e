CONSTANTS
    Adc = {1799, 1810, 2606}
    Accel <- MCAccel
    Axis = 8
    threshold = 2
    StepWidth = 2
    SemMax = 1
SPECIFICATION Spec
CHECK_DEADLOCK FALSE
INVARIANTS
    TextsReady
    PercentSurvives
    GlyphsInPlace
    StepsSound
PROPERTIES
    LinesEnd
    FramesUnlessStopped
