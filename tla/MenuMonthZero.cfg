CONSTANTS
    HourMax = 2
    MinuteMax = 2
    SecondMax = 2
    MonthMax = 2
    DayMax = 2
    Radix = 2
    PressMax = 9
SPECIFICATION Spec
INVARIANT DateArgsDocumented
