CONSTANTS
    Byte = {b1, b2}
    bufsz = 4
    Zero = zero
    NoByte = none
SPECIFICATION Spec
INVARIANTS
    FullNeverMeetsEmpty
    IndicatedWhenData
PROPERTY ImplementsQueue
