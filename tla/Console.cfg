CONSTANTS
    FifoCap = 3
    SemMax = 2
    BytesMax = 6
SPECIFICATION Spec
CHECK_DEADLOCK FALSE
INVARIANTS
    ShellSeesInput
    CommandsWhole
    CallbackReady
PROPERTIES
    ShellRetires
    BytesLeave
