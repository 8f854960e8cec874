SPECIFICATION Spec
CONSTANTS
    Sessions = {a, b}
    NoSession = none
    EmptyScans = 2
    MaxVersion = 3
    MaxSpace = 2
    Failures = TRUE
SYMMETRY Alike
CHECK_DEADLOCK FALSE
INVARIANTS
    NothingStrays
PROPERTIES
    RunningIsKept
