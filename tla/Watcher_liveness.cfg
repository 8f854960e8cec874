SPECIFICATION Spec
CONSTANTS
    Sessions = {a, b}
    NoSession = none
    EmptyScans = 1
    MaxVersion = 2
    MaxSpace = 1
    Failures = FALSE
PROPERTIES SessionsAreHeard StaleSessionEnds
CHECK_DEADLOCK FALSE
