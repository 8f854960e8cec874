SPECIFICATION Spec
CHECK_DEADLOCK FALSE
CONSTANTS
    Requests = {r1, r2}
    Endpoints = {e1, e2}
    MaxMasters = 3
INVARIANTS
    TypeOK
    WrapperSafe
PROPERTIES
    RecoveryIsWhole
    RecoveryEnds
    ExitCompletes
