\* Failed SSH calls have no effect, and requests are refused during recovery.
SPECIFICATION Spec
CONSTANTS
    MaxPort = 3
    RemotePorts = {2, 3}
    RawHosts = {"localhost", "[::1]"}
    MaxForwards = 2
    MaxNext = 3
    Ambiguous = FALSE
    LateRequests = FALSE
INVARIANTS
    TypeOK
    Truthful
PROPERTIES
    TunnelsFollow
