\* An SSH call that fails may have had its effect, and requests that passed the check
\* of the reconnecting flag run while the link is being recovered.
SPECIFICATION Spec
CONSTANTS
    MaxPort = 3
    RemotePorts = {2}
    RawHosts = {"localhost", "[::1]"}
    MaxForwards = 2
    MaxNext = 3
    Ambiguous = TRUE
    LateRequests = TRUE
INVARIANTS
    Unique
PROPERTIES
    StableIds
