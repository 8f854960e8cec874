SPECIFICATION Spec
CONSTANTS
    s1 = s1
    s2 = s2
    Sessions = {s1, s2}
    Clients = {c, z}
    Commands = {c}
    Stallers = {z}
    Limit = 1
    Addresses <- MCAddresses
    Target <- MCTarget
    Starts <- MCStarts
    Invocations <- MCInvocations
    MaxId = 3
    MaxEnds = 1
    MaxFaults = 1
CHECK_DEADLOCK FALSE
INVARIANTS
    ServerIsSound
PROPERTIES
    PruneIsExact
    CloseSucceeds
    ShutdownEnds
