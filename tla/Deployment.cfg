SPECIFICATION Spec
CONSTANTS
    Fetchers = {here, there}
    Me = here
    Editions = {"new"}
    Refusals = FALSE
    MaxFaults = 2
INVARIANTS
    MachineIsSound
    ProvenanceTruthful
PROPERTIES
    CacheIsSound
    SessionKeepsPlugin
    EndsWhole
