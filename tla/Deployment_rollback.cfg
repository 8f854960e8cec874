SPECIFICATION Spec
CONSTANTS
    Fetchers = {here}
    Me = here
    Editions = {"new"}
    Refusals = TRUE
    MaxFaults = 1
PROPERTY
    RollbackRestores
