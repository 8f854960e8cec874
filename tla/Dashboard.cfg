SPECIFICATION DashboardSpec
CONSTANTS
    Panes = {1, 2}
    Places <- MCPlaces
    Starts <- MCStarts
    Heights = {6, 8}
    MaxId = 3
    MaxChanges = 1
    MaxFaults = 1
    MaxRequests = 1
CHECK_DEADLOCK FALSE
INVARIANTS
    ListIsSound
    
PROPERTIES
    ActsAsSeen
    DashboardEnds
    KeepsUp
