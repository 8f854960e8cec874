SPECIFICATION Spec
CONSTANTS
    Writers = {m1, t1, w}
    Menus = {m1}
    Welcome = w
    Starts <- MCStarts
    Saves <- MCSaves
    MaxDepth = 1
    MaxAsked = 2
    MaxFaults = 1
INVARIANTS
    ConfigIsSound
PROPERTIES
    WritesAreExact
    ChoicesAreKept
    EveryChangeEnds
