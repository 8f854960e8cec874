SPECIFICATION Spec
CONSTANTS
    Panes = {a, b}
    ProcessesPerPane = 2
    Ports = {1}
    Hosts = {v4}
    NoPane = none
    NoProcess = nobody
    MaxFailures = 1
INVARIANTS
    ScanIsSound
PROPERTIES
    ScanIsGentle
    Converges
