SPECIFICATION Spec
CONSTANTS
    Companions = {c1, c2}
    RemotePorts = {1, 2}
    Hosts = {v4}
    Locals = {1, 2}
    SharedLocals = {1}
    MaxFailures = 2
INVARIANTS
    FilesAgree
    
PROPERTIES
    SharedSpec
    PausesSurvive
    FailureIsAtomic
