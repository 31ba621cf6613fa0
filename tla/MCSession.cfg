SPECIFICATION FairSpec
CONSTANTS
    process = process
    Pids = {process}
    NoPid = NoPid
    MaxReqs = 3
    MaxCtrl = 2
    MaxRefs = 2
    MaxEvents = 2
INVARIANTS
    TypeOK
    Watched
    ReadyIsListed
PROPERTIES
    ServerSurvives
    RequestsReturn
    LeavingIsRemoved
    CloseReturns
CHECK_DEADLOCK FALSE
