SPECIFICATION FairSpec
CONSTANTS
    main = main
    rpc = rpc
    init = init
    ep = ep
    f = f
    Threads = {main, rpc}
    Internal = {rpc}
    Main = main
    InitThread = init
    VAs = {ep, f}
    EntryPoint = ep
    NoVa = NoVa
    Starts = {TRUE, FALSE}
    MaxDepth = 1
    MaxUnloads = 2
    MaxEvents = 3
INVARIANTS
    TypeOK
    CleanDetach
PROPERTIES
    WaitersLeave
    RundownEnds
    ImplementsVictimProcess
CHECK_DEADLOCK FALSE
