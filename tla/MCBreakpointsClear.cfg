SPECIFICATION Spec
CONSTANTS
    main = main
    t2 = t2
    rpc = rpc
    ep = ep
    f = f
    Threads = {main, t2}
    Internal = {}
    Main = main
    InitThread = InitThread
    VAs = {ep, f}
    EntryPoint = ep
    NoVa = NoVa
    Starts = {TRUE, FALSE}
    MaxDepth = 1
    LateBpSet = FALSE
    MayClear = TRUE
    MaxOps = 2
PROPERTY BpClearClears
CHECK_DEADLOCK FALSE
