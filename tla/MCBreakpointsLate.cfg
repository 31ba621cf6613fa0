SPECIFICATION Spec
CONSTANTS
    main = main
    t2 = t2
    rpc = rpc
    ep = ep
    f = f
    Threads = {main, t2}
    Internal = {}
    Main = main
    InitThread = InitThread
    VAs = {ep, f}
    EntryPoint = ep
    NoVa = NoVa
    Starts = {TRUE, FALSE}
    MaxDepth = 1
    LateBpSet = TRUE
    MayClear = FALSE
    MaxOps = 2
INVARIANT GratuitousIsInitial
CHECK_DEADLOCK FALSE
