SPECIFICATION FairSpec
CONSTANTS
    main = main
    t2 = t2
    rpc = rpc
    ep = ep
    f = f
    Threads = {main, t2, rpc}
    Internal = {rpc}
    Main = main
    InitThread = InitThread
    VAs = {ep, f}
    EntryPoint = ep
    NoVa = NoVa
    Starts = {TRUE}
    MaxDepth = 1
    LateBpSet = FALSE
    MayClear = TRUE
    MaxOps = 2
PROPERTIES
    StoppedIsResumed
    HitGetsThrough
    BpSetReturns
CHECK_DEADLOCK FALSE
