SPECIFICATION Spec
CONSTANTS
    main = main
    t2 = t2
    rpc = rpc
    ep = ep
    f = f
    Threads = {main, t2}
    Internal = {}
    Main = main
    InitThread = InitThread
    VAs = {ep, f}
    EntryPoint = ep
    NoVa = NoVa
    Starts = {TRUE, FALSE}
    MaxDepth = 2
    LateBpSet = FALSE
    MayClear = FALSE
    MaxOps = 3
INVARIANTS
    TypeOK
    HitExclusive
    StoppedWhenReported
    NoWildThread
    GratuitousIsInitial
    ViewsAgree
    NoUnknownBreakpoint
PROPERTY ImplementsHookActions
CHECK_DEADLOCK FALSE
