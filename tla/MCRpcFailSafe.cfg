SPECIFICATION FairSpec
CONSTANTS
    c1 = c1
    c2 = c2
    c3 = c3
    p1 = p1
    p2 = p2
    Calls = {c1}
    PeerCalls = {p1}
    NoCall = NoCall
    Channels = {1}
    ChannelOf <- MCChannelOf
    IdSpace = 2
    PipeSize = 1
    MayLoseLink = TRUE
    MayDestroy = FALSE
PROPERTY ExceptionStopsDispatcher
CHECK_DEADLOCK FALSE
