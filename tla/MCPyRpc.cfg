SPECIFICATION FairSpec
CONSTANTS
    MaxCalls = 2
    MaxWorks = 2
INVARIANTS
    TypeOK
    NobodyForgotten
PROPERTIES
    CallsReturn
CHECK_DEADLOCK FALSE
