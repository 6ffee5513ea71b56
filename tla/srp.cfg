\* Two calls on a network that loses messages.
SPECIFICATION FairSpec
CONSTANTS
    W = 2
    Extra = 1
    MaxWords = 3
    RetryCnt = 1
    TidMod = 128
    Size = 8
    Calls <- SomeCalls
    Modes <- SomeModes
    MaxCalls = 2
    NetDepth = 2
CHECK_DEADLOCK FALSE
INVARIANTS
    TypeOK
    Placed
    WriteEffect
    ReadCurrent
    ReadbacksSettled
PROPERTIES
    NoRevert
    CallReturns
