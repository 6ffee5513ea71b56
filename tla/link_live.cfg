SPECIFICATION FairSpec
CONSTANTS
    SeqMod = 8
    MaxUnacked = 1
    OutDepth = 2
    InpDepth = 1
    RexMax = 1
    CumAckMax = 1
    RexTO = 2
    CakTO = 1
    NulTO = 9
    ReopenMax = 2
    NoPld = NoPld
    NoPar = NoPar
    Empty = Empty
    Nul = Nul
    NetDepth = 1
    Tick = 2
    Plans <- BothWays
PROPERTY Resolved
CHECK_DEADLOCK FALSE
