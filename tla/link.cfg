SPECIFICATION Spec
CONSTANTS
    SeqMod = 8
    MaxUnacked = 2
    OutDepth = 1
    InpDepth = 2
    RexMax = 1
    CumAckMax = 1
    RexTO = 2
    CakTO = 1
    NulTO = 9
    ReopenMax = 2
    NoPld = NoPld
    NoPar = NoPar
    Empty = Empty
    Nul = Nul
    NetDepth = 2
    Tick = 2
    Plans <- Streams
PROPERTY StreamSpec
CHECK_DEADLOCK FALSE
