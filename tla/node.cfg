SPECIFICATION EitherSpec
CONSTANTS
    IsServer = FALSE
    SeqMod = 4
    MaxUnacked = 2
    OutDepth = 1
    InpDepth = 1
    RexMax = 1
    CumAckMax = 1
    RexTO = 2
    CakTO = 1
    NulTO = 9
    ReopenMax = 2
    Isn = {0}
    PeerIsn = {0}
    Garbage = {0}
    Payload = {p1}
    NoPld = NoPld
    NoPar = NoPar
    Empty = Empty
    Nul = Nul
    PeerPar <- WidePar
INVARIANTS
    TypeOK
    UnackedInSequence
    WindowRespected
    TimersArmed
    AcksPending
    InputFlows
    AckIsDelivered
    ClientDrains
    PanicOnlyInHandshake
CHECK_DEADLOCK FALSE
