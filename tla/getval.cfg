SPECIFICATION FairSpec
CONSTANTS
    Threads = {1, 2}
    ByteBits = 2
    Timeout = 1
    MaxTime = 3
    Scenarios <- ConvertAndRace
CHECK_DEADLOCK FALSE
INVARIANTS
    CallbackOnce
    ValueRead
    WriteKeeps
PROPERTY CalledBack
