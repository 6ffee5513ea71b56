\* One write, with the sizes of the code: words of four bytes, and up to eight of
\* them read back by one request.
SPECIFICATION Spec
CONSTANTS
    W = 4
    Extra = 7
    MaxWords = 8
    RetryCnt = 0
    TidMod = 8
    Size = 12
    Calls <- UnevenCalls
    Modes <- OldMode
    MaxCalls = 1
    NetDepth = 1
CHECK_DEADLOCK FALSE
INVARIANT
    Placed
