SPECIFICATION FairSpec
CONSTANTS
    MaxFd = 10
    CloseLimit = 7
    RTables = {{3, 4}, {5, 9}}
    Kinds = {"pipe", "null", "closed", "2>&1", "conn", "pty"}
    StdConns = {1, 2, 3}
    ExtraConns = {1, 3, 4, 5}
    MaxExtra = 2
CHECK_DEADLOCK FALSE
INVARIANT Inv
INVARIANT Wired
INVARIANT NoStrayFd
INVARIANT StartIsTrue
PROPERTY StartReturns
