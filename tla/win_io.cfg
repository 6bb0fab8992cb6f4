\* A pipe and a connection of any kind.  The UTF-8 buffer takes one byte, so that
\* of two bytes one stays in the raw buffer.
SPECIFICATION FairSpec
CONSTANTS
    Con = {1, 2}
    Servers = {2}
    Halves = {}
    MaxSent = 2
    RawSize = 2
    Utf8Size = 1
    MaxWakes = 1
    Env = {"curl", "destroy"}
CHECK_DEADLOCK FALSE
INVARIANT Inv
INVARIANT StreamTrue
PROPERTY PollReturns
