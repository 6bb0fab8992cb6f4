\* Three characters in pipes of two: every chunk, and a process that has to wait
\* for R; an input that is larger than the terminal takes at once.
SPECIFICATION FairSpec
CONSTANTS
    Modes = {"pipes", "pty"}
    Char = {"r", "n"}
    MaxOut = 3
    PipeSize = 2
    TtySize = 1
    MaxIn = 2
    Chunk = 2
    Env = {"timeout", "other", "interrupt", "throws", "kills", "error"}
CHECK_DEADLOCK FALSE
INVARIANT Inv
INVARIANT OutputTrue
PROPERTY RunReturns
PROPERTY TimeoutKills
PROPERTY InputFed
