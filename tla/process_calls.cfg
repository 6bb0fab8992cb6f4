SPECIFICATION Spec
CONSTANTS
    h1 = h1
    h2 = h2
    Handle = {h1, h2}
    Pid = {11, 12}
    Fd = {0, 3, 4}
    MaxSlices = 1
    Env = {}
    Ops = {"is_alive", "wait", "kill", "grace", "pty"}
SYMMETRY Sym
CHECK_DEADLOCK FALSE
INVARIANT TypeOK
INVARIANT NoLostZombie
INVARIANT AnswersTrue
INVARIANT NodesSafe
INVARIANT NoFdLeak
INVARIANT CleanupKills
PROPERTY OtherFdsKept
