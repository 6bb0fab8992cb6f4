SPECIFICATION Spec
CONSTANTS
    h1 = h1
    h2 = h2
    Handle = {h1, h2}
    Pid = {11}
    Fd = {0, 3}
    MaxSlices = 0
    Env = {"reuse", "interrupt", "prefork", "pipe", "oom"}
    Ops = {"is_alive", "signal", "wait", "kill"}
SYMMETRY Sym
CHECK_DEADLOCK FALSE
INVARIANT OnlyOwnChildSignalled
INVARIANT ExitStatusTrue
