SPECIFICATION Spec
CONSTANTS
    h1 = h1
    h2 = h2
    Handle = {h1, h2}
    Pid = {11, 12}
    Fd = {0, 3}
    MaxSlices = 1
    Env = {"displace", "steal", "notify", "gc"}
    Ops = {"is_alive", "wait", "kill", "grace"}
SYMMETRY Sym
CHECK_DEADLOCK FALSE
INVARIANT AnswersTrue
INVARIANT HandlerUsesLiveHandle
