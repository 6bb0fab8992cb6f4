SPECIFICATION FairSpec
CONSTANTS
    h1 = h1
    Handle = {h1}
    Pid = {11}
    Fd = {0, 3}
    MaxSlices = 1
    Env = {"threads", "unload"}
    Ops = {"wait", "kill", "grace", "signal"}
CHECK_DEADLOCK FALSE
PROPERTY ZombiesReaped
PROPERTY CallsReturn
