\* Two processes, with room for one and for two of them; R, the supervisor, its signals
\* and the processes interleave freely, on Unix and on Windows.
SPECIFICATION FairSpec
CONSTANTS
    Pid = {1, 2}
    Limits = {1, 2}
    Grace = 2
    MaxMessages = 2
    Platforms = {"unix", "windows"}
    Env = {"sigterm", "crash", "slow"}
CHECK_DEADLOCK FALSE
INVARIANT Inv
INVARIANT ExitKillsAll
PROPERTY SupervisorEnds
PROPERTY CallsReturn
