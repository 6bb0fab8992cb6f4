\* One supervised process; R may die at any time, nothing else goes wrong.
SPECIFICATION Spec
CONSTANTS
    Pid = {1}
    Limits = {2}
    Grace = 1
    MaxMessages = 1
    Platforms = {"unix"}
    Env = {}
CHECK_DEADLOCK FALSE
INVARIANT SupervisedKilled
