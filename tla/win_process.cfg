\* Two processes, a stream that is a pipe and one that is a file.
SPECIFICATION FairSpec
CONSTANTS
    Proc = {1, 2}
    Stream = {1, 2}
    Pipes = {1}
    PtyProc = {1}
    ExitCode = {0, 259}
    MaxFailed = 1
    Faults = {"search", "pipe", "ptyin", "ptyout", "pseudo", "attr", "stdio", "create", "jobmake", "jobinfo", "denied", "job", "resume"}
CHECK_DEADLOCK FALSE
INVARIANT Inv
INVARIANT ExitStatusTrue
INVARIANT CleanupHolds
PROPERTY CallsReturn
