SPECIFICATION FairSpec
CONSTANTS
    Byte = {"a", "n", "L", "C"}
    MaxSent = 4
    Encodings = {"UTF-8", "latin1", "binary"}
    Counts = {1}
    MaxLines = 2
    BufferSize = 3
    Reserve = 2
    Faults = {"error", "interrupt"}
CHECK_DEADLOCK FALSE
INVARIANT Inv
INVARIANT EofTrue
INVARIANT PollTrue
INVARIANT LinesComplete
PROPERTY ReadAllReturns
PROPERTY ImplementsStream
