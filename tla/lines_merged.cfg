SPECIFICATION Spec
CONSTANTS
    Byte = {"a", "n"}
    MaxSent = 3
    Encodings = {"UTF-8"}
    Counts = {1}
    MaxLines = 2
    BufferSize = 3
    Reserve = 2
    Faults = {}
CHECK_DEADLOCK FALSE
INVARIANT LinesAreLines
