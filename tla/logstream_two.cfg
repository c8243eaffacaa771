SPECIFICATION Spec
CONSTANTS
    x = x
    y = y
    project = project
    Processes = {x, y}
    Project = project
    NoRing = NoRing
    RingCap = 3
    ErrorCap = 2
    StreamLines = 3
    HistoryLines = 2
    ErrorContext = 2
    PerProcessMin = 1
    ErrorLines <- Matching
    MaxLines = 3
    MaxStarts = 1
    MaxRotations = 0
    MaxReaders = 1
INVARIANTS InOrder
CHECK_DEADLOCK FALSE
