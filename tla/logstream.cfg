SPECIFICATION FairSpec
CONSTANTS
    x = x
    y = y
    project = project
    Processes = {x}
    Project = project
    NoRing = NoRing
    RingCap = 3
    ErrorCap = 2
    StreamLines = 3
    HistoryLines = 2
    ErrorContext = 2
    PerProcessMin = 1
    ErrorLines <- Matching
    MaxLines = 5
    MaxStarts = 2
    MaxRotations = 2
    MaxReaders = 1
INVARIANTS RingIsNewest ErrorsAreNewest InOrder GapsHaveCauses
PROPERTIES NoReaderStalls
CHECK_DEADLOCK FALSE
