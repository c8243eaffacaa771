SPECIFICATION Spec
CONSTANTS
    k1 = k1
    k2 = k2
    Keys = {k1}
    Broken = Broken
    NoForeign = NoForeign
    MaxSize = 2
    MaxFiles = 2
    CapSize = 3
    CapKeep = 2
    MaxLines = 7
    MaxOutside = 5
    MaxStarts = 2
    MaxEdits = 2
    MaxFaults = 2
    MaxGCs = 1
INVARIANTS LiveLogKept
CHECK_DEADLOCK FALSE
