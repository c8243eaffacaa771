SPECIFICATION Spec
CONSTANTS
    a = a
    ab = ab
    x = x
    y = y
    o1 = o1
    o2 = o2
    o3 = o3
    o4 = o4
    o5 = o5
    o6 = o6
    c1 = c1
    c2 = c2
    NoConfig = NoConfig
    NoProc = NoProc
    Projects = {a}
    Names = {x}
    Extensions <- NoExtension
    Configs <- OnePort
    Procs = {o1}
    Clients = {c1, c2}
    Requests <- AddRemoveStartStop
    MaxCalls = 2
    MaxEdits = 1
    EarlyExits = FALSE
    LongRuns = {FALSE}
    Faults = {"save"}
SYMMETRY Interchangeable
INVARIANTS RegisteredHasConfig
CHECK_DEADLOCK FALSE
