SPECIFICATION FairSpec
CONSTANTS
    a = a
    ab = ab
    x = x
    y = y
    o1 = o1
    o2 = o2
    o3 = o3
    o4 = o4
    o5 = o5
    o6 = o6
    c1 = c1
    c2 = c2
    NoConfig = NoConfig
    NoProc = NoProc
    Projects = {a}
    Names = {x}
    Extensions <- NoExtension
    Configs <- LoopTomls
    Procs = {o1, o2}
    Clients = {c1, c2}
    Requests <- StartStopRestart
    MaxCalls = 1
    MaxEdits = 0
    EarlyExits = TRUE
    LongRuns = {TRUE, FALSE}
    Faults = {"spawn", "save"}
INVARIANTS TypeOK
PROPERTIES RequestsReturn
CHECK_DEADLOCK FALSE
