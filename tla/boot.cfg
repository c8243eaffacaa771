SPECIFICATION FairSpec
CONSTANTS
    a = a
    b = b
    p1 = p1
    p2 = p2
    p3 = p3
    NoPid = NoPid
    Torn = Torn
    Projects = {a, b}
    Pids = {p1, p2}
    Tomls = {"auto", "broken"}
    PidReuse = TRUE
    MaxDeaths = 2
    MaxRequests = 1
    MaxEdits = 1
INVARIANTS NoChildForgotten FilesMatchMemory OneLivePerProject StartedIsOurs
PROPERTIES LossWindow BootServes
CHECK_DEADLOCK FALSE
