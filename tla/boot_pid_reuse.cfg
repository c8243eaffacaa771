\* Run by hand: a pid that was handed out again is adopted (AdoptedIsOurs).
SPECIFICATION Spec
CONSTANTS
    a = a
    b = b
    p1 = p1
    p2 = p2
    p3 = p3
    NoPid = NoPid
    Torn = Torn
    Projects = {a, b}
    Pids = {p1, p2}
    Tomls = {"auto", "broken"}
    PidReuse = TRUE
    MaxDeaths = 1
    MaxRequests = 0
    MaxEdits = 0
INVARIANTS AdoptedIsOurs
CHECK_DEADLOCK FALSE
