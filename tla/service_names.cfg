SPECIFICATION Spec
CONSTANTS
    d1 = d1
    d2 = d2
    d3 = d3
    r1 = r1
    r2 = r2
    Daemons = {d1, d2}
    Requests = {r1, r2}
    ProjectNames <- SomeProjects
    ProcessNames <- SomeProcesses
    Calls <- SomeCalls
    Nobody = Nobody
    MaxDials = 3
    MaxFaults = 1
INVARIANT EveryNameArrives
CHECK_DEADLOCK FALSE
