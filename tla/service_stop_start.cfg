SPECIFICATION FairSpec
CONSTANTS
    d1 = d1
    d2 = d2
    d3 = d3
    r1 = r1
    r2 = r2
    Daemons = {d1, d2}
    Requests = {r1}
    ProjectNames <- SomeProjects
    ProcessNames <- SomeProcesses
    Calls <- SomeCalls
    Nobody = Nobody
    MaxDials = 2
    MaxFaults = 0
PROPERTIES StopThenStart
CHECK_DEADLOCK FALSE
