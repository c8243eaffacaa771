SPECIFICATION FairSpec
CONSTANTS
    c1 = c1
    c2 = c2
    Callers <- MCCallers
    Forks <- AllForks
PROPERTIES StopReturns
CHECK_DEADLOCK FALSE
