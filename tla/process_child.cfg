SPECIFICATION FairSpec
CONSTANTS
    c1 = c1
    c2 = c2
    Callers <- MCCallers
    Forks <- AllForks
INVARIANTS TypeOK VerdictMatchesReport StopIsExclusive StoppedMeansEnded
PROPERTIES ImplementsLifecycle StopReturnsUnlessHeld ExitNoticed
CHECK_DEADLOCK FALSE
