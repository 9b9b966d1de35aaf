CONSTANTS
    p1 = p1  p2 = p2  r1 = r1  r2 = r2  r3 = r3
    f1 = f1  f2 = f2  f3 = f3  f4 = f4  f5 = f5
    Procs <- MCProcs2
    RIDs <- MCRIDs
    Files <- MCFiles
    DB <- MCDB
    InspectOutputs <- MCInspectOutputs
    QueryMayFail = FALSE
    BadFiles <- MCBadFiles
    WriteErrFiles <- MCWriteErrFiles

SPECIFICATION Spec

INVARIANT PlanCoversDeltas


\* A plan is printed (or an exception raised) and the invocation exits.
CHECK_DEADLOCK FALSE
