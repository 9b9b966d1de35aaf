CONSTANTS
    f1 = f1
    f2 = f2
    r1 = r1
    r2 = r2
    RIDs <- MCRIDs
    Logs <- MCLogs
    Scans <- MCScans
SPECIFICATION Spec
INVARIANT CleanupOnlyAllLost
CHECK_DEADLOCK FALSE
