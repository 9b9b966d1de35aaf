CONSTANTS
    None = None
    Junk = Junk
    f1 = f1
    f2 = f2
    r1 = r1
    MaxRuns = 2
    WarmerMayDie = TRUE
    RIDs <- MCRIDs
    RunLogs <- MCRunLogs
    ConfigChoices <- MCConfigChoices
    Variants <- MCVariants

SPECIFICATION Spec

INVARIANT CleanupSendsLoggedNames

CHECK_DEADLOCK FALSE
