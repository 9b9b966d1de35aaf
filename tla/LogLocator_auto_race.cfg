CONSTANTS
    None = None
    MaxRuns = 3
    ConfigChoices <- MCConfigChoices
    Variants <- MCVariants

SPECIFICATION Spec

INVARIANT AutoReadsCompletedRun


CHECK_DEADLOCK FALSE
