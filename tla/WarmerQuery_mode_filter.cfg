CONSTANTS
    f1 = f1  f2 = f2  f3 = f3  f4 = f4
    DBOrder <- MCDBOrder
    Modes <- MCNamedModes

SPECIFICATION Spec

INVARIANT QueryHonoursMode

\* warmer_query_print returns once the child's output is read.
CHECK_DEADLOCK FALSE
