CONSTANTS
    h1 = h1
    h2 = h2
    None = None
    MayCrash = TRUE
    Files <- MCFiles
    Contents <- MCContents
    Empty <- MCEmpty
    Args <- MCArgs

SPECIFICATION Spec

INVARIANT SplitConserves
INVARIANT SortToolsAgree
INVARIANT NoDeclarationLost

\* The script exits after its last file.
CHECK_DEADLOCK FALSE
