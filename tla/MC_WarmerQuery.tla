-------------------------- MODULE MC_WarmerQuery ---------------------------
EXTENDS WarmerQuery

CONSTANTS f1, f2, f3, f4

\* Four files; which are bad or have write errors ranges over all choices.
MCDBOrder == <<f1, f2, f3, f4>>

\* Every named mode.
MCNamedModes == {1, 2, 3, 4}

=============================================================================
