--------------------------- MODULE MC_LogLocator ---------------------------
EXTENDS LogLocator

\* Config files: complete, missing entirely, and missing [previous].
MCConfigChoices == {{"config", "current", "previous"}, {}, {"config", "current"}}

MCVariants == {"lserver", "legacy"}

=============================================================================
