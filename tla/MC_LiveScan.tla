----------------------------- MODULE MC_LiveScan -----------------------------
EXTENDS LiveScan

CONSTANTS f1, f2, r1

MCRIDs == {r1}

Ln(kind, f, k, n) == [kind |-> kind, file |-> f, rid |-> r1, k |-> k, n |-> n]

\* An allocation error, a write error, and Failed lines on 9 of 9 and on
\* 17 of 18 (a two-digit total, so a head can cut it short).
A == Ln("alloc", f1, <<>>, <<>>)
W == Ln("write", f2, <<>>, <<>>)
F == Ln("failed", f1, <<"9">>, <<"9">>)
G == Ln("failed", f2, <<"1", "7">>, <<"1", "8">>)

\* Each run writes two lines (so a line can be cut after an earlier one was
\* read whole): errors of the scans of warmer_errors.py, or two Failed lines
\* for warmer_rm_cleanup.
MCRunLogs == {<<W, A>>, <<F, G>>}

\* Config files: complete, missing entirely, and missing [previous].
MCConfigChoices == {{"config", "current", "previous"}, {}, {"config", "current"}}

MCVariants == {"lserver", "legacy"}
=============================================================================
