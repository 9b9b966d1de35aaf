---------------------------- MODULE MC_ErrorScan ----------------------------
EXTENDS ErrorScan

CONSTANTS f1, f2, r1, r2

MCRIDs == {r1, r2}

\* One record shape for every line kind; unused fields are empty.
L(kind, f, r, k, n) == [kind |-> kind, file |-> f, rid |-> r, k |-> k, n |-> n]

\* Lines of the log: two allocation errors of f1 (on r1, r2) and one of f2,
\* a write error and a torn write-error line, "Failed" lines whose counts are
\* an exact rm_match pair, a longer total sharing its prefix ("9 out of 90"),
\* and a count no pattern has.
MCLines ==
    { L("alloc", f1, r1, <<>>, <<>>), L("alloc", f1, r2, <<>>, <<>>),
      L("alloc", f2, r1, <<>>, <<>>),
      L("write", f2, r1, <<>>, <<>>), L("torn", f2, r1, <<>>, <<>>),
      L("failed", f1, r1, <<"9">>, <<"9">>), L("failed", f2, r1, <<"9">>, <<"9", "0">>),
      L("failed", f2, r1, <<"1", "7">>, <<"1", "8">>), L("failed", f1, r1, <<"1">>, <<"9">>),
      L("other", f1, r1, <<>>, <<>>) }

MCLogs == UNION {[1..n -> MCLines] : n \in 0..2}

MCScans == {"rid_table", "write", "rid_fname", "cleanup"}
=============================================================================
