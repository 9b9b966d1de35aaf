--------------------------- MODULE MC_Rebalance ----------------------------
EXTENDS Rebalance

CONSTANTS p1, p2, r1, r2, r3, f1, f2, f3, f4, f5

MCProcs1 == {p1}
MCProcs2 == {p1, p2}
MCRIDs == {r1, r2, r3}
MCFiles == {f1, f2, f3, f4, f5}

\* f2 lives on r1 and r2 (two replicas); f5 only on r3.
MCDB ==
    r1 :> <<[file |-> f1, size |-> 600], [file |-> f2, size |-> 600], [file |-> f3, size |-> 600]>>
 @@ r2 :> <<[file |-> f2, size |-> 700], [file |-> f4, size |-> 700]>>
 @@ r3 :> <<[file |-> f5, size |-> 800]>>

\* f2 has lost an allocation on one replica; f3 had a write error.
MCBadFiles == {f2}
MCWriteErrFiles == {f3}

R(r, s, n, d) == [rid |-> r, state |-> s, neg |-> n, delta |-> d]

\* Deltas in plain, decimal and binary units; 2Ki exceeds all of r1.
MCDeltas == {<<"1", "k">>, <<"1", ".", "2", "k">>, <<"2", "K", "i">>}

\* Inspector reports: r1 and r2 overloaded in either order; r3 in STATE 0
\* or 1 (still moving) with a negative or positive delta; and a report with
\* a bare-number delta that convert_string2float cannot parse.
MCInspectOutputs ==
    { << R(r1, 0, TRUE, d1), R(r2, 0, TRUE, d2), R(r3, s, n, <<"1", "k">>) >> :
          d1 \in MCDeltas, d2 \in MCDeltas, s \in {0, 1}, n \in BOOLEAN }
    \cup
    { << R(r3, s, TRUE, <<"1", "k">>), R(r2, 0, TRUE, d), R(r1, 0, TRUE, d) >> :
          s \in {0, 1}, d \in MCDeltas }
    \cup
    { << R(r3, 0, FALSE, <<"2", "k">>), R(r1, 0, TRUE, <<"5">>) >> }

=============================================================================
