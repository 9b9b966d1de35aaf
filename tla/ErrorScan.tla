----------------------------- MODULE ErrorScan -----------------------------
(***************************************************************************)
(* Error Extractor and Cleanup Selector: the single passes over a warmer   *)
(* log in src/lserver/lmgmt/lmgmt.py (warmer_errors_rid_table,             *)
(* warmer_errors_write, warmer_errors_rid_fname) and src/src/mgmt/lmgmt.py *)
(* (warmer_rm_cleanup, driven by src/src/mgmt/warmer_cleanup.py).          *)
(*                                                                         *)
(* The log is complete and does not change during the scan (see LogLocator *)
(* for when that fails).  A line is abstracted to the fields the patterns  *)
(* extract:                                                                *)
(*   alloc  : "ERROR: <file> cap=ibp://<host>:<port>/<rid>#..."            *)
(*   alloc_head : "ERROR: <file> cap=ibp..." cut before the "#" that ends   *)
(*            the RID (a line the warmer has not finished writing)         *)
(*   write  : "... WRITE_ERROR for file <file>"                            *)
(*   torn   : "... WRITE_ERROR for file" with nothing after it (a line the *)
(*            warmer has not finished writing)                             *)
(*   failed : "<a> <b> <c> <file> ... Failed ... on <k> out of <n> ..."    *)
(*   other  : anything the scans skip                                      *)
(* The numbers k and n of a "failed" line are kept as their decimal digit  *)
(* strings, because warmer_rm_cleanup matches them as substrings.          *)
(***************************************************************************)
EXTENDS Naturals, Sequences, SequencesExt, FiniteSets

CONSTANTS
    Logs,      \* the logs a scan may be run on
    RIDs,      \* resource ids appearing in caps
    Scans      \* the scan functions an invocation may run

ASSUME Scans \subseteq {"rid_table", "write", "rid_fname", "cleanup"}

(***************************************************************************)
(* rm_match of warmer_rm_cleanup: "on k out of n" for these (k, n).        *)
(***************************************************************************)
RmMatch ==
    { [k |-> <<"9">>, n |-> <<"9">>],             [k |-> <<"8">>, n |-> <<"9">>],
      [k |-> <<"1", "8">>, n |-> <<"1", "8">>],   [k |-> <<"1", "7">>, n |-> <<"1", "8">>],
      [k |-> <<"2", "7">>, n |-> <<"2", "7">>],   [k |-> <<"2", "6">>, n |-> <<"2", "7">>] }

VARIABLES
    log,       \* the lines of the log file
    scan,      \* which function this invocation runs
    pc,        \* "confirm", "scan", "done", "aborted", "crashed"
    i,         \* index of the next line `for line in f` yields
    ridTable,  \* warmer_errors_rid_table's dict, 0 for an absent key
    w,         \* warmer_errors_write's list
    flist,     \* warmer_errors_rid_fname's dict keys
    debug,     \* warmer_cleanup.py --test: pipe to cat instead of lio_rm
    sent       \* names written to the stdin of lio_rm (or cat)

vars == <<log, scan, pc, i, ridTable, w, flist, debug, sent>>

TypeOK ==
    /\ log \in Logs
    /\ scan \in Scans
    /\ pc \in {"confirm", "scan", "done", "aborted", "crashed"}
    /\ i \in 1..Len(log) + 1
    /\ ridTable \in [RIDs -> 0..Len(log)]
    /\ \A j \in 1..Len(w) : w[j] \in {l.file : l \in Range(log)}
    /\ Len(sent) <= Len(log)
    /\ debug \in BOOLEAN

Line == log[i]

(***************************************************************************)
(* warmer_errors_rid_table, lines 209-217: a line containing 'ERROR:'      *)
(* whose cap matches cap=ibp://host:port/(rid)# adds one to the RID.      *)
(***************************************************************************)
\* Mutant: the RID regex without the closing "#".
RidTableLineNoHash ==
    /\ pc = "scan" /\ scan = "rid_table" /\ i <= Len(log)
    /\ ridTable' = IF Line.kind \in {"alloc", "alloc_head"}
                   THEN [ridTable EXCEPT ![Line.rid] = @ + 1]
                   ELSE ridTable
    /\ i' = i + 1
    /\ UNCHANGED <<log, scan, pc, w, flist, debug, sent>>

RidTableLine ==
    /\ pc = "scan" /\ scan = "rid_table" /\ i <= Len(log)
    /\ ridTable' = IF Line.kind = "alloc"
                   THEN [ridTable EXCEPT ![Line.rid] = @ + 1]
                   ELSE ridTable
    /\ i' = i + 1
    /\ UNCHANGED <<log, scan, pc, w, flist, debug, sent>>

(***************************************************************************)
(* warmer_errors_write, lines 247-251: append the name after               *)
(* "WRITE_ERROR for file ", duplicates kept.                               *)
(***************************************************************************)
WriteLine ==
    /\ pc = "scan" /\ scan = "write" /\ i <= Len(log)
    /\ Line.kind # "torn"
    /\ w' = IF Line.kind = "write" THEN Append(w, Line.file) ELSE w
    /\ i' = i + 1
    /\ UNCHANGED <<log, scan, pc, ridTable, flist, debug, sent>>

\* The substring test passes but the regex needs the space after "file":
\* fname is None and fname.group(1) raises AttributeError.
WriteLineCrash ==
    /\ pc = "scan" /\ scan = "write" /\ i <= Len(log)
    /\ Line.kind = "torn"
    /\ pc' = "crashed"
    /\ UNCHANGED <<log, scan, i, ridTable, w, flist, debug, sent>>

(***************************************************************************)
(* warmer_errors_rid_fname, lines 280-284: ^ERROR: (name) cap=ibp keys a   *)
(* dict, so repeated names collapse.                                       *)
(***************************************************************************)
RidFnameLine ==
    /\ pc = "scan" /\ scan = "rid_fname" /\ i <= Len(log)
    /\ flist' = IF Line.kind \in {"alloc", "alloc_head"} THEN flist \cup {Line.file} ELSE flist
    /\ i' = i + 1
    /\ UNCHANGED <<log, scan, pc, ridTable, w, debug, sent>>

(***************************************************************************)
(* warmer_rm_cleanup, src/src/mgmt/lmgmt.py lines 88-95: a line with       *)
(* 'Failed' and any rm_match string has its 4th token written to the      *)
(* child once (break).  `rm in line` is a substring test: "on k out of n"  *)
(* occurs in the line when k is the line's count and n's digits start the  *)
(* line's total.                                                           *)
(***************************************************************************)
RmIn(rm, l) == rm.k = l.k /\ IsPrefix(rm.n, l.n)

\* Mutant: `return` where the code has `break`: the scan ends at the
\* first selected line.
CleanupLineReturn ==
    /\ pc = "scan" /\ scan = "cleanup" /\ i <= Len(log)
    /\ IF Line.kind = "failed" /\ \E rm \in RmMatch : RmIn(rm, Line)
       THEN sent' = Append(sent, Line.file) /\ pc' = "done"
       ELSE sent' = sent /\ pc' = pc
    /\ i' = i + 1
    /\ UNCHANGED <<log, scan, ridTable, w, flist, debug>>

CleanupLine ==
    /\ pc = "scan" /\ scan = "cleanup" /\ i <= Len(log)
    /\ sent' = IF Line.kind = "failed" /\ \E rm \in RmMatch : RmIn(rm, Line)
               THEN Append(sent, Line.file)
               ELSE sent
    /\ i' = i + 1
    /\ UNCHANGED <<log, scan, pc, ridTable, w, flist, debug>>

\* End of file: the function returns its result.
ScanEOF ==
    /\ pc = "scan" /\ i > Len(log)
    /\ pc' = "done"
    /\ UNCHANGED <<log, scan, i, ridTable, w, flist, debug, sent>>

(***************************************************************************)
(* warmer_cleanup.py lines 16-19: without -y or --test ask first; any      *)
(* answer but "y" exits before warmer_rm_cleanup runs.                     *)
(***************************************************************************)
Confirm ==
    /\ pc = "confirm"
    /\ \E response \in {"y", "n"} :
          pc' = IF response = "y" THEN "scan" ELSE "aborted"
    /\ UNCHANGED <<log, scan, i, ridTable, w, flist, debug, sent>>

Init ==
    /\ log \in Logs
    /\ scan \in Scans
    /\ debug \in (IF scan = "cleanup" THEN BOOLEAN ELSE {FALSE})
    /\ \E yes \in BOOLEAN :
          pc = IF scan = "cleanup" /\ ~yes /\ ~debug THEN "confirm" ELSE "scan"
    /\ i = 1
    /\ ridTable = [r \in RIDs |-> 0]
    /\ w = <<>>
    /\ flist = {}
    /\ sent = <<>>

Next ==
    \/ Confirm \/ RidTableLine \/ WriteLine \/ WriteLineCrash
    \/ RidFnameLine \/ CleanupLine \/ ScanEOF

Spec == Init /\ [][Next]_vars

-----------------------------------------------------------------------------
(***************************************************************************)
(* Properties                                                              *)
(***************************************************************************)

\* The line says every allocation (or all but one of 9, 18, 27) failed:
\* its (k, n) is exactly a pair of rm_match.
AllLost(l) == l.kind = "failed" /\ [k |-> l.k, n |-> l.n] \in RmMatch

(***************************************************************************)
(* Spec 4.3, the three extractor results as functions of the whole log:    *)
(* the tally counts error lines whose cap carries "/TOKEN#"; the write     *)
(* list holds the names of "WRITE_ERROR for file X" lines in log order,    *)
(* duplicates kept; the allocation set holds X of "^ERROR: X cap=ibp..."   *)
(* lines.                                                                  *)
(***************************************************************************)
SpecTally == [r \in RIDs |-> Cardinality({j \in 1..Len(log) :
                                 log[j].kind = "alloc" /\ log[j].rid = r})]

SpecWrites ==
    LET ws == SelectSeq(log, LAMBDA l : l.kind = "write")
    IN [j \in 1..Len(ws) |-> ws[j].file]

SpecAllocs == {log[j].file : j \in {j \in 1..Len(log) : log[j].kind \in {"alloc", "alloc_head"}}}

\* Each scan that reaches end of file returns what spec 4.3 defines for the
\* log it read.
ExtractorMatchesSpec ==
    pc = "done" =>
        /\ scan = "rid_table" => ridTable = SpecTally
        /\ scan = "write" => w = SpecWrites
        /\ scan = "rid_fname" => flist = SpecAllocs

\* Every file the log reports lost on all (or all but one) of its 9, 18 or
\* 27 allocations is handed to lio_rm, once per such line, in log order.
CleanupSelectsAllLost ==
    pc = "done" /\ scan = "cleanup" =>
        LET lost == SelectSeq(log, AllLost)
        IN \E idx \in [1..Len(lost) -> 1..Len(sent)] :
              /\ \A a, b \in 1..Len(lost) : a < b => idx[a] < idx[b]
              /\ \A a \in 1..Len(lost) : sent[idx[a]] = lost[a].file

\* warmer_rm_cleanup's docstring: only files that are unrecoverable are
\* removed, i.e. every name sent comes from a line with an rm_match pair.
CleanupOnlyAllLost ==
    \A j \in 1..Len(sent) : \E l \in Range(log) : AllLost(l) /\ l.file = sent[j]

=============================================================================
