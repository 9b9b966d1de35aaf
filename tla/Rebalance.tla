----------------------------- MODULE Rebalance -----------------------------
(***************************************************************************)
(* Rebalance Planner of src/lserver/lmgmt/lmgmt.py (warmer_query.py        *)
(* --rebalance): rid_rebalance_table() writes /tmp/inspect.cfg, runs       *)
(* lio_inspect on it and parses its output into [RID, bytes] rows;         *)
(* rid_rebalance_file_list() then runs warmer_query -r RID -b bytes for    *)
(* each row and collects the file names it prints into one dict.           *)
(*                                                                         *)
(* Several invocations (Procs) may run at once: they share the fixed path  *)
(* /tmp/inspect.cfg.  The two child programs are external; their output is *)
(* modelled from the spec (6) and the docstrings: lio_inspect prints one   *)
(* row per RID when it read the shuffle config and none otherwise;         *)
(* warmer_query prints the RID's files in its database order and stops     *)
(* once the bytes printed exceed the -b budget.                            *)
(***************************************************************************)
EXTENDS Integers, Sequences, SequencesExt, FiniteSets, UnitParse

CONSTANTS
    Procs,          \* concurrent lmgmt invocations
    RIDs,           \* resources
    Files,          \* file names
    DB,             \* [RIDs -> Seq([file, size])]: warmer_query's order per RID
    InspectOutputs, \* possible lio_inspect row sequences for the full config
    QueryMayFail,   \* can a warmer_query child die before printing everything?
    BadFiles,       \* files with missing allocations (what -f/-s select on)
    WriteErrFiles   \* files with write errors (what -w selects)

Row == [rid : RIDs, state : {0, 1}, neg : BOOLEAN, delta : Seq(STRING)]
ASSUME InspectOutputs \subseteq Seq(Row)
ASSUME \A r \in RIDs : \A k \in 1..Len(DB[r]) : DB[r][k].file \in Files
ASSUME QueryMayFail \in BOOLEAN
ASSUME BadFiles \subseteq Files /\ WriteErrFiles \subseteq Files

VARIABLES
    cfgFile,   \* contents of /tmp/inspect.cfg: "absent", "empty" or "full"
    inspect,   \* the rows lio_inspect prints when it reads the full config
    pc,        \* per invocation: where it is
    out,       \* per invocation: inspector lines not yet read by the parent
    rows,      \* per invocation: the rid list built by rid_rebalance_table
    qi,        \* per invocation: index of the row being queried
    qout,      \* per invocation: warmer_query lines not yet read
    files      \* per invocation: the files dict of rid_rebalance_file_list

vars == <<cfgFile, inspect, pc, out, rows, qi, qout, files>>

PCs == {"start", "flush", "inspecting", "parse", "query", "reading", "done", "crashed"}

(***************************************************************************)
(* Bytes as a whole number: the parser's m * 2^a * 5^b with a, b >= 0.      *)
(***************************************************************************)
Bytes(x) == x.m * Pow(2, x.a) * Pow(5, x.b)

TypeOK ==
    /\ cfgFile \in {"absent", "empty", "full"}
    /\ inspect \in InspectOutputs
    /\ pc \in [Procs -> PCs]
    /\ qi \in [Procs -> Nat]
    /\ files \in [Procs -> SUBSET Files]
    /\ DOMAIN out = Procs /\ DOMAIN rows = Procs /\ DOMAIN qout = Procs
    /\ \A p \in Procs :
          /\ IsSuffix(out[p], inspect)
          /\ \A k \in 1..Len(rows[p]) : rows[p][k] \in [rid : RIDs, size : Nat]
          /\ \A k \in 1..Len(qout[p]) : qout[p][k].file \in Files

(***************************************************************************)
(* The Resource Query Adapter: warmer_query()'s mode-to-flag translation   *)
(* and what the program selects for those flags.                           *)
(***************************************************************************)
WQ == INSTANCE WarmerQuery
        WITH DBOrder <- <<>>, Modes <- {}, Bad <- BadFiles, WriteErr <- WriteErrFiles,
             mode <- 0, flags <- {}, out <- <<>>, printed <- {}, pc <- "start"

\* warmer_query_add, line 409: every query of a rebalance passes WQ_ALL.
RebalanceMode == WQ!WQ_ALL

(***************************************************************************)
(* warmer_query (external): print one "name|size|..." line per file, in   *)
(* database order, stopping once the running total exceeds `budget`; no -b *)
(* flag (budget <= 0) means print everything.  A line is the DB entry.     *)
(***************************************************************************)
RECURSIVE PrintUpTo(_, _, _)
PrintUpTo(entries, budget, total) ==
    IF entries = <<>> \/ (budget > 0 /\ total > budget) THEN <<>>
    ELSE <<Head(entries)>> \o
         PrintUpTo(Tail(entries), budget, total + Head(entries).size)

QueryOutput(rid, budget) ==
    PrintUpTo(SelectSeq(DB[rid], LAMBDA e : WQ!ToolSelects(WQ!WQFlags(RebalanceMode), e.file)),
              budget, 0)

(***************************************************************************)
(* rid_rebalance_table, lines 378-386: open("/tmp/inspect.cfg", "w")       *)
(* truncates the shared file; the two fd.write calls are buffered until    *)
(* fd.flush(), after which lio_inspect is started.                         *)
(***************************************************************************)
OpenCfg(p) ==
    /\ pc[p] = "start"
    /\ cfgFile' = "empty"
    /\ pc' = [pc EXCEPT ![p] = "flush"]
    /\ UNCHANGED <<inspect, out, rows, qi, qout, files>>

FlushAndLaunch(p) ==
    /\ pc[p] = "flush"
    /\ cfgFile' = "full"
    /\ pc' = [pc EXCEPT ![p] = "inspecting"]
    /\ UNCHANGED <<inspect, out, rows, qi, qout, files>>

\* The lio_inspect child reads the config file whenever it gets to it.
InspectReadsCfg(p) ==
    /\ pc[p] = "inspecting"
    /\ out' = [out EXCEPT ![p] = IF cfgFile = "full" THEN inspect ELSE <<>>]
    /\ pc' = [pc EXCEPT ![p] = "parse"]
    /\ UNCHANGED <<cfgFile, inspect, rows, qi, qout, files>>

(***************************************************************************)
(* rid_rebalance_table, lines 388-394: for each output line, keep it when  *)
(* it contains "STATE: 0" and matches RID:...DELTA: -<size> ; the size is  *)
(* converted with convert_string2float, which may raise.                   *)
(***************************************************************************)
Captured(l) == l.state = 0 /\ l.neg

\* convert_string2float of every delta string lio_inspect may print,
\* evaluated once.
DeltaStrings == UNION {{o[k].delta : k \in 1..Len(o)} : o \in InspectOutputs}
Converted == [d \in DeltaStrings |-> convert_string2float(d)]

ParseRow(p) ==
    LET l == Head(out[p])
        v == Converted[l.delta]
    IN /\ pc[p] = "parse"
       /\ out[p] # <<>>
       /\ Captured(l)
       /\ v.exc = "none"
       /\ rows' = [rows EXCEPT ![p] = Append(@, [rid |-> l.rid, size |-> Bytes(v)])]
       /\ out' = [out EXCEPT ![p] = Tail(@)]
       /\ UNCHANGED <<cfgFile, inspect, pc, qi, qout, files>>

ParseSkip(p) ==
    /\ pc[p] = "parse"
    /\ out[p] # <<>>
    /\ ~Captured(Head(out[p]))
    /\ out' = [out EXCEPT ![p] = Tail(@)]
    /\ UNCHANGED <<cfgFile, inspect, pc, rows, qi, qout, files>>

ParseRaise(p) ==
    /\ pc[p] = "parse"
    /\ out[p] # <<>>
    /\ Captured(Head(out[p]))
    /\ Converted[Head(out[p]).delta].exc # "none"
    /\ pc' = [pc EXCEPT ![p] = "crashed"]
    /\ UNCHANGED <<cfgFile, inspect, out, rows, qi, qout, files>>

\* End of lio_inspect's output: rid_rebalance_file_list starts; its exit
\* status is never looked at.
ParseEOF(p) ==
    /\ pc[p] = "parse"
    /\ out[p] = <<>>
    /\ pc' = [pc EXCEPT ![p] = "query"]
    /\ qi' = [qi EXCEPT ![p] = 1]
    /\ UNCHANGED <<cfgFile, inspect, out, rows, qout, files>>

(***************************************************************************)
(* rid_rebalance_file_list / warmer_query_add / warmer_query: for each row *)
(* launch warmer_query with mode WQ_ALL (no filter flags) and -b size when *)
(* size > 0, then read its lines until EOF, adding line.split("|")[0] to   *)
(* the files dict.  A child that dies early just ends its output: the      *)
(* return code is never checked.                                           *)
(***************************************************************************)
\* Mutant: a fresh files dict for every row.
QueryLaunchFreshDict(p) ==
    /\ pc[p] = "query"
    /\ qi[p] <= Len(rows[p])
    /\ LET full == QueryOutput(rows[p][qi[p]].rid, rows[p][qi[p]].size)
       IN \E n \in (IF QueryMayFail THEN 0..Len(full) ELSE {Len(full)}) :
             qout' = [qout EXCEPT ![p] = SubSeq(full, 1, n)]
    /\ files' = [files EXCEPT ![p] = {}]
    /\ pc' = [pc EXCEPT ![p] = "reading"]
    /\ UNCHANGED <<cfgFile, inspect, out, rows, qi>>

QueryLaunch(p) ==
    /\ pc[p] = "query"
    /\ qi[p] <= Len(rows[p])
    /\ LET full == QueryOutput(rows[p][qi[p]].rid, rows[p][qi[p]].size)
       IN \E n \in (IF QueryMayFail THEN 0..Len(full) ELSE {Len(full)}) :
             qout' = [qout EXCEPT ![p] = SubSeq(full, 1, n)]
    /\ pc' = [pc EXCEPT ![p] = "reading"]
    /\ UNCHANGED <<cfgFile, inspect, out, rows, qi, files>>

\* Mutant: the whole line is the key, without split("|")[0].
QueryReadLineWholeLine(p) ==
    /\ pc[p] = "reading"
    /\ qout[p] # <<>>
    /\ files' = [files EXCEPT ![p] = @ \cup {Head(qout[p])}]
    /\ qout' = [qout EXCEPT ![p] = Tail(@)]
    /\ UNCHANGED <<cfgFile, inspect, pc, out, rows, qi>>

QueryReadLine(p) ==
    /\ pc[p] = "reading"
    /\ qout[p] # <<>>
    /\ files' = [files EXCEPT ![p] = @ \cup {Head(qout[p]).file}]
    /\ qout' = [qout EXCEPT ![p] = Tail(@)]
    /\ UNCHANGED <<cfgFile, inspect, pc, out, rows, qi>>

QueryEOF(p) ==
    /\ pc[p] = "reading"
    /\ qout[p] = <<>>
    /\ qi' = [qi EXCEPT ![p] = @ + 1]
    /\ pc' = [pc EXCEPT ![p] = "query"]
    /\ UNCHANGED <<cfgFile, inspect, out, rows, qout, files>>

\* All rows queried: rid_rebalance_file_list_print prints the dict.
QueryAllDone(p) ==
    /\ pc[p] = "query"
    /\ qi[p] > Len(rows[p])
    /\ pc' = [pc EXCEPT ![p] = "done"]
    /\ UNCHANGED <<cfgFile, inspect, out, rows, qi, qout, files>>

Init ==
    /\ cfgFile \in {"absent", "full"}
    /\ inspect \in InspectOutputs
    /\ pc = [p \in Procs |-> "start"]
    /\ out = [p \in Procs |-> <<>>]
    /\ rows = [p \in Procs |-> <<>>]
    /\ qi = [p \in Procs |-> 0]
    /\ qout = [p \in Procs |-> <<>>]
    /\ files = [p \in Procs |-> {}]

Step(p) ==
    \/ OpenCfg(p) \/ FlushAndLaunch(p) \/ InspectReadsCfg(p)
    \/ ParseRow(p) \/ ParseSkip(p) \/ ParseRaise(p) \/ ParseEOF(p)
    \/ QueryLaunch(p) \/ QueryReadLine(p) \/ QueryEOF(p) \/ QueryAllDone(p)

Next == \E p \in Procs : Step(p)

\* Each invocation and its children are separate OS processes that are
\* scheduled and never block forever in these steps.
Spec == Init /\ [][Next]_vars /\ \A p \in Procs : WF_vars(Step(p))

-----------------------------------------------------------------------------
(***************************************************************************)
(* Properties                                                              *)
(***************************************************************************)

\* The abstract plan (RebalancePlan) seen through this model: an invocation
\* is working until it prints its plan or stops on an exception, and its
\* plan is the files dict.
AbsPc == [p \in Procs |-> CASE pc[p] = "done"    -> "done"
                             [] pc[p] = "crashed" -> "crashed"
                             [] OTHER             -> "working"]

Abs == INSTANCE RebalancePlan WITH apc <- AbsPc, plan <- files, ReadDelta <- Converted

\* A finished plan moves, from every RID lio_inspect reports with a negative
\* STATE 0 delta, at least that delta (or all of the RID's files when it has
\* fewer bytes): inspector config, row parsing, unit conversion, the budget
\* flag, the per-row query loop and the shared dict together must add up.
PlanCoversDeltas ==
    \A p \in Procs : pc[p] = "done" => Abs!Covers(files[p])

\* rid_rebalance_table followed by rid_rebalance_file_list implements the
\* abstract plan of spec 4.5: the files dict only grows, only by files of
\* overloaded RIDs, the invocation prints only a covering plan, it stops on
\* an exception only for an unreadable delta, and it does not stop early.
PlanRefinement == Abs!Spec

=============================================================================
