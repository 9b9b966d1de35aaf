---------------------------- MODULE WarmerQuery ----------------------------
(***************************************************************************)
(* Resource Query Adapter of src/lserver/lmgmt/lmgmt.py: warmer_query()    *)
(* turns a WQ_* selection mode into warmer_query command-line flags, and   *)
(* warmer_query_print() streams the child's output line by line.           *)
(*                                                                         *)
(* The warmer_query program is external; from spec 6 and the WQ_* comments *)
(* in lmgmt.py: -s selects files with no missing allocations, -f files     *)
(* with missing allocations, -w files with write errors (several flags:    *)
(* files any of them selects), no flag selects every file of the RID.      *)
(***************************************************************************)
EXTENDS Naturals, Sequences, SequencesExt, Bitwise

CONSTANTS
    DBOrder,   \* the RID's files in the order warmer_query prints them
    Modes      \* the selection modes callers pass

\* Warmer Query constants.
WQ_GOOD  == 1   \* Only return files that have no missing allocations
WQ_BAD   == 2   \* Only return files that have missing allocations
WQ_WRITE == 4   \* Just return files with write errors
WQ_ALL   == 3   \* Return everything

ASSUME Modes \subseteq 0..7

VARIABLES
    Bad,       \* the RID's files with missing allocations
    WriteErr,  \* the RID's files with write errors
    mode,      \* the mode argument of this call
    flags,     \* the flags appended to the task list
    out,       \* lines of the child's stdout not yet read
    printed,   \* file names printed so far
    pc

vars == <<Bad, WriteErr, mode, flags, out, printed, pc>>

Files == Range(DBOrder)

TypeOK ==
    /\ Bad \subseteq Files /\ WriteErr \subseteq Files
    /\ mode \in Modes
    /\ flags \subseteq {"-s", "-f", "-w"}
    /\ Range(out) \subseteq Files
    /\ printed \subseteq Files
    /\ pc \in {"start", "reading", "done"}

(***************************************************************************)
(* warmer_query, lines 318-324: the mode bits become flags only when       *)
(* (mode & WQ_ALL) == 0.                                                   *)
(***************************************************************************)
WQFlags(m) ==
    IF (m & WQ_ALL) = 0
    THEN {fl \in {"-s", "-f", "-w"} :
            \/ fl = "-s" /\ (m & WQ_GOOD) # 0
            \/ fl = "-f" /\ (m & WQ_BAD) # 0
            \/ fl = "-w" /\ (m & WQ_WRITE) # 0}
    ELSE {}

\* What the warmer_query program prints for a set of flags.
ToolSelects(fl, f) ==
    \/ fl = {}
    \/ "-s" \in fl /\ f \notin Bad
    \/ "-f" \in fl /\ f \in Bad
    \/ "-w" \in fl /\ f \in WriteErr

(***************************************************************************)
(* warmer_query launches the child (Popen); warmer_query_print reads its   *)
(* stdout with readline() until '' and prints each line or its first       *)
(* "|"-field.                                                              *)
(***************************************************************************)
Launch ==
    /\ pc = "start"
    /\ flags' = WQFlags(mode)
    /\ out' = SelectSeq(DBOrder, LAMBDA f : ToolSelects(WQFlags(mode), f))
    /\ pc' = "reading"
    /\ UNCHANGED <<Bad, WriteErr, mode, printed>>

ReadLine ==
    /\ pc = "reading"
    /\ out # <<>>
    /\ printed' = printed \cup {Head(out)}
    /\ out' = Tail(out)
    /\ UNCHANGED <<Bad, WriteErr, mode, flags, pc>>

ReadEOF ==
    /\ pc = "reading"
    /\ out = <<>>
    /\ pc' = "done"
    /\ UNCHANGED <<Bad, WriteErr, mode, flags, out, printed>>

Init ==
    /\ Bad \in SUBSET Files
    /\ WriteErr \in SUBSET Files
    /\ mode \in Modes
    /\ flags = {}
    /\ out = <<>>
    /\ printed = {}
    /\ pc = "start"

Next == Launch \/ ReadLine \/ ReadEOF

Spec == Init /\ [][Next]_vars

-----------------------------------------------------------------------------
\* The files a mode asks for, from the WQ_* comments: GOOD only files with
\* no missing allocations, BAD only files with missing allocations, WRITE
\* just files with write errors, ALL everything.
Wanted(m, f) ==
    CASE m = WQ_GOOD  -> f \notin Bad
      [] m = WQ_BAD   -> f \in Bad
      [] m = WQ_WRITE -> f \in WriteErr
      [] m = WQ_ALL   -> TRUE

\* Every file warmer_query_print prints is one the mode asked for, and once
\* the child's output is read every file the mode asks for was printed.
QueryHonoursMode ==
    /\ \A f \in printed : Wanted(mode, f)
    /\ pc = "done" => \A f \in Files : Wanted(mode, f) => f \in printed

=============================================================================
