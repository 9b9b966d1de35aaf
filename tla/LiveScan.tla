------------------------------ MODULE LiveScan ------------------------------
(***************************************************************************)
(* A whole warmer_errors.py / warmer_cleanup.py invocation: the Log        *)
(* Locator (LogLocator) picks and opens a log, and one Error Extractor or  *)
(* Cleanup Selector scan (ErrorScan) reads it line by line, while the      *)
(* warmer keeps appending to the log of its current run.                   *)
(*                                                                         *)
(* Run k's log is the sequence of complete lines runLog[k].  The warmer    *)
(* appends the live run's lines one at a time, each in two writes: a head  *)
(* and the rest of the line (the tail).  Python's `for line in f` yields   *)
(* the head as a line when it reaches end of file between the two writes, *)
(* and then yields the tail as a line of its own once it is written.  The  *)
(* scan's view of the file, ReadLog, is that sequence of lines, and the    *)
(* ErrorScan per-line actions run on it in place of ErrorScan's log.       *)
(***************************************************************************)
EXTENDS Naturals, Sequences, SequencesExt, FiniteSets

CONSTANTS
    None, MaxRuns, ConfigChoices, Variants,   \* as in LogLocator
    RunLogs,   \* the logs a warmer run may write
    RIDs,      \* as in ErrorScan
    Junk,      \* a token of a line that is not a whole file name
    WarmerMayDie \* may lio_warm be killed in the middle of a run?

VARIABLES
    warmer, runs, variant, cfg, location, pc, logPath, viaAuto, probeRun,
    opened, readAll,                          \* LogLocator
    runLog,    \* [0..MaxRuns -> RunLogs]: the lines each run writes
    written,   \* lines of the live run written completely
    partial,   \* None, or the [head, tail] split of the line being written
    cuts,      \* lines the scan read as a head: {[at, head, tail]}, the tail
               \* None if the warmer died before writing it
    liveAtOpen,\* was the opened run still being written when it was opened?
    scan, spc, i, ridTable, w, flist, debug, sent   \* ErrorScan (spc is its pc)

locVars == <<warmer, runs, variant, cfg, location, pc, logPath, viaAuto,
             probeRun, opened, readAll>>
logVars == <<runLog, written, partial, liveAtOpen>>
scanVars == <<scan, spc, i, ridTable, w, flist, debug, sent, cuts>>
vars == <<locVars, logVars, scanVars>>

L == INSTANCE LogLocator

(***************************************************************************)
(* Where the warmer may split a line between two writes, as the scans see *)
(* the two parts.  A part that lacks the text a pattern needs is Blank.    *)
(*   alloc  ("ERROR: f cap=ibp://h:p/r#..."): the line starts with the     *)
(*          marker, so a head holds nothing, "ERROR: f cap=ibp" without   *)
(*          the "#" (alloc_head), or the whole match; the tail never      *)
(*          matches.                                                       *)
(*   write  ("... WRITE_ERROR for file f"): cut before the marker (the    *)
(*          tail matches), inside it (nothing matches), right after      *)
(*          "file" (torn), or inside the name (a head naming Junk).       *)
(*   failed ("a b c f ... Failed ... on k out of n ..."): cut inside the  *)
(*          first token (the tail's 4th token is still f), later before   *)
(*          "Failed" (the tail's 4th token is another word: Junk), between *)
(*          "Failed" and the count, inside n (a head with n cut short),    *)
(*          or after the count (the head matches as the line does).        *)
(***************************************************************************)
Blank == [kind |-> "other", file |-> None, rid |-> None, k |-> <<>>, n |-> <<>>]

Split(h, t) == [head |-> h, tail |-> t]

Splits(l) ==
    CASE l.kind = "alloc" ->
            { Split(Blank, Blank), Split([l EXCEPT !.kind = "alloc_head"], Blank),
              Split(l, Blank) }
      [] l.kind = "write" ->
            { Split(Blank, l), Split(Blank, Blank),
              Split([l EXCEPT !.kind = "torn"], Blank),
              Split([l EXCEPT !.file = Junk], Blank) }
      [] l.kind = "failed" ->
            { Split(Blank, l), Split(Blank, [l EXCEPT !.file = Junk]),
              Split(Blank, Blank), Split(l, Blank) }
            \cup { Split([l EXCEPT !.n = SubSeq(l.n, 1, c)], Blank) : c \in 1..Len(l.n) - 1 }
      [] OTHER -> { Split(Blank, Blank) }

\* The opened run is the one the warmer is still appending to.
Live == opened = runs /\ warmer = "running"

LineDone(j) == ~Live \/ j <= written

\* Lines of the opened run that have reached the file, the last perhaps
\* only as its head.
Shown == IF Live THEN written + (IF partial = None THEN 0 ELSE 1)
         ELSE Len(runLog[opened])

\* What `for line in f` yields for line j of the opened run.
Piece(j) ==
    IF \E c \in cuts : c.at = j
    THEN LET c == CHOOSE c \in cuts : c.at = j
         IN <<c.head>> \o (IF LineDone(j) /\ c.tail # None THEN <<c.tail>> ELSE <<>>)
    ELSE IF LineDone(j) THEN <<runLog[opened][j]>> ELSE <<partial.head>>

\* The lines the scan's file handle yields, up to the current end of file.
ReadLog == IF opened = None THEN <<>> ELSE FlattenSeq([j \in 1..Shown |-> Piece(j)])

\* The scan is about to read the head of the line being written.
ReadsHead == Live /\ partial # None /\ i = Len(ReadLog)
             /\ ~\E c \in cuts : c.at = written + 1

\* The scan scripts and the scans they run: warmer_errors.py runs the RID
\* table, -w the write list, and (lserver only) -r the allocation-error
\* names; warmer_cleanup.py (legacy only) runs warmer_rm_cleanup.
ScansOf(v) ==
    IF v = "lserver" THEN {"rid_table", "write", "rid_fname"}
    ELSE {"rid_table", "write", "cleanup"}

E == INSTANCE ErrorScan WITH log <- ReadLog, pc <- spc, Logs <- RunLogs,
                             Scans <- {"rid_table", "write", "rid_fname", "cleanup"}

\* Names a scan may report: the files of the logs' lines, and Junk.
Names == UNION {{l.file : l \in Range(g)} : g \in RunLogs} \cup {Junk}

\* Lines a log may hold: whole lines, and the head a killed warmer leaves.
LogLines == UNION {Range(g) : g \in RunLogs}
            \cup {s.head : s \in UNION {Splits(l) : l \in UNION {Range(g) : g \in RunLogs}}}

TypeOK ==
    /\ L!TypeOK
    /\ runLog \in [0..MaxRuns -> Seq(LogLines)]
    /\ written \in 0..Len(runLog[runs])
    /\ partial = None \/ partial \in Splits(runLog[runs][written + 1])
    /\ liveAtOpen \in BOOLEAN
    /\ scan \in ScansOf(variant)
    /\ spc \in {"confirm", "scan", "done", "aborted", "crashed"}
    /\ i \in 1..Len(ReadLog) + 1
    /\ \A j \in 1..Len(w) : w[j] \in Names
    /\ \A j \in 1..Len(sent) : sent[j] \in Names

(***************************************************************************)
(* The invocation.  Option processing is LogLocator's; warmer_cleanup.py   *)
(* asks its question after options_process and before the scan opens the  *)
(* log; the scan opens the log, reads it, and stops at end of file.        *)
(***************************************************************************)
Options ==
    /\ L!Import \/ L!OptionsProcessLServer \/ L!OptionsProcessKeyError
       \/ L!OptionsProcessLegacy
    /\ UNCHANGED <<logVars, scanVars>>

Confirm ==
    /\ pc = "open"
    /\ UNCHANGED <<locVars, logVars, cuts>>
    /\ E!Confirm

OpenLog ==
    /\ spc = "scan"
    /\ L!OpenLog
    /\ liveAtOpen' = ~L!RunComplete(L!PathRun(logPath))
    /\ UNCHANGED <<runLog, written, partial, scanVars>>

ScanLine ==
    /\ pc = "scan"
    /\ cuts' = IF ReadsHead
               THEN cuts \cup {[at |-> written + 1, head |-> partial.head,
                                tail |-> partial.tail]}
               ELSE cuts
    /\ UNCHANGED <<locVars, logVars>>
    /\ \/ E!RidTableLine \/ E!WriteLine \/ E!WriteLineCrash
       \/ E!RidFnameLine \/ E!CleanupLine

ScanEnd ==
    /\ pc = "scan"
    /\ L!ScanToEOF
    /\ UNCHANGED <<logVars, cuts>>
    /\ E!ScanEOF

(***************************************************************************)
(* The warmer: a run starts (rotating the logs), appends its lines, each   *)
(* in two writes, and finishes.                                            *)
(***************************************************************************)
WarmerStart ==
    /\ L!WarmerStart
    /\ written' = 0
    /\ partial' = None
    /\ UNCHANGED <<runLog, liveAtOpen, scanVars>>

WarmerWriteHead ==
    /\ warmer = "running"
    /\ partial = None
    /\ written < Len(runLog[runs])
    /\ partial' \in Splits(runLog[runs][written + 1])
    /\ UNCHANGED <<locVars, runLog, written, liveAtOpen, scanVars>>

WarmerWriteTail ==
    /\ partial # None
    /\ written' = written + 1
    /\ partial' = None
    /\ UNCHANGED <<locVars, runLog, liveAtOpen, scanVars>>

WarmerFinish ==
    /\ written = Len(runLog[runs])
    /\ partial = None
    /\ L!WarmerFinish
    /\ UNCHANGED <<logVars, scanVars>>

\* lio_warm is killed (or its node goes down) between the two writes of a
\* line: the log keeps the lines written so far and the head as its last
\* line; the tail a scan is waiting for never comes, and pgrep/psutil now
\* report no warmer.  (A kill between two lines leaves whole lines only,
\* which the scans read like any finished log.)
WarmerKilled ==
    /\ WarmerMayDie
    /\ partial # None
    /\ L!WarmerFinish
    /\ runLog' = [runLog EXCEPT ![runs] = SubSeq(@, 1, written) \o <<partial.head>>]
    /\ written' = Len(runLog'[runs])
    /\ partial' = None
    /\ cuts' = {IF c.at = written + 1 /\ opened = runs THEN [c EXCEPT !.tail = None] ELSE c
              : c \in cuts}
    /\ UNCHANGED <<liveAtOpen, scan, spc, i, ridTable, w, flist, debug, sent>>

Init ==
    /\ L!Init
    \* Every run writes the same lines: the properties compare a scan with
    \* the run it opened, never two runs' contents.
    /\ runLog \in {[k \in 0..MaxRuns |-> g] : g \in RunLogs}
    /\ written \in IF warmer = "running" THEN 0..Len(runLog[1]) ELSE {Len(runLog[1])}
    /\ partial = None
    /\ liveAtOpen = FALSE
    /\ scan \in ScansOf(variant)
    /\ debug \in IF scan = "cleanup" THEN BOOLEAN ELSE {FALSE}
    /\ \E yes \in BOOLEAN :
          spc = IF scan = "cleanup" /\ ~yes /\ ~debug THEN "confirm" ELSE "scan"
    /\ i = 1
    /\ ridTable = [r \in RIDs |-> 0]
    /\ w = <<>>
    /\ flist = {}
    /\ sent = <<>>
    /\ cuts = {}

ToolNext == Options \/ Confirm \/ OpenLog \/ ScanLine \/ ScanEnd

Next ==
    \/ ToolNext
    \/ WarmerStart \/ WarmerWriteHead \/ WarmerWriteTail \/ WarmerFinish
    \/ WarmerKilled

\* Only safety is checked: the scripts end unless a child hangs, and a hung
\* child (no timeout on any pipe) is outside the model.
Spec == Init /\ [][Next]_vars

-----------------------------------------------------------------------------
(***************************************************************************)
(* Properties                                                              *)
(***************************************************************************)

\* warmer_paths_set probes the process table and the scan's open() comes
\* later.  When an AUTO-resolved scan opens a log the warmer is still
\* writing, that run started after the probe: the probe itself never picks
\* the live log, only a warmer start between probe and open() does.
AutoLiveOnlyAfterRestart ==
    (viaAuto /\ liveAtOpen) => opened > probeRun

\* On a run that was complete when warmer_rm_cleanup opened it, every file
\* the log reports lost on all (or all but one) allocations reaches lio_rm,
\* once per such line, in log order.
CleanupSelectsAllLostWhenComplete ==
    ~liveAtOpen => E!CleanupSelectsAllLost

\* On a run that was complete when it was opened (a run whose warmer was
\* killed included), the RID tally, the write list and the allocation-error
\* set are what spec 4.3 defines for the lines the scan read.
ExtractorMatchesSpecWhenComplete ==
    ~liveAtOpen => E!ExtractorMatchesSpec

\* Spec 4.6: warmer_rm_cleanup hands lio_rm the 4th token of a Failed line,
\* the name of a file the run logged.  (Violated when the scan reads the
\* run the warmer is appending to: the remainder of a line cut early is
\* read as a line, and its 4th token is another word.)
CleanupSendsLoggedNames ==
    \A j \in 1..Len(sent) : \E l \in Range(runLog[opened]) :
        l.kind = "failed" /\ l.file = sent[j]

\* Spec 7: scan-level regex mismatches are not errors, the line is skipped.
\* warmer_errors_write tests 'WRITE_ERROR for file' in line and then calls
\* .group(1) on the regex search, which is None for a line that ends right
\* after "file" (a line being written, or left so by a killed warmer).
\* (Violated: AttributeError.)
ScansSkipUnmatchedLines == spc # "crashed"

=============================================================================
