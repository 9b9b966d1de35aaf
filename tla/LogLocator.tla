----------------------------- MODULE LogLocator -----------------------------
(***************************************************************************)
(* Log Locator: how one lmgmt invocation picks the warmer log it scans,    *)
(* racing with the warmer (lio_warm) that rotates and appends that log.    *)
(*                                                                         *)
(* Two variants of the code are modelled:                                  *)
(*   "lserver" : src/lserver/lmgmt/lmgmt.py  (config file, pgrep probe)     *)
(*   "legacy"  : src/src/mgmt/lmgmt.py       (hard-coded paths, psutil     *)
(*               probe run once at import time)                            *)
(*                                                                         *)
(* A warmer run is identified by its number.  The "current" path holds the *)
(* log of run `runs`, the "previous" path the log of run `runs - 1`.  A    *)
(* new run rotates current -> previous (a rename, so an already opened     *)
(* file handle keeps reading the old run) and starts writing a new current *)
(* log.  A run's log is complete once the run has finished.                *)
(***************************************************************************)
EXTENDS Naturals

CONSTANTS
    None,          \* Python None: no --current/--prev argument given
    MaxRuns,       \* bound on the number of warmer runs in a behaviour
    ConfigChoices, \* the sets of sections the lmgmt.cfg file may contain
    Variants       \* the code variants the invocation may run

ASSUME MaxRuns \in Nat \ {0}
ASSUME Variants \subseteq {"lserver", "legacy"}

\* Path selection constants (WPATH_* in both variants).
WPATH_CURR == 1
WPATH_PREV == 2
WPATH_AUTO == 3

Sections == {"config", "current", "previous"}
ASSUME ConfigChoices \subseteq SUBSET Sections

VARIABLES
    warmer,     \* "idle" or "running": what pgrep/psutil would report
    runs,       \* number of the newest warmer run (its log is at the current path)
    variant,    \* which variant of lmgmt this invocation runs
    cfg,        \* sections present in the config file that cfg.read() loaded
    location,   \* args.location: WPATH_CURR, WPATH_PREV or None
    pc,         \* where the invocation is
    logPath,    \* path_warmer_log: None, WPATH_CURR or WPATH_PREV
    viaAuto,    \* the last warmer_paths_set resolved WPATH_AUTO by probing
    probeRun,   \* value of `runs` when that probe ran
    opened,     \* number of the run whose log open(path_warmer_log) returned
    readAll     \* at EOF of the scan: was the run that was read complete?

envVars == <<warmer, runs>>
toolVars == <<variant, cfg, location, pc, logPath, viaAuto, probeRun, opened, readAll>>
vars == <<envVars, toolVars>>

PCs == {"import", "options", "open", "scan", "done", "crashed"}

TypeOK ==
    /\ warmer \in {"idle", "running"}
    /\ runs \in 1..MaxRuns
    /\ variant \in Variants
    /\ cfg \in ConfigChoices
    /\ location \in {WPATH_CURR, WPATH_PREV, None}
    /\ pc \in PCs
    /\ logPath \in {WPATH_CURR, WPATH_PREV, None}
    /\ viaAuto \in BOOLEAN
    /\ probeRun \in 0..MaxRuns
    /\ opened \in 0..MaxRuns \cup {None}
    /\ readAll \in BOOLEAN \cup {None}

(***************************************************************************)
(* The file system as the warmer leaves it.                                *)
(***************************************************************************)
\* The run whose log a path currently names.
PathRun(p) == IF p = WPATH_CURR THEN runs ELSE runs - 1

\* A run's log is complete unless that run is the one still executing.
RunComplete(k) == k < runs \/ warmer = "idle"

(***************************************************************************)
(* warmer_running(): pgrep lio_warm / psutil scan; one atomic read of the  *)
(* process table.                                                          *)
(***************************************************************************)
warmer_running == warmer = "running"

(***************************************************************************)
(* warmer_paths_set(mode): resolve WPATH_AUTO by probing, then set the log *)
(* path.  In the lserver variant the path is read from the config section  *)
(* cfg['current'] or cfg['previous']; when that section is missing the     *)
(* subscript raises KeyError.  The legacy variant uses hard-coded paths.   *)
(***************************************************************************)
\* Mutant: the probe's answer read the wrong way round.
ResolvedModeSwapped(mode) ==
    IF mode = WPATH_AUTO
    THEN IF warmer_running THEN WPATH_CURR ELSE WPATH_PREV
    ELSE mode

ResolvedMode(mode) ==
    IF mode = WPATH_AUTO
    THEN IF warmer_running THEN WPATH_PREV ELSE WPATH_CURR
    ELSE mode

SectionOf(m) == IF m = WPATH_CURR THEN "current" ELSE "previous"

\* The section that warmer_paths_set(mode) subscripts is present.
PathsSettable(mode) ==
    variant = "lserver" => SectionOf(ResolvedMode(mode)) \in cfg

\* Mutant: the mode is stored without resolving WPATH_AUTO.
warmer_paths_set_unresolved(mode) ==
    /\ logPath' = mode
    /\ viaAuto' = (mode = WPATH_AUTO)
    /\ probeRun' = IF mode = WPATH_AUTO THEN runs ELSE probeRun

warmer_paths_set(mode) ==
    /\ logPath' = ResolvedMode(mode)
    /\ viaAuto' = (mode = WPATH_AUTO)
    /\ probeRun' = IF mode = WPATH_AUTO THEN runs ELSE probeRun

(***************************************************************************)
(* Legacy module body: `warmer_paths_set(WPATH_AUTO)` runs when lmgmt is   *)
(* imported, before the script parses its arguments.                       *)
(***************************************************************************)
Import ==
    /\ pc = "import"
    /\ warmer_paths_set(WPATH_AUTO)
    /\ pc' = "options"
    /\ UNCHANGED <<envVars, variant, cfg, location, opened, readAll>>

(***************************************************************************)
(* options_process(args), lserver variant: BPREFIX = cfg['config'].get()   *)
(* then warmer_paths_set(args.location or WPATH_AUTO).  A config file      *)
(* without a [config] section (or no file at all) raises KeyError, as does *)
(* a missing [current]/[previous] section in warmer_paths_set.             *)
(***************************************************************************)
ArgMode == IF location # None THEN location ELSE WPATH_AUTO

OptionsProcessLServer ==
    /\ pc = "options"
    /\ variant = "lserver"
    /\ "config" \in cfg
    /\ PathsSettable(ArgMode)
    /\ warmer_paths_set(ArgMode)
    /\ pc' = "open"
    /\ UNCHANGED <<envVars, variant, cfg, location, opened, readAll>>

OptionsProcessKeyError ==
    /\ pc = "options"
    /\ variant = "lserver"
    /\ ("config" \notin cfg \/ ~PathsSettable(ArgMode))
    /\ pc' = "crashed"
    /\ UNCHANGED <<envVars, variant, cfg, location, logPath, viaAuto,
                   probeRun, opened, readAll>>

\* options_process(args), legacy variant: only an explicit location
\* overrides the import-time choice.
OptionsProcessLegacy ==
    /\ pc = "options"
    /\ variant = "legacy"
    /\ IF location # None
       THEN warmer_paths_set(location)
       ELSE UNCHANGED <<logPath, viaAuto, probeRun>>
    /\ pc' = "open"
    /\ UNCHANGED <<envVars, variant, cfg, location, opened, readAll>>

(***************************************************************************)
(* A scan (warmer_errors_*, warmer_rm_cleanup): `with open(path_warmer_log)`*)
(* binds the file handle to the run the path names now; `for line in f`    *)
(* then reads up to the end of what that run has written when EOF is hit.  *)
(***************************************************************************)
OpenLog ==
    /\ pc = "open"
    /\ opened' = PathRun(logPath)
    /\ pc' = "scan"
    /\ UNCHANGED <<envVars, variant, cfg, location, logPath, viaAuto, probeRun, readAll>>

ScanToEOF ==
    /\ pc = "scan"
    /\ readAll' = RunComplete(opened)
    /\ pc' = "done"
    /\ UNCHANGED <<envVars, variant, cfg, location, logPath, viaAuto, probeRun, opened>>

(***************************************************************************)
(* The warmer (external, from the config docstring): a new run rotates the *)
(* current log to the previous path and writes a new current log; a run    *)
(* finishes and leaves its log complete.                                   *)
(***************************************************************************)
WarmerStart ==
    /\ warmer = "idle"
    /\ runs < MaxRuns
    /\ warmer' = "running"
    /\ runs' = runs + 1
    /\ UNCHANGED toolVars

WarmerFinish ==
    /\ warmer = "running"
    /\ warmer' = "idle"
    /\ UNCHANGED <<runs, toolVars>>

Init ==
    /\ warmer \in {"idle", "running"}
    /\ runs = 1
    /\ variant \in Variants
    /\ cfg \in ConfigChoices
    /\ location \in {WPATH_CURR, WPATH_PREV, None}
    /\ pc = IF variant = "legacy" THEN "import" ELSE "options"
    /\ logPath = None
    /\ viaAuto = FALSE
    /\ probeRun = 0
    /\ opened = None
    /\ readAll = None

Next ==
    \/ Import
    \/ OptionsProcessLServer
    \/ OptionsProcessKeyError
    \/ OptionsProcessLegacy
    \/ OpenLog
    \/ ScanToEOF
    \/ WarmerStart
    \/ WarmerFinish

Spec == Init /\ [][Next]_vars

-----------------------------------------------------------------------------
(***************************************************************************)
(* Properties                                                              *)
(***************************************************************************)

\* Spec 4.1: WPATH_AUTO never reads the run that is still being written.
\* (Violated by the probe-then-open race in warmer_paths_set.)
AutoReadsCompletedRun ==
    (pc = "done" /\ viaAuto) => readAll

=============================================================================
