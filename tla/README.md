# TLA+ models of lmgmt (LStore management helpers)

This directory holds TLA+ models of the Python management helpers of LStore:
- `src/lserver/lmgmt/lmgmt.py` is the current, Python 3 variant, driven by `warmer_query.py` and `warmer_errors.py` under `src/lserver/files/usr/local/bin/`.
- `src/src/mgmt/lmgmt.py` is the legacy, Python 2 variant, driven by `warmer_cleanup.py` and `warmer_errors.py` in the same directory.

Each module is checked by TLC through an `MC_*` module and one or more `.cfg` files. `PROJECT.json` lists the runs, the mutants, the map from each definition to its source lines, the findings and the hazards.

## The system

One invocation of a script is a single sequential process. It runs the following parts:

1. **Log Locator.** `options_process` → `warmer_paths_set` → `warmer_running`. It picks the warmer log and DB to read.
   - `--current` or `--prev` chooses explicitly.
   - Otherwise (AUTO) it probes the process table for `lio_warm`. It reads the previous run if the warmer is running, and the current run if not.
   - The lserver variant reads the paths from `lmgmt.cfg`, using `cfg['config']`, `cfg['current']` and `cfg['previous']`.
   - The legacy variant has hard-coded paths. It also probes once when the module is imported (line 228).
2. **Error Extractor.** Each of these is a single pass over that log:
   - `warmer_errors_rid_table` counts error lines per RID;
   - `warmer_errors_write` lists write-error files, keeping duplicates;
   - `warmer_errors_rid_fname` builds the set of files with allocation errors.
3. **Cleanup Selector.** `warmer_rm_cleanup`, with the prompt in `warmer_cleanup.py`.
   - It scans for "Failed" lines containing one of six "on k out of n" strings.
   - It pipes the 4th token of each such line to `lio_rm -`, or to `cat` with `--test`.
4. **Unit Parser.** `convert_string2float` turns size strings such as `1.2k` or `2Gi` into bytes.
5. **Resource Query Adapter.** `warmer_query` turns a `WQ_*` mode and a byte budget into flags for the external `warmer_query` program.
   - `warmer_query_print` reads the program's output line by line.
   - So does `warmer_query_add`.
6. **Rebalance Planner.** `rid_rebalance_table` and `rid_rebalance_file_list`.
   - It writes the fixed file `/tmp/inspect.cfg`, runs `lio_inspect` on it, and parses the `STATE: 0 ... DELTA: -<size>` rows with the Unit Parser.
   - It then queries each RID with that budget and collects the file names into one dict.

How the parts interact:
- The parts communicate through module globals: `BPREFIX`, `path_warmer_log` and `path_warmer_db`.
- They also communicate through external processes: `pgrep`, `lio_warm`, `lio_inspect`, `warmer_query` and `lio_rm`.

Concurrency enters in two places:
- The warmer runs beside the tool, and rotates and appends the log while the tool reads it.
- Several invocations may run at once, and they share `/tmp/inspect.cfg`.

Nothing is persisted by the tool itself, so there is no crash recovery to model. The fault that is modelled is in the environment: the warmer may be killed between the two writes of a log line (`WarmerKilled`), which leaves a cut last line in the log for good. split-header.py does write files, and a kill of it (`Crash` in `HeaderTools`) may land between or inside its two truncating writes.

Two build helpers stand apart from `lmgmt`:
- `src/scripts/split-header.py` moves the `TBX_API` declarations and `typedef struct` lines of each header named on its command line, sorted, into `tbx/<header>`, and rewrites the header with the other lines.
- `src/sort.py` sorts stdin, keying a declaration its regex accepts by the function name.

## Modules

| Module | Models | State and actions |
|---|---|---|
| `LogLocator` | Log Locator, both variants, plus the warmer as environment | The warmer is `warmer` and `runs`. The tool is `variant`, `cfg`, `location`, `pc`, `logPath`, `viaAuto`, `probeRun`, `opened` and `readAll`. The actions are `Import` (legacy line 228), `OptionsProcessLServer`, `OptionsProcessKeyError`, `OptionsProcessLegacy`, `OpenLog` (`with open(...)`), `ScanToEOF` (`for line in f` up to EOF), `WarmerStart` (rotate and start a run) and `WarmerFinish`. |
| `UnitParse` | Unit Parser, as pure operators | It models the regex `(\d*\.\d+\|\d+)(.*)`, with the leftmost position and the first alternative tried first. It also models `float(group(1))`, the suffix `len == 2` / `"i"` test on the original case, and the b/k/m/g/t chain. Numbers are exact (m·2^a·5^b), so there is no overflow. Exceptions are records. It also holds `parse_size`, the reference from spec 4.2. |
| `UnitParseCheck` | A harness that calls `convert_string2float` once per input | `Convert` is its one action. |
| `Rebalance` | Rebalance Planner and `warmer_query_add`, for N concurrent invocations | The shared state is `cfgFile` (absent, empty or full) and `inspect`. Each invocation has its own `pc`, `out`, `rows`, `qi`, `qout` and `files`. The actions follow the code in order: `OpenCfg` (the truncating open), `FlushAndLaunch`, `InspectReadsCfg` (the child reads the config), `ParseRow`, `ParseSkip`, `ParseRaise` (`convert_string2float` raises), `ParseEOF`, `QueryLaunch`, `QueryReadLine`, `QueryEOF` and `QueryAllDone`. `QueryLaunch` composes the Resource Query Adapter: it instances `WarmerQuery` as `WQ`, turns `RebalanceMode` (`WQ_ALL`, line 409) into flags with `WQ!WQFlags`, and lets the program select with `WQ!ToolSelects` over the constant `BadFiles` and `WriteErrFiles` before the budget applies. |
| `WarmerQuery` | Resource Query Adapter with a mode filter | The RID's `Bad` and `WriteErr` files are chosen in `Init`. The actions are `Launch` (`WQFlags`), `ReadLine` and `ReadEOF`. |
| `ErrorScan` | Error Extractor and Cleanup Selector, on a finished log | The log is a sequence of abstract lines: alloc, write, torn, failed(k, n) and other. One per-line action per scan function: `RidTableLine`, `WriteLine`, `WriteLineCrash` (the regex misses a torn line and `None.group` raises), `RidFnameLine` and `CleanupLine`. There is also `ScanEOF`, and `Confirm` for the cleanup prompt. The k and n of a failed line are digit strings, because the code matches them as substrings. `alloc_head` is an allocation line cut before the `#` that ends the RID. |
| `LiveScan` | One whole `warmer_errors.py` or `warmer_cleanup.py` invocation: `LogLocator` and `ErrorScan` composed, with a warmer that appends lines | It instances `LogLocator` as `L` and `ErrorScan` as `E`, with `E`'s log replaced by `ReadLog`, what `for line in f` yields from the opened run so far. The warmer writes each line of the live run in two writes (`WarmerWriteHead`, `WarmerWriteTail`); `Splits` lists, per line kind, where the cut may fall and what the scans see in each part. When the scan reaches end of file between the two writes it reads the head as a line (`cuts` records it) and later the tail as a line of its own. `WarmerKilled` (enabled by the constant `WarmerMayDie`) is the warmer dying between the two writes: the head stays in the log as the last line, with no newline, and a scan that already read it as a line never sees a tail. The tool's actions are `Options`, `Confirm`, `OpenLog`, `ScanLine` (one of `E`'s per-line actions) and `ScanEnd`. `ScansOf` follows the scripts: lserver `warmer_errors.py` runs the three extractor scans, the legacy scripts run the RID table, the write list, or cleanup. |
| `RebalancePlan` | What a rebalance promises (spec 4.5), abstractly | Per invocation `apc` and `plan`. `AddFile` adds a file of an overloaded RID, `Finish` stops once the plan covers every delta, `Abort` stops when a delta cannot be read. `Rebalance` refines it (below). |
| `HeaderTools` | `split-header.py` and `sort.py` | A line is a record (kind, return-type words, star position, name, whole-line key); words are ranks, so Python's string order is lexicographic order on rank sequences (`KeyLess`), and `SortedBy` is Python's stable `sorted`. `ReadHeader` (lines 13-26), `WriteTbx` (29-58), `WriteOld` (61-64) and `Exit` step through `sys.argv`; `SortPy` is `sort.py` as an operator (regex acceptance, the dict in which the last line wins, sorted keys). `Crash` (enabled by `MayCrash`) kills the script: between steps, or inside a truncating `with open(..., 'w')` block, leaving that file with a prefix of what the block writes (`TbxPrefixes`, or the first old lines). |

External programs are modelled from the spec and the docstrings, and marked `spec_modelled` in the map:
- `lio_warm`: `PathRun`, `RunComplete`, `WarmerStart` and `WarmerFinish`.
- `lio_inspect`: `InspectReadsCfg`. It prints the rows if it read the full config, and nothing otherwise.
- `warmer_query`: `PrintUpTo` and `QueryOutput`, which apply the budget in DB order, and `ToolSelects`, which applies the -s/-f/-w filters.

## Refinement

`Rebalance` (N concurrent invocations, the shared config file, the row parser and the query loop) implements `RebalancePlan`. The mapping: an invocation is `working` until its `pc` is `done` or `crashed`, its plan is its `files` dict, and `ReadDelta` is `convert_string2float` of each delta string (`Converted`, computed by `UnitParse`). `PlanRefinement == Abs!Spec` is checked as a property with reliable children and one invocation. With two invocations or a failing child the refinement breaks, and the two violation runs show how (`PlanCoversDeltas` is `Abs!Covers` on a finished plan).

## Runs

| Run | Expect | Checks | Shows |
|---|---|---|---|
| `live_scan` | pass | `TypeOK`, `AutoLiveOnlyAfterRestart`, `CleanupSelectsAllLostWhenComplete`, `ExtractorMatchesSpecWhenComplete` | For both variants, every option choice and config shape, up to 2 warmer runs, a warmer appending in two writes per line and a warmer that may die between them: an AUTO scan reads a live run only if the warmer started after the probe; cleanup of a run that was complete when opened sends every all-lost file, in order; each extractor scan of a run complete when opened finishes with exactly spec 4.3's tally, write list or alloc list. |
| `live_scan_cleanup_live` | violation | `CleanupSendsLoggedNames` | Legacy `warmer_cleanup.py --current` while the warmer writes: the scan reads a Failed line's head at end of file, then its remainder as a line, and `line.split()[3]` of the remainder, not a file name, goes to `lio_rm`. |
| `log_locator_auto_race` | violation | `AutoReadsCompletedRun` | The trace: the probe sees the warmer idle, the warmer starts and rotates, and `open()` binds to the live run. Spec 4.1's "AUTO never reads the run being written" fails. |
| `unit_parse` | pass | `TypeOK`, `ConvertMatchesSpecWithUnit` | With a unit suffix present, `convert_string2float` agrees with spec 4.2 on all strings of up to 6 characters over `1 5 . k K i G x`. |
| `unit_parse_bare_number` | violation | `ConvertMatchesSpec` | `"1"` raises IndexError: `group(2)` is `""`, not `None`. |
| `rebalance` | pass | `TypeOK`, `PlanRefinement` | One invocation with reliable children implements `RebalancePlan`: the plan only grows, by files of overloaded RIDs; it is printed only when it covers every delta; the invocation stops on an exception only for an unreadable delta, and eventually finishes or stops. |
| `rebalance_tmpcfg_race` | violation | `PlanCoversDeltas` | One invocation truncates `/tmp/inspect.cfg` while the other's `lio_inspect` reads it. That plan is silently empty. |
| `rebalance_query_failure` | violation | `PlanCoversDeltas` | A `warmer_query` child that dies early yields a short plan that is printed as complete. Spec 4.4 wants a QueryError. |
| `warmer_query_mode_filter` | violation | `QueryHonoursMode` | `WQ_GOOD` and `WQ_BAD` pass no flag, because `mode & WQ_ALL` is not 0, so every file is printed. |
| `error_scan_substring_match` | violation | `CleanupOnlyAllLost` | `on 9 out of 90` contains `on 9 out of 9`, so a file that still has most of its allocations is removed. |
| `header_tools` | pass | `SplitConserves`, `SortToolsAgree`, `NoDeclarationLost` | For every argv (each header once) over two headers: split-header.py moves every line, as often as it occurred, to `tbx/<header>` or the rewritten header; the declarations sort.py keys by name end up in sort.py's order; and a kill at any point, inside either truncating write included, leaves every declaration in the header or in `tbx/<header>`, because the tbx block closes before the header is truncated. The header's other lines can be lost. |
| `live_scan_torn_write` | violation | `ScansSkipUnmatchedLines` | Spec 7 says unmatched lines are skipped. lserver `warmer_errors.py --current` while the warmer writes: the write scan reads the head of a write line at end of file, the regex does not match it, and `.group(1)` on `None` raises AttributeError. |

Every property of a passing run has a mutant in `PROJECT.json`: a plausible bug in the mapped code that TLC catches with the run's own configuration. Examples:
- AUTO left unresolved, or the probe answer read backwards;
- `return` instead of `break` in the cleanup loop;
- `len(units) >= 2`;
- a fresh dict per query, a line read whole;
- `old_strings` initialised once for all headers, a sort key that keeps the first return-type word, the types loop dropped from the `tbx/` block;
- an RID regex without the closing `#`, which counts cut allocation lines.

The run list is capped at twelve. The violation of split-header.py's "Sort functions alphabetically" comment (`const char *get` is keyed by `char`) is no longer a run: it gave way to `live_scan_torn_write`, and `SortToolsAgree` still checks the order against `sort.py`. The former pass runs of `LogLocator`, `ErrorScan` alone and `WarmerQuery` were dropped: `live_scan` fires every `LogLocator` and `ErrorScan` action through the composition and checks the stronger forms of their properties, and `WarmerQuery`'s one property is checked by its violation run.

Behaviours that are modelled but that no run asserts against:
- **The KeyError on a missing config file or section** (`OptionsProcessKeyError`). Spec 6 promises defaults. The crash is one step from `Init`, so a test finds it just as easily.
- **The rid tally counting lines, not files.** The docstring of `warmer_errors_rid_table` says "bad files", but spec 4.3 counts lines, as the code does.

## Bounds

- **LogLocator.**
  - Up to 3 warmer runs. Two runs are the least that shows a rotation after the probe; three let a rotation happen after `open()` as well.
  - Config-file shapes: all sections, none, and no `[previous]`.
  - Both variants.
  - All three `--current`/`--prev`/none choices.
- **UnitParse.**
  - All strings of up to 6 characters over `1 5 . k K i G x`: 299 592 inputs, in about 10 seconds.
  - Length 4 is needed for `1kix` and `1.5k`, 5 for `1.5Ki`, 6 for `15.5Gi` and `1.5KiB`. `x` stands for any non-unit letter, and `K` and `G` test the case handling.
- **Rebalance.**
  - 3 RIDs and 5 files, with file sizes of 600, 700 and 800 bytes.
  - Delta strings `1k`, `1.2k` and `2Ki`, so the budget falls inside a RID's list, beyond it, and with base 1024.
  - Inspector outputs that contain non-captured rows (STATE 1, positive delta), both row orders, and one unparseable delta (`"5"`, which raises IndexError).
  - One invocation or two. Two is the least that shares the config file.
  - `f2` is a bad file and `f3` has a write error, so a wrong mode flag would drop a file from a RID's list.
- **WarmerQuery.**
  - 4 files, with every subset of bad files and every subset of write-error files.
- **ErrorScan** (violation run only). All logs of up to 2 lines over 10 line shapes.
- **LiveScan.**
  - Up to 2 warmer runs, each writing one of two 2-line logs: (write f2, alloc f1) and (failed f1 9/9, failed f2 17/18).
  - Each line may be cut at every place `Splits` lists, so the torn write line, the `alloc_head`, the truncated total and the remainder whose 4th token is another word all occur.
  - Every run writes the same one of the two logs. The properties compare a scan with the run it opened, never two runs, so different logs per run add states and no behaviour.
  - Both variants, every option and config shape, every scan of the variant, the prompt answered either way, the warmer killed or not. 615 114 states in about a minute. With 3 warmer runs the same configuration passes too (7.6 million states, 13 minutes), which is too long for the run list.
- **HeaderTools.**
  - 2 headers, each of up to 3 lines over 6 shapes (attached, detached and two-word return types, a type line, an include line), every injective argv.
  - Three lines let a stable sort meet equal keys next to a different one; the shapes cover each branch of both keys and of sort.py's regex.
  - A kill at every step and at every prefix of each truncating write. 1.9 million states in about 30 seconds.

## Fairness

- **`LiveScan`** and **`LogLocator`** have no fairness and check only safety. The scripts end unless a child or the log read hangs, and a hang is not modelled, so a termination property there would hold by the shape of the model. A termination check that means something would need a hang action and a violation run (hazard at `lmgmt.py:388`).
- **`Rebalance`** has weak fairness per invocation. Each invocation and its children are OS processes, and none of their steps waits on another invocation.
- **`RebalancePlan`** has weak fairness on finishing or aborting, which the refinement requires of `Rebalance`'s fair steps. This is the only liveness the project checks, as part of `PlanRefinement`.
- **`WarmerQuery`**, **`ErrorScan`** and **`HeaderTools`** check only safety, so they have no fairness.

## Not modelled

- The `*_print` functions and `rid_rebalance_file_list_print`. They only sort and format.
- argparse, and the mutually exclusive group in which `--config` is placed.
- The lserver copy of `warmer_rm_cleanup`. No lserver script calls it, and its `p.stdin.write(str)` raises TypeError on a Python 3 binary pipe; this is recorded as a hazard.
- The legacy `rid_rebalance_table`, `rid_rebalance_file_list`, `warmer_query` and `warmer_query_print` in `src/src/mgmt/lmgmt.py` (lines 140-220). No legacy script calls them (the calls are commented out at lines 233-238). They also pass the raw delta string, such as `1k`, as the `-b` budget, and how the `warmer_query` program parses that string is not in the repository. So Rebalance Planner and Resource Query Adapter are `partly` modelled.
- The exit status of `lio_rm` and `lio_inspect`: the code never reads it (recorded as hazards).
- The text form of the budget flag. `str(float)` can give `1e+16`.
- `setup.py`: packaging metadata.
- `line.rstrip()` and the text of the generated guard and trailer in split-header.py; a missing `tbx/` directory (the open raises before the header is rewritten); a rerun of split-header.py after a kill (it would read a header with no declarations left and empty `tbx/<header>`, the same loss as naming a header twice, recorded as a hazard).
- A warmer line split into more than two writes, and a log rotated while the scan still reads it (the open handle keeps the old file, so the scan is unaffected).

## Plan for later work

1. Model the lserver `warmer_rm_cleanup` (the TypeError path) as a scan of `LiveScan`, if a script ever calls it.
2. Check the refinement with two invocations on a private config file per invocation, to separate the `/tmp/inspect.cfg` race from the plan logic.
3. Model `rid_rebalance_file_list_print` ordering only if a property about it is found.
