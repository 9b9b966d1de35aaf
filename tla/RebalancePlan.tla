--------------------------- MODULE RebalancePlan ---------------------------
(***************************************************************************)
(* What a rebalance invocation promises (spec 4.5), without the inspector  *)
(* config file, the row parsing or the per-RID query loop: each invocation *)
(* builds a plan by adding files of RIDs that must shed load, then either  *)
(* stops with a plan that moves at least every such RID's delta (or all of *)
(* that RID's files), or aborts because a delta cannot be read.            *)
(*                                                                         *)
(* A delta is read by the Unit Parser: ReadDelta maps each delta string to *)
(* convert_string2float of it (a constant, so TLC computes it once).       *)
(***************************************************************************)
EXTENDS Integers, Sequences, SequencesExt, FiniteSets, UnitParse

CONSTANTS
    Procs,          \* concurrent invocations
    RIDs,           \* resources
    Files,          \* file names
    DB,             \* [RIDs -> Seq([file, size])]: the files of each RID
    InspectOutputs, \* the delta rows the inspector may report
    ReadDelta       \* [delta strings -> convert_string2float result]

VARIABLES
    inspect,   \* the inspector's rows for this cluster state
    apc,       \* per invocation: "working", "done" or "crashed"
    plan       \* per invocation: the files chosen so far

avars == <<inspect, apc, plan>>

\* Rows for RIDs that must shed load: completion state 0, negative delta.
Overloaded == {inspect[k] : k \in {k \in 1..Len(inspect) :
                                     inspect[k].state = 0 /\ inspect[k].neg}}

FilesOn(r) == {DB[r][k].file : k \in 1..Len(DB[r])}
SizeOn(r, f) == LET k == CHOOSE k \in 1..Len(DB[r]) : DB[r][k].file = f IN DB[r][k].size
BytesOn(r, fs) == MapThenSumSet(LAMBDA f : SizeOn(r, f), fs \cap FilesOn(r))
TotalOn(r) == BytesOn(r, FilesOn(r))

\* The delta of a row in bytes, as the Unit Parser reads it.
Delta(l) == LET v == ReadDelta[l.delta] IN v.m * Pow(2, v.a) * Pow(5, v.b)
Unreadable(l) == ReadDelta[l.delta].exc # "none"

Candidates == UNION {FilesOn(l.rid) : l \in Overloaded}

Covers(fs) ==
    \A l \in Overloaded : BytesOn(l.rid, fs) >= Min({Delta(l), TotalOn(l.rid)})

Init ==
    /\ inspect \in InspectOutputs
    /\ apc = [p \in Procs |-> "working"]
    /\ plan = [p \in Procs |-> {}]

AddFile(p) ==
    /\ apc[p] = "working"
    /\ \E f \in Candidates \ plan[p] : plan' = [plan EXCEPT ![p] = @ \cup {f}]
    /\ UNCHANGED <<inspect, apc>>

Finish(p) ==
    /\ apc[p] = "working"
    /\ \A l \in Overloaded : ~Unreadable(l)
    /\ Covers(plan[p])
    /\ apc' = [apc EXCEPT ![p] = "done"]
    /\ UNCHANGED <<inspect, plan>>

Abort(p) ==
    /\ apc[p] = "working"
    /\ \E l \in Overloaded : Unreadable(l)
    /\ apc' = [apc EXCEPT ![p] = "crashed"]
    /\ UNCHANGED <<inspect, plan>>

Next == \E p \in Procs : AddFile(p) \/ Finish(p) \/ Abort(p)

\* Once a plan is complete (or a delta is unreadable) the invocation ends.
Spec == Init /\ [][Next]_avars /\ \A p \in Procs : WF_avars(Finish(p) \/ Abort(p))

=============================================================================
