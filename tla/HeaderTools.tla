---------------------------- MODULE HeaderTools ----------------------------
(***************************************************************************)
(* The two header-maintenance scripts:                                     *)
(*   src/scripts/split-header.py : for each header named on the command    *)
(*       line, move its TBX_API declarations and `typedef struct` lines,   *)
(*       sorted, into a new tbx/<header>, and rewrite the header with the  *)
(*       remaining lines;                                                  *)
(*   src/sort.py : sort the lines of stdin, keying a declaration its regex *)
(*       accepts by the function name and any other line by itself.        *)
(*                                                                         *)
(* A line is a record.  Strings are compared as Python compares them, and  *)
(* both scripts compare strings made of whole words (sort keys split on    *)
(* spaces, and ' ' sorts below every other character of a declaration), so *)
(* a key is a sequence of word ranks compared lexicographically.           *)
(*   kind : "api" (starts with TBX_API), "type" (starts with `typedef      *)
(*          struct`) or "other"                                            *)
(*   ret  : the return-type words after TBX_API                            *)
(*   star : "none", "attached" (`*name(`) or "detached" (`* name(`)        *)
(*   name : the function (or struct) name                                  *)
(*   text : the whole line as a key (sort.py's key for lines it does not   *)
(*          accept)                                                        *)
(***************************************************************************)
EXTENDS Naturals, Sequences, SequencesExt, FiniteSets

CONSTANTS
    Files,      \* header file names
    Contents,   \* the line sequences a header may hold
    Empty,      \* rank of the empty word
    Args,       \* rank of the argument-list word, e.g. "void);"
    None,
    MayCrash    \* can split-header.py be killed part way?

ASSUME MayCrash \in BOOLEAN

VARIABLES
    given,      \* the headers as they were before the script ran
    disk,       \* header contents on disk
    tbx,        \* tbx/<header>: None or [types, api]
    argv,       \* sys.argv[1:]
    k,          \* index of the file being processed
    pc,         \* "read", "tbx", "old", "done" or "crashed"
    apiStrings, typeStrings, oldStrings

vars == <<given, disk, tbx, argv, k, pc, apiStrings, typeStrings, oldStrings>>

\* Python's < on the strings two keys stand for.
KeyLess(a, b) ==
    \E j \in 1..Len(b) :
        /\ j <= Len(a) + 1
        /\ SubSeq(a, 1, j - 1) = SubSeq(b, 1, j - 1)
        /\ (j > Len(a) \/ a[j] < b[j])

\* sorted(s, key=...), given the key ks[j] of each s[j]: stable, ascending.
SortedBy(s, ks) ==
    LET Rank(j) == Cardinality({i \in 1..Len(s) :
                      KeyLess(ks[i], ks[j]) \/ (ks[i] = ks[j] /\ i < j)}) + 1
    IN [p \in 1..Len(s) |-> s[CHOOSE j \in 1..Len(s) : Rank(j) = p]]

\* The key of each line of s.
KeysOf(s, key(_)) == [j \in 1..Len(s) |-> key(s[j])]

(***************************************************************************)
(* split-header.py                                                         *)
(***************************************************************************)
IsApi(l) == l.kind = "api"
IsType(l) == l.kind = "type"
IsOld(l) == l.kind = "other"

\* ' '.join(x.split()[2:]).replace('*', '').replace('(', ' '): the words
\* after TBX_API and the first return-type word; a detached star leaves an
\* empty word, and the name is split from its arguments.
SplitKeyFromFirst(l) ==
    l.ret \o (IF l.star = "detached" THEN <<Empty>> ELSE <<>>) \o <<l.name, Args>>

SplitKey(l) ==
    Tail(l.ret) \o (IF l.star = "detached" THEN <<Empty>> ELSE <<>>) \o <<l.name, Args>>

\* The same expression on "typedef struct <name> ...".
TypeKey(l) == <<l.name>>

\* Mutant: old_strings initialised once, before the loop over the files.
ReadHeaderKeepOld ==
    /\ pc = "read" /\ k <= Len(argv)
    /\ LET c == disk[argv[k]] IN
          /\ apiStrings' = SortedBy(SelectSeq(c, IsApi), KeysOf(SelectSeq(c, IsApi), SplitKey))
          /\ typeStrings' = SortedBy(SelectSeq(c, IsType), KeysOf(SelectSeq(c, IsType), TypeKey))
          /\ oldStrings' = oldStrings \o SelectSeq(c, IsOld)
    /\ pc' = "tbx"
    /\ UNCHANGED <<given, disk, tbx, argv, k>>

\* Lines 13-26: classify each line, then sort the two declaration lists.
ReadHeader ==
    /\ pc = "read" /\ k <= Len(argv)
    /\ LET c == disk[argv[k]] IN
          /\ apiStrings' = SortedBy(SelectSeq(c, IsApi), KeysOf(SelectSeq(c, IsApi), SplitKey))
          /\ typeStrings' = SortedBy(SelectSeq(c, IsType), KeysOf(SelectSeq(c, IsType), TypeKey))
          /\ oldStrings' = SelectSeq(c, IsOld)
    /\ pc' = "tbx"
    /\ UNCHANGED <<given, disk, tbx, argv, k>>

\* Mutant: the types loop dropped from the tbx/<header> block.
WriteTbxNoTypes ==
    /\ pc = "tbx"
    /\ tbx' = [tbx EXCEPT ![argv[k]] = [types |-> <<>>, api |-> apiStrings]]
    /\ pc' = "old"
    /\ UNCHANGED <<given, disk, argv, k, apiStrings, typeStrings, oldStrings>>

\* Lines 29-58: write tbx/<header>: guard, types, functions, trailer.
WriteTbx ==
    /\ pc = "tbx"
    /\ tbx' = [tbx EXCEPT ![argv[k]] = [types |-> typeStrings, api |-> apiStrings]]
    /\ pc' = "old"
    /\ UNCHANGED <<given, disk, argv, k, apiStrings, typeStrings, oldStrings>>

\* Lines 61-64: rewrite the header with the remaining lines.
WriteOld ==
    /\ pc = "old"
    /\ disk' = [disk EXCEPT ![argv[k]] = oldStrings]
    /\ k' = k + 1
    /\ pc' = "read"
    /\ UNCHANGED <<given, tbx, argv, apiStrings, typeStrings, oldStrings>>

(***************************************************************************)
(* A kill of split-header.py.  Each `with open(..., 'w')` truncates its    *)
(* file at once, and the lines written after it reach the file in order,  *)
(* so a kill inside a with block leaves the truncated file holding a       *)
(* prefix of what the block writes: the types, then the functions (lines  *)
(* 46-51), or the first old lines (62-63).  Between the blocks a kill      *)
(* leaves both files as they are.                                          *)
(***************************************************************************)
TbxPrefixes ==
    {[types |-> SubSeq(typeStrings, 1, n), api |-> <<>>] : n \in 0..Len(typeStrings)}
    \cup {[types |-> typeStrings, api |-> SubSeq(apiStrings, 1, n)] : n \in 0..Len(apiStrings)}

Crash ==
    /\ MayCrash
    /\ pc \in {"read", "tbx", "old"}
    /\ pc' = "crashed"
    /\ \/ UNCHANGED <<disk, tbx>>
       \/ /\ pc = "tbx"
          /\ \E t \in TbxPrefixes : tbx' = [tbx EXCEPT ![argv[k]] = t]
          /\ UNCHANGED disk
       \/ /\ pc = "old"
          /\ \E n \in 0..Len(oldStrings) : disk' = [disk EXCEPT ![argv[k]] = SubSeq(oldStrings, 1, n)]
          /\ UNCHANGED tbx
    /\ UNCHANGED <<given, argv, k, apiStrings, typeStrings, oldStrings>>

\* Line 8: the loop over sys.argv[1:] ends.
Exit ==
    /\ pc = "read" /\ k > Len(argv)
    /\ pc' = "done"
    /\ UNCHANGED <<given, disk, tbx, argv, k, apiStrings, typeStrings, oldStrings>>

(***************************************************************************)
(* sort.py: sort[key] = line for every line of stdin, then write the       *)
(* values in sorted key order.  The regex on line 7 (TBX_API, one word, a  *)
(* space, an optional star, the name, an opening parenthesis) accepts a    *)
(* declaration with a one-word return type and the star, if any, on the   *)
(* name.                                                                   *)
(***************************************************************************)
Accepted(l) == l.kind = "api" /\ Len(l.ret) = 1 /\ l.star # "detached"

SortPyKey(l) == IF Accepted(l) THEN <<l.name>> ELSE l.text

\* The dict: for each key, the last line stored under it.
SortPyDict(c) ==
    [key \in {SortPyKey(c[j]) : j \in 1..Len(c)} |->
        c[Max({j \in 1..Len(c) : SortPyKey(c[j]) = key})]]

SortPy(c) ==
    LET d == SortPyDict(c)
        ks == SetToSeq(DOMAIN d)
        keys == SortedBy(ks, ks)
    IN [p \in 1..Len(keys) |-> d[keys[p]]]

-----------------------------------------------------------------------------
TypeOK ==
    /\ disk \in [Files -> Seq(UNION {Range(c) : c \in Contents})]
    /\ tbx \in [Files -> {None} \cup [types : Seq(UNION {Range(c) : c \in Contents}),
                                      api : Seq(UNION {Range(c) : c \in Contents})]]
    /\ k \in 1..Len(argv) + 1
    /\ pc \in {"read", "tbx", "old", "done", "crashed"}

\* The build names each header once.
Init ==
    /\ disk \in [Files -> Contents]
    /\ given = disk
    /\ tbx = [f \in Files |-> None]
    /\ argv \in {s \in UNION {[1..n -> Files] : n \in 1..Cardinality(Files)} : IsInjective(s)}
    /\ k = 1
    /\ pc = "read"
    /\ apiStrings = <<>> /\ typeStrings = <<>> /\ oldStrings = <<>>

Next == ReadHeader \/ WriteTbx \/ WriteOld \/ Exit \/ Crash

Spec == Init /\ [][Next]_vars

-----------------------------------------------------------------------------
(***************************************************************************)
(* Properties                                                              *)
(***************************************************************************)

\* split-header.py moves lines and drops none: when it exits, every line of
\* each header it was given is, exactly as often as before, in tbx/<header>
\* (a declaration) or in the rewritten header (anything else).
SplitConserves ==
    pc = "done" =>
        \A f \in Range(argv) :
            /\ ToBag(given[f]) = ToBag(tbx[f].types \o tbx[f].api \o disk[f])
            /\ \A l \in Range(disk[f]) : IsOld(l)

IsDecl(l) == l.kind # "other"

TbxLines(f) == IF tbx[f] = None THEN <<>> ELSE tbx[f].types \o tbx[f].api

\* A kill of split-header.py at any point never loses a declaration: each
\* TBX_API or `typedef struct` line of a header, as often as it occurred,
\* is still in the header or already in tbx/<header>.  It holds because the
\* header is truncated (line 61) only after the with block of tbx/<header>
\* (lines 29-58) has closed.
NoDeclarationLost ==
    \A f \in Files :
        ToBag(SelectSeq(given[f], IsDecl))
            \sqsubseteq ToBag(SelectSeq(disk[f], IsDecl) \o TbxLines(f))

\* The two scripts order the declarations sort.py can key by name the same
\* way: in tbx/<header> they appear in the order sort.py prints them.
SortToolsAgree ==
    pc = "done" =>
        \A f \in Range(argv) :
            SelectSeq(tbx[f].api, Accepted) = SelectSeq(SortPy(given[f]), Accepted)

=============================================================================
