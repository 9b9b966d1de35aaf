--------------------------- MODULE UnitParseCheck --------------------------
(***************************************************************************)
(* convert_string2float (UnitParse) called once on every string of up to   *)
(* MaxLen characters of Alphabet and compared with the spec's parse_size.  *)
(***************************************************************************)
EXTENDS UnitParse

CONSTANTS
    Alphabet,   \* the characters input strings are made of
    MaxLen      \* longest input string

Inputs == UNION {[1..n -> Alphabet] : n \in 1..MaxLen}

VARIABLES input, returned, result
vars == <<input, returned, result>>

TypeOK ==
    /\ input \in Inputs
    /\ returned \in BOOLEAN
    /\ result \in [exc : Errors \cup {"none"}, m : Nat, a : Int, b : Int]

Init == input \in Inputs /\ returned = FALSE /\ result = Num(0, 0, 1000, 0)

Convert ==
    /\ ~returned
    /\ returned' = TRUE
    /\ result' = convert_string2float(input)
    /\ UNCHANGED input

Spec == Init /\ [][Convert]_vars

\* On every size string with a unit suffix that spec 4.2 gives a value (and
\* on strings with no number), convert_string2float agrees with parse_size:
\* the leftmost-alternative regex match, the case of the "i" test and the
\* base/exponent table together yield the spec's byte count.
ConvertMatchesSpecWithUnit ==
    (returned /\ SpecDomain(input) /\ Len(input) > NumLen(input))
        => SameOutcome(result, parse_size(input))

\* Spec 4.2 and 8: parse_size("1") = 1.0 -- a bare number needs no suffix.
ConvertMatchesSpec ==
    (returned /\ SpecDomain(input))
        => SameOutcome(result, parse_size(input))

=============================================================================
