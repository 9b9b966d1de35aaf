----------------------------- MODULE UnitParse -----------------------------
(***************************************************************************)
(* convert_string2float(vstr) of src/lserver/lmgmt/lmgmt.py: a size string *)
(* with an optional unit suffix to a number of bytes, and the reference    *)
(* parse_size of spec 4.2 it is checked against.                           *)
(*                                                                         *)
(* A string is a sequence of one-character strings.  A result is a record; *)
(* a number is kept exactly as m * 2^a * 5^b with m prime to 10 (decimal   *)
(* fractions times powers of 1000 or 1024 all have this form, and equal    *)
(* numbers have equal triples); float rounding is not modelled.  A raised  *)
(* exception is a record carrying its class name.                          *)
(***************************************************************************)
EXTENDS Integers, Sequences, SequencesExt

DigitChars == {"0", "1", "2", "3", "4", "5", "6", "7", "8", "9"}
DigitVal(c) == CHOOSE v \in 0..9 : <<"0","1","2","3","4","5","6","7","8","9">>[v + 1] = c
IsDigit(c) == c \in DigitChars

\* str.lower() on the letters the models use.
Lower(c) ==
    IF c \in {"K", "M", "G", "T", "B", "I"}
    THEN ("K" :> "k" @@ "M" :> "m" @@ "G" :> "g" @@ "T" :> "t" @@ "B" :> "b" @@ "I" :> "i")[c]
    ELSE c

Errors == {"AttributeError", "IndexError", "FormatError"}
Raise(e) == [exc |-> e, m |-> 0, a |-> 0, b |-> 0]

\* Multiplicity of the prime q in n > 0.
RECURSIVE Mult(_, _)
Mult(n, q) == IF n > 0 /\ n % q = 0 THEN 1 + Mult(n \div q, q) ELSE 0

Pow(x, e) == IF e = 0 THEN 1 ELSE FoldLeft(LAMBDA acc, k : acc * x, 1, [k \in 1..e |-> k])

\* The number (n / 10^f) * base^p, for base 1000 or 1024.
Num(n, f, base, p) ==
    LET twos  == IF base = 1024 THEN 10 * p ELSE 3 * p
        fives == IF base = 1024 THEN 0 ELSE 3 * p
    IN IF n = 0 THEN [exc |-> "none", m |-> 0, a |-> 0, b |-> 0]
       ELSE [exc |-> "none",
             m |-> n \div (Pow(2, Mult(n, 2)) * Pow(5, Mult(n, 5))),
             a |-> Mult(n, 2) - f + twos,
             b |-> Mult(n, 5) - f + fives]

\* Value of the decimal digits of t, read left to right.
DigitsValue(t) == FoldLeft(LAMBDA acc, c : acc * 10 + DigitVal(c), 0, t)

\* Index just after the run of digits that starts at i.
DigitRunEnd(s, i) ==
    CHOOSE k \in i..Len(s) + 1 :
        /\ \A m \in i..k - 1 : IsDigit(s[m])
        /\ k > Len(s) \/ ~IsDigit(s[k])

(***************************************************************************)
(* re.search of the pattern ( \d*\.\d+ | \d+ )( .* ) in vstr: the leftmost *)
(* position where an alternative matches; at that position \d*\.\d+ is     *)
(* tried before \d+.                                                        *)
(* Returns [start, dot, end] (dot = 0 when \d+ matched) or None as <<>>.   *)
(***************************************************************************)
Alt1Dot(s, i) ==
    LET j == DigitRunEnd(s, i)
    IN IF j + 1 <= Len(s) /\ s[j] = "." /\ IsDigit(s[j + 1]) THEN j ELSE 0

NumberMatchAt(s, i) ==
    IF Alt1Dot(s, i) # 0
    THEN [start |-> i, dot |-> Alt1Dot(s, i), end |-> DigitRunEnd(s, Alt1Dot(s, i) + 1)]
    ELSE IF IsDigit(s[i])
         THEN [start |-> i, dot |-> 0, end |-> DigitRunEnd(s, i)]
         ELSE <<>>

NumberMatch(s) ==
    LET hits == {i \in 1..Len(s) : NumberMatchAt(s, i) # <<>>}
    IN IF hits = {} THEN <<>>
       ELSE NumberMatchAt(s, CHOOSE i \in hits : \A h \in hits : i <= h)

\* float(match.group(1)) as [n, f]: the number n / 10^f.
Group1Value(s, m) ==
    IF m.dot = 0
    THEN [n |-> DigitsValue(SubSeq(s, m.start, m.end - 1)), f |-> 0]
    ELSE [n |-> DigitsValue(SelectSeq(SubSeq(s, m.start, m.end - 1), IsDigit)),
          f |-> m.end - 1 - m.dot]

\* The unit exponent selected by units[0].
UnitPower == "b" :> 0 @@ "k" :> 1 @@ "m" :> 2 @@ "g" :> 3 @@ "t" :> 4

\* base: 1024 when the suffix has two characters and the second is "i"
\* (tested on match.group(2), i.e. before lower()).
\* Mutant: any suffix whose second character is "i" selects 1024.
UnitBaseAnyLen(units) == IF Len(units) >= 2 /\ units[2] = "i" THEN 1024 ELSE 1000

UnitBase(units) == IF Len(units) = 2 /\ units[2] = "i" THEN 1024 ELSE 1000

\* Mutant: the multiplier looked up in a dict, raising KeyError for a
\* suffix letter outside b/k/m/g/t.
ScaleDictLookup(v, units) ==
    LET u == Lower(units[1])
    IN IF u \in DOMAIN UnitPower
       THEN Num(v.n, v.f, UnitBase(units), UnitPower[u])
       ELSE Raise("KeyError")

Scale(v, units) ==
    LET u == Lower(units[1])
    IN IF u \in DOMAIN UnitPower
       THEN Num(v.n, v.f, UnitBase(units), UnitPower[u])
       ELSE Num(v.n, v.f, 1000, 0)

convert_string2float(vstr) ==
    LET m == NumberMatch(vstr)
    IN IF m = <<>> THEN Raise("AttributeError")       \* match.group on None
       ELSE LET units == SubSeq(vstr, m.end, Len(vstr))  \* match.group(2): never None
            IN IF units = <<>> THEN Raise("IndexError")    \* units[0] on ""
               ELSE Scale(Group1Value(vstr, m), units)

-----------------------------------------------------------------------------
(***************************************************************************)
(* Reference: parse_size(text) of spec 4.2, written from its grammar: a    *)
(* decimal number at the start, then an optional suffix whose first letter *)
(* (any case) selects b/k/m/g/t; a two-letter suffix ending in "i" means   *)
(* base 1024.  No numeric prefix: FormatError.                             *)
(***************************************************************************)
AllDigits(t) == \A k \in 1..Len(t) : IsDigit(t[k])

IsDecimal(t) ==
    \/ Len(t) > 0 /\ AllDigits(t)
    \/ \E k \in 1..Len(t) - 1 :
          /\ t[k] = "."
          /\ AllDigits(SubSeq(t, 1, k - 1))
          /\ AllDigits(SubSeq(t, k + 1, Len(t)))

NumLen(s) ==
    LET ns == {n \in 0..Len(s) : n = 0 \/ IsDecimal(SubSeq(s, 1, n))}
    IN CHOOSE n \in ns : \A o \in ns : o <= n

DecimalValue(t) ==
    LET digits == SelectSeq(t, IsDigit)
        fracLen == IF \E k \in 1..Len(t) : t[k] = "."
                   THEN Len(t) - (CHOOSE k \in 1..Len(t) : t[k] = ".")
                   ELSE 0
    IN [n |-> DigitsValue(digits), f |-> fracLen]

\* The inputs the spec's grammar gives a result for.
SpecDomain(s) ==
    LET suffix == SubSeq(s, NumLen(s) + 1, Len(s))
    IN \/ ~\E k \in 1..Len(s) : IsDigit(s[k])
       \/ NumLen(s) > 0 /\ (suffix = <<>> \/ Lower(suffix[1]) \in DOMAIN UnitPower)

parse_size(s) ==
    LET n == NumLen(s)
        v == DecimalValue(SubSeq(s, 1, n))
        suffix == SubSeq(s, n + 1, Len(s))
    IN IF n = 0 THEN Raise("FormatError")
       ELSE IF suffix = <<>> THEN Num(v.n, v.f, 1000, 0)
       ELSE LET base == IF Len(suffix) = 2 /\ suffix[2] = "i" THEN 1024 ELSE 1000
            IN Num(v.n, v.f, base, UnitPower[Lower(suffix[1])])

\* Two outcomes agree: equal numbers, or both a raised exception.
SameOutcome(a, b) ==
    IF a.exc \in Errors \/ b.exc \in Errors
    THEN a.exc \in Errors /\ b.exc \in Errors
    ELSE a = b

=============================================================================
