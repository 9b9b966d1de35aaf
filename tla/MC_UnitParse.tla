--------------------------- MODULE MC_UnitParse ----------------------------
EXTENDS UnitParseCheck

\* Digits, the decimal point, unit letters in both cases, the binary "i" and
\* a letter that is no unit: every branch of the parser and of the regex.
MCAlphabet == {"1", "5", ".", "k", "K", "i", "G", "x"}

=============================================================================
