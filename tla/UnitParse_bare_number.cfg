CONSTANTS
    Alphabet <- MCAlphabet
    MaxLen = 4

SPECIFICATION Spec

INVARIANT ConvertMatchesSpec

\* convert_string2float returns after one step: the call ends.
CHECK_DEADLOCK FALSE
