CONSTANTS
    Alphabet <- MCAlphabet
    MaxLen = 6

SPECIFICATION Spec

INVARIANT TypeOK
INVARIANT ConvertMatchesSpecWithUnit

\* convert_string2float returns after one step: the call ends.
CHECK_DEADLOCK FALSE
