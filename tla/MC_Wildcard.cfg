CONSTANTS
    Star = "*"
    Alphabet = {"a", "b"}
    MaxLen = 5
SPECIFICATION Spec
INVARIANTS
    MatcherAgreesWithReference
\* The input enumeration ends when both strings reach MaxLen symbols.
CHECK_DEADLOCK FALSE
