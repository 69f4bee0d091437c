SPECIFICATION Spec
CONSTANTS
    Char = {"a", "b", "c"}
    Texts <- AllTexts
    Patterns <- AllPatterns
INVARIANT
    NoMiss
CHECK_DEADLOCK FALSE
