SPECIFICATION SearchesSpec
CONSTANTS
    Char = {"a", "b", "c"}
    Texts <- AllTexts
    Patterns <- AllPatterns
    Chars <- SomeChars
    MaxLen = 4
INVARIANTS
    RestartAnswersRight
    FindsWhatIsThere
PROPERTIES
    ImplementsSearch
    Terminates
CHECK_DEADLOCK FALSE
