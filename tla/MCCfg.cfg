\* Every file of up to 7 tokens: two statements in a nest of two, or four in one.
SPECIFICATION Spec
CONSTANTS
    Conditions = {"any", "true", "false"}
    Statements = {"call", "plain", "return", "throw", "break", "continue", "if", "else", "while", "for in", "for", "switch", "function", "panic"}
    MaxTokens = 7
INVARIANTS
    OnlyUnreachableReported
    UnreachableReported
    ComplexityCountsDecisions
\* A file ends.
CHECK_DEADLOCK FALSE
