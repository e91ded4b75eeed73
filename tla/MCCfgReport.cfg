\* Functions that stand directly in the program.
SPECIFICATION Spec
CONSTANTS
    Conditions = {"any"}
    Statements = {"call", "return", "function"}
    MaxTokens = 5
INVARIANTS
    HighlightsUnreachable
\* A file ends.
CHECK_DEADLOCK FALSE
