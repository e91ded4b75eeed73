\* What the diagnostics say of a public member, by default settings.
SPECIFICATION Spec
CONSTANTS
    A = A
    B = B
    C = C
    D = D
    Classes = {A, B, C}
    NoClass = NoClass
    Names = {n}
    Sources <- FixedSources
    Declared <- MCDeclared
    InModule = {C}
    Settings = {FALSE}
    MaxEdits = 2
INVARIANT NeedlesslyPublic
CHECK_DEADLOCK FALSE
