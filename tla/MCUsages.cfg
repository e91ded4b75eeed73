\* The goroutines of State.Postprocess, one at a time or at once, then edits.
SPECIFICATION MCSpec
CONSTANTS
    A = A
    B = B
    C = C
    D = D
    Classes = {A, B, C, D}
    NoClass = NoClass
    Names = {n}
    Sources <- AllSources
    Declared <- MCDeclared
    InModule = {C}
    Settings = {TRUE, FALSE}
    MaxEdits = 2
INVARIANTS
    TypeOK
    AccessCoversUses
    NoPhantomUse
    BaseKnowsAfterStart
PROPERTIES
    EditReachesAbove
    EditRestoresBelow
CHECK_DEADLOCK FALSE
