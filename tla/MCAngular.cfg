SPECIFICATION MCSpec
CONSTANTS
    A = A
    B = B
    D = D
    M1 = M1
    M2 = M2
    M3 = M3
    K1 = K1
    K2 = K2
    K3 = K3
    K4 = K4
    K5 = K5
    K6 = K6
    K7 = K7
    K8 = K8
    K9 = K9
    K10 = K10
    X = X
    Modules = {M1, M2, M3}
    Components = {A, B, K1, K2, K3, K4, K5, K6, K7, K8, K9, K10}
    Directives = {D}
    Sources <- MCSources
    ArrayFiles = {X}
    ArrayTexts <- MCArrayTexts
    Projects <- MCProjects
    None = None
    Endless = Endless
    Panicked = Panicked
    Settings = {TRUE, FALSE}
    MaxEdits = 2
INVARIANTS
    DeclaringModulesKnown
    EndsOnlyOnCycle
    RoutesFollowLinks
    ModulesReported
PROPERTIES
    AnswersRight
    EditedSeesOwn
CHECK_DEADLOCK FALSE
