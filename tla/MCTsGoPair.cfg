\* Two goroutines share the client; the child stays alive.
SPECIFICATION FairSpec
CONSTANTS
    Callers = {c1, c2}
    NoCaller = NoCaller
    MaxId = 8
    MaxCallbacks = 1
    CallbackModes = {"inline"}
    ServerMayExit = FALSE
INVARIANTS
    TypeOK
    RequestConserved
    StuckReaderStrandsOne
    AsksOwnSnapshot
    LockDiscipline
PROPERTIES
    SnapshotNeverGoesBack
    OperationsReturn
CHECK_DEADLOCK FALSE
