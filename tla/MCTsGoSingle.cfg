\* The single caller the server really has at a time, callbacks answered either way.
SPECIFICATION FairSpec
CONSTANTS
    Callers = {c1}
    NoCaller = NoCaller
    MaxId = 9
    MaxCallbacks = 3
    CallbackModes = {"inline", "goroutine"}
    ServerMayExit = TRUE
INVARIANTS
    BytesIntact
    LockNotLeaked
    HandleOfItsSnapshot
CHECK_DEADLOCK FALSE
