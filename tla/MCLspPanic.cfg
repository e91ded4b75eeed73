\* What the log says of a panic, against what handleMessage does.
SPECIFICATION Spec
CONSTANTS
    MaxMessages = 5
    EarlyMessages = {}
    BufferIsReused = FALSE
INVARIANTS
    PanicsAnswered
CHECK_DEADLOCK FALSE
