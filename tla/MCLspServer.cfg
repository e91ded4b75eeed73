\* The handshake, an impatient editor, and a queue the buffer overwrites.
SPECIFICATION FairSpec
CONSTANTS
    MaxMessages = 6
    EarlyMessages = {"shutdown", "other"}
    BufferIsReused = TRUE
INVARIANTS
    TypeOK
    FeaturesAfterIndex
    OvertakenOnlyInLostPlaces
PROPERTIES
    ServedInOrder
    MessagesServed
    InitializeAnswered
    ShutdownExits
CHECK_DEADLOCK FALSE
