SPECIFICATION Spec
CONSTANTS
    Memories <- ThreeMemories
    Standing <- OldMemory
    Kinds <- TwoKinds
    Bands <- CloseBands
    Pushes <- NoPushes
    Sessions <- OneSession
    PushCap = 1
INVARIANTS
    RetirementsAreSound
    AuditExplainsStore
    SavesAreKept
PROPERTIES
    NothingReturns
CHECK_DEADLOCK FALSE
