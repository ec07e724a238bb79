SPECIFICATION Spec
CONSTANTS
    Memories <- TwoMemories
    Standing <- NoMemory
    Kinds <- OneKind
    Bands <- TwinBand
    Pushes <- NoPushes
    Sessions <- OneSession
    PushCap = 1
INVARIANTS
    OneCanonicalActive
CHECK_DEADLOCK FALSE
