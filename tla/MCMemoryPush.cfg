SPECIFICATION Spec
CONSTANTS
    Memories <- OldAndNew
    Standing <- OldMemory
    Kinds <- OneKind
    Bands <- TwinBand
    Pushes <- TwoPushes
    Sessions <- OneSession
    PushCap = 1
INVARIANTS
    PushIsSound
CHECK_DEADLOCK FALSE
