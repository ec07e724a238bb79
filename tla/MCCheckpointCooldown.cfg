SPECIFICATION Spec
CONSTANTS
    MaxEvals = 3
    MaxTime = 2
    Window = 1
    CaptureCap = 1
    Sessions <- OneSession
    BatchKeys <- OneSignal
    Statements <- MCStatements
    Memories <- NoMemory
    Boundaries <- TurnOnly
    MemoryOn = FALSE
INVARIANTS
    CooldownIsFair
CHECK_DEADLOCK FALSE
