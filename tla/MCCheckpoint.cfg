SPECIFICATION FairSpec
CONSTANTS
    MaxEvals = 2
    MaxTime = 0
    Window = 0
    CaptureCap = 1
    Sessions <- OneSession
    BatchKeys <- OneSignal
    Statements <- MCStatements
    Memories <- OneMemory
    Boundaries <- AllBoundaries
    MemoryOn = TRUE
INVARIANTS
    AnswerIsHonest
    EnforcesLiveConstraints
    CaptureOverrunHasACause
PROPERTIES
    EvaluationEnds
CHECK_DEADLOCK FALSE
