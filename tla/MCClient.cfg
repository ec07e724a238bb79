SPECIFICATION FairSpec
CONSTANTS
    Calls <- MCCalls
    Adapters <- AllAdapters
    Structured <- MCStructured
    MaxRetries = 2
    MaxCharge = 2
INVARIANTS
    UsageSurvives
    AdaptersAgree
PROPERTIES
    RequestsAreEarned
    KeepsPromise
    CallEnds
CHECK_DEADLOCK FALSE
