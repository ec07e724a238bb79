SPECIFICATION FairSpec
CONSTANTS
    MaxSources = 2
    MaxClaims = 3
    MaxPerSource = 3
    Concurrency = 2
    VerifyK = 3
    Budget = 4
    MaxCall = 1
INVARIANTS
    OvershootBounded
    ResultIsHonest
PROPERTIES
    StepsAreLawful
    RunEnds
CHECK_DEADLOCK FALSE
