SPECIFICATION FairSpec
CONSTANTS
    Fetches <- MCFetches
    Origins <- MCOrigins
    Host <- MCHost
    Denied <- MCDenied
    MaxHops = 1
    Spacing = 1
INVARIANTS
    HostsAreSpared
PROPERTIES
    FetchEnds
CHECK_DEADLOCK FALSE
