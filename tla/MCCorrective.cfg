SPECIFICATION Spec
CONSTANTS
    Tools <- AllTools
    Ensemble = 3
    Framings <- MCFramings
    Alike <- MCAlike
    Specs <- MCSpecs
INVARIANTS
    BillingIsExact
    VerdictIsBacked
    ComputationIsNotVoted
    PerspectivesSpan
CHECK_DEADLOCK FALSE
