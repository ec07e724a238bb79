SPECIFICATION Spec
CONSTANTS
    Invocations <- MCInvocations
    Failures <- MCFailures
    MaxSpend = 1
INVARIANTS
    RecordsAreTrue
PROPERTIES
    SettlesOnce
CHECK_DEADLOCK FALSE
