SPECIFICATION Spec
CONSTANTS
    Processes <- MCProcesses
    Environments <- MCEnvironments
    Memories <- MCMemories
    CallEfforts <- MCCallEfforts
    MaxLaunches = 3
INVARIANTS
    MigrationIsSound
    ServedAsConfigured
CHECK_DEADLOCK FALSE
