SPECIFICATION Spec
CONSTANTS
    Migrators = {"r1", "r2"}
    Versions = {1, 2, 3}
    Compiled = {1, 2, 3}
    Critical = {2}
    Destructive = {3}
    Reversible = {2, 3}
    PolicyOf <- MCPolicyOf
    EnvOf <- MCEnvOf
    ReleaseStages = {3, 4}
    RequireRehearsal = TRUE
    ConnectRetries = 2
    StartRows <- MCStartRows
    StartStages <- MCStartStages
    MaxRuns = 3
INVARIANTS
    RowsMatchSchema
    CheckStillTrue
    CriticalFirst
PROPERTY
    EveryRunEnds
CHECK_DEADLOCK FALSE
