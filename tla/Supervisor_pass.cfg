\* Three services, two of them watched, one not restarted by policy.
CONSTANTS
    auth = auth
    users = users
    frontend = frontend
    Service = {auth, users, frontend}
    Order <- Chain
    DependsOn <- ChainDeps
    Watched = {auth, frontend}
    RestartOnExit = {auth, frontend}
    MaxAttempts = 2
    Backoff = 1
    Stable = 1
    None = None
SPECIFICATION Spec
INVARIANTS NoOrphans RetryWithinBudget NoServiceForgotten
PROPERTIES SpawnsOnce DependencyOutlives RestartFollows ShutdownCompletes
