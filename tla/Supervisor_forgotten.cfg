\* A watch restart whose service does not come up again.
CONSTANTS
    auth = auth
    users = users
    frontend = frontend
    Service = {auth, users, frontend}
    Order <- Chain
    DependsOn <- ChainDeps
    Watched = {auth, frontend}
    RestartOnExit = {auth, frontend}
    MaxAttempts = 2
    Backoff = 1
    Stable = 1
    None = None
SPECIFICATION Spec
INVARIANT NoneMeansRunningOrSpent
