\* A diamond and a cycle of writes, natively and in the browser, with panics
\* and traps.
CONSTANTS
    a = a
    b = b
    m = m
    e1 = e1
    e2 = e2
    Signal = {a, b}
    Memo = {m}
    Effect = {e1, e2}
    Scoped = {e2}
    Deps <- DiamondDeps
    Writes <- CrossWrites
    Outside = {m}
    Targets = {"native", "web"}
    MaxFlush = 2
    MaxBatch = 1
    MaxDead = 1
    MaxWedged = 1
    Batching = {e2}
    MayPanic = TRUE
SPECIFICATION Spec
INVARIANTS FlagsMatchStack CleanMemosFresh Subscribed StaleEffectsRun
PROPERTIES CallsReturn
