\* One probe at a time, and a call admitted before the breaker opened.
CONSTANTS
    Caller = {c1, c2}
    Policies <- TwoPolicies
    OpenCooldown = 2
    MaxProbes = 1
    WindowSecs = 2
    TicksPerSecond = 2
    MaxU32 = 3
    MaxNow = 6
    MaxSamples = 3
    None = None
SPECIFICATION Spec
CHECK_DEADLOCK FALSE
INVARIANT ProbesInFlightCapped
