\* Three tasks, both trip policies, seconds of two ticks and a window of two.
CONSTANTS
    Caller = {c1, c2, c3}
    Policies <- TwoPolicies
    OpenCooldown = 2
    MaxProbes = 2
    WindowSecs = 2
    TicksPerSecond = 2
    MaxU32 = 3
    MaxNow = 7
    MaxSamples = 4
    None = None
SPECIFICATION Spec
CHECK_DEADLOCK FALSE
INVARIANTS ProbesUnderWay PhaseSound BelowThreshold WindowCounts
PROPERTIES CooldownNotProlonged HalfOpenEnds
