SPECIFICATION Spec
CONSTANTS
    Requests = {"r1", "r2"}
    Kids = {"k1", "k2", "s"}
    Published <- MCPublished
    MaxPublished = 2
    StaticKids = {"s"}
    Retiring = {"k2"}
    Tokens = {"a2", "x", "f"}
    NamedKid <- MCNamedKid
    SignedBy <- MCSignedBy
    RefreshTokens = {"f"}
    Claims <- MCClaims
    Policy <- MCPolicy
    RequireKid = FALSE
    Threshold = 0
    MinRefetch = 1
    RefreshEvery = 1
    MaxCalls = 2
INVARIANTS
    OutageNotBlamed
    RevokedStaysOut
    RotatedOnce
PROPERTIES
    KeySetNeverOlder
    KeysCatchUp
CHECK_DEADLOCK FALSE
