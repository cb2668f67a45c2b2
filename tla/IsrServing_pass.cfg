\* Two connections, one content change.
CONSTANTS
    Request = {r1, r2}
    replica = replica
    Replica = {replica}
    Home <- OneReplica
    MaxAge = 0
    LeaseTtl = 1
    PollAttempts = 1
    MaxVersion = 1
    MaxSpawned = 1
    NoPage = NoPage
SPECIFICATION BusySpec
INVARIANTS OneWinnerUnlessStrayed KeyHasTask
PROPERTIES EveryRequestEnds LatestIsCached
