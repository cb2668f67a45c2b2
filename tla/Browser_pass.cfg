SPECIFICATION Spec
CONSTANTS
    Pages = {"a", "b", "c"}
    Outlets = {"a", "b"}
    Redirects <- MCRedirects
    Links <- MCLinks
    FirstPage = "a"
    MaxEvents = 4
    Inputs = {"x", "y"}
    FirstInput = "x"
    Holds <- MCHolds
    Fallback <- MCFallback
    Views <- MCViews
    NestedRuns = {0, 3}
    MaxLate = 1
INVARIANTS
    AddressAgrees
    LatestWins
    ShowsLatest
    NoOrphans
    LaidInOrder
CHECK_DEADLOCK FALSE
