\* Three keys in a store of two, a sweep every third write, one task in `get'.
CONSTANTS
    Key = {k1, k2, k3}
    Payload = {page}
    Task = {t1}
    MaxEntries = 2
    SweepEvery = 3
    MaxU64 = 2
    Ttl = {0, 1}
    Prefixes = {{k1, k2, k3}}
    MaxNow = 1
    MaxQueue = 7
    NoExpiry = NoExpiry
    Absent = Absent
    Err = Err
    NoKey = NoKey
SPECIFICATION Spec
INVARIANTS EverySlotted CapacityHeld QueueBounded
SYMMETRY Symmetry
PROPERTY ImplementsTtlMap
