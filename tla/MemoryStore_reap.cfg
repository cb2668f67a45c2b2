\* No cap: only the late removal in `get' can take a live entry away.
CONSTANTS
    Key = {k1, k2, k3}
    Payload = {page}
    Task = {t1}
    MaxEntries = 0
    SweepEvery = 3
    MaxU64 = 2
    Ttl = {0, 1}
    Prefixes = {{k1, k2, k3}}
    MaxNow = 2
    MaxQueue = 7
    NoExpiry = NoExpiry
    Absent = Absent
    Err = Err
    NoKey = NoKey
SPECIFICATION Spec
PROPERTY LookupKeepsLiveEntries
