---------------------------- MODULE MemoryStore -----------------------------
(***************************************************************************)
(* krab_core::store::MemoryStore, the in-process DistributedStore: a map   *)
(* of entries behind an async read/write lock, a queue of keys in          *)
(* insertion order that decides what a full store evicts, and a sweep      *)
(* that runs once per SweepEvery writes.                                   *)
(*                                                                         *)
(* Every writing operation holds the write lock from its first read to its *)
(* last assignment, so it is one step.  `get' is not: it drops the read    *)
(* lock when it finds an expired entry and removes the key later under     *)
(* the write lock, so it is a GetRead step and a GetReap step.             *)
(***************************************************************************)
EXTENDS Integers, Sequences, FiniteSets

CONSTANTS
    Key,         \* the keys in use
    Payload,     \* the values that do not parse as an unsigned integer
    Task,        \* the async tasks that call `get'
    MaxEntries,  \* the capacity cap; 0 means no cap
    SweepEvery,  \* SWEEP_EVERY_N_WRITES
    MaxU64,      \* u64::MAX
    Ttl,         \* the durations callers pass; 0 is Duration::ZERO
    Prefixes,    \* the prefixes listed, each as the set of keys that start with it
    MaxNow,      \* bound of the model: the clock stops here
    MaxQueue,    \* bound of the model: no insert once the queue is this long
    NoExpiry,    \* expires_at = None
    Absent,      \* the answer None
    Err,         \* the answer Err(..)
    NoKey        \* a task that is not about to reap anything

ASSUME StoreAssumption ==
    /\ IsFiniteSet(Key)
    /\ NoKey \notin Key
    /\ MaxEntries \in Nat
    /\ SweepEvery \in Nat \ {0}
    /\ MaxU64 \in Nat \ {0}
    /\ MaxNow \in Nat
    /\ MaxQueue \in Nat
    /\ Ttl \subseteq Nat
    /\ NoExpiry \notin Nat
    /\ Payload \cap Nat = {}

VARIABLES
    entries,           \* MemoryInner.entries: a function on the stored keys
    order,             \* MemoryInner.order, ghosts and duplicates included
    writesSinceSweep,  \* writes_since_sweep
    now,               \* the monotonic clock
    reaping,           \* the key a task's `get' found expired and will remove
    reply              \* what the last finished operation returned

vars == <<entries, order, writesSinceSweep, now, reaping, reply>>

Value == Payload \cup (0 .. MaxU64)
Entry == [value : Value, expires_at : Nat \cup {NoExpiry}]

IsExpired(e) == e.expires_at # NoExpiry /\ now >= e.expires_at

Deadline(ttl) == IF ttl = 0 THEN NoExpiry ELSE now + ttl

\* Bug variant: no saturation.
PlainAdd(a, b) == a + b

SaturatingAdd(a, b) == IF a + b > MaxU64 THEN MaxU64 ELSE a + b

LiveKeys(m) == {k \in DOMAIN m : ~IsExpired(m[k])}
Only(m, keys) == [k \in keys |-> m[k]]
Put(m, k, e) == [x \in DOMAIN m \cup {k} |-> IF x = k THEN e ELSE m[x]]

-----------------------------------------------------------------------------
(* Eviction, insertion and the sweep: what runs under the write lock.      *)

SlotKeys(q) == {q[i] : i \in 1 .. Len(q)}

\* The keys whose slots are the first n of the queue.
Popped(n) == {order[i] : i \in 1 .. n}

\* Bug variant: room is what the cap allows before the insert, not after it.
HasRoomBeforeInsert(m, n) == Cardinality(DOMAIN m \ Popped(n)) <= MaxEntries

\* Popping n slots leaves room for one more entry.
HasRoom(m, n) == Cardinality(DOMAIN m \ Popped(n)) < MaxEntries

\* How many slots evict_for_capacity pops: it stops at the first slot that
\* makes room, or when the queue is empty.
PopCounts(m) ==
    IF MaxEntries = 0 THEN {0}
    ELSE {n \in 0 .. Len(order) :
            /\ HasRoom(m, n) \/ n = Len(order)
            /\ \A i \in 0 .. (n - 1) : ~HasRoom(m, i)}

\* Bug variant: a key that has a slot already, a ghost maybe, is not queued again.
InsertQueuedOnce(m, k, e) ==
    IF k \in DOMAIN m
    THEN {[entries |-> Put(m, k, e), order |-> order]}
    ELSE {[entries |-> Put(Only(m, DOMAIN m \ Popped(n)), k, e),
           order   |-> SubSeq(order, n + 1, Len(order))
                          \o (IF k \in SlotKeys(order) THEN <<>> ELSE <<k>>)] : n \in PopCounts(m)}

\* insert_entry: a stored key keeps its slot, a new one is queued last after
\* room is made for it.
InsertResults(m, k, e) ==
    IF k \in DOMAIN m
    THEN {[entries |-> Put(m, k, e), order |-> order]}
    ELSE {[entries |-> Put(Only(m, DOMAIN m \ Popped(n)), k, e),
           order   |-> Append(SubSeq(order, n + 1, Len(order)), k)] : n \in PopCounts(m)}

\* `a' has a slot in q ahead of every slot of `b'.
Before(q, a, b) ==
    \E i \in 1 .. Len(q) : q[i] = a /\ \A j \in 1 .. i : q[j] # b

\* The queue with one slot for each key of `keys', in the order of their first
\* slots, and nothing else.
Compactions(q, keys) ==
    {s \in [1 .. Cardinality(keys) -> keys] :
        /\ SlotKeys(s) = keys
        /\ \A i, j \in DOMAIN s : i < j => Before(q, s[i], s[j])}

\* Bug variant: the sweep forgets the queue.
SweepEntriesOnly(r) ==
    {[entries |-> IF writesSinceSweep + 1 < SweepEvery THEN r.entries
                  ELSE Only(r.entries, LiveKeys(r.entries)),
      order   |-> r.order,
      writes  |-> (writesSinceSweep + 1) % SweepEvery]}

\* sweep_if_due: every SweepEvery-th write drops the expired entries and
\* compacts the queue.
SweepResults(r) ==
    IF writesSinceSweep + 1 < SweepEvery
    THEN {[entries |-> r.entries, order |-> r.order, writes |-> writesSinceSweep + 1]}
    ELSE {[entries |-> Only(r.entries, LiveKeys(r.entries)), order |-> s, writes |-> 0] :
            s \in Compactions(r.order, LiveKeys(r.entries))}

\* One write-lock section that stores `e' at `k' in the map `m'.
Store(m, k, e) ==
    /\ Len(order) < MaxQueue
    /\ \E r \in InsertResults(m, k, e) : \E s \in SweepResults(r) :
          /\ entries' = s.entries
          /\ order' = s.order
          /\ writesSinceSweep' = s.writes

NoStore == UNCHANGED <<entries, order, writesSinceSweep>>

IsLive(k) == k \in LiveKeys(entries)

-----------------------------------------------------------------------------
(* The operations.                                                         *)

Set(k, v, ttl) ==
    /\ Store(entries, k, [value |-> v, expires_at |-> Deadline(ttl)])
    /\ reply' = <<"set", k, v>>
    /\ UNCHANGED <<now, reaping>>

\* incr removes an expired entry before it inserts, so the key is queued again.
Incr(k, delta) ==
    /\ IF IsLive(k) /\ entries[k].value \in Payload
       THEN reply' = <<"incr", k, Err>> /\ NoStore
       ELSE LET base == IF IsLive(k) THEN entries ELSE Only(entries, DOMAIN entries \ {k})
                old  == IF IsLive(k) THEN entries[k].value ELSE 0
                till == IF IsLive(k) THEN entries[k].expires_at ELSE NoExpiry
                next == SaturatingAdd(old, delta)
            IN  /\ Store(base, k, [value |-> next, expires_at |-> till])
                /\ reply' = <<"incr", k, next>>
    /\ UNCHANGED <<now, reaping>>

\* Bug variant: every increment starts the window anew.
IncrSlidingWindow(k, delta, ttl) ==
    /\ IF IsLive(k) /\ entries[k].value \in Payload
       THEN reply' = <<"incr_with_ttl", k, Err>> /\ NoStore
       ELSE LET next == SaturatingAdd(IF IsLive(k) THEN entries[k].value ELSE 0, delta)
            IN  /\ Store(entries, k, [value |-> next, expires_at |-> Deadline(ttl)])
                /\ reply' = <<"incr_with_ttl", k, next>>
    /\ UNCHANGED <<now, reaping>>

\* incr_with_ttl overwrites an expired entry where it is.
IncrWithTtl(k, delta, ttl) ==
    /\ IF IsLive(k) /\ entries[k].value \in Payload
       THEN reply' = <<"incr_with_ttl", k, Err>> /\ NoStore
       ELSE LET old  == IF IsLive(k) THEN entries[k].value ELSE 0
                till == IF IsLive(k) THEN entries[k].expires_at ELSE Deadline(ttl)
                next == SaturatingAdd(old, delta)
            IN  /\ Store(entries, k, [value |-> next, expires_at |-> till])
                /\ reply' = <<"incr_with_ttl", k, next>>
    /\ UNCHANGED <<now, reaping>>

\* `expire' renews whatever is stored, an expired entry too: that entry is
\* then readable again.
Expire(k, ttl) ==
    /\ entries' = IF k \in DOMAIN entries
                  THEN [entries EXCEPT ![k].expires_at = Deadline(ttl)]
                  ELSE entries
    /\ reply' = <<"expire", k, TRUE>>
    /\ UNCHANGED <<order, writesSinceSweep, now, reaping>>

Delete(k) ==
    /\ entries' = Only(entries, DOMAIN entries \ {k})
    /\ reply' = <<"delete", k, k \in DOMAIN entries>>
    /\ UNCHANGED <<order, writesSinceSweep, now, reaping>>

SetIfAbsent(k, v, ttl) ==
    /\ IF IsLive(k)
       THEN reply' = <<"set_if_absent", k, FALSE>> /\ NoStore
       ELSE /\ Store(entries, k, [value |-> v, expires_at |-> Deadline(ttl)])
            /\ reply' = <<"set_if_absent", k, TRUE>>
    /\ UNCHANGED <<now, reaping>>

\* keys_with_prefix for a prefix that the keys of `prefix' start with.
KeysWithPrefix(prefix) ==
    /\ reply' = <<"keys_with_prefix", prefix, LiveKeys(entries) \cap prefix>>
    /\ UNCHANGED <<entries, order, writesSinceSweep, now, reaping>>

\* get, under the read lock: a hit, a miss, or an expired entry to remove.
GetRead(t, k) ==
    /\ reaping[t] = NoKey
    /\ IF k \in DOMAIN entries /\ IsExpired(entries[k])
       THEN reaping' = [reaping EXCEPT ![t] = k] /\ UNCHANGED reply
       ELSE /\ reply' = <<"get", k, IF k \in DOMAIN entries THEN entries[k].value ELSE Absent>>
            /\ UNCHANGED reaping
    /\ UNCHANGED <<entries, order, writesSinceSweep, now>>

\* get, under the write lock: whatever is at the key now is removed.
GetReap(t) ==
    /\ reaping[t] # NoKey
    /\ entries' = Only(entries, DOMAIN entries \ {reaping[t]})
    /\ reaping' = [reaping EXCEPT ![t] = NoKey]
    /\ reply' = <<"get", reaping[t], Absent>>
    /\ UNCHANGED <<order, writesSinceSweep, now>>

Tick ==
    /\ now < MaxNow
    /\ now' = now + 1
    /\ UNCHANGED <<entries, order, writesSinceSweep, reaping, reply>>

Init ==
    /\ entries = [k \in {} |-> 0]
    /\ order = <<>>
    /\ writesSinceSweep = 0
    /\ now = 0
    /\ reaping = [t \in Task |-> NoKey]
    /\ reply = <<"none">>

Next ==
    \/ Tick
    \/ \E k \in Key, v \in Payload, ttl \in Ttl : Set(k, v, ttl)
    \/ \E k \in Key, v \in Payload, ttl \in Ttl : SetIfAbsent(k, v, ttl)
    \/ \E k \in Key : Incr(k, 1)
    \/ \E k \in Key, ttl \in Ttl : IncrWithTtl(k, 1, ttl)
    \/ \E k \in Key : Delete(k)
    \/ \E prefix \in Prefixes : KeysWithPrefix(prefix)
    \/ \E t \in Task, k \in Key : GetRead(t, k)
    \/ \E t \in Task : GetReap(t)
    \/ \E k \in Key, ttl \in Ttl : Expire(k, ttl)

Spec == Init /\ [][Next]_vars

-----------------------------------------------------------------------------
(* Invariants.                                                             *)

TypeOK ==
    /\ DOMAIN entries \subseteq Key
    /\ entries \in [DOMAIN entries -> Entry]
    /\ order \in Seq(Key)
    /\ writesSinceSweep \in 0 .. (SweepEvery - 1)
    /\ now \in 0 .. MaxNow
    /\ reaping \in [Task -> Key \cup {NoKey}]

\* "Every live entry has a queue slot" (evict_for_capacity): the eviction loop
\* relies on it, or an insert at capacity would find the queue empty while the
\* map is full and let the map grow past its cap.
EverySlotted == DOMAIN entries \subseteq SlotKeys(order)

\* The cap holds at every moment, after any mix of inserts, overwrites,
\* deletes and reaps: no operation leaves more than max_entries entries.
CapacityHeld == MaxEntries > 0 => Cardinality(DOMAIN entries) <= MaxEntries

\* The queue holds ghosts and duplicates, but "stays proportional to the live
\* entry count plus one sweep window of churn" (MemoryInner.order).
QueueBounded == MaxEntries > 0 => Len(order) <= MaxEntries + writesSinceSweep

-----------------------------------------------------------------------------
(* What the store is for: it implements the lossy TTL map of TtlMap, with  *)
(* its unexpired entries as the map.                                       *)

Map == INSTANCE TtlMap WITH live <- Only(entries, LiveKeys(entries))

\* Every operation, whatever the queue, the sweep, the evictions and the late
\* reaps do underneath, answers and changes the readable entries as the map
\* does: no lost or doubled increment, no moved expiry, no expired value
\* served, at most one other entry lost to an insert.
ImplementsTtlMap == Map!Spec

-----------------------------------------------------------------------------
(* What the repository's text says of the store, for the runs that refute  *)
(* it.                                                                     *)

\* DistributedStore::set "Stores value at key, replacing any existing value and
\* expiry", and get answers "None if it is absent or expired": a lookup does
\* not take away an entry that has not expired.
LookupKeepsLiveEntries ==
    [][reply'[1] = "get" => \A k \in LiveKeys(entries) : k \in DOMAIN entries']_vars
=============================================================================
