------------------------- MODULE MemoryStoreProofs --------------------------
(***************************************************************************)
(* MemoryStore keeps its type, its queue slots, its cap and its queue      *)
(* bound, for any set of keys, any cap, any sweep period and any workload. *)
(***************************************************************************)
EXTENDS MemoryStore, FiniteSetTheorems, SequenceTheorems, TLAPS

\* A map of entries on keys, as the steps of the store build them.
EntryMap(m) == DOMAIN m \subseteq Key /\ m \in [DOMAIN m -> Entry]

\* What a map and its queue must satisfy together, `slack' being the number of
\* slots beyond the cap that the queue may hold.
Sound(m, q, slack) ==
    /\ EntryMap(m)
    /\ q \in Seq(Key)
    /\ DOMAIN m \subseteq SlotKeys(q)
    /\ MaxEntries > 0 => Cardinality(DOMAIN m) <= MaxEntries
    /\ MaxEntries > 0 => Len(q) <= MaxEntries + slack

IInv == TypeOK /\ EverySlotted /\ CapacityHeld /\ QueueBounded

-----------------------------------------------------------------------------
(* Maps.                                                                   *)

\* Any set of keys is finite, so its cardinality is a number.
LEMMA FiniteDomain ==
    ASSUME NEW S \in SUBSET Key
    PROVE  IsFiniteSet(S) /\ Cardinality(S) \in Nat
BY StoreAssumption, FS_Subset, FS_CardinalityType

\* Dropping entries leaves a map of entries.
LEMMA OnlyMap ==
    ASSUME NEW m, EntryMap(m), NEW S \in SUBSET DOMAIN m
    PROVE  EntryMap(Only(m, S)) /\ DOMAIN Only(m, S) = S
BY DEF EntryMap, Only

\* Storing an entry at a key leaves a map of entries.
LEMMA PutMap ==
    ASSUME NEW m, EntryMap(m), NEW k \in Key, NEW e \in Entry
    PROVE  EntryMap(Put(m, k, e)) /\ DOMAIN Put(m, k, e) = DOMAIN m \cup {k}
BY DEF EntryMap, Put

-----------------------------------------------------------------------------
(* Under the write lock.                                                   *)

\* An insert keeps the map and the queue sound, with one more slot of slack.
LEMMA InsertSound ==
    ASSUME NEW m, Sound(m, order, writesSinceSweep), writesSinceSweep \in Nat,
           NEW k \in Key, NEW e \in Entry, NEW r \in InsertResults(m, k, e)
    PROVE  Sound(r.entries, r.order, writesSinceSweep + 1)
<1> USE StoreAssumption
<1>m. EntryMap(m) /\ order \in Seq(Key) /\ Len(order) \in Nat
  BY DEF Sound
<1>1. CASE k \in DOMAIN m
  <2>1. r.entries = Put(m, k, e) /\ r.order = order
    BY <1>1 DEF InsertResults
  <2>2. EntryMap(Put(m, k, e)) /\ DOMAIN Put(m, k, e) = DOMAIN m \cup {k}
    BY <1>m, PutMap
  <2>3. DOMAIN Put(m, k, e) = DOMAIN m
    BY <1>1, <2>2
  <2> QED
    BY <1>m, <2>1, <2>2, <2>3 DEF Sound
<1>2. CASE k \notin DOMAIN m
  <2>0. PICK n \in PopCounts(m) :
          r = [entries |-> Put(Only(m, DOMAIN m \ Popped(n)), k, e),
               order   |-> Append(SubSeq(order, n + 1, Len(order)), k)]
    BY <1>2, Zenon DEF InsertResults
  <2>1. /\ r.entries = Put(Only(m, DOMAIN m \ Popped(n)), k, e)
        /\ r.order = Append(SubSeq(order, n + 1, Len(order)), k)
    BY <2>0
  <2>2. n \in 0 .. Len(order)
    <3>1. CASE MaxEntries = 0
      BY <3>1, <1>m DEF PopCounts
    <3>2. CASE MaxEntries # 0
      BY <3>2, <1>m DEF PopCounts
    <3> QED
      BY <3>1, <3>2
  <2> DEFINE kept == DOMAIN m \ Popped(n)
             rest == SubSeq(order, n + 1, Len(order))
  <2>3. EntryMap(Only(m, kept)) /\ DOMAIN Only(m, kept) = kept
    BY <1>m, OnlyMap
  <2>4. EntryMap(r.entries) /\ DOMAIN r.entries = kept \cup {k}
    <3> HIDE DEF kept
    <3>1. EntryMap(Put(Only(m, kept), k, e)) /\ DOMAIN Put(Only(m, kept), k, e) = DOMAIN Only(m, kept) \cup {k}
      BY <2>3, PutMap
    <3> QED
      BY <2>1, <2>3, <3>1, Zenon DEF kept
  <2>5. /\ rest \in Seq(Key)
        /\ Len(rest) = Len(order) - n
        /\ \A i \in 1 .. Len(rest) : rest[i] = order[n + i]
    <3>1. \A i \in (n + 1) .. Len(order) : order[i] \in Key
      BY <1>m, <2>2, ElementOfSeq
    <3>2. rest \in Seq(Key)
      BY <1>m, <2>2, <3>1, SubSeqProperties
    <3>3. /\ Len(rest) = Len(order) - n
          /\ \A i \in 1 .. Len(rest) : rest[i] = order[n + i]
      <4>1. Len(order) \in Nat /\ n \in Nat /\ n + 1 \in 1 .. Len(order) + 1
        BY <1>m, <2>2
      <4> QED
        BY <1>m, <4>1, SubSeqProperties
    <3> QED
      BY <3>2, <3>3
  <2>6. /\ r.order \in Seq(Key)
        /\ Len(r.order) = Len(rest) + 1
        /\ r.order[Len(rest) + 1] = k
        /\ \A i \in 1 .. Len(rest) : r.order[i] = rest[i]
    BY <2>1, <2>5, AppendProperties
  <2>7. DOMAIN r.entries \subseteq SlotKeys(r.order)
    <3> SUFFICES ASSUME NEW x \in kept \cup {k} PROVE x \in SlotKeys(r.order)
      BY <2>4
    <3>1. CASE x = k
      BY <3>1, <2>5, <2>6, <2>2, <1>m DEF SlotKeys
    <3>2. CASE x # k
      <4>1. PICK i \in 1 .. Len(order) : order[i] = x
        BY <3>2 DEF Sound, SlotKeys
      <4>2. i \notin 1 .. n
        BY <4>1, <3>2 DEF Popped
      <4>3. i - n \in 1 .. Len(rest) /\ rest[i - n] = x
        BY <4>1, <4>2, <2>2, <2>5, <1>m
      <4> QED
        <5>1. i - n \in 1 .. Len(r.order) /\ r.order[i - n] = x
          BY <4>3, <2>6, <2>5, <2>2, <1>m
        <5> QED
          BY <5>1 DEF SlotKeys
    <3> QED
      BY <3>1, <3>2
  <2>8. MaxEntries > 0 => Cardinality(DOMAIN r.entries) <= MaxEntries
    <3> HAVE MaxEntries > 0
    <3>1. kept \in SUBSET Key /\ k \notin kept
      BY <1>m, <1>2 DEF EntryMap
    <3>2. Cardinality(kept) < MaxEntries
      <4>1. HasRoom(m, n) \/ n = Len(order)
        BY <2>1 DEF PopCounts
      <4>2. CASE HasRoom(m, n)
        BY <4>2 DEF HasRoom
      <4>3. CASE n = Len(order)
        <5>1. kept = {}
          BY <4>3, <1>m DEF Sound, SlotKeys, Popped
        <5> QED
          BY <5>1, FS_EmptySet
      <4> QED
        BY <4>1, <4>2, <4>3
    <3>3. Cardinality(kept \cup {k}) = Cardinality(kept) + 1
      BY <3>1, FiniteDomain, FS_AddElement
    <3> QED
      BY <3>1, <3>2, <3>3, <2>4, FiniteDomain
  <2>9. MaxEntries > 0 => Len(r.order) <= MaxEntries + (writesSinceSweep + 1)
    BY <2>2, <2>5, <2>6, <1>m DEF Sound
  <2> QED
    BY <2>4, <2>6, <2>7, <2>8, <2>9 DEF Sound
<1> QED
  BY <1>1, <1>2

\* The sweep keeps them sound and uses the slack up again.
LEMMA SweepSound ==
    ASSUME NEW r, Sound(r.entries, r.order, writesSinceSweep + 1),
           writesSinceSweep \in 0 .. (SweepEvery - 1),
           NEW s \in SweepResults(r)
    PROVE  Sound(s.entries, s.order, s.writes) /\ s.writes \in 0 .. (SweepEvery - 1)
<1> USE StoreAssumption
<1>1. CASE writesSinceSweep + 1 < SweepEvery
  <2>1. s.entries = r.entries /\ s.order = r.order /\ s.writes = writesSinceSweep + 1
    BY <1>1 DEF SweepResults
  <2> QED
    BY <2>1, <1>1 DEF Sound
<1>2. CASE ~(writesSinceSweep + 1 < SweepEvery)
  <2> DEFINE live == LiveKeys(r.entries)
  <2>1. PICK q \in Compactions(r.order, live) :
          s.entries = Only(r.entries, live) /\ s.order = q /\ s.writes = 0
    BY <1>2 DEF SweepResults
  <2>2. EntryMap(r.entries) /\ live \in SUBSET DOMAIN r.entries
    BY DEF Sound, LiveKeys
  <2>3. EntryMap(s.entries) /\ DOMAIN s.entries = live
    BY <2>1, <2>2, OnlyMap
  <2>4. live \in SUBSET Key /\ DOMAIN r.entries \in SUBSET Key
    BY <2>2 DEF EntryMap
  <2>5. /\ Cardinality(live) \in Nat
        /\ Cardinality(live) <= Cardinality(DOMAIN r.entries)
        /\ Cardinality(DOMAIN r.entries) \in Nat
    BY <2>2, <2>4, FiniteDomain, FS_Subset
  <2>6. q \in [1 .. Cardinality(live) -> live] /\ SlotKeys(q) = live
    BY DEF Compactions
  <2>7. q \in Seq(Key) /\ Len(q) = Cardinality(live)
    <3>1. q \in [1 .. Cardinality(live) -> Key]
      BY <2>6, <2>4
    <3> QED
      BY <3>1, <2>5, SeqDef, LenProperties
  <2> QED
    BY <2>1, <2>3, <2>5, <2>6, <2>7 DEF Sound
<1> QED
  BY <1>1, <1>2

\* A write section that starts from the stored entries, or from those without
\* the key it writes, keeps the store sound.
LEMMA StoreSound ==
    ASSUME IInv, NEW k \in Key, NEW e \in Entry, NEW m,
           m = entries \/ m = Only(entries, DOMAIN entries \ {k}),
           Store(m, k, e)
    PROVE  Sound(entries', order', writesSinceSweep') /\ writesSinceSweep' \in 0 .. (SweepEvery - 1)
<1> USE StoreAssumption
<1>1. Sound(entries, order, writesSinceSweep)
  BY DEF IInv, TypeOK, EverySlotted, CapacityHeld, QueueBounded, Sound, EntryMap
<1>2. Sound(m, order, writesSinceSweep)
  <2>1. CASE m = entries
    BY <2>1, <1>1
  <2>2. CASE m = Only(entries, DOMAIN entries \ {k})
    <3>1. EntryMap(m) /\ DOMAIN m = DOMAIN entries \ {k}
      BY <2>2, <1>1, OnlyMap DEF Sound
    <3>2. /\ Cardinality(DOMAIN m) <= Cardinality(DOMAIN entries)
          /\ Cardinality(DOMAIN m) \in Nat /\ Cardinality(DOMAIN entries) \in Nat
      BY <3>1, <1>1, FiniteDomain, FS_Subset DEF Sound, EntryMap
    <3> QED
      BY <3>1, <3>2, <1>1 DEF Sound
  <2> QED
    BY <2>1, <2>2
<1>3. PICK r \in InsertResults(m, k, e) : \E s \in SweepResults(r) :
        entries' = s.entries /\ order' = s.order /\ writesSinceSweep' = s.writes
  BY DEF Store
<1>4. writesSinceSweep \in 0 .. (SweepEvery - 1)
  BY DEF IInv, TypeOK
<1>5. Sound(r.entries, r.order, writesSinceSweep + 1)
  BY <1>2, <1>4, InsertSound
<1> QED
  BY <1>3, <1>4, <1>5, SweepSound

\* Removing a key, or changing one entry, needs no new slot.
LEMMA ShrinkSound ==
    ASSUME IInv, NEW S \in SUBSET DOMAIN entries
    PROVE  Sound(Only(entries, S), order, writesSinceSweep)
<1> USE StoreAssumption
<1>1. EntryMap(entries)
  BY DEF IInv, TypeOK, EntryMap
<1>2. EntryMap(Only(entries, S)) /\ DOMAIN Only(entries, S) = S
  BY <1>1, OnlyMap
<1>3. Cardinality(S) <= Cardinality(DOMAIN entries) /\ Cardinality(S) \in Nat /\ Cardinality(DOMAIN entries) \in Nat
  BY <1>1, FiniteDomain, FS_Subset DEF EntryMap
<1> QED
  BY <1>2, <1>3 DEF IInv, TypeOK, EverySlotted, CapacityHeld, QueueBounded, Sound

-----------------------------------------------------------------------------

\* A value and an expiry make an entry.
LEMMA EntryOf ==
    ASSUME NEW v \in Value, NEW till \in Nat \cup {NoExpiry}
    PROVE  [value |-> v, expires_at |-> till] \in Entry
BY DEF Entry

\* A deadline is an instant or no expiry.
LEMMA DeadlineType ==
    ASSUME TypeOK, NEW ttl \in Ttl
    PROVE  Deadline(ttl) \in Nat \cup {NoExpiry}
BY StoreAssumption DEF TypeOK, Deadline

\* A counter's next value is a value: a stored non-payload is a number.
LEMMA NextCount ==
    ASSUME TypeOK, NEW k \in Key,
           ~(IsLive(k) /\ entries[k].value \in Payload),
           NEW old, old = (IF IsLive(k) THEN entries[k].value ELSE 0)
    PROVE  SaturatingAdd(old, 1) \in Value
<1>1. old \in 0 .. MaxU64
  BY StoreAssumption DEF TypeOK, IsLive, LiveKeys, Entry, Value
<1> QED
  BY <1>1, StoreAssumption DEF SaturatingAdd, Value

\* The empty store satisfies the invariant.
LEMMA InitIInv == Init => IInv
<1> SUFFICES ASSUME Init PROVE IInv
  OBVIOUS
<1>1. DOMAIN entries = {} /\ order = <<>>
  BY DEF Init
<1>2. Cardinality(DOMAIN entries) = 0 /\ Len(order) = 0 /\ order \in Seq(Key)
  BY <1>1, FS_EmptySet, EmptySeq
<1> QED
  BY <1>1, <1>2, StoreAssumption
  DEF Init, IInv, TypeOK, EverySlotted, CapacityHeld, QueueBounded, SlotKeys

\* A state whose map and queue are sound satisfies the invariant.
LEMMA SoundIInv ==
    ASSUME Sound(entries', order', writesSinceSweep'),
           writesSinceSweep' \in 0 .. (SweepEvery - 1),
           now' \in 0 .. MaxNow,
           reaping' \in [Task -> Key \cup {NoKey}]
    PROVE  IInv'
BY DEF Sound, EntryMap, IInv, TypeOK, EverySlotted, CapacityHeld, QueueBounded

\* A step that leaves the entries, the queue and the write count alone.
LEMMA IdleIInv ==
    ASSUME IInv, UNCHANGED <<entries, order, writesSinceSweep>>,
           now' \in 0 .. MaxNow,
           reaping' \in [Task -> Key \cup {NoKey}]
    PROVE  IInv'
BY DEF IInv, TypeOK, EverySlotted, CapacityHeld, QueueBounded

\* A step that stores one entry under the write lock.
LEMMA StoreIInv ==
    ASSUME IInv, NEW k \in Key, NEW e \in Entry, NEW m,
           m = entries \/ m = Only(entries, DOMAIN entries \ {k}),
           Store(m, k, e), UNCHANGED <<now, reaping>>
    PROVE  IInv'
<1>1. Sound(entries', order', writesSinceSweep') /\ writesSinceSweep' \in 0 .. (SweepEvery - 1)
  BY StoreSound
<1>2. now' \in 0 .. MaxNow /\ reaping' \in [Task -> Key \cup {NoKey}]
  BY DEF IInv, TypeOK
<1> QED
  BY <1>1, <1>2, SoundIInv

\* A step that drops some of the entries.
LEMMA ShrinkIInv ==
    ASSUME IInv, NEW S \in SUBSET DOMAIN entries,
           entries' = Only(entries, S), UNCHANGED <<order, writesSinceSweep, now>>,
           reaping' \in [Task -> Key \cup {NoKey}]
    PROVE  IInv'
<1>1. Sound(entries', order', writesSinceSweep')
  BY ShrinkSound
<1>2. now' \in 0 .. MaxNow /\ writesSinceSweep' \in 0 .. (SweepEvery - 1)
  BY DEF IInv, TypeOK
<1> QED
  BY <1>1, <1>2, SoundIInv

\* Every operation preserves the invariant.
LEMMA NextIInv == IInv /\ [Next]_vars => IInv'
<1> SUFFICES ASSUME IInv, [Next]_vars PROVE IInv'
  OBVIOUS
<1> USE StoreAssumption
<1>t. TypeOK
  BY DEF IInv
<1>n. now \in 0 .. MaxNow /\ reaping \in [Task -> Key \cup {NoKey}]
  BY <1>t DEF TypeOK
<1>z. 0 \in Value /\ \A v \in Payload : v \in Value
  BY DEF Value
<1>1. CASE Tick
  BY <1>1, <1>n, IdleIInv DEF Tick
<1>2. ASSUME NEW k \in Key, NEW v \in Payload, NEW ttl \in Ttl, Set(k, v, ttl)
      PROVE  IInv'
  <2>1. [value |-> v, expires_at |-> Deadline(ttl)] \in Entry
    BY <1>t, <1>z, DeadlineType, EntryOf
  <2> QED
    BY <1>2, <2>1, StoreIInv DEF Set
<1>3. ASSUME NEW k \in Key, NEW v \in Payload, NEW ttl \in Ttl, SetIfAbsent(k, v, ttl)
      PROVE  IInv'
  <2>1. [value |-> v, expires_at |-> Deadline(ttl)] \in Entry
    BY <1>t, <1>z, DeadlineType, EntryOf
  <2>2. CASE IsLive(k)
    BY <1>3, <1>n, <2>2, IdleIInv DEF SetIfAbsent, NoStore
  <2>3. CASE ~IsLive(k)
    BY <1>3, <2>1, <2>3, StoreIInv DEF SetIfAbsent
  <2> QED
    BY <2>2, <2>3
<1>4. ASSUME NEW k \in Key, Incr(k, 1)
      PROVE  IInv'
  <2>1. CASE IsLive(k) /\ entries[k].value \in Payload
    BY <1>4, <1>n, <2>1, IdleIInv DEF Incr, NoStore
  <2>2. CASE ~(IsLive(k) /\ entries[k].value \in Payload)
    <3> DEFINE base == IF IsLive(k) THEN entries ELSE Only(entries, DOMAIN entries \ {k})
               old  == IF IsLive(k) THEN entries[k].value ELSE 0
               till == IF IsLive(k) THEN entries[k].expires_at ELSE NoExpiry
               e    == [value |-> SaturatingAdd(old, 1), expires_at |-> till]
    <3>1. Store(base, k, e) /\ UNCHANGED <<now, reaping>>
      BY <1>4, <2>2 DEF Incr
    <3>2. SaturatingAdd(old, 1) \in Value
      BY <1>t, <2>2, NextCount
    <3>3. till \in Nat \cup {NoExpiry}
      BY <1>t DEF TypeOK, IsLive, LiveKeys, Entry
    <3>4. e \in Entry
      BY <3>2, <3>3, EntryOf
    <3>5. base = entries \/ base = Only(entries, DOMAIN entries \ {k})
      OBVIOUS
    <3> HIDE DEF base, e
    <3> QED
      BY <3>1, <3>4, <3>5, StoreIInv
  <2> QED
    BY <2>1, <2>2
<1>5. ASSUME NEW k \in Key, NEW ttl \in Ttl, IncrWithTtl(k, 1, ttl)
      PROVE  IInv'
  <2>1. CASE IsLive(k) /\ entries[k].value \in Payload
    BY <1>5, <1>n, <2>1, IdleIInv DEF IncrWithTtl, NoStore
  <2>2. CASE ~(IsLive(k) /\ entries[k].value \in Payload)
    <3> DEFINE old  == IF IsLive(k) THEN entries[k].value ELSE 0
               till == IF IsLive(k) THEN entries[k].expires_at ELSE Deadline(ttl)
               e    == [value |-> SaturatingAdd(old, 1), expires_at |-> till]
    <3>1. Store(entries, k, e) /\ UNCHANGED <<now, reaping>>
      BY <1>5, <2>2 DEF IncrWithTtl
    <3>2. SaturatingAdd(old, 1) \in Value
      BY <1>t, <2>2, NextCount
    <3>3. till \in Nat \cup {NoExpiry}
      BY <1>t, DeadlineType DEF TypeOK, IsLive, LiveKeys, Entry
    <3>4. e \in Entry
      BY <3>2, <3>3, EntryOf
    <3> HIDE DEF e
    <3> QED
      BY <3>1, <3>4, StoreIInv
  <2> QED
    BY <2>1, <2>2
<1>6. ASSUME NEW k \in Key, NEW ttl \in Ttl, Expire(k, ttl)
      PROVE  IInv'
  <2>1. Deadline(ttl) \in Nat \cup {NoExpiry}
    BY <1>t, DeadlineType
  <2>2. DOMAIN entries' = DOMAIN entries /\ entries' \in [DOMAIN entries' -> Entry]
    <3>1. CASE k \in DOMAIN entries
      <4> DEFINE e == [value |-> entries[k].value, expires_at |-> Deadline(ttl)]
      <4>0. entries[k] \in Entry
        BY <1>t, <3>1 DEF TypeOK
      <4>1. e \in Entry
        BY <2>1, <4>0 DEF Entry
      <4>2. entries' = [entries EXCEPT ![k] = e]
        <5>1. [entries[k] EXCEPT !.expires_at = Deadline(ttl)] = e
          BY <4>0 DEF Entry
        <5> QED
          BY <1>6, <3>1, <5>1 DEF Expire
      <4> HIDE DEF e
      <4> QED
        BY <1>t, <4>1, <4>2 DEF TypeOK
    <3>2. CASE k \notin DOMAIN entries
      BY <1>6, <1>t, <3>2 DEF Expire, TypeOK
    <3> QED
      BY <3>1, <3>2
  <2>3. UNCHANGED <<order, writesSinceSweep, now, reaping>>
    BY <1>6 DEF Expire
  <2> QED
    BY <2>2, <2>3 DEF IInv, TypeOK, EverySlotted, CapacityHeld, QueueBounded
<1>7. ASSUME NEW k \in Key, Delete(k)
      PROVE  IInv'
  BY <1>7, <1>n, ShrinkIInv DEF Delete
<1>8. ASSUME NEW prefix \in Prefixes, KeysWithPrefix(prefix)
      PROVE  IInv'
  BY <1>8, <1>n, IdleIInv DEF KeysWithPrefix
<1>9. ASSUME NEW t \in Task, NEW k \in Key, GetRead(t, k)
      PROVE  IInv'
  BY <1>9, <1>n, IdleIInv DEF GetRead
<1>10. ASSUME NEW t \in Task, GetReap(t)
       PROVE  IInv'
  <2>1. reaping' \in [Task -> Key \cup {NoKey}]
    BY <1>10, <1>n DEF GetReap
  <2> QED
    BY <1>10, <2>1, ShrinkIInv DEF GetReap
<1>11. CASE UNCHANGED vars
  BY <1>11, <1>n, IdleIInv DEF vars
<1> QED
  BY <1>1, <1>2, <1>3, <1>4, <1>5, <1>6, <1>7, <1>8, <1>9, <1>10, <1>11 DEF Next

-----------------------------------------------------------------------------

\* The four invariants hold together in every state of every behaviour.
THEOREM StoreInvariant == Spec => []IInv
<1>1. Init => IInv
  BY InitIInv
<1>2. IInv /\ [Next]_vars => IInv'
  BY NextIInv
<1> QED
  BY <1>1, <1>2, PTL DEF Spec

\* Every operation of the store leaves its variables in their types.
THEOREM StoreTypeCorrect == Spec => []TypeOK
BY StoreInvariant, PTL DEF IInv

\* evict_for_capacity's comment holds: every stored key has a queue slot.
THEOREM StoreEverySlotted == Spec => []EverySlotted
BY StoreInvariant, PTL DEF IInv

\* with_max_entries' cap is never exceeded.
THEOREM StoreCapacityHeld == Spec => []CapacityHeld
BY StoreInvariant, PTL DEF IInv

\* The insertion queue never outgrows the cap plus one sweep window.
THEOREM StoreQueueBounded == Spec => []QueueBounded
BY StoreInvariant, PTL DEF IInv

-----------------------------------------------------------------------------
(* The store implements TtlMap.                                            *)

\* The entries of `m' that are not expired now.
Fresh(m) == Only(m, LiveKeys(m))

\* The map `m' with `e' at `k' and without the keys of `gone'.
Replaced(m, k, e, gone) ==
    [x \in (DOMAIN m \ gone) \cup {k} |-> IF x = k THEN e ELSE m[x]]

\* `f' is `m' with `e' at `k', at the cost of one other key if `k' is new.
Remembered(f, m, k, e) ==
    \E gone \in SUBSET (DOMAIN m \ {k}) :
        /\ \A x, y \in gone : x = y /\ k \notin DOMAIN m
        /\ f = Replaced(m, k, e, gone)

\* A new entry costs at most one stored key its place: the slots popped before
\* the last one belonged to no stored key, or the loop would have stopped there.
LEMMA EvictsOne ==
    ASSUME NEW m, Sound(m, order, writesSinceSweep), NEW n \in PopCounts(m)
    PROVE  \A x, y \in DOMAIN m \cap Popped(n) : x = y
<1> USE StoreAssumption
<1>m. EntryMap(m) /\ order \in Seq(Key) /\ Len(order) \in Nat /\ DOMAIN m \in SUBSET Key
  BY DEF Sound, EntryMap
<1>1. CASE n = 0
  BY <1>1 DEF Popped
<1>2. CASE n # 0
  <2>1. MaxEntries > 0 /\ n \in 1 .. Len(order) /\ ~HasRoom(m, n - 1)
    BY <1>2, <1>m DEF PopCounts
  <2>2. Cardinality(DOMAIN m) <= MaxEntries
    BY <2>1 DEF Sound
  <2> DEFINE rest == DOMAIN m \ Popped(n - 1)
  <2>3. rest \subseteq DOMAIN m /\ IsFiniteSet(DOMAIN m) /\ IsFiniteSet(rest)
        /\ Cardinality(rest) \in Nat /\ Cardinality(DOMAIN m) \in Nat
    BY <1>m, FiniteDomain
  <2>4. Cardinality(rest) >= Cardinality(DOMAIN m)
    BY <2>1, <2>2, <2>3 DEF HasRoom
  <2>5. rest = DOMAIN m
    BY <2>3, <2>4, FS_Subset
  <2>6. \A x \in Popped(n) : x \in Popped(n - 1) \/ x = order[n]
    BY <2>1, <1>m DEF Popped
  <2> QED
    BY <2>5, <2>6
<1> QED
  BY <1>1, <1>2

\* What an insert makes of the map: the entry is there, and of the others all
\* but one at most, or all if the key was stored already.
LEMMA InsertKeeps ==
    ASSUME NEW m, Sound(m, order, writesSinceSweep), NEW k \in Key, NEW e \in Entry,
           NEW r \in InsertResults(m, k, e)
    PROVE  Remembered(r.entries, m, k, e)
<1>1. CASE k \in DOMAIN m
  <2>1. r.entries = Replaced(m, k, e, {})
    BY <1>1 DEF InsertResults, Put, Replaced
  <2> QED
    BY <2>1 DEF Remembered
<1>2. CASE k \notin DOMAIN m
  <2>0. PICK n \in PopCounts(m) :
          r = [entries |-> Put(Only(m, DOMAIN m \ Popped(n)), k, e),
               order   |-> Append(SubSeq(order, n + 1, Len(order)), k)]
    BY <1>2, Zenon DEF InsertResults
  <2>1. r.entries = Put(Only(m, DOMAIN m \ Popped(n)), k, e)
    BY <2>0
  <2> DEFINE gone == DOMAIN m \cap Popped(n)
  <2>2. \A x, y \in gone : x = y
    BY EvictsOne
  <2>3. r.entries = Replaced(m, k, e, gone)
    <3> DEFINE kept == DOMAIN m \ Popped(n)
    <3>1. kept = DOMAIN m \ gone
      OBVIOUS
    <3> HIDE DEF kept, gone
    <3>2. DOMAIN Only(m, kept) = kept /\ \A x \in kept : Only(m, kept)[x] = m[x]
      BY DEF Only
    <3>3. Put(Only(m, kept), k, e) = [x \in kept \cup {k} |-> IF x = k THEN e ELSE m[x]]
      BY <3>2 DEF Put
    <3>4. r.entries = Put(Only(m, kept), k, e)
      BY <2>1 DEF kept
    <3> QED
      BY <3>1, <3>3, <3>4, Zenon DEF Replaced
  <2>4. gone \in SUBSET (DOMAIN m \ {k})
    BY <1>2
  <2> QED
    BY <1>2, <2>2, <2>3, <2>4 DEF Remembered
<1> QED
  BY <1>1, <1>2

\* The sweep takes only what is expired.
LEMMA SweepKeepsFresh ==
    ASSUME NEW r, NEW s \in SweepResults(r)
    PROVE  Fresh(s.entries) = Fresh(r.entries)
<1>1. s.entries = r.entries \/ s.entries = Only(r.entries, LiveKeys(r.entries))
  BY DEF SweepResults
<1>2. Fresh(Only(r.entries, LiveKeys(r.entries))) = Fresh(r.entries)
  <2> DEFINE m == Only(r.entries, LiveKeys(r.entries))
  <2>1. /\ DOMAIN m = LiveKeys(r.entries)
        /\ \A x \in LiveKeys(r.entries) : m[x] = r.entries[x] /\ ~IsExpired(r.entries[x])
    BY DEF Only, LiveKeys
  <2>2. LiveKeys(m) = LiveKeys(r.entries)
    BY <2>1 DEF LiveKeys
  <2> QED
    BY <2>1, <2>2 DEF Fresh, Only
<1> QED
  BY <1>1, <1>2

\* The fresh entries of a map in which a fresh entry has been stored, starting
\* from the entries or from the entries without an expired one at the key.
LEMMA FreshRemembered ==
    ASSUME NEW m, NEW k, NEW e, ~IsExpired(e), NEW f, Remembered(f, m, k, e),
           m = entries \/ (m = Only(entries, DOMAIN entries \ {k}) /\ ~IsLive(k))
    PROVE  Remembered(Fresh(f), Fresh(entries), k, e)
<1>1. PICK gone \in SUBSET (DOMAIN m \ {k}) :
        /\ \A x, y \in gone : x = y /\ k \notin DOMAIN m
        /\ f = Replaced(m, k, e, gone)
  BY DEF Remembered
<1>2. /\ \A x : x # k => (x \in LiveKeys(m) <=> x \in LiveKeys(entries))
      /\ \A x \in DOMAIN m : x \in DOMAIN entries /\ m[x] = entries[x]
      /\ IsLive(k) => k \in DOMAIN m
  BY DEF Only, LiveKeys, IsLive
<1> DEFINE live == Fresh(entries)
           lost == gone \cap LiveKeys(entries)
<1>3. DOMAIN live = LiveKeys(entries) /\ \A x \in LiveKeys(entries) : live[x] = entries[x]
  BY DEF Fresh, Only
<1>4. LiveKeys(f) = (LiveKeys(entries) \ lost) \cup {k}
  <2>1. DOMAIN f = (DOMAIN m \ gone) \cup {k} /\ f[k] = e
    BY <1>1 DEF Replaced
  <2>2. \A x \in DOMAIN m \ gone : x # k => f[x] = m[x]
    BY <1>1 DEF Replaced
  <2>3. \A x : x \in LiveKeys(f) <=> x = k \/ (x \in LiveKeys(m) /\ x \notin gone)
    BY <2>1, <2>2 DEF LiveKeys
  <2> QED
    BY <1>2, <2>3
<1>5. Fresh(f) = Replaced(live, k, e, lost)
  <2>1. \A x \in (LiveKeys(entries) \ lost) \cup {k} : f[x] = IF x = k THEN e ELSE entries[x]
    <3>1. \A x \in LiveKeys(entries) \ lost : x # k => x \in DOMAIN m \ gone
      BY <1>2 DEF LiveKeys
    <3> QED
      BY <1>1, <1>2, <3>1 DEF Replaced
  <2> QED
    BY <1>3, <1>4, <2>1 DEF Fresh, Only, Replaced
<1>6. lost \in SUBSET (DOMAIN live \ {k}) /\ \A x, y \in lost : x = y /\ k \notin DOMAIN live
  BY <1>1, <1>2, <1>3 DEF IsLive
<1> HIDE DEF lost, live
<1> QED
  BY <1>5, <1>6 DEF Remembered, live

\* A write-lock section that stores a fresh entry is what the map calls
\* Remember, whatever it evicts and sweeps.
LEMMA StoreRemembers ==
    ASSUME IInv, NEW k \in Key, NEW e \in Entry, ~IsExpired(e), NEW m,
           m = entries \/ (m = Only(entries, DOMAIN entries \ {k}) /\ ~IsLive(k)),
           Store(m, k, e), UNCHANGED now
    PROVE  Map!Remember(k, e)
<1>1. PICK r \in InsertResults(m, k, e) : \E s \in SweepResults(r) : entries' = s.entries
  BY DEF Store
<1>2. PICK s \in SweepResults(r) : entries' = s.entries
  BY <1>1
<1>3. Sound(m, order, writesSinceSweep)
  <2>1. Sound(entries, order, writesSinceSweep)
    BY DEF IInv, TypeOK, EverySlotted, CapacityHeld, QueueBounded, Sound, EntryMap
  <2>2. Sound(Only(entries, DOMAIN entries \ {k}), order, writesSinceSweep)
    BY ShrinkSound
  <2> QED
    BY <2>1, <2>2
<1>4. Remembered(r.entries, m, k, e)
  BY <1>3, InsertKeeps
<1>5. Remembered(Fresh(r.entries), Fresh(entries), k, e)
  BY <1>4, FreshRemembered
<1>6. Fresh(entries') = Fresh(r.entries)
  BY <1>2, SweepKeepsFresh
<1>7. Fresh(entries)' = Fresh(entries')
  BY DEF Fresh, LiveKeys, IsExpired, Only
<1>8. Remembered(Fresh(entries)', Fresh(entries), k, e)
  BY <1>5, <1>6, <1>7
<1> QED
  BY <1>8 DEF Map!Remember, Remembered, Replaced, Fresh

\* What stores nothing and lets no time pass leaves the map alone.
LEMMA QuietMap ==
    ASSUME UNCHANGED <<entries, now>>
    PROVE  Fresh(entries)' = Fresh(entries)
BY DEF Fresh, LiveKeys, IsExpired, Only

\* Removing a key takes it out of the map.
LEMMA RemovalMap ==
    ASSUME NEW k, entries' = Only(entries, DOMAIN entries \ {k}), UNCHANGED now
    PROVE  Fresh(entries)' = [x \in DOMAIN Fresh(entries) \ {k} |-> Fresh(entries)[x]]
<1>1. /\ DOMAIN entries' = DOMAIN entries \ {k}
      /\ \A x \in DOMAIN entries' : entries'[x] = entries[x]
  BY DEF Only
<1>2. LiveKeys(entries') = LiveKeys(entries) \ {k}
  BY <1>1 DEF LiveKeys
<1>3. Fresh(entries)' = Fresh(entries')
  BY DEF Fresh, LiveKeys, IsExpired, Only
<1>4. DOMAIN Fresh(entries) = LiveKeys(entries)
      /\ \A x \in LiveKeys(entries) : Fresh(entries)[x] = entries[x]
  BY DEF Fresh, Only
<1>5. \A x \in LiveKeys(entries) \ {k} : entries'[x] = entries[x]
  BY <1>1, <1>2 DEF LiveKeys
<1>6. Fresh(entries') = [x \in LiveKeys(entries) \ {k} |-> entries'[x]]
  BY <1>2 DEF Fresh, Only
<1> QED
  BY <1>3, <1>4, <1>5, <1>6

\* What a caller sees of an entry is what the map holds.
LEMMA MapReads ==
    /\ DOMAIN Fresh(entries) = LiveKeys(entries)
    /\ \A k : IsLive(k) => /\ k \in DOMAIN entries
                           /\ ~IsExpired(entries[k])
                           /\ Fresh(entries)[k] = entries[k]
    /\ \A k \in DOMAIN entries : ~IsExpired(entries[k]) => IsLive(k)
BY DEF Fresh, Only, IsLive, LiveKeys

\* A deadline lies ahead.
LEMMA DeadlineAhead ==
    ASSUME TypeOK, NEW v, NEW ttl \in Ttl
    PROVE  ~IsExpired([value |-> v, expires_at |-> Deadline(ttl)])
BY StoreAssumption DEF TypeOK, IsExpired, Deadline

\* When time passes the map loses what expires, and nothing else.
LEMMA TickMap == TypeOK /\ Tick => Map!Tick
<1> SUFFICES ASSUME TypeOK, Tick PROVE Map!Tick
  OBVIOUS
<1> DEFINE live == Fresh(entries)
           left == {x \in DOMAIN live : live[x].expires_at = NoExpiry \/ now + 1 < live[x].expires_at}
<1>1. now \in Nat /\ now' = now + 1 /\ entries' = entries
  BY DEF TypeOK, Tick
<1>2. \A x \in DOMAIN entries : entries[x].expires_at \in Nat \cup {NoExpiry}
  BY DEF TypeOK, Entry
<1>3. {x \in DOMAIN entries : ~(entries[x].expires_at # NoExpiry /\ now' >= entries[x].expires_at)} = left
  <2>1. \A x \in DOMAIN entries :
          (~(entries[x].expires_at # NoExpiry /\ now + 1 >= entries[x].expires_at))
             <=> /\ x \in LiveKeys(entries)
                 /\ entries[x].expires_at = NoExpiry \/ now + 1 < entries[x].expires_at
    BY <1>1, <1>2, StoreAssumption DEF LiveKeys, IsExpired
  <2>2. LiveKeys(entries) \subseteq DOMAIN entries
    BY DEF LiveKeys
  <2> QED
    BY <1>1, <2>1, <2>2, MapReads DEF IsLive
<1>4. Fresh(entries)' = [x \in left |-> entries[x]]
  BY <1>1, <1>3 DEF Fresh, Only, LiveKeys, IsExpired
<1>5. \A x \in left : entries[x] = live[x]
  BY MapReads DEF IsLive
<1>6. Fresh(entries)' = [x \in left |-> live[x]]
  BY <1>4, <1>5
<1>7. now < MaxNow /\ UNCHANGED reply
  BY DEF Tick
<1> QED
  BY <1>1, <1>6, <1>7 DEF Map!Tick, Fresh

\* An insert under the write lock, set or set_if_absent.
LEMMA InsertMap ==
    ASSUME IInv, NEW k \in Key, NEW v \in Payload, NEW ttl \in Ttl,
           Store(entries, k, [value |-> v, expires_at |-> Deadline(ttl)]), UNCHANGED now
    PROVE  Map!Remember(k, [value |-> v, expires_at |-> Map!Deadline(ttl)])
<1>1. TypeOK
  BY DEF IInv
<1>2. [value |-> v, expires_at |-> Deadline(ttl)] \in Entry
  BY <1>1, DeadlineType, EntryOf DEF Value
<1>3. Map!Remember(k, [value |-> v, expires_at |-> Deadline(ttl)])
  BY <1>1, <1>2, DeadlineAhead, StoreRemembers
<1>4. Map!Deadline(ttl) = Deadline(ttl)
  BY DEF Map!Deadline, Deadline
<1> QED
  BY <1>3, <1>4

\* A counter, of incr (whose `base' is without an expired entry and whose new
\* counters never expire) or of incr_with_ttl.
LEMMA CountMap ==
    ASSUME IInv, NEW op, NEW k \in Key, NEW fresh \in Nat \cup {NoExpiry},
           \A v : ~IsExpired([value |-> v, expires_at |-> fresh]),
           NEW old, old = (IF IsLive(k) THEN entries[k].value ELSE 0),
           NEW till, till = (IF IsLive(k) THEN entries[k].expires_at ELSE fresh),
           NEW m, m = entries \/ (m = Only(entries, DOMAIN entries \ {k}) /\ ~IsLive(k)),
           UNCHANGED now,
           IF IsLive(k) /\ entries[k].value \in Payload
           THEN reply' = <<op, k, Err>> /\ NoStore
           ELSE /\ Store(m, k, [value |-> SaturatingAdd(old, 1), expires_at |-> till])
                /\ reply' = <<op, k, SaturatingAdd(old, 1)>>
    PROVE  Map!Count(op, k, 1, fresh)
<1> DEFINE live == Fresh(entries)
           next == SaturatingAdd(old, 1)
           e == [value |-> next, expires_at |-> till]
<1>1. (k \in DOMAIN live <=> IsLive(k)) /\ (IsLive(k) => live[k] = entries[k])
  BY MapReads DEF IsLive
<1>2. Map!SaturatingAdd(old, 1) = next
  BY DEF Map!SaturatingAdd, SaturatingAdd
<1>3. CASE IsLive(k) /\ entries[k].value \in Payload
  <2>1. Fresh(entries)' = Fresh(entries)
    BY <1>3, QuietMap DEF NoStore
  <2> QED
    BY <1>1, <1>3, <2>1 DEF Map!Count, Fresh
<1>4. CASE ~(IsLive(k) /\ entries[k].value \in Payload)
  <2>1. TypeOK
    BY DEF IInv
  <2>2. next \in Value
    BY <1>4, <2>1, NextCount
  <2>3. till \in Nat \cup {NoExpiry}
    BY <2>1 DEF TypeOK, IsLive, LiveKeys, Entry
  <2>4. e \in Entry
    BY <2>2, <2>3, EntryOf
  <2>5. ~IsExpired(e)
    BY MapReads DEF IsExpired
  <2>6. Map!Remember(k, e)
    BY <1>4, <2>4, <2>5, StoreRemembers
  <2> HIDE DEF next
  <2> QED
    BY <1>1, <1>2, <1>4, <2>6 DEF Map!Count, Fresh, next
<1> QED
  BY <1>3, <1>4

\* Renewing brings an expired entry back as the map allows it.
LEMMA ExpireMap ==
    ASSUME TypeOK, NEW k \in Key, NEW ttl \in Ttl, Expire(k, ttl)
    PROVE  Map!Expire(k, ttl)
<1> DEFINE live == Fresh(entries)
           renewed == [entries[k] EXCEPT !.expires_at = Deadline(ttl)]
<1>1. UNCHANGED now /\ reply' = <<"expire", k, TRUE>> /\ Map!Deadline(ttl) = Deadline(ttl)
  BY DEF Expire, Map!Deadline, Deadline
<1>2. Fresh(entries)' = Fresh(entries')
  BY <1>1 DEF Fresh, LiveKeys, IsExpired, Only
<1>3. CASE k \notin DOMAIN entries
  <2>1. entries' = entries /\ k \notin DOMAIN live
    BY <1>3, MapReads DEF Expire, IsLive
  <2> QED
    BY <1>1, <1>2, <2>1 DEF Map!Expire, Fresh
<1>4. CASE k \in DOMAIN entries
  <2>1. /\ DOMAIN entries' = DOMAIN entries
        /\ entries'[k] = renewed
        /\ \A x \in DOMAIN entries : x # k => entries'[x] = entries[x]
    BY <1>4 DEF Expire
  <2>2. entries[k] \in Entry /\ entries[k].value \in Value
    BY <1>4 DEF TypeOK, Entry
  <2>3. renewed = [value |-> entries[k].value, expires_at |-> Deadline(ttl)]
    BY <2>2 DEF Entry
  <2>4. ~IsExpired(renewed)
    BY <2>3, DeadlineAhead
  <2>5. LiveKeys(entries') = LiveKeys(entries) \cup {k}
    BY <1>4, <2>1, <2>4 DEF LiveKeys
  <2>6. Fresh(entries') = [x \in DOMAIN live \cup {k} |-> IF x = k THEN renewed ELSE live[x]]
    <3>1. \A x \in LiveKeys(entries) : x # k => entries'[x] = live[x]
      BY <2>1, MapReads DEF IsLive, LiveKeys
    <3> QED
      BY <2>1, <2>5, <3>1, MapReads DEF Fresh, Only
  <2>7. CASE IsLive(k)
    <3>1. k \in DOMAIN live /\ live[k] = entries[k]
      BY <2>7, MapReads DEF IsLive
    <3>2. Fresh(entries') = [live EXCEPT ![k].expires_at = Deadline(ttl)]
      <4>1. DOMAIN live \cup {k} = DOMAIN live
        BY <3>1
      <4>2. Fresh(entries') = [x \in DOMAIN live |-> IF x = k THEN renewed ELSE live[x]]
        BY <2>6, <4>1
      <4>3. live = [x \in DOMAIN live |-> live[x]]
        BY DEF Fresh, Only
      <4> HIDE DEF live
      <4> QED
        BY <3>1, <4>2, <4>3
    <3> QED
      BY <1>1, <1>2, <3>1, <3>2 DEF Map!Expire, Fresh
  <2>8. CASE ~IsLive(k)
    <3>1. k \notin DOMAIN live
      BY <2>8, MapReads DEF IsLive
    <3>2. entries[k].value \in Map!Value
      BY <2>2 DEF Map!Value, Value
    <3> QED
      BY <1>1, <1>2, <2>3, <2>6, <3>1, <3>2 DEF Map!Expire, Fresh
  <2> QED
    BY <2>7, <2>8
<1> QED
  BY <1>3, <1>4

\* incr starts from the entries without an expired one at its key, and its new
\* counters never expire; incr_with_ttl overwrites one, and they do.
LEMMA IncrMap ==
    ASSUME IInv, NEW k \in Key
    PROVE  /\ Incr(k, 1) => Map!Incr(k, 1)
           /\ \A ttl \in Ttl : IncrWithTtl(k, 1, ttl) => Map!IncrWithTtl(k, 1, ttl)
<1>1. ASSUME Incr(k, 1) PROVE Map!Incr(k, 1)
  <2> DEFINE m    == IF IsLive(k) THEN entries ELSE Only(entries, DOMAIN entries \ {k})
             old  == IF IsLive(k) THEN entries[k].value ELSE 0
             till == IF IsLive(k) THEN entries[k].expires_at ELSE NoExpiry
  <2>1. \A v : ~IsExpired([value |-> v, expires_at |-> NoExpiry])
    BY DEF IsExpired
  <2>2. m = entries \/ (m = Only(entries, DOMAIN entries \ {k}) /\ ~IsLive(k))
    OBVIOUS
  <2>3. /\ UNCHANGED now
        /\ IF IsLive(k) /\ entries[k].value \in Payload
           THEN reply' = <<"incr", k, Err>> /\ NoStore
           ELSE /\ Store(m, k, [value |-> SaturatingAdd(old, 1), expires_at |-> till])
                /\ reply' = <<"incr", k, SaturatingAdd(old, 1)>>
    BY <1>1, Zenon DEF Incr
  <2> HIDE DEF m, old, till
  <2>4. Map!Count("incr", k, 1, NoExpiry)
    BY <2>1, <2>2, <2>3, CountMap, Zenon DEF old, till
  <2> QED
    BY <2>4 DEF Map!Incr
<1>2. ASSUME NEW ttl \in Ttl, IncrWithTtl(k, 1, ttl) PROVE Map!IncrWithTtl(k, 1, ttl)
  <2> DEFINE old  == IF IsLive(k) THEN entries[k].value ELSE 0
             till == IF IsLive(k) THEN entries[k].expires_at ELSE Deadline(ttl)
  <2>1. TypeOK /\ Deadline(ttl) \in Nat \cup {NoExpiry} /\ Map!Deadline(ttl) = Deadline(ttl)
    BY DeadlineType DEF IInv, Map!Deadline, Deadline
  <2>2. \A v : ~IsExpired([value |-> v, expires_at |-> Deadline(ttl)])
    BY <2>1, DeadlineAhead
  <2>3. /\ UNCHANGED now
        /\ IF IsLive(k) /\ entries[k].value \in Payload
           THEN reply' = <<"incr_with_ttl", k, Err>> /\ NoStore
           ELSE /\ Store(entries, k, [value |-> SaturatingAdd(old, 1), expires_at |-> till])
                /\ reply' = <<"incr_with_ttl", k, SaturatingAdd(old, 1)>>
    BY <1>2, Zenon DEF IncrWithTtl
  <2> HIDE DEF old, till
  <2>4. Map!Count("incr_with_ttl", k, 1, Deadline(ttl))
    BY <2>1, <2>2, <2>3, CountMap, Zenon DEF old, till
  <2> QED
    BY <2>1, <2>4 DEF Map!IncrWithTtl
<1> QED
  BY <1>1, <1>2

\* set_if_absent stores only where nothing is readable.
LEMMA SetMap ==
    ASSUME IInv, NEW k \in Key, NEW v \in Payload, NEW ttl \in Ttl
    PROVE  /\ Set(k, v, ttl) => Map!Set(k, v, ttl)
           /\ SetIfAbsent(k, v, ttl) => Map!SetIfAbsent(k, v, ttl)
<1>1. Set(k, v, ttl) => Map!Set(k, v, ttl)
  BY InsertMap DEF Set, Map!Set
<1>2. ASSUME SetIfAbsent(k, v, ttl) PROVE Map!SetIfAbsent(k, v, ttl)
  <2>1. k \in DOMAIN Fresh(entries) <=> IsLive(k)
    BY MapReads DEF IsLive
  <2>2. UNCHANGED now
    BY <1>2 DEF SetIfAbsent
  <2>3. CASE IsLive(k)
    <3>1. reply' = <<"set_if_absent", k, FALSE>> /\ Fresh(entries)' = Fresh(entries)
      BY <1>2, <2>3, QuietMap DEF SetIfAbsent, NoStore
    <3> QED
      BY <2>1, <2>2, <2>3, <3>1 DEF Map!SetIfAbsent, Fresh
  <2>4. CASE ~IsLive(k)
    <3>1. /\ Map!Remember(k, [value |-> v, expires_at |-> Map!Deadline(ttl)])
          /\ reply' = <<"set_if_absent", k, TRUE>>
      BY <1>2, <2>2, <2>4, InsertMap DEF SetIfAbsent
    <3> QED
      BY <2>1, <2>2, <2>4, <3>1 DEF Map!SetIfAbsent, Fresh
  <2> QED
    BY <2>3, <2>4
<1> QED
  BY <1>1, <1>2

\* A lookup answers from the map, finds an expired entry to reap (a stutter of
\* the map), or reaps: it forgets whatever is at the key by then.
LEMMA GetMap ==
    ASSUME TypeOK, NEW t \in Task
    PROVE  /\ \A k \in Key : GetRead(t, k) => Map!Get(k) \/ UNCHANGED Map!tvars
           /\ GetReap(t) => \E k \in Key : Map!Forget(k)
<1>1. ASSUME NEW k \in Key, GetRead(t, k) PROVE Map!Get(k) \/ UNCHANGED Map!tvars
  <2>1. UNCHANGED now /\ Fresh(entries)' = Fresh(entries)
    BY <1>1, QuietMap DEF GetRead
  <2>2. CASE k \in DOMAIN entries /\ IsExpired(entries[k])
    BY <1>1, <2>1, <2>2 DEF GetRead, Map!tvars, Fresh
  <2>3. CASE ~(k \in DOMAIN entries /\ IsExpired(entries[k]))
    <3>1. reply' = <<"get", k, IF k \in DOMAIN entries THEN entries[k].value ELSE Absent>>
      BY <1>1, <2>3 DEF GetRead
    <3>2. /\ k \in DOMAIN entries <=> k \in DOMAIN Fresh(entries)
          /\ k \in DOMAIN entries => Fresh(entries)[k] = entries[k]
      BY <2>3, MapReads DEF IsLive
    <3>3. reply' = <<"get", k, IF k \in DOMAIN Fresh(entries) THEN Fresh(entries)[k].value ELSE Absent>>
      BY <3>1, <3>2
    <3> QED
      BY <2>1, <3>3 DEF Map!Get, Fresh
  <2> QED
    BY <2>2, <2>3
<1>2. ASSUME GetReap(t) PROVE \E k \in Key : Map!Forget(k)
  <2>1. reaping[t] \in Key
    BY <1>2 DEF TypeOK, GetReap
  <2>2. /\ UNCHANGED now /\ reply' = <<"get", reaping[t], Absent>>
        /\ Fresh(entries)' = [x \in DOMAIN Fresh(entries) \ {reaping[t]} |-> Fresh(entries)[x]]
    BY <1>2, RemovalMap DEF GetReap
  <2> QED
    BY <2>1, <2>2 DEF Map!Forget, Fresh
<1> QED
  BY <1>1, <1>2

\* delete answers true for every readable key, for an expired entry as well.
LEMMA DeleteMap ==
    ASSUME NEW k, Delete(k)
    PROVE  Map!Delete(k)
<1>1. /\ UNCHANGED now /\ reply' = <<"delete", k, k \in DOMAIN entries>>
      /\ Fresh(entries)' = [x \in DOMAIN Fresh(entries) \ {k} |-> Fresh(entries)[x]]
  BY RemovalMap DEF Delete
<1>2. k \in DOMAIN Fresh(entries) => k \in DOMAIN entries
  BY MapReads DEF IsLive
<1>3. (k \in DOMAIN entries) \in BOOLEAN
  OBVIOUS
<1> QED
  BY <1>1, <1>2, <1>3 DEF Map!Delete, Fresh

\* Every step of the store is a step of the map or leaves it as it is.
LEMMA StoreSteps == IInv /\ [Next]_vars => [Map!Next]_(Map!tvars)
<1> SUFFICES ASSUME IInv, [Next]_vars PROVE [Map!Next]_(Map!tvars)
  OBVIOUS
<1>t. TypeOK
  BY DEF IInv
<1>1. CASE UNCHANGED vars
  BY <1>1, QuietMap DEF vars, Map!tvars, Fresh
<1>2. CASE Tick
  BY <1>t, <1>2, TickMap DEF Map!Next
<1>3. ASSUME NEW k \in Key, NEW v \in Payload, NEW ttl \in Ttl,
             Set(k, v, ttl) \/ SetIfAbsent(k, v, ttl)
      PROVE  Map!Next
  BY <1>3, SetMap DEF Map!Next
<1>4. ASSUME NEW k \in Key, Incr(k, 1) \/ \E ttl \in Ttl : IncrWithTtl(k, 1, ttl)
      PROVE  Map!Next
  BY <1>4, IncrMap DEF Map!Next
<1>5. ASSUME NEW k \in Key, NEW ttl \in Ttl, Expire(k, ttl) PROVE Map!Next
  BY <1>t, <1>5, ExpireMap DEF Map!Next
<1>6. ASSUME NEW k \in Key, Delete(k) PROVE Map!Next
  BY <1>6, DeleteMap DEF Map!Next
<1>7. ASSUME NEW prefix \in Prefixes, KeysWithPrefix(prefix) PROVE Map!Next
  <2>1. Fresh(entries)' = Fresh(entries) /\ DOMAIN Fresh(entries) = LiveKeys(entries)
    BY <1>7, QuietMap, MapReads DEF KeysWithPrefix
  <2>2. Map!KeysWithPrefix(prefix)
    BY <1>7, <2>1 DEF KeysWithPrefix, Map!KeysWithPrefix, Fresh
  <2> QED
    BY <2>2 DEF Map!Next
<1>8. ASSUME NEW t \in Task, NEW k \in Key, GetRead(t, k) PROVE [Map!Next]_(Map!tvars)
  BY <1>t, <1>8, GetMap DEF Map!Next
<1>9. ASSUME NEW t \in Task, GetReap(t) PROVE Map!Next
  BY <1>t, <1>9, GetMap DEF Map!Next
<1> QED
  BY <1>1, <1>2, <1>3, <1>4, <1>5, <1>6, <1>7, <1>8, <1>9 DEF Next

\* MemoryStore does what DistributedStore promises: seen through its unexpired
\* entries, every operation, with whatever it evicts, sweeps or reaps late,
\* answers and changes the map as one atomic operation of TtlMap.
THEOREM StoreImplementsTtlMap == Spec => ImplementsTtlMap
<1>1. Init => Map!Init
  <2>1. Init => Fresh(entries) = [k \in {} |-> 0]
    BY DEF Init, Fresh, Only, LiveKeys
  <2> QED
    BY <2>1 DEF Init, Map!Init, Fresh
<1> QED
  BY <1>1, StoreSteps, StoreInvariant, PTL DEF Spec, ImplementsTtlMap, Map!Spec
=============================================================================
