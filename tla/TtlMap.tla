------------------------------- MODULE TtlMap -------------------------------
(***************************************************************************)
(* What the DistributedStore trait of krab_core promises its callers (the  *)
(* ISR cache, the rate limiters, the token store): a map from keys to      *)
(* values with expiries, whose operations are atomic, that may FORGET an   *)
(* entry early (a bounded cache, a reaped slot) but never invents one,     *)
(* never keeps one past its expiry and never moves an expiry that an       *)
(* operation leaves alone.                                                 *)
(*                                                                         *)
(* `live' holds the unexpired entries only.  `reply' is what the last      *)
(* operation returned to its caller.                                       *)
(***************************************************************************)
EXTENDS Integers

CONSTANTS
    Key,        \* the keys in use
    Payload,    \* the values that do not parse as an unsigned integer
    MaxU64,     \* the largest counter value (u64::MAX in the code)
    Ttl,        \* the durations callers pass; 0 is Duration::ZERO
    Prefixes,   \* the prefixes listed, each as the set of keys that start with it
    MaxNow,     \* bound of the model: the clock stops here
    NoExpiry,   \* an entry with no expiry (expires_at = None)
    Absent,     \* the answer None
    Err         \* the answer Err(..)

VARIABLES live, now, reply

tvars == <<live, now, reply>>

Value == Payload \cup (0 .. MaxU64)
Entry == [value : Value, expires_at : Nat \cup {NoExpiry}]

\* A duration added to the present; ZERO means no expiry at all.
Deadline(ttl) == IF ttl = 0 THEN NoExpiry ELSE now + ttl

SaturatingAdd(a, b) == IF a + b > MaxU64 THEN MaxU64 ELSE a + b

-----------------------------------------------------------------------------

\* The map with `k' bound to `e', having forgotten at most one other key if
\* `k' is new: a store at its capacity makes room for one entry and no more.
Remember(k, e) ==
    \E lost \in SUBSET (DOMAIN live \ {k}) :
        /\ \A x, y \in lost : x = y /\ k \notin DOMAIN live
        /\ live' = [x \in (DOMAIN live \ lost) \cup {k} |->
                        IF x = k THEN e ELSE live[x]]

Set(k, v, ttl) ==
    /\ Remember(k, [value |-> v, expires_at |-> Deadline(ttl)])
    /\ reply' = <<"set", k, v>>
    /\ UNCHANGED now

SetIfAbsent(k, v, ttl) ==
    /\ IF k \in DOMAIN live
       THEN reply' = <<"set_if_absent", k, FALSE>> /\ UNCHANGED live
       ELSE /\ Remember(k, [value |-> v, expires_at |-> Deadline(ttl)])
            /\ reply' = <<"set_if_absent", k, TRUE>>
    /\ UNCHANGED now

\* `fresh' is the expiry of a counter that this call creates.
Count(op, k, delta, fresh) ==
    /\ IF k \in DOMAIN live /\ live[k].value \in Payload
       THEN reply' = <<op, k, Err>> /\ UNCHANGED live
       ELSE LET old  == IF k \in DOMAIN live THEN live[k].value ELSE 0
                till == IF k \in DOMAIN live THEN live[k].expires_at ELSE fresh
                next == SaturatingAdd(old, delta)
            IN  /\ Remember(k, [value |-> next, expires_at |-> till])
                /\ reply' = <<op, k, next>>
    /\ UNCHANGED now

Incr(k, delta) == Count("incr", k, delta, NoExpiry)

IncrWithTtl(k, delta, ttl) == Count("incr_with_ttl", k, delta, Deadline(ttl))

\* A store that has not removed an expired entry yet renews it as well: the
\* key comes back, with whatever value it had.
Expire(k, ttl) ==
    /\ \/ k \in DOMAIN live /\ live' = [live EXCEPT ![k].expires_at = Deadline(ttl)]
       \/ k \notin DOMAIN live /\ UNCHANGED live
       \/ /\ k \notin DOMAIN live
          /\ \E v \in Value :
               live' = [x \in DOMAIN live \cup {k} |->
                          IF x = k THEN [value |-> v, expires_at |-> Deadline(ttl)] ELSE live[x]]
    /\ reply' = <<"expire", k, TRUE>>
    /\ UNCHANGED now

\* `existed' is not determined by the live entries: the store also answers
\* true for an entry that has expired and is not reaped yet.
Delete(k) ==
    \E existed \in BOOLEAN :
        /\ k \in DOMAIN live => existed
        /\ live' = [x \in DOMAIN live \ {k} |-> live[x]]
        /\ reply' = <<"delete", k, existed>>
        /\ UNCHANGED now

Get(k) ==
    /\ reply' = <<"get", k, IF k \in DOMAIN live THEN live[k].value ELSE Absent>>
    /\ UNCHANGED <<live, now>>

KeysWithPrefix(prefix) ==
    /\ reply' = <<"keys_with_prefix", prefix, DOMAIN live \cap prefix>>
    /\ UNCHANGED <<live, now>>

\* A lookup that answers None and leaves `k' forgotten.
Forget(k) ==
    /\ live' = [x \in DOMAIN live \ {k} |-> live[x]]
    /\ reply' = <<"get", k, Absent>>
    /\ UNCHANGED now

\* Time passes, and every entry whose expiry is reached is gone.
Tick ==
    /\ now < MaxNow
    /\ now' = now + 1
    /\ live' = [k \in {x \in DOMAIN live :
                         live[x].expires_at = NoExpiry \/ now + 1 < live[x].expires_at}
                    |-> live[k]]
    /\ UNCHANGED reply

Init ==
    /\ live = [k \in {} |-> 0]
    /\ now = 0
    /\ reply = <<"none">>

Next ==
    \/ Tick
    \/ \E k \in Key, v \in Payload, ttl \in Ttl : Set(k, v, ttl) \/ SetIfAbsent(k, v, ttl)
    \/ \E k \in Key : Incr(k, 1) \/ \E ttl \in Ttl : IncrWithTtl(k, 1, ttl)
    \/ \E k \in Key, ttl \in Ttl : Expire(k, ttl)
    \/ \E k \in Key : Delete(k) \/ Get(k) \/ Forget(k)
    \/ \E prefix \in Prefixes : KeysWithPrefix(prefix)

Spec == Init /\ [][Next]_tvars
=============================================================================
