------------------------ MODULE CircuitBreakerProofs ------------------------
(***************************************************************************)
(* The circuit breaker's safety for any number of callers, any policy and  *)
(* any cooldown, window and probe limit.                                   *)
(*                                                                         *)
(* The argument for ProbesUnderWay: every outcome that is recorded while   *)
(* the breaker is HalfOpen takes it out of HalfOpen, so in HalfOpen the    *)
(* number of probing callers only grows, by one for each probe counted.    *)
(*                                                                         *)
(* The argument for WindowExact: two seconds inside the window never share *)
(* a bucket (OneBucketEach), so a sample changes the count of its own      *)
(* second and of no other; a second that has just entered the window has   *)
(* no samples, and its bucket is still labelled with an older second, so   *)
(* the record that comes first empties it.                                 *)
(***************************************************************************)
EXTENDS CircuitBreaker, FiniteSetTheorems, SequenceTheorems, TLAPS

\* The window's epoch is an instant that has passed, so seconds are counted
\* forwards from it.
EpochPast == epoch # None => epoch <= now

IInv == TypeOK /\ EpochPast /\ PhaseSound /\ ProbesUnderWay /\ BelowThreshold

\* A division by a positive number: quotient and remainder have their ranges
\* (RateWindow's second and its place in the ring).
LEMMA DivMod ==
    ASSUME NEW a \in Nat, NEW b \in Nat \ {0}
    PROVE  a \div b \in Nat /\ a % b \in 0 .. (b - 1)
BY SMT

\* RateWindow::record leaves a ring of buckets.
LEMMA RecordType ==
    ASSUME TypeOK, EpochPast, NEW ok \in BOOLEAN, Record(ok)
    PROVE  /\ epoch' \in 0 .. MaxNow \cup {None}
           /\ epoch' # None => epoch' <= now
           /\ buckets' \in [0 .. (WindowSecs - 1) -> Bucket]
           /\ samples' \in Seq([at : 0 .. MaxNow, ok : BOOLEAN])
<1>1. CASE policy.kind # "rate"
    BY <1>1 DEF Record, window, TypeOK, EpochPast
<1>2. CASE policy.kind = "rate"
    <2> DEFINE start == Start
               second == SecondAt(now, start)
               i == second % WindowSecs
               b == IF buckets[i].second = second THEN buckets[i] ELSE Empty(second)
    <2>1. start \in 0 .. MaxNow /\ start <= now
        BY BreakerAssumption DEF Start, TypeOK, EpochPast
    <2>2. second \in Nat
        <3>1. now - start \in Nat
            BY <2>1 DEF TypeOK
        <3> QED
            BY <3>1, DivMod, BreakerAssumption DEF SecondAt
    <2>3. i \in 0 .. (WindowSecs - 1)
        BY <2>2, DivMod, BreakerAssumption
    <2>4. b \in Bucket
        <3>1. buckets[i] \in Bucket
            BY <2>3 DEF TypeOK
        <3>2. Empty(second) \in Bucket
            BY <2>2, BreakerAssumption DEF Bucket, Empty
        <3> QED
            BY <3>1, <3>2
    <2>5. \A n \in 0 .. MaxU32 : SaturatingAdd(n) \in 0 .. MaxU32
        BY BreakerAssumption DEF SaturatingAdd
    <2> DEFINE e == IF ok THEN [b EXCEPT !.successes = SaturatingAdd(@)]
                          ELSE [b EXCEPT !.failures = SaturatingAdd(@)]
    <2>6. e \in Bucket
        BY <2>4, <2>5 DEF Bucket
    <2>7. Recorded(ok) = [buckets EXCEPT ![i] = e]
        BY DEF Recorded
    <2>8. Recorded(ok) \in [0 .. (WindowSecs - 1) -> Bucket]
        <3> HIDE DEF i, e
        <3> QED
            BY <2>3, <2>6, <2>7 DEF TypeOK
    <2>9. [at |-> now, ok |-> ok] \in [at : 0 .. MaxNow, ok : BOOLEAN]
        BY DEF TypeOK
    <2>10. epoch' = start /\ buckets' = Recorded(ok) /\ samples' = Append(samples, [at |-> now, ok |-> ok])
        BY <1>2 DEF Record
    <2> HIDE DEF start, second, i, b, e
    <2> QED
        BY <2>1, <2>8, <2>9, <2>10, BreakerAssumption DEF TypeOK
<1> QED
    BY <1>1, <1>2

\* Between its two ends a call changes the set of probing callers by one.
LEMMA ProbingCount ==
    ASSUME TypeOK, NEW c \in Caller, caller[c] = "idle", Admit(c, "probe")
    PROVE  Cardinality(Probing') = Cardinality(Probing) + 1 /\ Cardinality(Probing) \in Nat
<1>1. IsFiniteSet(Probing)
    BY BreakerAssumption, FS_Subset DEF Probing
<1>2. Probing' = Probing \cup {c} /\ c \notin Probing
    BY DEF Probing, Admit, TypeOK
<1> QED
    BY <1>1, <1>2, FS_AddElement, FS_CardinalityType

\* The invariant holds of a new breaker.
LEMMA InitIInv == Init => IInv
<1> SUFFICES ASSUME Init PROVE IInv
    OBVIOUS
<1>1. TypeOK
    <2>1. Empty(0) \in Bucket
        BY BreakerAssumption DEF Empty, Bucket
    <2> QED
        BY <2>1, BreakerAssumption DEF Init, TypeOK
<1>2. EpochPast /\ PhaseSound /\ ProbesUnderWay /\ BelowThreshold
    BY BreakerAssumption DEF Init, EpochPast, PhaseSound, ProbesUnderWay, BelowThreshold
<1> QED
    BY <1>1, <1>2 DEF IInv

\* allow_request preserves it.
LEMMA AllowIInv == ASSUME IInv, NEW c \in Caller, AllowRequest(c) PROVE IInv'
<1> USE DEF IInv
<1>0. UNCHANGED <<policy, consecutive, openedAt, epoch, buckets, samples, now>>
    BY DEF AllowRequest, window
<1>1. CASE state = "Closed" /\ Admit(c, "call") /\ UNCHANGED <<state, probes>>
    BY <1>0, <1>1 DEF Admit, TypeOK, EpochPast, PhaseSound, ProbesUnderWay, BelowThreshold
<1>2. CASE state = "Open" /\ openedAt # None /\ state' = "HalfOpen" /\ probes' = 1 /\ Admit(c, "probe")
    <2>1. Cardinality(Probing') >= 1
        BY <1>2, ProbingCount DEF AllowRequest
    <2>2. TypeOK'
        BY <1>0, <1>2 DEF Admit, TypeOK
    <2>3. PhaseSound'
        BY <1>0, <1>2, BreakerAssumption DEF PhaseSound
    <2> QED
        BY <1>0, <1>2, <2>1, <2>2, <2>3 DEF EpochPast, ProbesUnderWay, BelowThreshold
<1>3. CASE /\ state = "HalfOpen" /\ probes < MaxProbes /\ probes' = probes + 1
           /\ Admit(c, "probe") /\ UNCHANGED state
    <2>1. Cardinality(Probing') >= probes'
        BY <1>3, ProbingCount DEF AllowRequest, ProbesUnderWay, TypeOK
    <2>2. TypeOK'
        BY <1>0, <1>3 DEF Admit, TypeOK
    <2>3. PhaseSound'
        BY <1>0, <1>3, BreakerAssumption DEF PhaseSound, TypeOK
    <2> QED
        BY <1>0, <1>3, <2>1, <2>2, <2>3 DEF EpochPast, ProbesUnderWay, BelowThreshold
<1> QED
    BY <1>1, <1>2, <1>3 DEF AllowRequest

\* close_and_reset, from Open or HalfOpen, establishes it.
LEMMA CloseIInv ==
    ASSUME IInv, NEW c \in Caller, CloseAndReset, Admit(c, "idle"), UNCHANGED <<policy, now>>
    PROVE  IInv'
<1> USE DEF IInv
<1>1. Empty(0) \in Bucket
    BY BreakerAssumption DEF Empty, Bucket
<1>2. TypeOK'
    BY <1>1, BreakerAssumption DEF CloseAndReset, Admit, TypeOK
<1> QED
    BY <1>2, BreakerAssumption DEF CloseAndReset, EpochPast, PhaseSound, ProbesUnderWay, BelowThreshold

\* record_success preserves it.
LEMMA SuccessIInv == ASSUME IInv, NEW c \in Caller, RecordSuccess(c) PROVE IInv'
<1>1. CASE state # "Closed"
    BY <1>1, CloseIInv DEF RecordSuccess
<1>2. CASE state = "Closed"
    <2> USE DEF IInv
    <2>1. /\ Record(TRUE) /\ consecutive' = 0 /\ Admit(c, "idle")
          /\ UNCHANGED <<policy, state, openedAt, probes, now>>
        BY <1>2 DEF RecordSuccess
    <2>0. /\ epoch' \in 0 .. MaxNow \cup {None} /\ (epoch' # None => epoch' <= now)
          /\ buckets' \in [0 .. (WindowSecs - 1) -> Bucket]
          /\ samples' \in Seq([at : 0 .. MaxNow, ok : BOOLEAN])
        BY <2>1, RecordType
    <2>2. TypeOK'
        BY <2>0, <2>1, BreakerAssumption DEF TypeOK, Admit
    <2>3. EpochPast'
        BY <2>0, <2>1 DEF EpochPast
    <2> QED
        BY <1>2, <2>1, <2>2, <2>3, BreakerAssumption DEF PhaseSound, ProbesUnderWay, BelowThreshold
<1> QED
    BY <1>1, <1>2

\* record_failure preserves it: a Closed breaker that reaches its threshold trips.
LEMMA FailureIInv == ASSUME IInv, NEW c \in Caller, RecordFailure(c) PROVE IInv'
<1> USE DEF IInv
<1>0. /\ Admit(c, "idle") /\ UNCHANGED <<policy, now>>
      /\ consecutive' \in 0 .. MaxU32
    BY BreakerAssumption DEF RecordFailure, SaturatingAdd, TypeOK
<1>1. ASSUME TripOpen,
             epoch' \in 0 .. MaxNow \cup {None}, epoch' # None => epoch' <= now,
             buckets' \in [0 .. (WindowSecs - 1) -> Bucket],
             samples' \in Seq([at : 0 .. MaxNow, ok : BOOLEAN])
      PROVE  IInv'
    <2>1. TypeOK'
        BY <1>0, <1>1, BreakerAssumption DEF TripOpen, Admit, TypeOK
    <2>2. PhaseSound'
        BY <1>1, BreakerAssumption DEF TripOpen, PhaseSound, TypeOK
    <2> QED
        BY <1>0, <1>1, <2>1, <2>2 DEF TripOpen, EpochPast, ProbesUnderWay, BelowThreshold
<1>2. CASE state = "Closed" /\ Record(FALSE) /\ TripOpen
    BY <1>1, <1>2, RecordType
<1>3. CASE /\ state = "Closed" /\ Record(FALSE) /\ ~ShouldTrip(consecutive', buckets')
           /\ UNCHANGED <<state, openedAt, probes>>
    <2>1. TypeOK'
        BY <1>0, <1>3, RecordType DEF Admit, TypeOK
    <2>2. EpochPast'
        BY <1>0, <1>3, RecordType DEF EpochPast
    <2>3. BelowThreshold'
        BY <1>0, <1>3, BreakerAssumption DEF BelowThreshold, ShouldTrip, TypeOK
    <2> QED
        BY <1>3, <2>1, <2>2, <2>3 DEF PhaseSound, ProbesUnderWay
<1>4. CASE state = "HalfOpen" /\ TripOpen /\ UNCHANGED window
    BY <1>1, <1>4 DEF window, TypeOK, EpochPast
<1>5. CASE state = "Open" /\ UNCHANGED <<state, openedAt, probes, window>>
    BY <1>0, <1>5 DEF window, Admit, TypeOK, EpochPast, PhaseSound, ProbesUnderWay, BelowThreshold
<1> QED
    BY <1>2, <1>3, <1>4, <1>5 DEF RecordFailure

\* Every step preserves it.
LEMMA NextIInv == IInv /\ [Next]_vars => IInv'
<1> SUFFICES ASSUME IInv, [Next]_vars PROVE IInv'
    OBVIOUS
<1>1. CASE Tick
    <2>1. /\ now' = now + 1 /\ now' \in 0 .. MaxNow
          /\ UNCHANGED <<policy, state, consecutive, openedAt, probes, epoch, buckets, samples, caller>>
        BY <1>1, BreakerAssumption DEF Tick, breaker, window, IInv, TypeOK
    <2>2. TypeOK'
        BY <2>1 DEF IInv, TypeOK
    <2>3. EpochPast'
        BY <2>1, BreakerAssumption DEF IInv, TypeOK, EpochPast
    <2> QED
        BY <2>1, <2>2, <2>3 DEF IInv, PhaseSound, ProbesUnderWay, BelowThreshold, Probing
<1>2. CASE UNCHANGED vars
    BY <1>2 DEF vars, IInv, TypeOK, EpochPast, PhaseSound, ProbesUnderWay, BelowThreshold, Probing
<1> QED
    BY <1>1, <1>2, AllowIInv, SuccessIInv, FailureIInv DEF Next

\* The inductive invariant holds in every state.
THEOREM BreakerInvariant == Spec => []IInv
BY InitIInv, NextIInv, PTL DEF Spec

\* The breaker's fields stay in their ranges, its ring keeps its buckets.
THEOREM BreakerTypeCorrect == Spec => []TypeOK
BY BreakerInvariant, PTL DEF IInv

\* A HalfOpen breaker whose probes are used up still has them under way, so an
\* outcome will come that takes it out of HalfOpen.
THEOREM BreakerProbesUnderWay == Spec => []ProbesUnderWay
BY BreakerInvariant, PTL DEF IInv

\* The cooldown's start and the probe count fit the breaker's state.
THEOREM BreakerPhaseSound == Spec => []PhaseSound
BY BreakerInvariant, PTL DEF IInv

\* A Closed breaker with a consecutive policy is below its threshold.
THEOREM BreakerBelowThreshold == Spec => []BelowThreshold
BY BreakerInvariant, PTL DEF IInv

\* Failures that arrive while the breaker is Open never move the start of its
\* cooldown (record_failure's Open arm).
THEOREM BreakerCooldownNotProlonged == Spec => CooldownNotProlonged
<1>1. ASSUME [Next]_vars, state = "Open", state' = "Open"
      PROVE  openedAt' = openedAt
    <2>1. CASE Tick \/ UNCHANGED vars
        BY <2>1 DEF Tick, breaker, vars
    <2>2. ASSUME NEW c \in Caller, AllowRequest(c) \/ RecordSuccess(c) \/ RecordFailure(c)
          PROVE  openedAt' = openedAt
        BY <1>1, <2>2 DEF AllowRequest, RecordSuccess, CloseAndReset, RecordFailure
    <2> QED
        BY <1>1, <2>1, <2>2 DEF Next
<1>2. [Next]_vars => [state = "Open" /\ state' = "Open" => openedAt' = openedAt]_vars
    BY <1>1
<1> QED
    BY <1>2, PTL DEF Spec, CooldownNotProlonged
-----------------------------------------------------------------------------
(* The rate window.  RateWindow keeps one bucket for each second modulo    *)
(* window_secs and reuses it when the second comes round.                  *)

Current == SecondAt(now, Start)

\* The samples `second' saw, those that succeeded or those that failed.
Seen(second, good) ==
    {i \in DOMAIN samples : SecondAt(samples[i].at, Start) = second /\ samples[i].ok = good}

Saturated(n) == IF n < MaxU32 THEN n ELSE MaxU32
Count(b, good) == IF good THEN b.successes ELSE b.failures

\* Samples were taken since the epoch and no later than now.
SamplesPast ==
    \A i \in DOMAIN samples : epoch # None /\ epoch <= samples[i].at /\ samples[i].at <= now

\* Every second that totals looks at is counted in full: its bucket has its samples, each
\* sample once and saturating, unless there were none and the bucket is another second's.
SecondsCounted ==
    \A second \in Nat, good \in BOOLEAN :
        second <= Current /\ second > Current - WindowSecs =>
            LET b == buckets[second % WindowSecs]
            IN  IF b.second = second
                THEN Count(b, good) = Saturated(Cardinality(Seen(second, good)))
                ELSE Seen(second, good) = {}

\* Nothing else is counted: a bucket with samples is in the place of its second, which
\* is not in the future.
BucketsPlaced ==
    \A i \in 0 .. (WindowSecs - 1) :
        /\ buckets[i].second <= Current
        /\ \/ i = buckets[i].second % WindowSecs
           \/ buckets[i].successes = 0 /\ buckets[i].failures = 0

WindowExact == SecondsCounted /\ BucketsPlaced

\* Later instants are in later seconds.
LEMMA SecondsGrow ==
    ASSUME NEW a \in Nat, NEW b \in Nat, a <= b, NEW t \in Nat \ {0}
    PROVE  a \div t <= b \div t
<1>1. /\ a \div t \in Int /\ b \div t \in Int /\ a % t \in 0 .. (t - 1) /\ b % t \in 0 .. (t - 1)
      /\ a = t * (a \div t) + (a % t)
      /\ b = t * (b \div t) + (b % t)
    BY SMT
<1> QED
    <2> DEFINE p == a \div t
               q == b \div t
    <2>1. SUFFICES ASSUME p >= q + 1 PROVE FALSE
        BY <1>1
    <2> HIDE DEF p, q
    <2>2. p \in Int /\ q \in Int /\ t * p < t * q + t
        BY <1>1 DEF p, q
    <2>3. t * p >= t * (q + 1)
        BY <2>1, <2>2
    <2>4. t * (q + 1) = t * q + t
        BY <2>2
    <2> QED
        BY <2>2, <2>3, <2>4

\* Seconds are counted forwards from the epoch (RateWindow::current_second).
LEMMA SecondsOrdered ==
    ASSUME NEW s \in Nat, NEW a \in Nat, NEW b \in Nat, s <= a, a <= b
    PROVE  SecondAt(a, s) \in Nat /\ SecondAt(b, s) \in Nat /\ SecondAt(a, s) <= SecondAt(b, s)
<1>1. a - s \in Nat /\ b - s \in Nat /\ a - s <= b - s
    OBVIOUS
<1> QED
    BY <1>1, SecondsGrow, DivMod, BreakerAssumption DEF SecondAt

\* Two seconds less than a window apart have different buckets.
LEMMA OneBucketEach ==
    ASSUME NEW a \in Nat, NEW b \in Nat, a < b, NEW w \in Nat \ {0}, b - a < w
    PROVE  a % w # b % w
<1>1. /\ a \div w \in Int /\ b \div w \in Int /\ a % w \in Nat /\ b % w \in Nat
      /\ a = w * (a \div w) + (a % w)
      /\ b = w * (b \div w) + (b % w)
    BY SMT
<1> DEFINE p == a \div w
           q == b \div w
<1> SUFFICES ASSUME a % w = b % w PROVE FALSE
    OBVIOUS
<1>2. p \in Int /\ q \in Int /\ b - a = w * q - w * p
    BY <1>1
<1> HIDE DEF p, q
<1>3. w * q - w * p = w * (q - p)
    BY <1>2
<1>4. q - p >= 1
    <2>1. SUFFICES ASSUME q - p <= 0 PROVE FALSE
        BY <1>2
    <2>2. w * (q - p) <= 0
        BY <1>2, <2>1
    <2> QED
        BY <1>2, <1>3, <2>2
<1>5. w * (q - p) >= w
    BY <1>2, <1>4
<1> QED
    BY <1>2, <1>3, <1>5

\* What a bucket has seen is a finite number of samples.
LEMMA SeenFinite ==
    ASSUME TypeOK, NEW second, NEW good
    PROVE  IsFiniteSet(Seen(second, good)) /\ Cardinality(Seen(second, good)) \in Nat
<1>1. IsFiniteSet(DOMAIN samples)
    BY FS_Interval DEF TypeOK
<1> QED
    BY <1>1, FS_Subset, FS_CardinalityType DEF Seen

\* The clock's second.
LEMMA CurrentType ==
    ASSUME TypeOK, EpochPast
    PROVE  Start \in Nat /\ Start <= now /\ Current \in Nat
<1>1. Start \in Nat /\ Start <= now /\ now - Start \in Nat
    BY BreakerAssumption DEF Start, TypeOK, EpochPast
<1> QED
    BY <1>1, DivMod, BreakerAssumption DEF Current, SecondAt

\* The clock and the instants of the samples are natural numbers.
LEMMA InstantsType ==
    ASSUME TypeOK
    PROVE  /\ now \in Nat
           /\ \A i \in DOMAIN samples : samples[i].at \in Nat
<1>1. MaxNow \in Nat /\ now \in 0 .. MaxNow /\ samples \in Seq([at : 0 .. MaxNow, ok : BOOLEAN])
    BY BreakerAssumption DEF TypeOK
<1>2. ASSUME NEW i \in DOMAIN samples PROVE samples[i].at \in Nat
    <2>1. i \in 1 .. Len(samples)
        BY <1>1
    <2>2. samples[i] \in [at : 0 .. MaxNow, ok : BOOLEAN]
        BY <1>1, <2>1, ElementOfSeq
    <2>3. samples[i].at \in 0 .. MaxNow
        BY <2>2
    <2> QED
        BY <1>1, <2>3
<1> QED
    BY <1>1, <1>2

\* The window of a new breaker, and of one that has closed (RateWindow::reset).
NewWindow ==
    /\ epoch = None /\ samples = <<>> /\ now \in Nat
    /\ buckets = [i \in 0 .. (WindowSecs - 1) |-> Empty(0)]

\* Such a window has counted nothing.
LEMMA WindowEmpty == NewWindow => SamplesPast /\ WindowExact
<1> SUFFICES ASSUME NewWindow PROVE SamplesPast /\ WindowExact
    OBVIOUS
<1> USE DEF NewWindow
<1>1. Current = 0
    BY BreakerAssumption DEF Current, Start, SecondAt
<1>2. DOMAIN samples = {} /\ \A second, good : Seen(second, good) = {}
    BY DEF Seen
<1>3. Saturated(0) = 0 /\ Cardinality({}) = 0
    BY BreakerAssumption, FS_EmptySet DEF Saturated
<1>4. SecondsCounted
    <2>1. ASSUME NEW second \in Nat, NEW good \in BOOLEAN
          PROVE  Count(buckets[second % WindowSecs], good) = 0
        <3>1. second % WindowSecs \in 0 .. (WindowSecs - 1)
            BY DivMod, BreakerAssumption
        <3> QED
            BY <3>1 DEF Empty, Count
    <2>2. \A second, good : Saturated(Cardinality(Seen(second, good))) = 0
        BY <1>2, <1>3
    <2> QED
        BY <1>2, <2>1, <2>2 DEF SecondsCounted
<1>5. BucketsPlaced
    BY <1>1 DEF BucketsPlaced, Empty
<1> QED
    BY <1>2, <1>4, <1>5 DEF SamplesPast, WindowExact

\* When time passes, seconds enter the window that have no samples yet.
LEMMA WindowTick ==
    ASSUME TypeOK, EpochPast, SamplesPast, WindowExact,
           now' \in Nat, now <= now', UNCHANGED <<epoch, buckets, samples>>
    PROVE  SamplesPast' /\ WindowExact'
<1>n. now \in Nat
    BY InstantsType
<1>c. WindowSecs \in Nat \ {0} /\ TicksPerSecond \in Nat \ {0}
    BY BreakerAssumption
<1>b. \A i \in 0 .. (WindowSecs - 1) : buckets[i].second \in Nat
    BY DEF TypeOK, Bucket
<1>1. CASE epoch = None
    <2>1. DOMAIN samples = {}
        BY <1>1 DEF SamplesPast
    <2>2. Current = 0 /\ Current' = 0
        <3>1. Start = now /\ Start' = now'
            BY <1>1 DEF Start
        <3>2. \A t \in Nat : SecondAt(t, t) = 0
            BY <1>c DEF SecondAt
        <3> QED
            BY <1>n, <3>1, <3>2 DEF Current, SecondAt
    <2>3. \A second, good : Seen(second, good) = {} /\ Seen(second, good)' = {}
        BY <2>1 DEF Seen
    <2>4. SecondsCounted'
        <3> HIDE DEF Seen
        <3> QED
            BY <2>2, <2>3 DEF WindowExact, SecondsCounted, Count, Saturated
    <2> QED
        BY <2>1, <2>2, <2>4 DEF SamplesPast, WindowExact, BucketsPlaced
<1>2. CASE epoch # None
    <2>1. Start' = Start /\ Start \in Nat /\ Start = epoch /\ Start <= now
        BY <1>2, CurrentType DEF Start
    <2>2. Current \in Nat /\ Current' \in Nat /\ Current <= Current'
        <3>1. Current = SecondAt(now, Start) /\ Current' = SecondAt(now', Start)
            BY <2>1 DEF Current, SecondAt
        <3> QED
            BY <1>n, <2>1, <3>1, SecondsOrdered
    <2>3. \A second, good : Seen(second, good)' = Seen(second, good)
        BY <2>1 DEF Seen, SecondAt
    <2>4. SamplesPast'
        BY <1>n, <2>1, InstantsType DEF SamplesPast
    <2>5. \A second \in Nat, good \in BOOLEAN : Current < second => Seen(second, good) = {}
        <3> SUFFICES ASSUME NEW second \in Nat, NEW i \in DOMAIN samples,
                            SecondAt(samples[i].at, Start) = second
                     PROVE  second <= Current
            BY CurrentType DEF Seen
        <3>1. samples[i].at \in Nat /\ Start <= samples[i].at /\ samples[i].at <= now
            BY <2>1, InstantsType DEF SamplesPast
        <3> QED
            BY <1>n, <2>1, <3>1, SecondsOrdered DEF Current
    <2>6. BucketsPlaced'
        BY <1>c, <1>b, <2>2 DEF WindowExact, BucketsPlaced
    <2>7. SecondsCounted'
        <3> SUFFICES ASSUME NEW second \in Nat, NEW good \in BOOLEAN,
                            second <= Current', second > Current' - WindowSecs
                     PROVE  LET b == buckets[second % WindowSecs]
                            IN  IF b.second = second
                                THEN Count(b, good) = Saturated(Cardinality(Seen(second, good)))
                                ELSE Seen(second, good) = {}
            BY <2>3 DEF SecondsCounted, Count, Saturated
        <3>1. CASE second <= Current
            <4>1. \A cur, next \in Nat : cur <= next /\ second > next - WindowSecs => second > cur - WindowSecs
                BY <1>c
            <4>2. second > Current - WindowSecs
                BY <2>2, <4>1
            <4> QED
                BY <3>1, <4>2 DEF WindowExact, SecondsCounted
        <3>2. CASE second > Current
            <4>1. second % WindowSecs \in 0 .. (WindowSecs - 1)
                BY DivMod, BreakerAssumption
            <4>2. buckets[second % WindowSecs].second # second
                BY <1>b, <2>2, <3>2, <4>1 DEF WindowExact, BucketsPlaced
            <4>3. Seen(second, good) = {}
                BY <2>2, <2>5, <3>2
            <4> QED
                BY <4>2, <4>3
        <3> QED
            BY <2>2, <3>1, <3>2
    <2> QED
        BY <2>4, <2>6, <2>7 DEF WindowExact
<1> QED
    BY <1>1, <1>2

\* A counter that stops at u32::MAX (saturating_add) after one more sample.
LEMMA CountsOneMore ==
    ASSUME NEW n \in Nat
    PROVE  SaturatingAdd(Saturated(n)) = Saturated(n + 1)
BY BreakerAssumption DEF SaturatingAdd, Saturated

\* The samples the seconds have seen after one more is recorded.
LEMMA SeenRecorded ==
    ASSUME TypeOK, EpochPast, NEW ok \in BOOLEAN, Start' = Start,
           samples' = Append(samples, [at |-> now, ok |-> ok]),
           NEW second \in Nat, NEW good \in BOOLEAN
    PROVE  LET seen == Seen(second, good) IN
           Seen(second, good)' = IF second = Current /\ good = ok
                                 THEN seen \cup {Len(samples) + 1} ELSE seen
<1> DEFINE top == Len(samples) + 1
<1>1. /\ Len(samples) \in Nat
      /\ DOMAIN samples = 1 .. Len(samples) /\ DOMAIN samples' = DOMAIN samples \cup {top}
      /\ top \notin DOMAIN samples
      /\ samples'[top] = [at |-> now, ok |-> ok]
      /\ \A i \in DOMAIN samples : samples'[i] = samples[i]
    BY DEF TypeOK
<1>2. \A i \in DOMAIN samples' : i \in Seen(second, good)'
          <=> SecondAt(samples'[i].at, Start) = second /\ samples'[i].ok = good
    BY DEF Seen, SecondAt
<1>3. \A i \in DOMAIN samples : i \in Seen(second, good)' <=> i \in Seen(second, good)
    BY <1>1, <1>2 DEF Seen
<1>4. top \in Seen(second, good)' <=> second = Current /\ good = ok
    BY <1>1, <1>2 DEF Current
<1>5. Seen(second, good)' \subseteq DOMAIN samples' /\ Seen(second, good) \subseteq DOMAIN samples
    BY DEF Seen
<1> HIDE DEF top
<1>6. \A i : i \in Seen(second, good)'
               <=> i \in Seen(second, good) \/ (i = top /\ second = Current /\ good = ok)
    BY <1>1, <1>3, <1>4, <1>5
<1> QED
    BY <1>6 DEF top

\* RateWindow::record counts the sample in the second of the clock and leaves the
\* counts of the window's other seconds alone.
LEMMA WindowRecord ==
    ASSUME TypeOK, EpochPast, SamplesPast, WindowExact,
           NEW ok \in BOOLEAN, Record(ok), policy.kind = "rate", now' = now
    PROVE  SamplesPast' /\ WindowExact'
<1> DEFINE i == Current % WindowSecs
           b == IF buckets[i].second = Current THEN buckets[i] ELSE Empty(Current)
           e == IF ok THEN [b EXCEPT !.successes = SaturatingAdd(@)]
                      ELSE [b EXCEPT !.failures = SaturatingAdd(@)]
<1>1. Start \in Nat /\ Start <= now /\ Current \in Nat /\ now \in Nat /\ WindowSecs \in Nat \ {0}
    BY CurrentType, InstantsType, BreakerAssumption
<1>2. epoch' = Start /\ samples' = Append(samples, [at |-> now, ok |-> ok])
    BY DEF Record
<1>3. Start' = Start /\ Current' = Current
    BY <1>1, <1>2, BreakerAssumption DEF Start, Current, SecondAt
<1>4. i \in 0 .. (WindowSecs - 1)
    BY <1>1, DivMod
<1>5. buckets' = [buckets EXCEPT ![i] = e]
    BY DEF Record, Recorded, Current
<1>6. DOMAIN buckets = 0 .. (WindowSecs - 1) /\ \A j \in DOMAIN buckets : buckets[j] \in Bucket
    BY DEF TypeOK
<1>7. b \in Bucket /\ b.second = Current
    BY <1>1, <1>4, <1>6, BreakerAssumption DEF Empty, Bucket
<1>8. /\ e.second = Current
      /\ \A good \in BOOLEAN : Count(e, good) = IF good = ok THEN SaturatingAdd(Count(b, good))
                                                             ELSE Count(b, good)
    <2> HIDE DEF b
    <2> QED
        BY <1>7 DEF Bucket, Count
<1>9. \A good \in BOOLEAN : Count(b, good) = Saturated(Cardinality(Seen(Current, good)))
    <2> TAKE good \in BOOLEAN
    <2>1. Current > Current - WindowSecs /\ Current <= Current
        BY <1>1
    <2>2. CASE buckets[i].second = Current
        BY <1>1, <2>1, <2>2 DEF WindowExact, SecondsCounted
    <2>3. CASE buckets[i].second # Current
        <3>1. Seen(Current, good) = {}
            BY <1>1, <2>1, <2>3 DEF WindowExact, SecondsCounted
        <3>2. Saturated(0) = 0 /\ Cardinality({}) = 0
            BY BreakerAssumption, FS_EmptySet DEF Saturated
        <3> QED
            BY <2>3, <3>1, <3>2 DEF Count, Empty
    <2> QED
        BY <2>2, <2>3
<1> HIDE DEF b, e, i
<1>10. SamplesPast'
    <2>1. /\ Len(samples) \in Nat /\ DOMAIN samples' = DOMAIN samples \cup {Len(samples) + 1}
          /\ samples'[Len(samples) + 1].at = now
          /\ \A j \in DOMAIN samples : samples'[j] = samples[j]
        BY <1>2 DEF TypeOK
    <2>2. epoch' # None
        BY <1>1, <1>2, BreakerAssumption
    <2>3. \A j \in DOMAIN samples : Start <= samples[j].at /\ samples[j].at <= now
        BY DEF SamplesPast, Start
    <2> QED
        BY <1>1, <1>2, <2>1, <2>2, <2>3 DEF SamplesPast
<1>11. SecondsCounted'
    <2> SUFFICES ASSUME NEW second \in Nat, NEW good \in BOOLEAN,
                        second <= Current, second > Current - WindowSecs
                 PROVE  LET c == buckets'[second % WindowSecs]
                        IN  IF c.second = second
                            THEN Count(c, good) = Saturated(Cardinality(Seen(second, good)'))
                            ELSE Seen(second, good)' = {}
        BY <1>3 DEF SecondsCounted, Count, Saturated
    <2>1. CASE second = Current
        <3>1. buckets'[second % WindowSecs] = e
            BY <1>4, <1>5, <1>6, <2>1 DEF i
        <3>2. CASE good = ok
            <4>1. Seen(second, good)' = Seen(second, good) \cup {Len(samples) + 1}
                BY <1>2, <1>3, <2>1, <3>2, SeenRecorded
            <4>2. Len(samples) + 1 \notin Seen(second, good)
                <5>1. Len(samples) + 1 \notin DOMAIN samples
                    BY DEF TypeOK
                <5> QED
                    BY <5>1 DEF Seen
            <4>3. /\ Cardinality(Seen(second, good)) \in Nat
                  /\ Cardinality(Seen(second, good)') = Cardinality(Seen(second, good)) + 1
                BY <4>1, <4>2, SeenFinite, FS_AddElement
            <4>4. Count(e, good) = SaturatingAdd(Saturated(Cardinality(Seen(second, good))))
                BY <1>8, <1>9, <2>1, <3>2
            <4> QED
                BY <1>8, <2>1, <3>1, <4>3, <4>4, CountsOneMore
        <3>3. CASE good # ok
            <4>1. Seen(second, good)' = Seen(second, good)
                BY <1>2, <1>3, <3>3, SeenRecorded
            <4> QED
                BY <1>8, <1>9, <2>1, <3>1, <3>3, <4>1
        <3> QED
            BY <3>2, <3>3
    <2>2. CASE second # Current
        <3>1. second < Current /\ Current - second < WindowSecs
            BY <1>1, <2>2
        <3>2. second % WindowSecs \in 0 .. (WindowSecs - 1) /\ second % WindowSecs # i
            BY <1>1, <3>1, DivMod, OneBucketEach DEF i
        <3>3. buckets'[second % WindowSecs] = buckets[second % WindowSecs]
            BY <1>5, <1>6, <3>2
        <3>4. Seen(second, good)' = Seen(second, good)
            BY <1>2, <1>3, <2>2, SeenRecorded
        <3> QED
            BY <3>3, <3>4 DEF WindowExact, SecondsCounted
    <2> QED
        BY <2>1, <2>2
<1>12. BucketsPlaced'
    <2> SUFFICES ASSUME NEW j \in 0 .. (WindowSecs - 1)
                 PROVE  /\ buckets'[j].second <= Current
                        /\ \/ j = buckets'[j].second % WindowSecs
                           \/ buckets'[j].successes = 0 /\ buckets'[j].failures = 0
        BY <1>3 DEF BucketsPlaced
    <2>1. CASE j = i
        <3>1. buckets'[j] = e
            BY <1>4, <1>5, <1>6, <2>1
        <3> QED
            BY <1>1, <1>8, <2>1, <3>1 DEF i
    <2>2. CASE j # i
        <3>1. buckets'[j] = buckets[j]
            BY <1>5, <1>6, <2>2
        <3> QED
            BY <3>1 DEF WindowExact, BucketsPlaced
    <2> QED
        BY <2>1, <2>2
<1> QED
    BY <1>10, <1>11, <1>12 DEF WindowExact

\* The outcome of a call leaves the window counted exactly.
LEMMA WindowOutcome ==
    ASSUME IInv, SamplesPast, WindowExact, NEW c \in Caller,
           RecordSuccess(c) \/ RecordFailure(c)
    PROVE  SamplesPast' /\ WindowExact'
<1> USE DEF IInv
<1>0. now' = now /\ now \in Nat
    BY InstantsType DEF RecordSuccess, RecordFailure
<1>1. CASE \E ok \in BOOLEAN : Record(ok)
    <2>1. CASE policy.kind = "rate"
        BY <1>0, <1>1, <2>1, WindowRecord
    <2>2. CASE policy.kind # "rate"
        <3>1. UNCHANGED <<epoch, buckets, samples>>
            BY <1>1, <2>2 DEF Record, window
        <3> QED
            BY <1>0, <3>1, WindowTick
    <2> QED
        BY <2>1, <2>2
<1>2. CASE UNCHANGED window
    BY <1>0, <1>2, WindowTick DEF window
<1>3. CASE CloseAndReset
    <2>1. NewWindow'
        BY <1>0, <1>3 DEF CloseAndReset, TypeOK, NewWindow, Empty
    <2>2. NewWindow' => SamplesPast' /\ WindowExact'
        BY WindowEmpty, PTL
    <2> QED
        BY <2>1, <2>2
<1> QED
    BY <1>1, <1>2, <1>3 DEF RecordSuccess, RecordFailure

\* The sliding window counts exactly, in every state: each second inside the window has a
\* bucket that holds the samples of that second, up to u32::MAX, and no bucket holds
\* samples that are not its second's, whatever samples, pauses and resets led here
\* (RateWindow::record, totals and reset).
THEOREM BreakerWindowExact == Spec => []WindowExact
<1>1. Init => SamplesPast /\ WindowExact
    BY WindowEmpty DEF Init, NewWindow
<1>2. IInv /\ SamplesPast /\ WindowExact /\ [Next]_vars => SamplesPast' /\ WindowExact'
    <2> SUFFICES ASSUME IInv, SamplesPast, WindowExact, [Next]_vars
                 PROVE  SamplesPast' /\ WindowExact'
        OBVIOUS
    <2>1. TypeOK /\ EpochPast /\ now \in Nat
        BY InstantsType DEF IInv
    <2>2. CASE Tick
        BY <2>1, <2>2, WindowTick DEF Tick, window
    <2>3. ASSUME NEW c \in Caller, AllowRequest(c) PROVE SamplesPast' /\ WindowExact'
        BY <2>1, <2>3, WindowTick DEF AllowRequest, window
    <2>4. ASSUME NEW c \in Caller, RecordSuccess(c) \/ RecordFailure(c)
          PROVE  SamplesPast' /\ WindowExact'
        BY <2>4, WindowOutcome
    <2>5. CASE UNCHANGED vars
        BY <2>1, <2>5, WindowTick DEF vars
    <2> QED
        BY <2>2, <2>3, <2>4, <2>5 DEF Next
<1> QED
    BY <1>1, <1>2, BreakerInvariant, PTL DEF Spec
=============================================================================
