--------------------------- MODULE CircuitBreaker ---------------------------
(***************************************************************************)
(* krab_core::resilience: one SharedCircuitBreaker and the tasks that ask  *)
(* it before each call of a dependency and report the outcome afterwards.  *)
(* Each method runs under the breaker's mutex, so each is one step; the    *)
(* call itself happens in between, and its outcome may arrive in a state   *)
(* of the breaker that is not the one that admitted it.                    *)
(***************************************************************************)
EXTENDS Integers, Sequences, FiniteSets, Functions

CONSTANTS
    Caller,          \* the tasks that share the breaker
    Policies,        \* the TripPolicy values it may be built with
    OpenCooldown,    \* open_cooldown, in ticks
    MaxProbes,       \* half_open_max_probes
    WindowSecs,      \* window_secs, at least 1 (RateWindow::new)
    TicksPerSecond,  \* the clock is finer than the window's seconds
    MaxU32,          \* u32::MAX, where the counters saturate
    MaxNow,          \* bound of the model: the clock stops here
    MaxSamples,      \* bound of the model: samples taken between two resets
    None

ASSUME BreakerAssumption ==
    /\ IsFiniteSet(Caller)
    /\ \A p \in Policies :
         \/ p.kind = "consecutive" /\ p.threshold \in Nat
         \/ p.kind = "rate" /\ {p.num, p.den, p.min_samples} \subseteq Nat
    /\ OpenCooldown \in Nat /\ MaxProbes \in Nat
    /\ WindowSecs \in Nat \ {0} /\ TicksPerSecond \in Nat \ {0}
    /\ MaxU32 \in Nat \ {0} /\ MaxNow \in Nat /\ MaxSamples \in Nat
    /\ None \notin Nat

VARIABLES
    policy,       \* trip_policy, fixed when the breaker is built
    state,        \* "Closed", "Open" or "HalfOpen"
    consecutive,  \* consecutive_failures
    openedAt,     \* opened_at
    probes,       \* half_open_probes
    epoch,        \* window.epoch
    buckets,      \* window.buckets
    now,          \* the clock
    caller,       \* "idle", or how the call under way was admitted
    samples       \* history: what was recorded in the window since its reset

breaker == <<policy, state, consecutive, openedAt, probes>>
window == <<epoch, buckets, samples>>
vars == <<policy, state, consecutive, openedAt, probes, epoch, buckets, now, caller, samples>>

Bucket == [second : Nat, successes : 0 .. MaxU32, failures : 0 .. MaxU32]
Empty(second) == [second |-> second, successes |-> 0, failures |-> 0]

\* Bug variant: no saturation.
PlainAdd(n) == n + 1

SaturatingAdd(n) == IF n < MaxU32 THEN n + 1 ELSE MaxU32

-----------------------------------------------------------------------------
(* RateWindow: a ring of one bucket per second.                            *)

\* current_second: whole seconds since the first sample.
SecondAt(t, start) == (t - start) \div TicksPerSecond

Start == IF epoch = None THEN now ELSE epoch

\* Bug variant: a reused bucket keeps the counts of the second it stood for.
RecordedOnTop(ok) ==
    LET second == SecondAt(now, Start)
        b      == [buckets[second % WindowSecs] EXCEPT !.second = second]
    IN  [buckets EXCEPT ![second % WindowSecs] =
            IF ok THEN [b EXCEPT !.successes = SaturatingAdd(@)]
                  ELSE [b EXCEPT !.failures = SaturatingAdd(@)]]

\* The ring after `ok' is recorded now: the bucket of a second that has left the
\* window is emptied before it is used again.
Recorded(ok) ==
    LET second == SecondAt(now, Start)
        i      == second % WindowSecs
        b      == IF buckets[i].second = second THEN buckets[i] ELSE Empty(second)
    IN  [buckets EXCEPT ![i] =
            IF ok THEN [b EXCEPT !.successes = SaturatingAdd(@)]
                  ELSE [b EXCEPT !.failures = SaturatingAdd(@)]]

InWindow(b, current) == b.second <= current /\ b.second > current - WindowSecs

\* totals: the samples of the buckets still inside the window.
Total(ring, current, field) ==
    FoldFunction(LAMBDA x, y : x + y, 0,
        [i \in DOMAIN ring |-> IF InWindow(ring[i], current) THEN ring[i][field] ELSE 0])

RateTrips(ring) ==
    LET current  == SecondAt(now, Start)
        failures == Total(ring, current, "failures")
        total    == failures + Total(ring, current, "successes")
    IN  /\ total >= policy.min_samples /\ total > 0
        /\ failures * policy.den >= policy.num * total

Record(ok) ==
    IF policy.kind = "rate"
    THEN /\ Len(samples) < MaxSamples
         /\ epoch' = Start
         /\ buckets' = Recorded(ok)
         /\ samples' = Append(samples, [at |-> now, ok |-> ok])
    ELSE UNCHANGED window

-----------------------------------------------------------------------------

ShouldTrip(failures, ring) ==
    IF policy.kind = "consecutive" THEN failures >= policy.threshold ELSE RateTrips(ring)

\* Bug variant: the probes of the round that failed are still counted.
TripOpenOnly == state' = "Open" /\ openedAt' = now /\ UNCHANGED probes

TripOpen ==
    /\ state' = "Open"
    /\ openedAt' = now
    /\ probes' = 0

\* Bug variant: the failures that opened the breaker are remembered.
CloseOnly ==
    /\ state' = "Closed"
    /\ probes' = 0
    /\ openedAt' = None
    /\ epoch' = None
    /\ buckets' = [i \in DOMAIN buckets |-> Empty(0)]
    /\ samples' = <<>>
    /\ UNCHANGED consecutive

CloseAndReset ==
    /\ state' = "Closed"
    /\ consecutive' = 0
    /\ probes' = 0
    /\ openedAt' = None
    /\ epoch' = None
    /\ buckets' = [i \in DOMAIN buckets |-> Empty(0)]
    /\ samples' = <<>>

Admit(c, as) == caller' = [caller EXCEPT ![c] = as]

\* allow_request.
AllowRequest(c) ==
    /\ caller[c] = "idle"
    /\ \/ state = "Closed" /\ Admit(c, "call") /\ UNCHANGED <<state, probes>>
       \/ /\ state = "Open" /\ openedAt # None /\ now - openedAt >= OpenCooldown
          /\ state' = "HalfOpen" /\ probes' = 1
          /\ Admit(c, "probe")
       \/ /\ state = "HalfOpen" /\ probes < MaxProbes
          /\ probes' = probes + 1
          /\ Admit(c, "probe")
          /\ UNCHANGED state
    /\ UNCHANGED <<policy, consecutive, openedAt, window, now>>

\* Bug variant: a probe's success is one more success, and does not close.
SuccessWithoutClosing(c) ==
    /\ caller[c] # "idle"
    /\ IF state # "Open" THEN Record(TRUE) /\ consecutive' = 0 /\ UNCHANGED <<state, openedAt, probes>>
       ELSE CloseAndReset
    /\ Admit(c, "idle")
    /\ UNCHANGED <<policy, now>>

\* record_success, whatever state admitted the call.
RecordSuccess(c) ==
    /\ caller[c] # "idle"
    /\ IF state = "Closed"
       THEN /\ consecutive' = 0
            /\ Record(TRUE)
            /\ UNCHANGED <<state, openedAt, probes>>
       ELSE CloseAndReset
    /\ Admit(c, "idle")
    /\ UNCHANGED <<policy, now>>

\* Bug variants: any failure trips the breaker anew; only a Closed one trips.
FailureTripsAlways(c) ==
    /\ caller[c] # "idle"
    /\ consecutive' = SaturatingAdd(consecutive)
    /\ IF state = "Closed"
       THEN Record(FALSE) /\ IF ShouldTrip(consecutive', buckets') THEN TripOpen
                              ELSE UNCHANGED <<state, openedAt, probes>>
       ELSE TripOpen /\ UNCHANGED window
    /\ Admit(c, "idle")
    /\ UNCHANGED <<policy, now>>

FailureTripsClosedOnly(c) ==
    /\ caller[c] # "idle"
    /\ consecutive' = SaturatingAdd(consecutive)
    /\ IF state = "Closed"
       THEN Record(FALSE) /\ IF ShouldTrip(consecutive', buckets') THEN TripOpen
                              ELSE UNCHANGED <<state, openedAt, probes>>
       ELSE UNCHANGED <<state, openedAt, probes, window>>
    /\ Admit(c, "idle")
    /\ UNCHANGED <<policy, now>>

\* record_failure, whatever state admitted the call.
RecordFailure(c) ==
    /\ caller[c] # "idle"
    /\ consecutive' = SaturatingAdd(consecutive)
    /\ \/ /\ state = "Closed"
          /\ Record(FALSE)
          /\ IF ShouldTrip(consecutive', buckets') THEN TripOpen
             ELSE UNCHANGED <<state, openedAt, probes>>
       \/ state = "HalfOpen" /\ TripOpen /\ UNCHANGED window
       \/ state = "Open" /\ UNCHANGED <<state, openedAt, probes, window>>
    /\ Admit(c, "idle")
    /\ UNCHANGED <<policy, now>>

Tick ==
    /\ now < MaxNow
    /\ now' = now + 1
    /\ UNCHANGED <<breaker, window, caller>>

Init ==
    /\ policy \in Policies
    /\ state = "Closed"
    /\ consecutive = 0
    /\ openedAt = None
    /\ probes = 0
    /\ epoch = None
    /\ buckets = [i \in 0 .. (WindowSecs - 1) |-> Empty(0)]
    /\ now = 0
    /\ caller = [c \in Caller |-> "idle"]
    /\ samples = <<>>

Next ==
    \/ Tick
    \/ \E c \in Caller : AllowRequest(c) \/ RecordSuccess(c) \/ RecordFailure(c)

\* Every admitted call ends, and its caller reports how.
Fairness == \A c \in Caller : WF_vars(RecordSuccess(c) \/ RecordFailure(c))

Spec == Init /\ [][Next]_vars /\ Fairness

-----------------------------------------------------------------------------
(* Properties.                                                             *)

TypeOK ==
    /\ policy \in Policies
    /\ state \in {"Closed", "Open", "HalfOpen"}
    /\ consecutive \in 0 .. MaxU32
    /\ openedAt \in 0 .. MaxNow \cup {None}
    /\ probes \in Nat
    /\ epoch \in 0 .. MaxNow \cup {None}
    /\ buckets \in [0 .. (WindowSecs - 1) -> Bucket]
    /\ now \in 0 .. MaxNow
    /\ caller \in [Caller -> {"idle", "call", "probe"}]
    /\ samples \in Seq([at : 0 .. MaxNow, ok : BOOLEAN])

InFlight == {c \in Caller : caller[c] # "idle"}
Probing == {c \in Caller : caller[c] = "probe"}

\* allow_request never releases a probe when it finishes, so a HalfOpen breaker
\* whose probes are used up relies on one of them to report: every probe it has
\* counted is still under way, whatever late outcomes of earlier calls arrived.
ProbesUnderWay == state = "HalfOpen" => probes <= Cardinality(Probing)

\* An Open breaker has the instant its cooldown runs from (without it,
\* allow_request would refuse for ever) and no probes left over from the last
\* round; a HalfOpen one has admitted at least one; a Closed one has neither.
PhaseSound ==
    /\ state = "Closed" <=> openedAt = None
    /\ state = "HalfOpen" <=> probes > 0
    /\ probes <= (IF MaxProbes = 0 THEN 1 ELSE MaxProbes)

\* A Closed breaker under the consecutive policy has not met its threshold:
\* failures counted while it was Open or HalfOpen do not survive its closing.
BelowThreshold ==
    (state = "Closed" /\ policy.kind = "consecutive" /\ policy.threshold > 0)
        => consecutive < policy.threshold

Younger(ticks, good) ==
    {i \in DOMAIN samples : now - samples[i].at < ticks /\ samples[i].ok = good}

\* RateWindow keeps one bucket per second and reuses them: whatever sequence of
\* samples, resets and pauses led here, it counts every sample younger than
\* window_secs - 1 seconds and none as old as window_secs.
WindowCounts ==
    LET Counted(field) == Total(buckets, SecondAt(now, Start), field)
    IN  \A good \in BOOLEAN :
          LET n == Counted(IF good THEN "successes" ELSE "failures")
          IN  /\ n <= Cardinality(Younger(WindowSecs * TicksPerSecond, good))
              /\ n >= Cardinality(Younger((WindowSecs - 1) * TicksPerSecond + 1, good))
                   \/ n = MaxU32

\* record_failure restarts the cooldown only from HalfOpen: failures that arrive
\* while the breaker is Open do not prolong it.
CooldownNotProlonged ==
    [][state = "Open" /\ state' = "Open" => openedAt' = openedAt]_vars

\* A breaker that admits nothing but probes gets an outcome and leaves HalfOpen.
HalfOpenEnds == (state = "HalfOpen") ~> (state # "HalfOpen")

-----------------------------------------------------------------------------
(* What the comments of resilience.rs say, for the runs that refute it.    *)

\* CircuitBreakerConfig: "Maximum in-flight probes allowed while HalfOpen".
ProbesInFlightCapped == state = "HalfOpen" => Cardinality(Probing) <= MaxProbes
=============================================================================
