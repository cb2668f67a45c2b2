-------------------------- MODULE IsrServingProofs --------------------------
(***************************************************************************)
(* The render lease and the revalidation set for any connections, replicas *)
(* and lifetimes.                                                          *)
(*                                                                         *)
(* A granted lease is traced in `mine', which runs out together with       *)
(* `lease'.  As long as nobody else removed the key, whoever has something *)
(* left of a grant sees it in `lease', so that set_if_absent refuses all   *)
(* others.                                                                 *)
(***************************************************************************)
EXTENDS IsrServing, FiniteSetTheorems, TLAPS

\* OneWinnerUnlessStrayed, without counting.
WinnerHoldsLease ==
    ~strayed =>
        /\ \A r \in Request : mine[r] > 0 => lease = mine[r]
        /\ \A r, q \in Request : mine[r] > 0 /\ mine[q] > 0 => r = q

IInv == TypeOK /\ WinnerHoldsLease /\ KeyHasTask

\* No request holds the lease twice, so at most one is among the winners.
LEMMA WinnersCounted ==
    ASSUME TypeOK, WinnerHoldsLease
    PROVE  OneWinnerUnlessStrayed
<1> SUFFICES ASSUME ~strayed PROVE OneWinner /\ \A r \in Winners : lease = mine[r]
    BY DEF OneWinnerUnlessStrayed
<1>1. \A r \in Winners : lease = mine[r]
    BY DEF WinnerHoldsLease, Winners
<1>2. CASE Winners = {}
    BY <1>1, <1>2, FS_EmptySet DEF OneWinner
<1>3. ASSUME NEW r \in Winners PROVE OneWinner
    <2>1. \A q \in Winners : q = r
        BY <1>3 DEF Winners, WinnerHoldsLease
    <2>2. Winners = {r}
        BY <1>3, <2>1
    <2> QED
        <3>1. Cardinality({r}) = 1
            BY FS_Singleton
        <3> QED
            BY <2>2, <3>1 DEF OneWinner
<1> QED
    BY <1>1, <1>2, <1>3

\* A connection's request.
Requested == [at : Steps, held : BOOLEAN, polls : 0 .. PollAttempts, version : Version]

\* Nothing cached, no lease and no task: the invariant holds at the start.
LEMMA InitInvariant == Init => IInv
<1> SUFFICES ASSUME Init PROVE IInv
    OBVIOUS
<1> USE IsrAssumption DEF Init
<1>1. TypeOK
    <2>1. Idle \in Requested
        BY DEF Idle, Requested, Steps, Version
    <2>2. 0 \in Version /\ 0 \in 0 .. LeaseTtl /\ 0 \in 0 .. MaxSpawned
        BY DEF Version
    <2> QED
        BY <2>1, <2>2 DEF TypeOK, Resting, Requested
<1>2. WinnerHoldsLease /\ KeyHasTask
    BY DEF WinnerHoldsLease, KeyHasTask, Resting
<1> QED
    BY <1>1, <1>2 DEF IInv

-----------------------------------------------------------------------------
(* The steps of a request.                                                 *)

\* What a request may be after a step.
LEMMA RequestTypes ==
    ASSUME TypeOK, NEW r \in Request
    PROVE  /\ \A at \in Steps : [req[r] EXCEPT !.at = at] \in Requested
           /\ \A held \in BOOLEAN : [req[r] EXCEPT !.at = "render", !.held = held] \in Requested
           /\ [req[r] EXCEPT !.at = "store", !.version = source] \in Requested
           /\ req[r].polls < PollAttempts => [req[r] EXCEPT !.polls = @ + 1] \in Requested
           /\ Idle \in Requested
<1>1. req[r] \in Requested /\ source \in Version
    BY DEF TypeOK, Requested
<1>2. req[r].polls < PollAttempts => [req[r] EXCEPT !.polls = @ + 1] \in Requested
    BY <1>1, IsrAssumption DEF Requested
<1>3. Idle \in Requested
    BY IsrAssumption DEF Requested, Steps, Version, Idle
<1> QED
    BY <1>1, <1>2, <1>3 DEF Requested, Steps

\* The helpers that move a request leave it one.
LEMMA RequestTyped ==
    ASSUME TypeOK, NEW r \in Request,
           (\E at \in Steps : Goto(r, at)) \/ (\E held \in BOOLEAN : Render(r, held)) \/ Finish(r)
    PROVE  req' \in [Request -> Requested]
<1>1. \E q \in Requested : req' = [req EXCEPT ![r] = q]
    BY RequestTypes DEF Goto, Render, Finish, TypeOK
<1> QED
    BY <1>1 DEF TypeOK, Requested

\* serve_isr_hit touches no lease, and spawns a bounded number of tasks.
LEMMA HitStep ==
    ASSUME IInv, NEW r \in Request, Hit(r)
    PROVE  IInv'
<1> USE IsrAssumption DEF IInv, Hit, Finish, store, history
<1>1. spawned' \in [Replica -> 0 .. MaxSpawned]
    <2>1. \A n \in 0 .. MaxSpawned : Min(n + 1, MaxSpawned) \in 0 .. MaxSpawned
        BY DEF Min
    <2> QED
        BY <2>1 DEF TypeOK
<1>2. Idle \in Requested
    BY DEF Idle, Requested, Steps, Version
<1>3. TypeOK'
    BY <1>1, <1>2 DEF TypeOK, Requested
<1>4. WinnerHoldsLease' /\ KeyHasTask'
    BY DEF WinnerHoldsLease, KeyHasTask
<1> QED
    BY <1>3, <1>4

\* The steps that change the request alone.
LEMMA RequestStep ==
    ASSUME IInv, NEW r \in Request, NEW q \in Requested,
           req' = [req EXCEPT ![r] = q], UNCHANGED <<source, store, background, history>>
    PROVE  IInv'
<1> USE DEF IInv, store, background, history
<1>1. TypeOK'
    BY DEF TypeOK, Requested
<1>2. WinnerHoldsLease' /\ KeyHasTask'
    BY DEF WinnerHoldsLease, KeyHasTask
<1> QED
    BY <1>1, <1>2

\* Lookup, Poll and RenderPage end in a hit or change the request alone.
LEMMA LookupStep ==
    ASSUME IInv, NEW r \in Request, Arrive(r) \/ Lookup(r) \/ Poll(r) \/ RenderPage(r)
    PROVE  IInv'
<1>1. CASE Hit(r)
    BY <1>1, HitStep
<1>2. CASE UNCHANGED <<source, store, background, history>> /\ ~Hit(r)
    <2> SUFFICES \E q \in Requested : req' = [req EXCEPT ![r] = q]
        BY <1>2, RequestStep
    <2>1. \/ \E at \in Steps : Goto(r, at)
          \/ \E held \in BOOLEAN : Render(r, held)
          \/ req' = [req EXCEPT ![r].at = "store", ![r].version = source]
          \/ req[r].polls < PollAttempts /\ req' = [req EXCEPT ![r].polls = @ + 1]
        BY <1>2 DEF Arrive, Lookup, Poll, RenderPage, Steps
    <2> QED
        BY <2>1, RequestTypes DEF Goto, Render, IInv, TypeOK
<1> QED
    BY <1>1, <1>2 DEF Arrive, Lookup, Poll, RenderPage

\* set_if_absent grants the lease only when no grant has anything left.
LEMMA TryLeaseStep ==
    ASSUME IInv, NEW r \in Request, TryLease(r)
    PROVE  IInv'
<1>1. TypeOK /\ WinnerHoldsLease /\ KeyHasTask
    BY DEF IInv
<1>2. /\ UNCHANGED <<source, page, spawned, revalidating, bg, strayed, stuck>>
      /\ \/ lease = 0 /\ lease' = LeaseTtl /\ mine' = [mine EXCEPT ![r] = LeaseTtl]
         \/ UNCHANGED <<lease, mine>>
      /\ (\E at \in Steps : Goto(r, at)) \/ (\E held \in BOOLEAN : Render(r, held))
    BY DEF TryLease, background, Steps
<1>3. req' \in [Request -> Requested]
    BY <1>1, <1>2, RequestTyped
<1>4. TypeOK'
    BY <1>1, <1>2, <1>3, IsrAssumption DEF TypeOK, Requested
<1>5. WinnerHoldsLease'
    <2>1. CASE lease = 0 /\ lease' = LeaseTtl /\ mine' = [mine EXCEPT ![r] = LeaseTtl]
        <3>1. ~strayed => \A q \in Request : mine[q] = 0
            BY <1>1, <2>1 DEF WinnerHoldsLease, TypeOK
        <3>2. ~strayed => \A q \in Request : mine'[q] = IF q = r THEN LeaseTtl ELSE 0
            BY <1>1, <2>1, <3>1 DEF TypeOK
        <3> QED
            BY <1>2, <2>1, <3>2, IsrAssumption DEF WinnerHoldsLease
    <2>2. CASE UNCHANGED <<lease, mine>>
        BY <1>1, <1>2, <2>2 DEF WinnerHoldsLease
    <2> QED
        BY <1>2, <2>1, <2>2
<1>6. KeyHasTask'
    BY <1>1, <1>2 DEF KeyHasTask
<1> QED
    BY <1>4, <1>5, <1>6 DEF IInv

\* IsrCache::put changes the page alone.
LEMMA PutStep ==
    ASSUME IInv, NEW r \in Request, Put(r)
    PROVE  IInv'
<1> USE IsrAssumption DEF IInv, Put, background, history
<1>1. TypeOK'
    <2>1. \E q \in Requested : req' = [req EXCEPT ![r] = q]
        BY RequestTypes DEF Goto, Steps
    <2>2. page' \in {NoPage} \cup [version : Version, age : 0 .. (MaxAge + 1)]
        BY DEF TypeOK
    <2> QED
        BY <2>1, <2>2 DEF TypeOK, Requested
<1>2. WinnerHoldsLease' /\ KeyHasTask'
    BY DEF WinnerHoldsLease, KeyHasTask
<1> QED
    BY <1>1, <1>2

\* release_lease takes the lease from nobody but the request itself, or counts as
\* strayed.  A request that is dropped leaves the lease where it is.
LEMMA ReleaseStep ==
    ASSUME IInv, NEW r \in Request, Release(r) \/ Cancel(r)
    PROVE  IInv'
<1>1. TypeOK /\ WinnerHoldsLease /\ KeyHasTask
    BY DEF IInv
<1>2. /\ UNCHANGED <<source, page, spawned, revalidating, bg, stuck>>
      /\ mine' = [mine EXCEPT ![r] = 0]
      /\ lease' = lease \/ lease' = 0
      /\ strayed' \in BOOLEAN
      /\ Finish(r)
    BY <1>1 DEF Release, Cancel, background, store, TypeOK
<1>3. req' \in [Request -> Requested]
    BY <1>1, <1>2, RequestTyped
<1>4. TypeOK'
    <2>1. lease' \in 0 .. LeaseTtl
        BY <1>1, <1>2, IsrAssumption DEF TypeOK
    <2>2. mine' \in [Request -> 0 .. LeaseTtl]
        BY <1>1, <1>2, IsrAssumption DEF TypeOK
    <2> QED
        BY <1>1, <1>2, <1>3, <2>1, <2>2 DEF TypeOK, Requested
<1>5. ~strayed' => ~strayed /\ (lease' = lease \/ mine[r] # 0 \/ lease = 0)
    BY <1>1 DEF Release, Cancel, store, TypeOK
<1>6. \A q \in Request : mine'[q] = IF q = r THEN 0 ELSE mine[q]
    BY <1>1, <1>2 DEF TypeOK
<1>7. \A q \in Request : mine[q] \in Nat
    BY <1>1, IsrAssumption DEF TypeOK
<1>8. WinnerHoldsLease'
    BY <1>1, <1>2, <1>5, <1>6, <1>7 DEF WinnerHoldsLease
<1>9. KeyHasTask'
    BY <1>1, <1>2 DEF KeyHasTask
<1> QED
    BY <1>4, <1>8, <1>9 DEF IInv

-----------------------------------------------------------------------------
(* The steps of a replica and of the environment.                          *)

\* trigger_isr_revalidation: the key goes into the set and out with its task, which
\* leaves it behind only when it panics.
LEMMA RevalidationStep ==
    ASSUME IInv, NEW p \in Replica, BgStart(p) \/ Revalidate(p)
    PROVE  IInv'
<1> USE DEF IInv, BgStart, Revalidate, BgRender, BgPut, BgRemove, store, history, Resting
<1>1. /\ UNCHANGED <<source, lease, req, mine, strayed>>
      /\ spawned' \in [Replica -> 0 .. MaxSpawned]
      /\ revalidating' \in [Replica -> BOOLEAN]
      /\ stuck' \in [Replica -> BOOLEAN]
    <2>1. UNCHANGED <<source, lease, req, mine, strayed>>
        OBVIOUS
    <2>2. spawned' = spawned \/ (spawned[p] > 0 /\ spawned' = [spawned EXCEPT ![p] = @ - 1])
        OBVIOUS
    <2>3. spawned' \in [Replica -> 0 .. MaxSpawned]
        <3> HIDE DEF BgStart, Revalidate
        <3> QED
            BY <2>2, IsrAssumption DEF TypeOK
    <2>4. revalidating' \in [Replica -> BOOLEAN] /\ stuck' \in [Replica -> BOOLEAN]
        BY DEF TypeOK
    <2> QED
        BY <2>1, <2>3, <2>4
<1>2. bg' \in [Replica -> [at : {"idle", "render", "store", "remove"}, version : Version]]
    BY IsrAssumption DEF TypeOK, Version
<1>3. page' \in {NoPage} \cup [version : Version, age : 0 .. (MaxAge + 1)]
    BY IsrAssumption DEF TypeOK
<1>4. TypeOK'
    BY <1>1, <1>2, <1>3 DEF TypeOK
<1>5. WinnerHoldsLease'
    BY <1>1 DEF WinnerHoldsLease
<1>6. KeyHasTask'
    <2>1. TypeOK /\ KeyHasTask
        OBVIOUS
    <2> HIDE DEF IInv, BgStart, Revalidate, BgRender, BgPut, BgRemove, store, history
    <2>2. CASE BgStart(p)
        BY <2>1, <2>2 DEF KeyHasTask, TypeOK, BgStart, history
    <2>3. CASE BgRender(p)
        BY <2>1, <2>3 DEF KeyHasTask, TypeOK, BgRender
    <2>4. CASE BgPut(p)
        BY <2>1, <2>4 DEF KeyHasTask, TypeOK, BgPut, history
    <2>5. CASE BgRemove(p)
        <3>1. /\ bg[p].at = "remove" /\ bg' = [bg EXCEPT ![p] = Resting]
              /\ revalidating' = [revalidating EXCEPT ![p] = FALSE] /\ stuck' = stuck
            BY <2>5 DEF BgRemove, history
        <3>2. ~stuck[p] /\ Resting.at = "idle"
            BY <2>1, <3>1 DEF KeyHasTask, Resting
        <3> QED
            BY <2>1, <3>1, <3>2 DEF KeyHasTask, TypeOK
    <2> QED
        BY <2>2, <2>3, <2>4, <2>5 DEF Revalidate
<1> QED
    BY <1>4, <1>5, <1>6

\* A crash forgets the grants and the set of its replica, not the lease.
LEMMA CrashStep ==
    ASSUME IInv, NEW p \in Replica, Crash(p)
    PROVE  IInv'
<1> USE IsrAssumption DEF IInv, Crash, store, Resting
<1>1. TypeOK'
    BY DEF TypeOK, Version, Idle, Steps
<1>2. WinnerHoldsLease'
    BY DEF WinnerHoldsLease, TypeOK
<1>3. KeyHasTask'
    BY DEF KeyHasTask, TypeOK
<1> QED
    BY <1>1, <1>2, <1>3

\* Content changes, removals from the store and time touch no grant that is left.
LEMMA EnvironmentStep ==
    ASSUME IInv, Publish \/ Invalidate \/ Evict \/ Tick \/ UNCHANGED vars
    PROVE  IInv'
<1>1. CASE Tick
    <2>1. TypeOK /\ WinnerHoldsLease /\ KeyHasTask
        BY DEF IInv
    <2>2. UNCHANGED <<source, req, spawned, revalidating, bg, strayed, stuck>>
        BY <1>1 DEF Tick, background
    <2>3. page' \in {NoPage} \cup [version : Version, age : 0 .. (MaxAge + 1)]
        <3>1. \A n \in 0 .. (MaxAge + 1) : Min(n + 1, MaxAge + 1) \in 0 .. (MaxAge + 1)
            BY IsrAssumption DEF Min
        <3>2. CASE page = NoPage
            BY <1>1, <3>2 DEF Tick
        <3>3. CASE page # NoPage
            <4>1. /\ page \in [version : Version, age : 0 .. (MaxAge + 1)]
                  /\ page' = [page EXCEPT !.age = Min(@ + 1, MaxAge + 1)]
                BY <1>1, <2>1, <3>3 DEF Tick, TypeOK
            <4> QED
                BY <3>1, <4>1
        <3> QED
            BY <3>2, <3>3
    <2>4. lease' \in 0 .. LeaseTtl
        BY <1>1, <2>1, IsrAssumption DEF Tick, TypeOK
    <2>5. mine' \in [Request -> 0 .. LeaseTtl]
        BY <1>1, <2>1, IsrAssumption DEF Tick, TypeOK
    <2>6. TypeOK'
        BY <2>1, <2>2, <2>3, <2>4, <2>5 DEF TypeOK
    <2>7. WinnerHoldsLease'
        BY <1>1, <2>1, <2>2, IsrAssumption DEF Tick, WinnerHoldsLease, TypeOK
    <2>8. KeyHasTask'
        BY <2>1, <2>2 DEF KeyHasTask
    <2> QED
        BY <2>6, <2>7, <2>8 DEF IInv
<1>2. CASE Publish \/ Invalidate \/ Evict \/ UNCHANGED vars
    <2> USE <1>2, IsrAssumption DEF IInv, Publish, Invalidate, Evict, vars, store, background, history
    <2>1. TypeOK'
        <3>1. CASE Publish
            BY <3>1 DEF TypeOK, Version
        <3>2. CASE Invalidate
            BY <3>2 DEF TypeOK
        <3>3. CASE Evict
            BY <3>3 DEF TypeOK
        <3>4. CASE UNCHANGED vars
            BY <3>4 DEF TypeOK
        <3> QED
            BY <3>1, <3>2, <3>3, <3>4
    <2>2. WinnerHoldsLease' /\ KeyHasTask'
        BY DEF WinnerHoldsLease, KeyHasTask
    <2> QED
        BY <2>1, <2>2
<1> QED
    BY <1>1, <1>2

-----------------------------------------------------------------------------

\* Every step keeps the invariant.
LEMMA NextInvariant == IInv /\ [Next]_vars => IInv'
BY LookupStep, TryLeaseStep, PutStep, ReleaseStep, RevalidationStep, CrashStep, EnvironmentStep
   DEF Next, Serve

\* The lease, its grants and the revalidation sets agree in every reachable state.
THEOREM ServingInvariant == Spec => []IInv
BY InitInvariant, NextInvariant, PTL DEF Spec

\* Every variable has its type: polls, lifetimes and spawned tasks stay within
\* their limits.
THEOREM ServingTypeCorrect == Spec => []TypeOK
<1>1. IInv => TypeOK
    BY DEF IInv
<1> QED
    BY <1>1, ServingInvariant, PTL

\* serve_or_lease lets two requests hold the lease only after release_lease or an
\* eviction removed another's, for any number of requests and replicas.
THEOREM ServingOneWinner == Spec => []OneWinnerUnlessStrayed
<1>1. IInv => OneWinnerUnlessStrayed
    BY WinnersCounted DEF IInv
<1> QED
    BY <1>1, ServingInvariant, PTL

\* A key in isr_revalidating has a task that works under it, except after a render
\* that panicked there; and no task works without its key, for any number of replicas.
THEOREM ServingKeyHasTask == Spec => []KeyHasTask
<1>1. IInv => KeyHasTask
    BY DEF IInv
<1> QED
    BY <1>1, ServingInvariant, PTL
=============================================================================
