----------------------------- MODULE IsrServing -----------------------------
(***************************************************************************)
(* Serving one page through the ISR cache: krab_core::isr::IsrCache and    *)
(* the cache_middleware and trigger_isr_revalidation of service_frontend,  *)
(* for requests on several replicas that share one store.                  *)
(*                                                                         *)
(* Each store call is a step of its own, because each is an await at which *)
(* other requests run.  Any store call may fail.  A request may be dropped *)
(* at any await (the client left), and a replica may crash: what it had in *)
(* memory is gone, what it had in the store stays.                         *)
(*                                                                         *)
(* Time is kept as ages and remaining lifetimes, so that it needs no bound.*)
(***************************************************************************)
EXTENDS Integers, FiniteSets

CONSTANTS
    Request,      \* the connections; each carries one request after another
    Replica,      \* the processes that serve them
    Home,         \* the replica each connection reaches
    MaxAge,       \* isr_revalidate_duration: older entries are stale
    LeaseTtl,     \* RENDER_LEASE_TTL
    PollAttempts, \* ISR_COLD_WAIT_ATTEMPTS
    MaxVersion,   \* bound of the model: how often the page's content changes
    MaxSpawned,   \* bound of the model: revalidation tasks not started yet, per replica
    NoPage

ASSUME IsrAssumption ==
    /\ Home \in [Request -> Replica]
    /\ MaxAge \in Nat /\ LeaseTtl \in Nat \ {0} /\ PollAttempts \in Nat
    /\ MaxVersion \in Nat /\ MaxSpawned \in Nat \ {0}

VARIABLES
    source,        \* the version of the content a render sees now
    page,          \* the cached entry: the version rendered and its age
    lease,         \* the remaining lifetime of the render lease; 0 is no lease
    req,           \* each connection's request
    spawned,       \* revalidation tasks spawned and not started, per replica
    revalidating,  \* isr_revalidating: is the page's key in the replica's set
    bg,            \* the replica's revalidation task that holds the key
    mine,          \* history: what remains of the lease the request was granted
    strayed,       \* history: the lease was removed by a request that did not hold it, or
                   \* evicted by a store at its capacity
    stuck          \* history: a render panicked in the replica's revalidation task

store == <<page, lease>>
background == <<spawned, revalidating, bg>>
history == <<mine, strayed, stuck>>
vars == <<source, page, lease, req, spawned, revalidating, bg, mine, strayed, stuck>>

Version == 0 .. MaxVersion
Steps == {"idle", "get", "lease", "poll", "render", "store", "release"}

\* `held' is isr_lease_held, `polls' the attempts made so far, `version' what
\* the request rendered.
Idle == [at |-> "idle", held |-> FALSE, polls |-> 0, version |-> 0]
Resting == [at |-> "idle", version |-> 0]

IsStale == page # NoPage /\ page.age > MaxAge

Goto(r, step) == req' = [req EXCEPT ![r].at = step]
Render(r, holding) == req' = [req EXCEPT ![r].at = "render", ![r].held = holding]
Finish(r) == req' = [req EXCEPT ![r] = Idle]

Min(a, b) == IF a < b THEN a ELSE b

-----------------------------------------------------------------------------
(* A request, through cache_middleware.                                    *)

Arrive(r) ==
    /\ req[r].at = "idle"
    /\ Goto(r, "get")
    /\ UNCHANGED <<source, store, background, history>>

\* Bug variant: a stale entry is served and nothing revalidates it.
HitOnly(r) ==
    /\ page # NoPage
    /\ Finish(r)
    /\ UNCHANGED <<source, store, background, history>>

\* serve_isr_hit: the entry is the answer, and a stale one starts a task that
\* revalidates it.
Hit(r) ==
    /\ page # NoPage
    /\ Finish(r)
    /\ spawned' = [spawned EXCEPT ![Home[r]] = IF IsStale THEN Min(@ + 1, MaxSpawned) ELSE @]
    /\ UNCHANGED <<source, store, revalidating, bg, history>>

\* The first half of serve_or_lease: a hit, a miss, or a failed read, after
\* which the page is rendered without a lease.
Lookup(r) ==
    /\ req[r].at = "get"
    /\ \/ Hit(r)
       \/ page = NoPage /\ Goto(r, "lease") /\ UNCHANGED <<source, store, background, history>>
       \/ Render(r, FALSE) /\ UNCHANGED <<source, store, background, history>>

\* The second half: set_if_absent on the lease key.  A store that fails here
\* counts as a lease won.
TryLease(r) ==
    /\ req[r].at = "lease"
    /\ \/ /\ lease = 0
          /\ lease' = LeaseTtl
          /\ mine' = [mine EXCEPT ![r] = LeaseTtl]
          /\ Render(r, TRUE)
       \/ lease # 0 /\ Goto(r, "poll") /\ UNCHANGED <<lease, mine>>
       \/ Render(r, TRUE) /\ UNCHANGED <<lease, mine>>
    /\ UNCHANGED <<source, page, background, strayed, stuck>>

\* Bug variants: one turn too many, and no last turn.
PollOnceMore(r) ==
    /\ req[r].at = "poll"
    /\ \/ Hit(r)
       \/ /\ req[r].polls <= PollAttempts /\ page = NoPage
          /\ req' = [req EXCEPT ![r].polls = @ + 1]
          /\ UNCHANGED <<source, store, background, history>>

PollForever(r) == req[r].at = "poll" /\ Hit(r)

\* One turn of the loop of a request that lost the lease.  After the last
\* attempt, or a failed read, it renders without a lease.
Poll(r) ==
    /\ req[r].at = "poll"
    /\ \/ req[r].polls < PollAttempts /\ Hit(r)
       \/ /\ req[r].polls < PollAttempts
          /\ page = NoPage
          /\ req' = [req EXCEPT ![r].polls = @ + 1]
          /\ UNCHANGED <<source, store, background, history>>
       \/ Render(r, FALSE) /\ UNCHANGED <<source, store, background, history>>

\* next.run and buffer_up_to: a finalized page to store, or a response that is
\* not to be cached (an error, an oversized or failed body, a partial page).
RenderPage(r) ==
    /\ req[r].at = "render"
    /\ \/ req' = [req EXCEPT ![r].at = "store", ![r].version = source]
       \/ Goto(r, "release")
    /\ UNCHANGED <<source, store, background, history>>

\* IsrCache::put; a failed write is served all the same.
Put(r) ==
    /\ req[r].at = "store"
    /\ page' = [version |-> req[r].version, age |-> 0] \/ UNCHANGED page
    /\ Goto(r, "release")
    /\ UNCHANGED <<source, lease, background, history>>

\* Bug variant: whoever rendered releases.
ReleaseAnyway(r) ==
    /\ req[r].at = "release"
    /\ lease' = 0
    /\ mine' = [mine EXCEPT ![r] = 0]
    /\ Finish(r)
    /\ UNCHANGED <<source, page, background, strayed, stuck>>

\* release_lease, for a request that believes it holds the lease: the key is
\* deleted, whoever wrote it.
Release(r) ==
    /\ req[r].at = "release"
    /\ lease' = (IF req[r].held THEN 0 ELSE lease) \/ UNCHANGED lease
    /\ strayed' = (strayed \/ (req[r].held /\ mine[r] = 0 /\ lease # 0 /\ lease' = 0))
    /\ mine' = [mine EXCEPT ![r] = 0]
    /\ Finish(r)
    /\ UNCHANGED <<source, page, background, stuck>>

\* The client went away, or its handler panicked: the request's future is dropped.
Cancel(r) ==
    /\ req[r].at # "idle"
    /\ Finish(r)
    /\ mine' = [mine EXCEPT ![r] = 0]
    /\ UNCHANGED <<source, store, background, strayed, stuck>>

-----------------------------------------------------------------------------
(* trigger_isr_revalidation on a replica.                                  *)

\* The task takes the key, or returns when another task has it.
BgStart(p) ==
    /\ spawned[p] > 0
    /\ spawned' = [spawned EXCEPT ![p] = @ - 1]
    /\ revalidating' = [revalidating EXCEPT ![p] = TRUE]
    /\ bg' = IF revalidating[p] THEN bg ELSE [bg EXCEPT ![p].at = "render"]
    /\ UNCHANGED <<source, store, req, history>>

\* Bug variant: a render that yields nothing returns with the key still in the set.
BgRenderReturnsEarly(p) ==
    /\ bg[p].at = "render"
    /\ \/ bg' = [bg EXCEPT ![p] = [at |-> "store", version |-> source]]
       \/ bg' = [bg EXCEPT ![p] = Resting]
    /\ UNCHANGED <<source, store, req, spawned, revalidating, history>>

\* render_isr_path: a finalized page, or none; or it panics, which ends the task:
\* nothing catches the panic, and no guard takes the key out of the set.
BgRender(p) ==
    /\ bg[p].at = "render"
    /\ \/ /\ bg' = [bg EXCEPT ![p] = [at |-> "store", version |-> source]]
          /\ UNCHANGED stuck
       \/ bg' = [bg EXCEPT ![p].at = "remove"] /\ UNCHANGED stuck
       \/ bg' = [bg EXCEPT ![p] = Resting] /\ stuck' = [stuck EXCEPT ![p] = TRUE]
    /\ UNCHANGED <<source, store, req, spawned, revalidating, mine, strayed>>

BgPut(p) ==
    /\ bg[p].at = "store"
    /\ page' = [version |-> bg[p].version, age |-> 0] \/ UNCHANGED page
    /\ bg' = [bg EXCEPT ![p].at = "remove"]
    /\ UNCHANGED <<source, lease, req, spawned, revalidating, history>>

BgRemove(p) ==
    /\ bg[p].at = "remove"
    /\ bg' = [bg EXCEPT ![p] = Resting]
    /\ revalidating' = [revalidating EXCEPT ![p] = FALSE]
    /\ UNCHANGED <<source, store, req, spawned, history>>

-----------------------------------------------------------------------------
(* The environment.                                                        *)

\* The data the page shows changes, and its author invalidates the page.
Publish ==
    /\ source < MaxVersion
    /\ source' = source + 1
    /\ UNCHANGED <<store, req, background, history>>

Invalidate ==
    /\ page # NoPage
    /\ page' = NoPage
    /\ UNCHANGED <<source, lease, req, background, history>>

\* A store at its capacity evicts the lease (MemoryStore); evicting the page is
\* like invalidating it.
Evict ==
    /\ lease > 0
    /\ lease' = 0
    /\ strayed' = TRUE
    /\ UNCHANGED <<source, page, req, background, mine, stuck>>

Crash(p) ==
    /\ req' = [r \in Request |-> IF Home[r] = p THEN Idle ELSE req[r]]
    /\ mine' = [r \in Request |-> IF Home[r] = p THEN 0 ELSE mine[r]]
    /\ spawned' = [spawned EXCEPT ![p] = 0]
    /\ revalidating' = [revalidating EXCEPT ![p] = FALSE]
    /\ bg' = [bg EXCEPT ![p] = Resting]
    /\ stuck' = [stuck EXCEPT ![p] = FALSE]
    /\ UNCHANGED <<source, store, strayed>>

\* Ages beyond MaxAge are all alike, and lifetimes end at 0.
Tick ==
    /\ page' = IF page = NoPage THEN page ELSE [page EXCEPT !.age = Min(@ + 1, MaxAge + 1)]
    /\ lease' = IF lease > 0 THEN lease - 1 ELSE 0
    /\ mine' = [r \in Request |-> IF mine[r] > 0 THEN mine[r] - 1 ELSE 0]
    /\ UNCHANGED <<source, req, background, strayed, stuck>>

Init ==
    /\ source = 0
    /\ page = NoPage
    /\ lease = 0
    /\ req = [r \in Request |-> Idle]
    /\ spawned = [p \in Replica |-> 0]
    /\ revalidating = [p \in Replica |-> FALSE]
    /\ bg = [p \in Replica |-> Resting]
    /\ mine = [r \in Request |-> 0]
    /\ strayed = FALSE
    /\ stuck = [p \in Replica |-> FALSE]

Serve(r) == Lookup(r) \/ TryLease(r) \/ Poll(r) \/ RenderPage(r) \/ Put(r) \/ Release(r)
Revalidate(p) == BgRender(p) \/ BgPut(p) \/ BgRemove(p)

Next ==
    \/ \E r \in Request : Arrive(r) \/ Serve(r) \/ Cancel(r)
    \/ \E p \in Replica : BgStart(p) \/ Revalidate(p) \/ Crash(p)
    \/ Publish \/ Invalidate \/ Evict \/ Tick

\* The runtime polls every task that can go on, and time passes.
Fairness ==
    /\ \A r \in Request : WF_vars(Serve(r))
    /\ \A p \in Replica : WF_vars(BgStart(p)) /\ WF_vars(Revalidate(p))
    /\ WF_vars(Tick)

\* For the page to be refreshed, people must go on asking for it, and it must
\* not happen every time that the store fails, the render yields nothing to
\* cache, or the replica crashes first.
Traffic ==
    /\ WF_vars(\E r \in Request : Arrive(r))
    /\ SF_vars(\E r \in Request : Lookup(r) /\ Hit(r))
    /\ \A p \in Replica :
          /\ SF_vars(BgStart(p))
          /\ SF_vars(BgRender(p) /\ bg'[p].at = "store")
          /\ SF_vars(BgPut(p) /\ page' # page)

Spec == Init /\ [][Next]_vars /\ Fairness
BusySpec == Spec /\ Traffic

-----------------------------------------------------------------------------

TypeOK ==
    /\ source \in Version
    /\ page \in {NoPage} \cup [version : Version, age : 0 .. (MaxAge + 1)]
    /\ lease \in 0 .. LeaseTtl
    /\ req \in [Request -> [at : Steps, held : BOOLEAN, polls : 0 .. PollAttempts, version : Version]]
    /\ spawned \in [Replica -> 0 .. MaxSpawned]
    /\ revalidating \in [Replica -> BOOLEAN]
    /\ bg \in [Replica -> [at : {"idle", "render", "store", "remove"}, version : Version]]
    /\ mine \in [Request -> 0 .. LeaseTtl]
    /\ strayed \in BOOLEAN
    /\ stuck \in [Replica -> BOOLEAN]

\* A request that was granted the lease, whose lifetime is not over.
Winners == {r \in Request : mine[r] > 0}

\* serve_or_lease: "a short-TTL render lease on a miss so exactly one caller per
\* replica-set wins".
OneWinner == Cardinality(Winners) <= 1

\* It does as long as nobody removes the lease but the request that holds it: a
\* crash, a cancelled request, a failed store or a slow render alone never let two
\* requests hold the lease within its lifetime.
OneWinnerUnlessStrayed ==
    ~strayed => OneWinner /\ \A r \in Winners : lease = mine[r]

\* A replica's key is in isr_revalidating exactly while one task works under it, or
\* after a render panicked in the replica's process, until that process ends; no task
\* works beside a key left behind, so that the page is never revalidated there again.
\* Nothing but a panic leaves it: no failed store call, skipped page or second task.
KeyHasTask == \A p \in Replica :
    /\ revalidating[p] <=> bg[p].at # "idle" \/ stuck[p]
    /\ stuck[p] => bg[p].at = "idle"

\* "the lease must not make requests fail": every request is answered or
\* dropped, whoever holds the lease, crashed or failed.
EveryRequestEnds == \A r \in Request : []<>(req[r].at = "idle")

\* Stale-while-revalidate: once the content no longer changes, what the cache
\* holds is that content, whatever renders of older content were under way when
\* it was published; unless a replica whose render panicked goes on for ever with the
\* key in its set.
LatestIsCached ==
    (\A p \in Replica : []<>~stuck[p]) => <>[](page # NoPage => page.version = source)
=============================================================================
