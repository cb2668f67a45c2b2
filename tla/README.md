# Formal models of Krab

TLA+ specifications of the parts of Krab whose correctness depends on the order
in which things happen, checked with TLC on small instances and, for all of
them but the reconciler, proved with TLAPS for all values of the constants.
Paths are relative to the repository; `krab_core` is
`crates/framework/krab_core/src`.

## The system and its parts

Krab is a Rust web framework with a set of services. What keeps state and has
several actors:

| part | state | operations | interacts with | hard behaviour |
|---|---|---|---|---|
| store (`store.rs`) | entries with expiries, insertion queue, write counter | get, set, incr, incr_with_ttl, expire, delete, keys_with_prefix, set_if_absent | used by the ISR cache, rate limits, token store | eviction at capacity, expiry, a lookup in two lock sections |
| ISR cache (`isr.rs`, `service_frontend/src/cache.rs`, `main.rs`) | cached pages and render leases in the store, `isr_revalidating` in memory | serve_or_lease, poll, render, put, release_lease, invalidate, trigger_isr_revalidation | store; the page renderer | several replicas, awaits between store calls, crash with the lease, failed calls, late writes |
| circuit breaker (`resilience.rs`) | phase, counters, per-second ring, start of the cooldown | allow_request, record_success, record_failure | callers of upstream services | outcomes arriving in a later phase, ring reuse |
| signals (`signal.rs`) | subscriber lists, dirty flags, effect flags, batch/flush depths, queues | set, get, create_memo, create_effect, dispose, batch | user code, the browser's microtasks, error boundaries | reentrance, panics, limits on nesting |
| supervisor (`krab_orchestrator`) | child handles, attempts, retry times, pending restart | startup, reap, restart, watch restart, shutdown | service processes, signals, file watcher | processes that die at any time, restart budget, sequential waits |
| migrations (`db/postgres.rs`, `service_users/src/db/migrations.rs`) | the migration and environment tables, an advisory lock | boot: connect, promote, govern, lock, apply, unlock, detect drift; roll back | the database | replicas between any two statements, crash, lost lock connection, lost commit answer |
| JWKS source (`jwks.rs`) | key set and fetch times, a fetch lock | lookup, on-demand, lazy and background refresh | identity provider; authentication | single flight, outage, late answer |
| authentication (`http_auth.rs`) | failure counts and revocations in the store | auth_middleware | key set, store | a failed call of the store, an outage held against a client |
| token rotation (`service_auth`) | used and revoked tokens in the store | login, refresh, revoke | store | double use, lost answers |
| actions, resources (`action.rs`, `resource.rs`) | a generation, pending, error, value | dispatch, refetch, settle | signals, async runtime | answers out of order, traps |
| router (`krab_client/router.rs`) | generation, rendered URL; the browser's session history | click, popstate, fetch, swap, hard navigation | the browser, hydration | overlapping navigations, redirects, Back during a fetch |
| hydration, resources (`krab_client`) | registries of closures and regions per island | hydrate, contain a trap, unmount | router, signals | traps in the middle, release that traps again |
| reconciler (`krab_client/reconcile.rs`) | the DOM nodes of a region | reconcile_range | hydration | keyed moves, nested regions |
| HTTP runtime, protocol selection, streaming, WebSockets, server functions, macros, CLI, users services | see `PROJECT.json` | | | mostly request-local or pure |

`PROJECT.json` lists every part with its status, and every hazard at the line
where it bites with the properties aimed at it.

What makes each modelled part correct: the store answers as a map whose entries
expire, and may forget but never invent; at most one request renders under a live
lease, nobody waits for ever and the cache ends up with the newest page; the breaker
never gets stuck and its probes, window and cooldown agree with what happened;
no effect keeps showing an old value and no call runs for ever; no process is
orphaned, doubled or forgotten; the migration table tells what is in the schema; an
outage costs no client its budget, a revoked token stays out, a refresh token buys
one pair and the key set only moves forward; the address bar, the page, the value an island
shows, what is registered for it and the order of its nodes agree. In several places the code
does not keep such a promise: the property then names the exception as a variable (`strayed`, `stuck`,
`wedged`, `dead`, `lost`, `forsaken`, `revokedLost`, `overlapped`, `drift`, `late`, `outgrown`, ...) and claims that
there is no other.

## Modules

    TtlMap            the contract of DistributedStore (abstract)
    MemoryStore       the in-process store; implements TtlMap (Map!Spec)
    MemoryStoreProofs its theorems
    IsrServing        one page through the ISR cache
    IsrServingProofs  its theorems
    CircuitBreaker    SharedCircuitBreaker and the tasks that share it
    CircuitBreakerProofs  its theorems
    Signals           the reactive graph on one thread
    SignalsProofs     its theorems
    Supervisor        the orchestrator and its processes
    SupervisorProofs  its theorems
    Migrations        replicas that migrate one database
    MigrationsProofs  its theorems
    Access            key set, authentication and tokens of one service
    AccessProofs      its theorems
    Router            navigations of one tab
    Guarded           the guarded run of an action or resource
    Reconcile         the update of a dynamic region, a pure algorithm
    Browser           composes the last three with hydration
    BrowserProofs     theorems of Router, Guarded and Browser
    MC*               instances for TLC

An operator that no specification uses and that stands right before its counterpart
(most are introduced by "Bug variant") is a plausible mistake in that definition: it is
substituted for it to see that the named property notices.

### MemoryStore, TtlMap

`entries`, `order` and `writesSinceSweep` are the fields of `MemoryInner` and the
write counter. Every writing operation holds the write lock throughout, so it is
one action that includes its trailing `sweep_if_due`. `get` is two actions,
`GetRead` and, for an expired entry, `GetReap`, since it lets go of the lock
between them. `evict_for_capacity` is `PopCounts`: the number of queue slots after
which its loop stops. `Compactions` is the queue `sweep_if_due` leaves, by
what it keeps rather than how. Durations are ticks; a deadline is taken at the
instant of the write (the code takes it just before it waits for the lock, and `keys_with_prefix` reads
the time just before its lock too). Values that parse
as integers are naturals that saturate at `MaxU64`.

`TtlMap` keeps the unexpired entries only. It may `Forget` a key at a lookup,
lose one other entry to an insert of a new key, and revive an expired
one in `expire`, because the store does each of these and nothing else.
`ImplementsTtlMap` maps `live` to the unexpired entries.

### IsrServing

One page, the requests of several connections, the replicas they reach. Each
await of `cache_middleware` is a step (`Lookup`, `TryLease`, `Poll`, `RenderPage`,
`Put`, `Release`), and so is each await of `trigger_isr_revalidation`. Any store call
may fail, any request may be dropped, a replica may crash. `page` is the content
version rendered and its age; `lease` and ages are remaining or elapsed lifetimes,
so that time needs no bound. Removal of the page for any reason (invalidation, retention,
eviction, a value that does not decode) is `Invalidate`. `mine` (what is left of the
lease granted to a request) and `strayed` (a lease was removed by someone else)
are history variables.

`BgRender` ends in three ways: a page to store, a skipped page, or a panic. The spawned task has no guard, so a
panic leaves the key in `isr_revalidating` (`stuck`) until the replica's process ends, and the
page is not revalidated there any more. `KeyHasTask` names that exception and says that nothing else
strands a key; `LatestIsCached` supposes that no replica stays so for ever. A panic of a request's own handler
drops its future (`Cancel`).

That two requests hold the lease at once is possible in the code: `release_lease`
deletes the key whoever wrote it, and a store at its capacity may evict it.
`OneWinnerUnlessStrayed` says that nothing else makes it happen.

### CircuitBreaker

One action per method under its mutex; `caller` remembers how each call under
way was admitted, so outcomes arrive in any later phase. The ring is an array of
`[second, successes, failures]`, `samples` the history it is compared with
(`WindowCounts`). The rate threshold is a fraction `num / den` instead of an f64.

### Signals

`stack` is the call stack of the thread: bodies of effects, memo computations,
batches, flushes. A step is always one of the topmost frame. `Write` is the whole of
`set`: draining and marking (`Reached`), and either queueing or a new flush frame
(`Schedule`). On `"web"` deliveries go to `pending` and a microtask. Lists are sets: the
order of one delivery is open. `Panic(k)` unwinds to the frame that catches it and
runs the drop guards above it. `uses`, `stale`, `lost` and `dead` are history. A memo starts as it is
after the first write to what it read; `Dispose` is allowed from any code.

On `"web"` a panic does not unwind. `Island` is a call of island code behind the trap guard of
`krab_client`, which takes a snapshot of the thread's state; `Trap` cuts off everything
above it and puts the snapshot back, without running a guard. The `running` and
`computing` flags of the nodes cut off are not part of the snapshot and stay set: such a node is
`dead`, it refuses every later run. The comment on `RunningGuard` in `signal.rs` ("On
`wasm32` a panic aborts instead, so there is nothing left to wedge") does not take that
containment into account. `TrapOutside` is a panic in any other code of the browser: an event handler, a batch it
opened, an effect of a microtask. The instance stays callable (`isolation.rs`), and nobody restores
anything: the subscriber stays current (`outer`, which later reads outside every effect subscribe), and the
depth of the open batches stays raised (`wedged`), so that later writes queue and no batch ever delivers them. The
comment on `BatchGuard` ("nothing resumes to observe a wedged depth") counts on the contrary.
`FlagsMatchStack` says that depths and flags are left behind by traps only, and how much exactly;
`StaleEffectsRun` counts an effect in a wedged queue as queued.

### Supervisor

`mode` and `todo` are the place of the sequential supervisor task in its loops: what
it is doing, and the set of services it has still to do it to. `Turn` picks the next
of them, by the startup order for starts and its reverse for stops. `waiting` is the
service for which the task is inside `spawn_service_and_wait_ready`. `Exit` may happen to any process at any
moment. `Failed` is the error arm of the three callers of a spawn (startup,
scheduled restart, watch restart), which differ. `forsaken` is history: services whose
watch restart failed. A startup that fails stops what it has started in mode `abort`, before
any signal handler exists, so `Kill` reaches that stop too. A first scan of the sources that fails ends the orchestrator by the
same stop as `Shutdown` and is not told apart from it.

A process is a group: its leader (`cargo run`), of which the handle is, and what it started. The leader may exit before the
rest (`headless`). `Terminated` is what `terminate_child` comes to: the group ends; or some of it is `left`,
because the leader had exited, in which case the call returns at once, because SIGKILL was not
followed by an exit in time, or because only the leader is waited for. `NoOrphans`, `SpawnsOnce`,
`DependencyOutlives` and `ShutdownCompletes` therefore speak of processes that have been terminated or reaped, not of
processes that are gone. `slept` is the sleep that `select!` makes anew in every turn: `Supervise` needs it to have
elapsed, and every event of the watcher, a source that changed or one to ignore, resets it.

### Migrations

`pc[m]` is the statement a migrator is at, so replicas interleave between any two
statements; `schema[v]` counts commits of the forward SQL of `v` less those of its
rollback SQL, and `rows` is `krab_migrations`. A statement may fail, a commit may succeed and
its answer be lost, a replica may crash, and the connection that holds the advisory lock may die
while the replica goes on over its pool (`sessionLost`). The forward direction survives all
of it, since the row is inserted in the transaction of the SQL and its key is unique. The rollback
direction does not: a rollback that goes on without its lock can run a rollback SQL that
another migrator has run as well. `Undisturbed` excuses exactly that combination.
`CheckVersion` and `DetectDrift` each take a SELECT and the UPDATEs that may follow it as one step. An UPDATE
only rewrites the checksum of an unchanged migration, to the same value whoever writes it, and
does nothing to a row that has gone meanwhile.

### Access

A request is suspended where the code awaits: at the fetch lock, at the provider's
answer and at every store call, each of which may fail; the client may drop it there. `cached` is
the number of the key set in the cache, so that "older" has a meaning. The provider is external.
Tokens are model values with the facts verification looks at. `overlapped` is history: refresh tokens
that two requests presented at once. The code reads the mark of a used token and sets it in a second
call, so two overlapping refreshes both get a pair. Nor are markers for ever: `Forget` drops one
at any time, because the store evicts live entries at capacity and because a marker's own time
ends with the token's `exp`, for 30 s of leeway before the token is refused. `revokedLost` and `usedLost`
remember it. A token whose marker is gone is accepted again, a refresh token exchanged again: the
code does that. `RevokedStaysOut` and `RotatedOnce` name these two exceptions and say that
nothing else does it, in particular no retry after a lost answer and no call of the store that
fails. Tokens past their leeway are refused by decoding and are left out.

### Router, Guarded, Reconcile, Browser

JavaScript runs to completion, so a step is what a handler does between two awaits.
`Router` has a session history of URLs and the documents they were shown in, the document on screen,
the fetches under way with the generation they belong to, and a pending hard navigation, which
always loads. `asked` is the destination asked for last. `drift` collects what excuses a
property: a fragment jumped to while Back is being fetched (`jump`), Back answered with a redirect
(`redirected`), a traversal to a fragment right after a reload (`reloaded`), and a navigation asked
for while the browser was leaving the document already (`overtaken`). In each of them the
address bar and the page really disagree in the code, until the next navigation. Pages are of one origin:
the fallback of `push_history`, which pushes the requested address when the browser refuses the final one, is left out.

`Guarded` is the run that `Action::dispatch` and a resource's fetch share: `Ask` takes a generation,
`Complete` applies an answer only if its generation is the latest. A panic in the factory or in
a poll of the future traps, so it swallows the call (`lost`).

`Reconcile` is `reconcile_range` on the parent's list of children: pairing of keyed and
unkeyed nodes, the moving cursor, replacement in place, removal, and the rebuild when the
nodes do not line up or one of them is gone. A nested region renders again by an effect of its own
(`NestedUpdated`; `inner` holds its nodes) until its parent renders. In two cases the page ends up
with nodes out of place or left behind. An update puts a nested region in the place of another node: its
run is inserted there while its anchor is moved on without it (`swapped`). Or a nested
region that was adopted from the server's markup renders before its parent's first update: it makes its own anchor
and nodes that the parent's list does not know, so that the rebuild leaves them behind, or
has no node to put the parent's anchor after and is skipped (`outgrown`). `LaidInOrder` says that nothing
else disturbs the order, self-updates of nested regions that the client built included. Nested regions render lists
of plain elements here, of at least one node when adopted.

`Browser` numbers the hydrations of a document's island. A swap by the router unmounts the island and
hydrates the next one; a trap while hydrating stamps the boundary,
replaces the content and releases what was registered in a second isolated call, which may trap too
(`trapped`). Calls notify the region once per batch, as the batch's queue holds an effect once.
The documented limit of unmount is that it finds a region by its anchor, which the region
only has after its first update. The effect of a region without one outlives the island: when the call that the
island was waiting for is answered, it makes the anchor and registers the region after all
(`adrift`, `LateAnswer`, `late`). `NoOrphans` names that exception beside the release that trapped. What else
futures of a departed island do is write to its own signals, which is left out, as is what such
an effect does to the nodes of a page that keeps them (`strays`, which `LaidInOrder` excuses); the signals of a nested
region are set only while its island is on screen; and an anchor that lands in the fallback of a failed
boundary, which the next swap would release, stays registered in the model.

## Runs

| run | shows | bounds |
|---|---|---|
| MemoryStore_pass | the queue and the cap are sound; the store implements `TtlMap` | 3 keys, capacity 2 (so inserts evict), sweep every 3 writes, queue up to 7 (ghosts, duplicates), counters saturate at 2, one lookup in two steps, 2 instants |
| MemoryStore_reap (refutes) | a lookup removes an entry that has not expired | no cap, 3 instants: expire, rewrite, reap |
| IsrServing_pass | lease, revalidation and freshness | 2 connections of one replica (the store is shared in any case), one content change, lease of one tick, one poll |
| CircuitBreaker_pass | phases, probes, window, cooldown | 3 callers (an old call beside two probes), window of 2 seconds of 2 ticks, 8 instants (ring reuse), counters saturate at 3 |
| CircuitBreaker_probes (refutes) | more probes in flight than the maximum | 2 callers, 1 probe |
| Signals_pass | delivery, memos, guards, recovery, termination | a diamond, two effects that write each other's signals, limit 2 (reached), batches of depth one, which application code and the body of one effect may open, a panic caught at any frame, native and web, code outside effects reads the memo, a trap in and one outside islands until a node is dead or a depth raised; 0.86 M states |
| Signals_dropped (refutes) | a dropped delivery is not made up for by the next write | as above without panics, native |
| Supervisor_pass | no orphan, double or forgotten service; budget; order; shutdown | a chain of 3 services, 2 watched, 2 restarted by policy, 2 attempts |
| Supervisor_forgotten (refutes) | a failed watch restart is not retried | as above |
| Migrations_pass | ledger, checks under the lock, critical versions, termination | a replica in dev that halts on failure and one in staging that goes on, 3 versions (the first irreversible, the second critical, the third destructive), 3 boots or rollbacks (so one is retried beside another); 123 k states |
| Access_pass | outages, revocation, rotation, key set | 2 request slots, 2 requests, a key rotation from k1 to k2, a static key, an access token, a foreign and a refresh token, threshold 0 (one failure locks out), intervals of one tick; 675 k states |
| Browser_pass | address, page, value, registries, node order | 3 pages (a resource, an action and a seeded resource), one without outlet, one that redirects, 4 clicks, traversals, reloads, unmounts, calls or renders of nested regions (the fewest by which every drift happens, and enough for two calls to overlap around a navigation), 2 values, nested regions that come to render 0 or 3 nodes, one late answer per document; 2.6 M states |

The four refuting runs each check one sentence of the repository's comments that the
code does not keep; `PROJECT.json` quotes them under "findings". Three more
divergences are visible in the models and only noted: the insertion queue
may evict a re-inserted key by its older ghost slot, so that the evicted entry is
not always the oldest-inserted; `expire` makes an expired, unreaped entry readable
again; a late success closes an Open breaker before its cooldown is over.

Deadlock is off where a bound ends the runs (breaker: clock and samples; Migrations: boots;
Access: requests; Browser: events, calls among them, after which a tab may rest).
The type invariants are not among the properties of the runs: they are proved (Reconcile is a pure
algorithm and has none).

### Fairness

* MemoryStore has none: only safety is claimed.
* CircuitBreaker: every admitted call reports an outcome (`HalfOpenEnds` needs it;
  the code has no timeout for one that does not).
* IsrServing: the runtime polls every task that can go on, and time passes. For
  `LatestIsCached`, requests keep coming, and store, renderer and replica
  do not fail every single time (`Traffic`).
* Signals: the thread runs what is on its stack, and code in a batch or an island ends. Panics and bodies
  are not fair; `Runtime` includes the end of a body. `CallsReturn` says that the stack is empty again and again.
* Supervisor: readiness waits and terminations end (both have deadlines in the code),
  time passes, and a sleep of `select!` that has elapsed is answered (weak fairness only). Each
  event of the file watcher starts the sleep anew, and an endless stream of
  them starves the supervision: `RestartFollows` is claimed of behaviours in which the watcher comes to rest.
* Migrations: the database answers every statement, by an error if need be, and its lock queue
  serves everyone who waits (`AcquireLock` is strongly fair).
* Access: every awaited call answers or fails and tasks are polled; tokio's `Mutex` is first
  come, first served, so waiting for the fetch lock ends (strong fairness of `BackgroundFetch`; the
  property needs it of nobody else). `KeysCatchUp` supposes that the background task and, from
  some time on, the provider stay up.
* Browser has none: only safety is claimed.

## Proofs

`MemoryStoreProofs` proves for all keys, capacities and sweep intervals that
`TypeOK`, `EverySlotted`, `CapacityHeld` and `QueueBounded` are invariants, from
`StoreAssumption` alone. Neither of the last two stands alone: the eviction loop makes room only
because every stored key has a queue slot (an empty queue is an empty map), and the queue
bound needs that an insert at capacity pops a slot before it appends one. The inductive
invariant is their conjunction with the type. The lemmas follow the code:
what an insert does (`InsertResults`), what the sweep leaves (`Compactions`), then one
lemma for the whole write section (`Store`), which every writing operation cites.
`StoreImplementsTtlMap` then proves the refinement. Its mapping keeps the unexpired entries, so what the
sweep or a late reap removes of expired ones is invisible (`QuietMap`, `SweepKeepsFresh`), and the one thing an
insert may take from the map is the entry that eviction pops: `EvictsOne` shows from the inductive
invariant that the loop ends at the first slot that still has an entry, and that it pops only for a new key at a full
store. `FreshRemembered` turns both into `Remember` of `TtlMap`; each operation has a lemma that names the
operation of the map it is.

`SignalsProofs` proves `TypeOK`, `FlagsMatchStack`, `CleanMemosFresh`, `Subscribed` and
`StaleEffectsRun` for all graphs, bodies and limits. The inductive invariant has two halves.
`Structure` is about the stack alone: each set flag has exactly one frame, unless a trap cut
its node off, and then it stays set (`Held`); the depths count frames, on top of what traps outside islands have left; only a delivery has effects to run, and they
exist. Pushing, popping and cutting a stack are lemmas of their own (`FitsPush`, `FitsPop`, `HeldCut`), so an action is a
few of these. That the stack's depths fit again when a trap restores the snapshot needs that an island is entered with an empty
stack, so that its snapshot is of `wedged` itself. `AbortKeeps` is what the two traps have in common. `Tracked` is about who hears of a write. A live effect that is neither subscribed to all it has read nor awaited
is among the lost ones. For memos the property alone is not inductive: a caught panic
dirties a memo that others have read and stay subscribed to, so `MemosTracked` has every memo that is clean
*or still has subscribers* subscribed to all it has read; without the second half a write below a dirty memo would
miss the effects above it. From it `UsersReached` follows, the heart of the proof: whatever has read a signal, through any
chain of memos, is found by walking the subscriber lists. It uses that `Closure` is a least set, so chains need
no induction.

`CircuitBreakerProofs` proves `TypeOK`, `ProbesUnderWay`, `PhaseSound`,
`BelowThreshold` and `CooldownNotProlonged` for all callers, policies and limits. `ProbesUnderWay` counts callers
whose call is under way as a probe; the lemmas say how the
cardinality of that set changes when a call is admitted or ends, and the phase facts
close the cases in which a stale outcome arrives.
`WindowExact` goes further into `RateWindow` than the run's `WindowCounts`: of every second inside the
window, its bucket holds exactly the samples of that second, up to `u32::MAX`, or there were none
(`SecondsCounted`), and no bucket with counts stands where another second's belongs
(`BucketsPlaced`). These are the summands of `totals`. Two seconds less than a window apart differ
modulo `window_secs` (`OneBucketEach`), so a sample disturbs no other second's count; a
second that enters the window finds a bucket labelled with an older one, which the first record
empties. TLC found it true on the instance of the run, and for windows of one and three
seconds, before it was proved.

`SupervisorProofs` proves `TypeOK`, `NoOrphans`, `RetryWithinBudget`,
`NoServiceForgotten`, `SpawnsOnce` and `DependencyOutlives` for all services, startup orders and
budgets, from `SupervisorAssumption` (the startup order is total and puts dependencies
first). What the supervisor knows is spread over `children`, `waiting` and
`todo`; `TodoSound` says how they agree in each mode, `DueScheduled` that a service due
for a restart keeps its `retry_at` until it is attempted, and `Accounted` is
`NoServiceForgotten` extended to the middle of a restart. One lemma per action keeps
them. The two action properties follow: a service to be spawned has neither a
handle nor is awaited, so by `NoOrphans` no process; a service whose turn it is
to stop comes after all others still on the list, so nothing on the list needs it.

`IsrServingProofs` proves `TypeOK`, `OneWinnerUnlessStrayed` and `KeyHasTask` for all
connections, replicas and lifetimes. `WinnerHoldsLease` is the invariant: unless the
lease has strayed, whoever has something left of a grant sees just that in `lease`, so
that `set_if_absent` refuses everyone else, and the two run out together. `KeyHasTask` is inductive as it stands, with
its exception for a panicked render.

`MigrationsProofs` proves `TypeOK`, `RowsMatchSchema`, `CheckStillTrue` and `CriticalFirst` for all
migrators, versions, policies and bounds, and mutual exclusion of those that hold the lock.
A check is still true at the commit because only the lock's holder writes (`LockOwned`) and
because a session that was lost is remembered; the ledger is truthful because rows and schema change
in one commit, and a rollback announces itself (`UndoAnnounced`). `CriticalFirst` needs in
which order a run works through its versions: `Visited` (a critical version that a run
has passed is on record) and `UndoOrder` (a rollback takes the highest first).

`AccessProofs` proves `TypeOK`, `OutageNotBlamed`, `RevokedStaysOut` and `RotatedOnce`, and that no step
makes the key set older. `Carries` says which tokens a request can have at each label. The key set
moves forward because a fetch holds the lock (`LockHeld`) and the answer it waits for is not
older than the cache (`AnswerFresh`). An outage is not blamed because a token gets past its
verification only with keys loaded (`KeysSeen`). A revocation is final because a request that starts after it has
been answered finds it on the list, or the list has lost it (`KeptOut`, over `EverRevoked`). A rotation
that pays out has marked the token (`MarkedFirst`), and whoever saw no mark overlapped with it (`OverlapSeen`). Most actions
only move a request on or answer it (`Moves`); for these two moves each invariant has one lemma, and the
actions cite it.

`BrowserProofs` proves `AddressAgrees` and `LatestWins` from `Numbered` (a task's generation is its
own and at most the current one), `AddressKept` and `AskedKept`, which extend the two to the
time a fetch is under way; `ShowsLatest` from `RunsNumbered`; and `NoOrphans` with `OneMounted` (a departed island is registered again only by a late answer, which `late` records). Each
component's variables are changed only by its own actions, so each invariant is proved over
the component's part of a step.

Only model-checked: liveness and everything under fairness (`HalfOpenEnds`,
`EveryRequestEnds`, `LatestIsCached`, `RestartFollows`, `ShutdownCompletes`, `EveryRunEnds`,
`KeysCatchUp` and `CallsReturn`), which the prover does not reach; `WindowCounts`, a claim about sums
over the ring (`WindowExact` proves it of each summand); `LaidInOrder`, whose algorithm walks the list of new nodes. The last two are inductions over data.

## Not modelled

See the components in `PROJECT.json`. Of the modelled parts:

* Signals: child effects, cleanups and contexts; cells that a trap leaves borrowed.
* IsrServing: several pages and prefixes. Supervisor: the startup order's computation, the probes
  inside a readiness wait, and a shutdown signal that arrives during one.
* Migrations: pool settings, preflight checks, the ownership table (written, never read), SQLite.
* Access: the static bearer mode, several providers, token expiry, the global rate limiter, metrics.
* Browser: parsing of documents, repair of server markup that does not match, attributes and
  listeners, scroll and focus.

Of the rest, Redis does what its single commands and scripts do, and WebSockets what tokio's broadcast channel
does. Configuration, heads, internationalisation, server functions, macros, code generators,
templates and the CLI's commands are pure or one-shot, and the users services are adapters over one SQL
table: there is no state over which a property could go wrong step by step. They
make up most of the lines that no definition stands for.

## Plan

Done: store, ISR, breaker, signals, supervisor, migrations, access, browser. Next:

1. The streaming renderer (`progressive.rs`): out-of-order suspense chunks and the end of the stream.
2. Readiness probes and the shutdown signal in Supervisor.
