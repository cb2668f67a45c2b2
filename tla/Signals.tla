------------------------------ MODULE Signals -------------------------------
(***************************************************************************)
(* krab_core::signal on one thread: signals, memos and effects, how a      *)
(* write finds the effects that depend on it, and how their runs nest.     *)
(*                                                                         *)
(* Natively a write runs the effects it reaches before it returns, so an   *)
(* effect that writes runs others on top of itself: `stack' is the call    *)
(* stack, and every step is one of its topmost frame.  In the browser a    *)
(* write queues the effects for a microtask.  What a body reads and writes *)
(* and where it stops is open: any of Deps and Writes, in any order.       *)
(*                                                                         *)
(* Natively a panic unwinds to an error boundary.  In the browser it traps *)
(* and runs no guard: krab_client calls the code of an island in isolation *)
(* and puts back a snapshot of the thread's state (Island, Trap).  Nobody  *)
(* puts anything back after a panic in other code, an event handler or a   *)
(* microtask, though the instance goes on (TrapOutside).                   *)
(*                                                                         *)
(* Subscriber lists and queues are sets: the effects of one delivery run   *)
(* in any order.  Values are not kept; `stale' says whose last run read a  *)
(* value that has changed since.                                           *)
(***************************************************************************)
EXTENDS Integers, Sequences, FiniteSets

CONSTANTS
    Signal, Memo, Effect,
    Scoped,     \* the effects made by create_effect_scoped, which have a handle
    Deps,       \* the signals and memos a memo or an effect may read
    Writes,     \* the signals an effect may write in one run
    Outside,    \* the signals and memos code outside every effect and memo may read
    Targets,    \* "native" (with unwinding panics), "web" (wasm32) or both
    MaxFlush,   \* MAX_FLUSH_DEPTH
    MaxBatch,   \* bound of the model: how deep `batch' scopes nest
    MaxDead,    \* bound of the model: no trap follows once this many nodes are dead
    MaxWedged,  \* bound of the model: nor one outside an island, at this `wedged'
    Batching,   \* the effects whose body may open a `batch'
    MayPanic    \* whether user code may panic under an error boundary or in an island

Source == Signal \cup Memo
Node == Memo \cup Effect

ASSUME SignalsAssumption ==
    /\ Signal \cap Node = {} /\ Memo \cap Effect = {} /\ Scoped \subseteq Effect
    /\ Batching \subseteq Effect
    /\ Deps \in [Node -> SUBSET Source]
    /\ Writes \in [Effect -> SUBSET Signal] /\ Outside \subseteq Source
    /\ Targets \subseteq {"native", "web"}
    /\ MaxFlush \in Nat \ {0} /\ MaxBatch \in Nat /\ MaxDead \in Nat
    /\ MaxWedged \in Nat
    /\ MayPanic \in BOOLEAN

VARIABLES
    target,      \* the platform the code was built for
    stack,       \* the frames of this thread, the running one last
    subs,        \* the subscribers of each signal and memo
    dirty,       \* MemoState.dirty
    computing,   \* MemoState.computing
    life,        \* each effect: "unborn", "live" or "disposed"
    running,     \* EffectState.running
    rerun,       \* EffectState.rerun_requested
    batched,     \* BATCHED_EFFECTS
    batchDepth,  \* BATCH_DEPTH
    flushDepth,  \* FLUSH_DEPTH
    pending,     \* PENDING_EFFECTS
    microtask,   \* MICROTASK_QUEUED
    chain,       \* DRAIN_CHAIN_DEPTH
    outer,       \* CURRENT_SUBSCRIBER below the frames of the stack, "none" for None
    uses,        \* history: what each node's last run has read
    stale,       \* history: the nodes whose last run read what has changed since
    lost,        \* history: the effects whose delivery was given up
    dead,        \* history: the nodes whose run a trap has cut off
    wedged       \* history: how much of BATCH_DEPTH traps outside islands left raised

queues == <<batched, pending, microtask, chain>>
flags == <<dirty, computing, running, rerun>>
history == <<uses, stale, lost, dead>>
left == <<outer, wedged>>
vars == <<target, stack, subs, flags, life, queues, batchDepth, flushDepth, history, left>>

-----------------------------------------------------------------------------
(* Frames.                                                                 *)

Frame(kind, todo) ==
    [kind |-> kind, node |-> "none", todo |-> todo, writes |-> {}, batches |-> 0, reruns |-> 0]

\* A body: the signals it may still write, the batches it may still open.
Body(e, reruns) ==
    [kind |-> "effect", node |-> e, todo |-> {}, writes |-> Writes[e],
     batches |-> IF e \in Batching THEN 1 ELSE 0, reruns |-> reruns]
Computation(m) == [Frame("memo", {}) EXCEPT !.node = m]

Empty == stack = <<>>
Top == stack[Len(stack)]
Below == SubSeq(stack, 1, Len(stack) - 1)
On(kind) == ~Empty /\ Top.kind = kind

\* Application code is at work: outside every scope, in an effect, a batch or an
\* island.
CodeRuns == ~Empty => Top.kind \in {"effect", "batch", "island"}

\* CURRENT_SUBSCRIBER, as the place of its frame; 0 stands for `outer'.
Innermost(kinds) ==
    CHOOSE i \in 0 .. Len(stack) :
        /\ i > 0 => stack[i].kind \in kinds
        /\ \A j \in (i + 1) .. Len(stack) : stack[j].kind \notin kinds
Current == Innermost({"effect", "memo"})

-----------------------------------------------------------------------------
(* Propagation.                                                            *)

\* What is reachable from `from' along `edges', through memos.
Closure(from, edges) ==
    {n \in Node : \A C \in SUBSET Node :
        (from \subseteq C /\ \A m \in C \cap Memo : edges[m] \subseteq C) => n \in C}

\* Bug variant: dependents are not followed through memos.
DirectlyReached(s) == subs[s]

\* collect_dependents, from every subscriber of `s'.
Reached(s) == Closure(subs[s], subs)

\* The nodes that have read `s', or a memo that has.
Users(s) ==
    LET Readers(d) == {n \in Node : d \in uses[n]}
    IN  Closure(Readers(s), [m \in Memo |-> Readers(m)])

\* schedule_effects and schedule_async, for code that goes on with stack `st'.
Schedule(effects, st) ==
    LET all == batched \cup effects
    IN  IF batchDepth > 0
        THEN /\ batched' = all
             /\ stack' = st
             /\ UNCHANGED <<pending, microtask, flushDepth, lost>>
        ELSE /\ batched' = {}
             /\ IF target = "web"
                THEN /\ pending' = pending \cup all
                     /\ microtask' = (microtask \/ all # {})
                     /\ stack' = st
                     /\ UNCHANGED <<flushDepth, lost>>
                ELSE /\ UNCHANGED <<pending, microtask>>
                     /\ IF all = {} THEN stack' = st /\ UNCHANGED <<flushDepth, lost>>
                        ELSE IF flushDepth >= MaxFlush
                        THEN stack' = st /\ lost' = lost \cup all /\ UNCHANGED flushDepth
                        ELSE /\ stack' = Append(st, Frame("flush", all))
                             /\ flushDepth' = flushDepth + 1
                             /\ UNCHANGED lost

\* Bug variant: inside a batch the memos stay clean until it closes.
WriteLeavingMemosClean(s) ==
    /\ CodeRuns
    /\ Current > 0 => s \in stack[Current].writes
    /\ subs' = [d \in Source |-> IF d = s \/ d \in Reached(s) THEN {} ELSE subs[d]]
    /\ dirty' = [m \in Memo |-> dirty[m] \/ (batchDepth = 0 /\ m \in Reached(s))]
    /\ stale' = stale \cup Users(s)
    /\ Schedule({e \in Reached(s) \cap Effect : life[e] = "live"},
                IF Current = 0 THEN stack
                ELSE [stack EXCEPT ![Current].writes = @ \ {s}])
    /\ UNCHANGED <<target, left, computing, running, rerun, life, chain, batchDepth, uses, dead>>

\* WriteSignal::set or update: the subscribers of the signal, and of every memo
\* on the way, are drained; they subscribe again when they next read.
Write(s) ==
    /\ CodeRuns
    /\ Current > 0 => s \in stack[Current].writes
    /\ subs' = [d \in Source |-> IF d = s \/ d \in Reached(s) THEN {} ELSE subs[d]]
    /\ dirty' = [m \in Memo |-> dirty[m] \/ m \in Reached(s)]
    /\ stale' = stale \cup Users(s)
    /\ Schedule({e \in Reached(s) \cap Effect : life[e] = "live"},
                IF Current = 0 THEN stack
                ELSE [stack EXCEPT ![Current].writes = @ \ {s}])
    /\ UNCHANGED <<target, left, computing, running, rerun, life, chain, batchDepth, uses, dead>>

-----------------------------------------------------------------------------
(* Reads and memos.                                                        *)

\* recompute_now starts on top of whoever reads the memo.
Compute(m) ==
    /\ stack' = Append(stack, Computation(m))
    /\ dirty' = [dirty EXCEPT ![m] = FALSE]
    /\ computing' = [computing EXCEPT ![m] = TRUE]

\* A read by the current subscriber, which it subscribes.  A memo that is being
\* computed, or whose computation a trap cut off, is served from its cache and
\* not tracked.
Read(d) ==
    /\ Current > 0 /\ Top.kind \in {"effect", "batch", "memo"}
    /\ d \in Memo => ~computing[d]
    /\ LET n == stack[Current].node
           d_dirty == d \in Memo /\ dirty[d]
       IN  /\ d \in Deps[n]
           /\ subs' = [subs EXCEPT ![d] = @ \cup {n}]
           /\ uses' = [x \in Node |-> IF d_dirty /\ x = d THEN {}
                                      ELSE IF x = n THEN uses[x] \cup {d} ELSE uses[x]]
           /\ stale' = IF d_dirty THEN stale \ {d}
                       ELSE IF d \in stale THEN stale \cup {n} ELSE stale
           /\ IF d_dirty THEN Compute(d) ELSE UNCHANGED <<stack, dirty, computing>>
    /\ UNCHANGED <<target, left, running, rerun, life, queues, batchDepth, flushDepth, lost, dead>>

\* A read outside every effect refreshes a memo and subscribes nobody, but the
\* node that a trap has left as the current subscriber.
ReadOutside(d) ==
    /\ Current = 0 /\ CodeRuns /\ d \in Outside
    /\ d \in Memo => ~computing[d]
    /\ LET d_dirty == d \in Memo /\ dirty[d]
       IN  /\ d_dirty \/ outer # "none"
           /\ subs' = [subs EXCEPT ![d] = @ \cup ({outer} \ {"none"})]
           /\ uses' = [x \in Node |-> IF d_dirty /\ x = d THEN {} ELSE uses[x]]
           /\ stale' = IF d_dirty THEN stale \ {d} ELSE stale
           /\ IF d_dirty THEN Compute(d) ELSE UNCHANGED <<stack, dirty, computing>>
    /\ UNCHANGED <<target, left, running, rerun, life, queues, batchDepth, flushDepth, lost, dead>>

Computed ==
    /\ On("memo")
    /\ computing' = [computing EXCEPT ![Top.node] = FALSE]
    /\ stack' = Below
    /\ UNCHANGED <<target, left, subs, dirty, running, rerun, life, queues, batchDepth, flushDepth, history>>

-----------------------------------------------------------------------------
(* Effects.                                                                *)

\* One run of the body of `e', on top of the frames `st'.
StartRun(e, st, reruns) ==
    /\ stack' = Append(st, Body(e, reruns))
    /\ running' = [running EXCEPT ![e] = TRUE]
    /\ rerun' = [rerun EXCEPT ![e] = FALSE]
    /\ uses' = [uses EXCEPT ![e] = {}]
    /\ stale' = stale \ {e}
    /\ lost' = lost \ {e}
    /\ UNCHANGED dead

\* create_effect and create_effect_scoped: the effect runs at once, a batch or not.
Create(e) ==
    /\ CodeRuns /\ Current = 0
    /\ life[e] = "unborn"
    /\ life' = [life EXCEPT ![e] = "live"]
    /\ StartRun(e, stack, 0)
    /\ UNCHANGED <<target, left, subs, dirty, computing, queues, batchDepth, flushDepth>>

\* EffectHandle::dispose, from any code, the effect's own body included (and, in
\* the model, before create_effect_scoped has returned the handle).
Dispose(e) ==
    /\ CodeRuns
    /\ e \in Scoped /\ life[e] = "live"
    /\ life' = [life EXCEPT ![e] = "disposed"]
    /\ UNCHANGED <<target, left, stack, subs, flags, queues, batchDepth, flushDepth, history>>

Flushes == {"flush", "batchFlush", "microtask"}

\* Bug variant: an effect that is running already is skipped, and owed nothing.
RunEffectOrSkip(e) ==
    /\ ~Empty /\ Top.kind \in Flushes /\ e \in Top.todo
    /\ LET st == [stack EXCEPT ![Len(stack)].todo = @ \ {e}]
       IN  IF life[e] = "disposed" \/ running[e]
           THEN stack' = st /\ UNCHANGED <<rerun, running, history>>
           ELSE StartRun(e, st, 0)
    /\ UNCHANGED <<target, left, subs, dirty, computing, life, queues, batchDepth, flushDepth>>

\* run_effect on the next effect of a delivery: skipped if it is disposed, owed a
\* run if its body is on the stack already.
RunEffect(e) ==
    /\ ~Empty /\ Top.kind \in Flushes /\ e \in Top.todo
    /\ LET st == [stack EXCEPT ![Len(stack)].todo = @ \ {e}]
       IN  IF life[e] = "disposed" \/ running[e]
           THEN /\ stack' = st
                /\ rerun' = [rerun EXCEPT ![e] = @ \/ life[e] # "disposed"]
                /\ UNCHANGED <<running, history>>
           ELSE StartRun(e, st, 0)
    /\ UNCHANGED <<target, left, subs, dirty, computing, life, queues, batchDepth, flushDepth>>

\* Bug variant: a run that is owed follows, however many did.
EndRunUnlimited ==
    /\ On("effect")
    /\ IF life[Top.node] # "disposed" /\ rerun[Top.node]
       THEN StartRun(Top.node, Below, Top.reruns)
       ELSE /\ stack' = Below
            /\ running' = [running EXCEPT ![Top.node] = FALSE]
            /\ UNCHANGED <<rerun, history>>
    /\ UNCHANGED <<target, left, subs, dirty, computing, life, queues, batchDepth, flushDepth>>

\* The body has ended: a run that is owed follows, unless too many did.
EndRun ==
    /\ On("effect")
    /\ LET e == Top.node
           owed == life[e] # "disposed" /\ rerun[e]
       IN  IF owed /\ Top.reruns + 1 < MaxFlush
           THEN StartRun(e, Below, Top.reruns + 1)
           ELSE /\ stack' = Below
                /\ running' = [running EXCEPT ![e] = FALSE]
                /\ rerun' = [rerun EXCEPT ![e] = @ /\ ~owed]
                /\ lost' = IF owed THEN lost \cup {e} ELSE lost
                /\ UNCHANGED <<uses, stale, dead>>
    /\ UNCHANGED <<target, left, subs, dirty, computing, life, queues, batchDepth, flushDepth>>

EndFlush ==
    /\ ~Empty /\ Top.kind \in {"flush", "batchFlush"} /\ Top.todo = {}
    /\ stack' = Below
    /\ flushDepth' = IF Top.kind = "flush" THEN flushDepth - 1 ELSE flushDepth
    /\ UNCHANGED <<target, left, subs, flags, life, queues, batchDepth, history>>

-----------------------------------------------------------------------------
(* The browser's microtask.                                                *)

Microtask ==
    /\ Empty /\ microtask
    /\ microtask' = FALSE
    /\ stack' = <<Frame("microtask", pending)>>
    /\ pending' = {}
    /\ UNCHANGED <<target, left, subs, flags, life, batched, chain, batchDepth, flushDepth, history>>

\* What its effects wrote is the next generation, up to MaxFlush in a row.
EndMicrotask ==
    /\ On("microtask") /\ Top.todo = {}
    /\ stack' = Below
    /\ LET chained == pending # {}
           cut == chained /\ chain + 1 >= MaxFlush
       IN  /\ chain' = IF chained /\ ~cut THEN chain + 1 ELSE 0
           /\ pending' = IF cut THEN {} ELSE pending
           /\ lost' = IF cut THEN lost \cup pending ELSE lost
    /\ UNCHANGED <<target, left, subs, flags, life, batched, microtask, batchDepth, flushDepth, uses, stale, dead>>

-----------------------------------------------------------------------------
(* batch.                                                                  *)

OpenBatch ==
    /\ CodeRuns /\ batchDepth - wedged < MaxBatch
    /\ Current > 0 => stack[Current].batches > 0
    /\ batchDepth' = batchDepth + 1
    /\ stack' = Append(IF Current = 0 THEN stack
                       ELSE [stack EXCEPT ![Current].batches = @ - 1],
                       Frame("batch", {}))
    /\ UNCHANGED <<target, left, subs, flags, life, queues, flushDepth, history>>

\* The outermost batch runs what is queued, before any microtask would.
CloseBatch ==
    /\ On("batch")
    /\ batchDepth' = batchDepth - 1
    /\ IF batchDepth = 1
       THEN /\ batched' = {}
            /\ pending' = pending \ batched
            /\ stack' = Append(Below, Frame("batchFlush", batched))
       ELSE stack' = Below /\ UNCHANGED <<batched, pending>>
    /\ UNCHANGED <<target, left, subs, flags, life, microtask, chain, flushDepth, history>>

-----------------------------------------------------------------------------
(* A panic in application code, caught by the code of frame k, or outside  *)
(* for k = 0: the guards of the frames above it run.                       *)

Unwound(k, kind) == {i \in (k + 1) .. Len(stack) : stack[i].kind = kind}
\* Bug variant: no guard, a panic leaves the flags as they are.
NoNodes(frames) == {}

NodesOf(frames) == {stack[i].node : i \in frames}

Panic(k) ==
    /\ MayPanic /\ target = "native"
    /\ ~Empty /\ Top.kind \in {"effect", "memo", "batch"}
    /\ k < Len(stack)
    /\ k > 0 => stack[k].kind \in {"effect", "memo", "batch"}
    /\ LET memos == NodesOf(Unwound(k, "memo"))
           effects == NodesOf(Unwound(k, "effect"))
       IN  /\ stack' = SubSeq(stack, 1, k)
           /\ computing' = [m \in Memo |-> computing[m] /\ m \notin memos]
           /\ dirty' = [m \in Memo |-> dirty[m] \/ m \in memos]
           /\ running' = [e \in Effect |-> running[e] /\ e \notin effects]
           /\ batchDepth' = batchDepth - Cardinality(Unwound(k, "batch"))
           /\ flushDepth' = flushDepth - Cardinality(Unwound(k, "flush"))
           /\ stale' = stale \cup memos
           /\ lost' = lost \cup {e \in effects : rerun[e]}
                          \cup UNION {stack[i].todo : i \in (k + 1) .. Len(stack)}
    /\ UNCHANGED <<target, left, subs, rerun, life, queues, uses, dead>>

-----------------------------------------------------------------------------
(* A panic in the browser: the frames go without their guards.             *)

\* HydrationPass::hydrate takes a snapshot of the depths and enters the island.
Island ==
    /\ target = "web" /\ Empty
    /\ stack' = <<[Frame("island", {}) EXCEPT !.batches = batchDepth]>>
    /\ UNCHANGED <<target, left, subs, flags, life, queues, batchDepth, flushDepth, history>>

EndIsland ==
    /\ On("island")
    /\ stack' = Below
    /\ UNCHANGED <<target, left, subs, flags, life, queues, batchDepth, flushDepth, history>>

\* The frames go.  The flags of the nodes that were running stay, so none of them
\* ever runs again.
Abort ==
    /\ stack' = <<>>
    /\ LET memos == NodesOf(Unwound(0, "memo"))
           effects == NodesOf(Unwound(0, "effect"))
       IN  /\ dead' = dead \cup memos \cup effects
           /\ stale' = stale \cup memos
           /\ lost' = lost \cup effects \cup UNION {stack[i].todo : i \in 1 .. Len(stack)}

\* In an island's code: restore_after_trap puts the subscriber and the depth back.
Trap ==
    /\ MayPanic /\ Cardinality(dead) < MaxDead
    /\ ~Empty /\ stack[1].kind = "island"
    /\ Top.kind \in {"island", "effect", "memo", "batch"}
    /\ Abort
    /\ batchDepth' = stack[1].batches
    /\ UNCHANGED <<target, left, subs, flags, life, queues, flushDepth, uses>>

\* In an event handler or a microtask: the subscriber and the depth stay, and the
\* next call into the instance finds them.
TrapOutside ==
    /\ MayPanic /\ target = "web" /\ Cardinality(dead) < MaxDead /\ wedged < MaxWedged
    /\ ~Empty /\ stack[1].kind # "island"
    /\ Top.kind \in {"effect", "memo", "batch"}
    /\ Abort
    /\ outer' = IF Current = 0 THEN outer ELSE stack[Current].node
    /\ wedged' = wedged + Cardinality({i \in 1 .. Len(stack) : stack[i].kind = "batch"})
    /\ UNCHANGED <<target, subs, flags, life, queues, batchDepth, flushDepth, uses>>

\* create_memo computes at once; a memo starts here as it is after the first write
\* to what it read: dirty, and subscribed to nothing.
Init ==
    /\ target \in Targets
    /\ stack = <<>>
    /\ subs = [d \in Source |-> {}]
    /\ dirty = [m \in Memo |-> TRUE]
    /\ computing = [m \in Memo |-> FALSE]
    /\ life = [e \in Effect |-> "unborn"]
    /\ running = [e \in Effect |-> FALSE]
    /\ rerun = [e \in Effect |-> FALSE]
    /\ batched = {} /\ pending = {} /\ microtask = FALSE /\ chain = 0
    /\ batchDepth = 0 /\ flushDepth = 0
    /\ uses = [n \in Node |-> {}]
    /\ stale = Memo
    /\ lost = {} /\ dead = {}
    /\ outer = "none" /\ wedged = 0

\* What goes on by itself once application code has made its call.
Runtime ==
    \/ \E e \in Effect : RunEffect(e)
    \/ Computed \/ EndRun \/ EndFlush \/ Microtask \/ EndMicrotask \/ CloseBatch \/ EndIsland

Next ==
    \/ Runtime
    \/ \E s \in Signal : Write(s)
    \/ \E d \in Source : Read(d) \/ ReadOutside(d)
    \/ \E e \in Effect : Create(e) \/ Dispose(e)
    \/ OpenBatch
    \/ \E k \in 0 .. Len(stack) : Panic(k)
    \/ Island \/ Trap \/ TrapOutside

\* The thread runs what is on its stack, bodies, batch scopes and islands come to
\* an end, and the browser runs its microtasks.
Spec == Init /\ [][Next]_vars /\ WF_vars(Runtime) /\ SF_vars(CloseBatch) /\ SF_vars(EndIsland)

-----------------------------------------------------------------------------
(* Properties.                                                             *)

Frames == [kind : {"effect", "memo", "batch", "island"} \cup Flushes,
           node : Node \cup {"none"}, todo : SUBSET Effect, writes : SUBSET Signal,
           batches : Nat, reruns : 0 .. (MaxFlush - 1)]

TypeOK ==
    /\ target \in Targets
    /\ stack \in Seq(Frames)
    /\ subs \in [Source -> SUBSET Node]
    /\ dirty \in [Memo -> BOOLEAN] /\ computing \in [Memo -> BOOLEAN]
    /\ life \in [Effect -> {"unborn", "live", "disposed"}]
    /\ running \in [Effect -> BOOLEAN] /\ rerun \in [Effect -> BOOLEAN]
    /\ batched \subseteq Effect /\ pending \subseteq Effect
    /\ microtask \in BOOLEAN /\ chain \in 0 .. (MaxFlush - 1)
    /\ batchDepth \in Nat /\ wedged \in Nat /\ outer \in Node \cup {"none"}
    /\ flushDepth \in 0 .. MaxFlush
    /\ uses \in [Node -> SUBSET Source] /\ stale \subseteq Node
    /\ lost \subseteq Effect /\ dead \subseteq Node

Places(kind) == {i \in 1 .. Len(stack) : stack[i].kind = kind}

\* The drop guards and the snapshot: whatever returned, unwound, or trapped in an
\* island, the thread's flags and depths are those of the frames still on its
\* stack, and nothing is on it twice.  A depth left raised would defer every later
\* write, a flag left set refuses its effect or freezes its memo.  Two things do
\* stay: the flags of nodes whose own run a trap has cut off (`dead'), and, after
\* a trap in the browser outside every island, the depth of the batches that were
\* open (`wedged'), which no guard and no snapshot lowers: the comment of
\* BatchGuard counts on nothing running after such a trap.
FlagsMatchStack ==
    /\ batchDepth = wedged + Cardinality(Places("batch"))
    /\ flushDepth = Cardinality(Places("flush"))
    /\ \A e \in Effect : Cardinality({i \in Places("effect") : stack[i].node = e})
                           = IF running[e] /\ e \notin dead THEN 1 ELSE 0
    /\ \A m \in Memo : Cardinality({i \in Places("memo") : stack[i].node = m})
                           = IF computing[m] /\ m \notin dead THEN 1 ELSE 0

\* A memo that is neither dirty nor being computed serves a value computed from
\* the present values of all it read, after any writes and caught panics.
CleanMemosFresh == \A m \in Memo : ~dirty[m] /\ ~computing[m] => m \notin stale

\* The effects that are going to run.
Awaited ==
    batched \cup pending \cup {e \in Effect : running[e] /\ rerun[e]}
        \cup UNION {stack[i].todo : i \in 1 .. Len(stack)}

\* Draining the lists on every write forgets nobody: a clean memo, and a live
\* effect that is not about to run, is subscribed to everything its last run read,
\* so the next write reaches it.
Subscribed ==
    /\ \A m \in Memo : ~dirty[m] => \A d \in uses[m] : m \in subs[d]
    /\ \A e \in Effect \ (Awaited \cup lost) :
         life[e] = "live" => \A d \in uses[e] : e \in subs[d]

\* No effect is left showing what has changed: one that has read an old value is
\* queued or going to run, unless its delivery was given up at a limit, by a panic
\* or by a trap.  (A queue that waits for a batch waits for ever where `wedged'.)
StaleEffectsRun == \A e \in Effect \cap stale : life[e] = "live" => e \in Awaited \cup lost

\* However effects write each other's dependencies, the writes that started them
\* return.
CallsReturn == []<>Empty

-----------------------------------------------------------------------------
(* What the comments of signal.rs say, for the run that refutes it.        *)

\* schedule_async, on a delivery dropped at MAX_FLUSH_DEPTH: "the values are
\* already committed, so the next legitimate write re-runs the dependents".
NextWriteReruns ==
    (Empty /\ Awaited = {}) =>
        \A e \in Effect : life[e] = "live" => \A d \in uses[e] : e \in subs[d]
=============================================================================
