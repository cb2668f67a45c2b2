----------------------------- MODULE Supervisor -----------------------------
(***************************************************************************)
(* krab_orchestrator: the supervisor task (run_supervisor in main.rs and   *)
(* process_runtime.rs) and the service processes it starts, restarts after *)
(* a crash or a source change, and stops.                                  *)
(*                                                                         *)
(* The supervisor is one sequential task: while it waits for a service to  *)
(* become ready it does nothing else, and processes exit and time passes   *)
(* meanwhile.  `mode' is what it is doing and `todo' the services it has   *)
(* still to do it to.  Backoffs and uptimes are kept as the ticks that     *)
(* remain and that have passed.                                            *)
(*                                                                         *)
(* A process is the group that spawn_service makes: its leader, which is   *)
(* what the handle is of, and what the leader started (cargo run and the   *)
(* service).                                                               *)
(***************************************************************************)
EXTENDS Integers, Sequences, FiniteSets

CONSTANTS
    Service,
    Order,          \* the resolved startup order, dependencies first
    DependsOn,      \* depends_on and startup_dependencies
    Watched,        \* the services with watch = true
    RestartOnExit,  \* the services with restart_on_exit
    MaxAttempts,    \* max_restart_attempts
    Backoff,        \* restart_backoff_ms, in ticks
    Stable,         \* the restart stability window, in ticks
    None            \* no retry_at; nothing awaited

Precedes(s, t) == \E i, j \in 1 .. Len(Order) : i < j /\ Order[i] = s /\ Order[j] = t

ASSUME SupervisorAssumption ==
    /\ Watched \subseteq Service /\ RestartOnExit \subseteq Service
    /\ \A s, t \in Service : s # t => Precedes(s, t) \/ Precedes(t, s)
    /\ DependsOn \in [Service -> SUBSET Service]
    /\ \A t \in Service : \A s \in DependsOn[t] : Precedes(s, t) /\ ~Precedes(t, s)
    /\ MaxAttempts \in Nat /\ Backoff \in Nat /\ Stable \in Nat
    /\ None \notin Nat /\ None \notin Service

VARIABLES
    mode,      \* "start", "select", "restart", "watchStop", "watchStart", "stop",
               \* "abort" (the stop after a failed startup), "done", or "killed" by a signal
    slept,     \* the sleep of this turn of select! has elapsed
    todo,      \* the services this mode has still to treat
    waiting,   \* the service that is spawned and not ready yet, or None
    proc,      \* each service's latest process: "none", "booting", "up", "exited",
               \* "headless" when its leader has exited and the group runs on, or "left"
               \* when it runs on and the supervisor is done with it
    children,  \* the services whose Child handle is held
    attempts,  \* ServiceSupervision.attempts
    uptime,    \* ticks since started_at, as far as Stable
    retry,     \* ticks until retry_at, or None
    changed,   \* pending_restart: sources changed since the last watch restart
    forsaken   \* history: services whose watch restart failed while they were up

supervision == <<attempts, uptime, retry>>
vars == <<mode, slept, todo, waiting, proc, children, attempts, uptime, retry, changed, forsaken>>

Spawning == mode \in {"start", "restart", "watchStart"}
ShuttingDown == mode \in {"stop", "abort"}
Stopping == mode = "watchStop" \/ ShuttingDown

\* Bug variant: services are stopped in startup order.
TurnForwards(s) == s \in todo /\ \A t \in todo \ {s} : Precedes(s, t)

\* Services are started in the startup order and stopped in its reverse.
Turn(s) ==
    /\ s \in todo
    /\ \A t \in todo \ {s} :
          IF Stopping THEN Precedes(t, s) ELSE Precedes(s, t)

\* Each turn of select! makes its sleep anew.
Enter(next, services) == mode' = next /\ todo' = services /\ waiting' = None /\ slept' = FALSE

\* `s' is treated; `next' is what follows the last service of a mode.
Finished(s, next) == Enter(IF todo = {s} THEN next ELSE mode, todo \ {s})

-----------------------------------------------------------------------------
(* terminate_child.                                                        *)

\* SIGTERM to the process group, and SIGKILL after the timeout.  The call returns at
\* once when the leader has exited, waits for no other process than the leader, and
\* gives up on that after FORCE_KILL_REAP_TIMEOUT.
Terminated(s) ==
    \/ proc[s] # "headless" /\ proc' = [proc EXCEPT ![s] = "none"]
    \/ proc[s] # "exited" /\ proc' = [proc EXCEPT ![s] = "left"]

-----------------------------------------------------------------------------
(* spawn_service_and_wait_ready.                                           *)

\* Bug variant: the attempt is not counted.
NotCounted(s) == UNCHANGED <<attempts, retry>>

\* spawn_due_restarts counts the attempt before it spawns.
Counted(s) ==
    IF mode = "restart"
    THEN /\ attempts' = [attempts EXCEPT ![s] = @ + 1]
         /\ retry' = [retry EXCEPT ![s] = None]
    ELSE UNCHANGED <<attempts, retry>>

Spawn(s) ==
    /\ Spawning /\ waiting = None /\ Turn(s)
    /\ Counted(s)
    /\ proc' = [proc EXCEPT ![s] = "booting"]
    /\ waiting' = s
    /\ UNCHANGED <<mode, slept, todo, children, uptime, changed, forsaken>>

\* Bug variant: one attempt too many.
MayRetryOnceMore(n) == n <= MaxAttempts

\* The restart budget.
MayRetry(n) == n < MaxAttempts

\* A spawn fails after `n' attempts at an automatic restart.
Failed(s, n) ==
    \/ /\ mode = "start"
       /\ Enter("abort", children)
       /\ UNCHANGED <<attempts, retry, forsaken>>
    \/ /\ mode = "restart"
       /\ attempts' = [attempts EXCEPT ![s] = n]
       /\ retry' = [retry EXCEPT ![s] = IF MayRetry(n) THEN Backoff ELSE None]
       /\ Finished(s, "select")
       /\ UNCHANGED forsaken
    \/ /\ mode = "watchStart"
       /\ forsaken' = forsaken \cup {s}
       /\ Finished(s, "select")
       /\ UNCHANGED <<attempts, retry>>

\* Bug variant: the error of a spawn is dropped.
SpawnErrorDropped(s) ==
    /\ Spawning /\ waiting = None /\ Turn(s)
    /\ Counted(s)
    /\ Finished(s, "select")
    /\ UNCHANGED <<proc, children, uptime, changed, forsaken>>

\* The command cannot be run.
SpawnFails(s) ==
    /\ Spawning /\ waiting = None /\ Turn(s)
    /\ Failed(s, attempts[s] + 1)
    /\ UNCHANGED <<proc, children, uptime, changed>>

\* Bug variant: a service that never became ready is left running.
NotReadyLeftRunning(s) ==
    /\ waiting = s
    /\ Failed(s, attempts[s])
    /\ UNCHANGED <<proc, children, uptime, changed>>

\* It exited or stayed unhealthy until its retries or its deadline were used up,
\* and is terminated.
NotReady(s) ==
    /\ waiting = s
    /\ Terminated(s)
    /\ Failed(s, attempts[s])
    /\ UNCHANGED <<children, uptime, changed>>

\* Bug variant: the restart that was scheduled is not called off.
ReadyKeepingRetry(s) ==
    /\ waiting = s /\ proc[s] = "booting"
    /\ proc' = [proc EXCEPT ![s] = "up"]
    /\ children' = children \cup {s}
    /\ uptime' = [uptime EXCEPT ![s] = 0]
    /\ attempts' = IF mode = "restart" THEN attempts ELSE [attempts EXCEPT ![s] = 0]
    /\ forsaken' = forsaken \ {s}
    /\ Finished(s, "select")
    /\ UNCHANGED <<retry, changed>>

Ready(s) ==
    /\ waiting = s /\ proc[s] = "booting"
    /\ proc' = [proc EXCEPT ![s] = "up"]
    /\ children' = children \cup {s}
    /\ uptime' = [uptime EXCEPT ![s] = 0]
    /\ retry' = [retry EXCEPT ![s] = None]
    /\ attempts' = IF mode = "restart" THEN attempts ELSE [attempts EXCEPT ![s] = 0]
    /\ forsaken' = forsaken \ {s}
    /\ Finished(s, "select")
    /\ UNCHANGED changed

-----------------------------------------------------------------------------
(* The select loop.                                                        *)

Exited == {s \in children : proc[s] \in {"exited", "headless"}}

\* The attempts of a service that has exited: a stable one gets its budget back.
Spent(s) == IF attempts[s] > 0 /\ uptime[s] >= Stable THEN 0 ELSE attempts[s]

\* The supervision tick, once nothing has interrupted select! for its length:
\* reap_exited_children, then the services whose backoff has elapsed.
Supervise ==
    /\ mode = "select" /\ slept
    /\ children' = children \ Exited
    /\ proc' = [s \in Service |->
                   IF s \notin Exited THEN proc[s]
                   ELSE IF proc[s] = "exited" THEN "none" ELSE "left"]
    /\ attempts' = [s \in Service |-> IF s \in Exited THEN Spent(s) ELSE attempts[s]]
    /\ retry' = [s \in Service |->
                    IF s \notin Exited THEN retry[s]
                    ELSE IF s \in RestartOnExit /\ MayRetry(Spent(s)) THEN Backoff ELSE None]
    /\ LET due == {s \in Service \ children' : retry'[s] = 0}
       IN  Enter(IF due = {} THEN "select" ELSE "restart", due)
    /\ UNCHANGED <<uptime, changed, forsaken>>

\* A source file changed; after settle_ms the restart follows.
SourceChanges ==
    /\ mode = "select"
    /\ changed' = TRUE
    /\ slept' = FALSE
    /\ UNCHANGED <<mode, todo, waiting, proc, children, supervision, forsaken>>

\* The watcher reports an error, or a path that is no source.
IgnoredEvent ==
    /\ mode = "select"
    /\ slept' = FALSE
    /\ UNCHANGED <<mode, todo, waiting, proc, children, supervision, changed, forsaken>>

WatcherEvent == SourceChanges \/ IgnoredEvent

\* Bug variant: the watched services are started without being stopped.
WatchRestartOnTop ==
    /\ mode = "select" /\ changed
    /\ changed' = FALSE
    /\ Enter(IF Watched = {} THEN "select" ELSE "watchStart", Watched)
    /\ UNCHANGED <<proc, children, supervision, forsaken>>

\* restart_watched_services: the watched children are stopped, then all watched
\* services are started.
WatchRestart ==
    /\ mode = "select" /\ changed
    /\ changed' = FALSE
    /\ IF Watched = {} THEN Enter("select", {})
       ELSE IF Watched \cap children = {} THEN Enter("watchStart", Watched)
       ELSE Enter("watchStop", Watched \cap children)
    /\ UNCHANGED <<proc, children, supervision, forsaken>>

\* The next service of restart_watched_services or shutdown_children.
Terminate(s) ==
    /\ Stopping /\ Turn(s)
    /\ Terminated(s)
    /\ IF ShuttingDown THEN Enter(mode, todo \ {s}) /\ UNCHANGED children
       ELSE /\ children' = children \ {s}
            /\ IF todo = {s} THEN Enter("watchStart", Watched)
               ELSE Enter("watchStop", todo \ {s})
    /\ UNCHANGED <<supervision, changed, forsaken>>

\* A shutdown signal that arrives while select! listens for it.
Shutdown ==
    /\ mode = "select"
    /\ Enter("stop", children)
    /\ UNCHANGED <<proc, children, supervision, changed, forsaken>>

\* Bug variant: the handles are dropped with services still running.
StoppedEarly ==
    /\ ShuttingDown
    /\ Enter("done", {})
    /\ children' = {}
    /\ UNCHANGED <<proc, supervision, changed, forsaken>>

Stopped ==
    /\ ShuttingDown /\ todo = {}
    /\ Enter("done", {})
    /\ children' = {}
    /\ UNCHANGED <<proc, supervision, changed, forsaken>>

-----------------------------------------------------------------------------
(* The environment.                                                        *)

\* A signal before the first select!, in the stop that follows a failed startup too,
\* finds no handler installed and ends the orchestrator.
Kill ==
    /\ mode \in {"start", "abort"}
    /\ Enter("killed", {})
    /\ UNCHANGED <<proc, children, supervision, changed, forsaken>>

\* The leader of a process exits, with the rest of its group or before it; then the
\* rest ends as well.
Exit(s) ==
    /\ \/ proc[s] \in {"booting", "up"} /\ \E end \in {"exited", "headless"} : proc' = [proc EXCEPT ![s] = end]
       \/ proc[s] = "headless" /\ proc' = [proc EXCEPT ![s] = "exited"]
       \/ proc[s] = "left" /\ proc' = [proc EXCEPT ![s] = "none"]
    /\ UNCHANGED <<mode, slept, todo, waiting, children, supervision, changed, forsaken>>

Tick ==
    /\ slept' = (mode = "select")
    /\ uptime' = [s \in Service |-> IF uptime[s] < Stable THEN uptime[s] + 1 ELSE Stable]
    /\ retry' = [s \in Service |-> IF retry[s] \in {None, 0} THEN retry[s] ELSE retry[s] - 1]
    /\ UNCHANGED <<mode, todo, waiting, proc, children, attempts, changed, forsaken>>

Init ==
    /\ mode = (IF Service = {} THEN "select" ELSE "start")
    /\ todo = Service /\ waiting = None /\ slept = FALSE
    /\ proc = [s \in Service |-> "none"]
    /\ children = {}
    /\ attempts = [s \in Service |-> 0]
    /\ uptime = [s \in Service |-> 0]
    /\ retry = [s \in Service |-> None]
    /\ changed = FALSE
    /\ forsaken = {}

Working ==
    \/ \E s \in Service : Spawn(s) \/ SpawnFails(s) \/ NotReady(s) \/ Ready(s) \/ Terminate(s)
    \/ Stopped

Next ==
    \/ Working
    \/ Supervise \/ WatcherEvent \/ WatchRestart \/ Shutdown
    \/ Kill \/ Tick
    \/ \E s \in Service : Exit(s)

\* Readiness waits and terminations are bounded in time, time passes, and a sleep of
\* select! that has elapsed is answered unless another branch is taken first.
Spec == Init /\ [][Next]_vars /\ WF_vars(Working) /\ WF_vars(Supervise) /\ WF_vars(Tick)

-----------------------------------------------------------------------------
(* Properties.                                                             *)

Modes == {"start", "select", "restart", "watchStop", "watchStart", "stop", "abort", "done", "killed"}
Processes == {"none", "booting", "up", "exited", "headless", "left"}

TypeOK ==
    /\ mode \in Modes /\ slept \in BOOLEAN
    /\ todo \subseteq Service /\ waiting \in Service \cup {None}
    /\ proc \in [Service -> Processes]
    /\ children \subseteq Service /\ forsaken \subseteq Service
    /\ attempts \in [Service -> 0 .. MaxAttempts]
    /\ uptime \in [Service -> 0 .. Stable]
    /\ retry \in [Service -> 0 .. Backoff \cup {None}]
    /\ changed \in BOOLEAN

\* Done with: a process that has ended, or one that terminate_child has returned
\* from, or whose leader was reaped, with some of the group still running.
Over == {"none", "left"}

\* Unless a signal killed the orchestrator, every process is accounted for: it is
\* one whose handle the map holds or the one whose readiness is awaited, so that
\* shutdown reaches it, or one that was terminated or reaped before it was dropped.
NoOrphans ==
    mode # "killed" =>
        \A s \in Service : proc[s] \notin Over => s \in children \/ s = waiting

\* A spawn never starts a second process (on the same port) beside one that has not
\* been terminated or reaped.
SpawnsOnce == [][\A s \in Service : Spawn(s) => proc[s] \in Over]_vars

\* A scheduled restart belongs to a service that is down and has attempts left;
\* the budget is never overdrawn, whatever mix of crashes, failed restarts and
\* watch restarts led here.
RetryWithinBudget ==
    \A s \in Service : retry[s] # None =>
        /\ s \in RestartOnExit /\ s \notin children
        /\ attempts[s] < MaxAttempts

\* A service that policy restarts is up, waiting out its backoff, or out of
\* attempts, except one whose watch restart failed.
NoServiceForgotten ==
    mode = "select" => \A s \in RestartOnExit \ forsaken :
        s \in children \/ retry[s] # None \/ attempts[s] = MaxAttempts

\* shutdown_children and restart_watched_services stop "in reverse dependency
\* order so a dependency outlives everything that talks to it": whoever depends on
\* the service has been terminated or reaped before.
DependencyOutlives ==
    [][\A s \in Service : Terminate(s) =>
         \A t \in Service : (s \in DependsOn[t] /\ (ShuttingDown \/ t \in Watched))
            => proc[t] \in Over]_vars

\* A crashed service with attempts left is tried again, however many others
\* crash, unless the orchestrator goes down first or the watcher keeps reporting
\* events, each of which makes select! begin its sleep anew.
RestartFollows ==
    <>[][~WatcherEvent]_vars =>
        \A s \in Service : (retry[s] # None) ~> (retry[s] = None \/ mode \in {"done", "killed"})

\* A shutdown that has begun ends, with every process terminated; only the stop after a
\* failed startup may be killed by a signal.
ShutdownCompletes ==
    LET Completed == mode = "done" /\ \A s \in Service : proc[s] \in Over
    IN  /\ (mode = "stop") ~> Completed
        /\ (mode = "abort") ~> (Completed \/ mode = "killed")

-----------------------------------------------------------------------------
(* What the comments of process_runtime.rs say, for the run that refutes   *)
(* it.                                                                     *)

\* ServiceSupervision.retry_at: "None means the service is running, or its budget
\* is spent and it has been given up on".
NoneMeansRunningOrSpent ==
    mode = "select" => \A s \in RestartOnExit :
        retry[s] = None => s \in children \/ attempts[s] = MaxAttempts
=============================================================================
