-------------------------- MODULE SupervisorProofs ---------------------------
(***************************************************************************)
(* The supervisor's safety for any services, any dependencies among them   *)
(* and any restart budget.                                                 *)
(*                                                                         *)
(* What the supervisor knows of its processes is spread over `children',   *)
(* `waiting' and the list it is working on.  TodoSound says how the three  *)
(* agree in each mode; the rest follows from it.                           *)
(***************************************************************************)
EXTENDS Supervisor, TLAPS

\* What each mode's list holds: services without a handle to start, those with
\* one to stop, and all processes not done with once a shutdown has begun.
TodoSound ==
    /\ waiting # None => Spawning /\ waiting \in todo
    /\ Spawning => todo \cap children = {}
    /\ mode = "watchStop" => todo = Watched \cap children
    /\ ShuttingDown => \A s \in Service : proc[s] \notin Over => s \in todo

\* The services due for a restart are ones that policy restarts, and keep their
\* retry_at until they are attempted.
DueScheduled ==
    mode = "restart" =>
        todo \subseteq RestartOnExit /\ \A s \in todo \ {waiting} : retry[s] # None

\* NoServiceForgotten, in the middle of the lists as well.
Accounted ==
    Spawning \/ mode \in {"select", "watchStop"} =>
        \A s \in RestartOnExit \ forsaken :
            \/ s \in children
            \/ retry[s] # None
            \/ attempts[s] = MaxAttempts
            \/ Spawning /\ s \in todo
            \/ mode = "watchStop" /\ s \in Watched

IInv ==
    /\ TypeOK
    /\ TodoSound
    /\ NoOrphans
    /\ DueScheduled
    /\ RetryWithinBudget
    /\ Accounted

-----------------------------------------------------------------------------

\* The state in which run_supervisor starts satisfies the invariant.
LEMMA InitInvariant == Init => IInv
<1> SUFFICES ASSUME Init PROVE IInv
    OBVIOUS
<1> USE SupervisorAssumption DEF Init
<1>1. TypeOK
    <2>1. mode \in Modes /\ proc \in [Service -> Processes]
        BY DEF Modes, Processes
    <2>2. /\ attempts \in [Service -> 0 .. MaxAttempts]
          /\ uptime \in [Service -> 0 .. Stable]
          /\ retry \in [Service -> 0 .. Backoff \cup {None}]
        OBVIOUS
    <2> QED
        BY <2>1, <2>2 DEF TypeOK
<1>2. TodoSound /\ NoOrphans
    BY DEF TodoSound, NoOrphans, Spawning, ShuttingDown, Over
<1>3. DueScheduled /\ RetryWithinBudget
    BY DEF DueScheduled, RetryWithinBudget
<1>4. Accounted
    BY DEF Accounted, Spawning
<1> QED
    BY <1>1, <1>2, <1>3, <1>4 DEF IInv

\* spawn_service starts a process for a service that has none, and counts the
\* attempt if it is an automatic restart.
LEMMA SpawnStep ==
    ASSUME IInv, NEW s \in Service, Spawn(s)
    PROVE  IInv'
<1> USE SupervisorAssumption DEF IInv, Over, Stopping, ShuttingDown, Spawn, Counted, Turn
<1>1. mode = "restart" => attempts[s] < MaxAttempts
    BY DEF DueScheduled, RetryWithinBudget, TypeOK
<1>2. TypeOK'
    <2>1. mode' \in Modes /\ slept' \in BOOLEAN
        BY DEF TypeOK, Modes, Spawning
    <2>2. proc' \in [Service -> Processes]
        BY DEF TypeOK, Processes
    <2> QED
        BY <1>1, <2>1, <2>2 DEF TypeOK, Spawning
<1>3. TodoSound'
    BY DEF TodoSound, Spawning
<1>4. NoOrphans'
    BY DEF NoOrphans, Spawning, TypeOK
<1>5. DueScheduled'
    BY DEF DueScheduled, Spawning, TypeOK
<1>6. RetryWithinBudget'
    BY DEF RetryWithinBudget, Spawning, TypeOK
<1>7. Accounted'
    BY DEF Accounted, Spawning, TypeOK
<1> QED
    BY <1>2, <1>3, <1>4, <1>5, <1>6, <1>7

\* A command that cannot be run ends the startup, uses up an attempt, or is given up
\* on by a watch restart.
LEMMA SpawnFailsStep ==
    ASSUME IInv, NEW s \in Service, SpawnFails(s)
    PROVE  IInv'
<1> USE SupervisorAssumption DEF IInv, Over, Stopping, ShuttingDown, SpawnFails, Failed, Finished, Enter, MayRetry, Turn
<1>1. mode = "restart" => attempts[s] < MaxAttempts
    BY DEF DueScheduled, RetryWithinBudget, TypeOK
<1>2. TypeOK'
    <2>1. mode' \in Modes /\ slept' \in BOOLEAN
        BY DEF TypeOK, Modes, Spawning
    <2>2. proc' \in [Service -> Processes]
        BY DEF TypeOK, Processes
    <2> QED
        BY <1>1, <2>1, <2>2 DEF TypeOK, Spawning
<1>3. TodoSound'
    BY DEF TodoSound, NoOrphans, Spawning, TypeOK
<1>4. NoOrphans'
    BY DEF NoOrphans, TodoSound, Spawning, TypeOK
<1>5. DueScheduled'
    BY DEF DueScheduled, TodoSound, Spawning, TypeOK
<1>6. RetryWithinBudget'
    BY <1>1 DEF RetryWithinBudget, DueScheduled, TodoSound, Spawning, TypeOK
<1>7. Accounted'
    BY <1>1 DEF Accounted, TodoSound, Spawning, TypeOK
<1> QED
    BY <1>2, <1>3, <1>4, <1>5, <1>6, <1>7

\* The same of a process that did not become ready and was terminated.
LEMMA NotReadyStep ==
    ASSUME IInv, NEW s \in Service, NotReady(s)
    PROVE  IInv'
<1> USE SupervisorAssumption DEF IInv, Over, Stopping, ShuttingDown, Terminated, NotReady, Failed, Finished, Enter, MayRetry
<1>2. TypeOK'
    <2>1. mode' \in Modes /\ slept' \in BOOLEAN
        BY DEF TypeOK, Modes, Spawning
    <2>2. proc' \in [Service -> Processes]
        BY DEF TypeOK, Processes
    <2> QED
        BY <2>1, <2>2 DEF TypeOK, Spawning
<1>3. TodoSound'
    BY DEF TodoSound, NoOrphans, Spawning, TypeOK
<1>4. NoOrphans'
    BY DEF NoOrphans, TodoSound, Spawning, TypeOK
<1>5. DueScheduled'
    BY DEF DueScheduled, TodoSound, Spawning, TypeOK
<1>6. RetryWithinBudget'
    BY DEF RetryWithinBudget, DueScheduled, TodoSound, Spawning, TypeOK
<1>7. Accounted'
    BY DEF Accounted, TodoSound, Spawning, TypeOK
<1> QED
    BY <1>2, <1>3, <1>4, <1>5, <1>6, <1>7

\* A process that became ready has a handle and no restart scheduled.
LEMMA ReadyStep ==
    ASSUME IInv, NEW s \in Service, Ready(s)
    PROVE  IInv'
<1> USE SupervisorAssumption DEF IInv, Over, Stopping, ShuttingDown, Ready, Finished, Enter
<1>2. TypeOK'
    <2>1. mode' \in Modes /\ slept' \in BOOLEAN
        BY DEF TypeOK, Modes, Spawning
    <2>2. proc' \in [Service -> Processes]
        BY DEF TypeOK, Processes
    <2> QED
        BY <2>1, <2>2 DEF TypeOK, Spawning
<1>3. TodoSound'
    BY DEF TodoSound, NoOrphans, Spawning, TypeOK
<1>4. NoOrphans'
    BY DEF NoOrphans, TodoSound, Spawning, TypeOK
<1>5. DueScheduled'
    BY DEF DueScheduled, TodoSound, Spawning, TypeOK
<1>6. RetryWithinBudget'
    BY DEF RetryWithinBudget, Spawning, TypeOK
<1>7. Accounted'
    BY DEF Accounted, TodoSound, Spawning, TypeOK
<1> QED
    BY <1>2, <1>3, <1>4, <1>5, <1>6, <1>7

\* Reaping takes the handles of exited processes, and schedules a restart or gives up.
LEMMA SuperviseStep ==
    ASSUME IInv, Supervise
    PROVE  IInv'
<1> USE SupervisorAssumption DEF IInv, Over, Stopping, ShuttingDown, Supervise, Exited, Spent, Enter, MayRetry
<1>2. TypeOK'
    <2>1. mode' \in Modes /\ slept' \in BOOLEAN
        BY DEF TypeOK, Modes, Spawning
    <2>2. proc' \in [Service -> Processes]
        BY DEF TypeOK, Processes
    <2>3. attempts' \in [Service -> 0 .. MaxAttempts] /\ retry' \in [Service -> 0 .. Backoff \cup {None}]
        BY DEF TypeOK
    <2>4. todo' \subseteq Service /\ waiting' = None /\ children' \subseteq Service
        BY DEF TypeOK
    <2>5. UNCHANGED <<uptime, changed, forsaken>>
        OBVIOUS
    <2> HIDE DEF Supervise, Exited, Spent, Enter, MayRetry
    <2> QED
        BY <2>1, <2>2, <2>3, <2>4, <2>5 DEF TypeOK
<1>3. TodoSound'
    BY DEF TodoSound, NoOrphans, Spawning, TypeOK
<1>4. NoOrphans'
    BY DEF NoOrphans, TodoSound, Spawning, TypeOK
<1>5. RetryWithinBudget'
    BY DEF RetryWithinBudget, Spawning, TypeOK
<1>6. DueScheduled'
    BY <1>5 DEF DueScheduled, RetryWithinBudget, TodoSound, Spawning, TypeOK
<1>7. Accounted'
    <2>1. ASSUME NEW s \in RestartOnExit \ forsaken
          PROVE  s \in children' \/ retry'[s] # None \/ attempts'[s] = MaxAttempts
        <3>1. s \in Service
            BY DEF TypeOK
        <3>2. CASE s \in Exited
            BY <3>1, <3>2 DEF TypeOK
        <3>3. CASE s \notin Exited
            <4> HIDE DEF Exited, Enter
            <4>1. s \in children \/ retry[s] # None \/ attempts[s] = MaxAttempts
                BY DEF Accounted, Spawning
            <4> QED
                BY <3>1, <3>3, <4>1
        <3> QED
            BY <3>2, <3>3
    <2>2. forsaken' = forsaken
        OBVIOUS
    <2> QED
        BY <2>1, <2>2 DEF Accounted
<1> QED
    BY <1>2, <1>3, <1>4, <1>5, <1>6, <1>7

\* A watch restart begins with the watched services that run, if any.
LEMMA WatchRestartStep ==
    ASSUME IInv, WatchRestart
    PROVE  IInv'
<1> USE SupervisorAssumption DEF IInv, Over, Stopping, ShuttingDown, WatchRestart, Enter, supervision
<1>2. TypeOK'
    <2>1. mode' \in Modes /\ slept' \in BOOLEAN
        BY DEF TypeOK, Modes, Spawning
    <2>2. proc' \in [Service -> Processes]
        BY DEF TypeOK, Processes
    <2>3. todo' \subseteq Service /\ waiting' = None /\ changed' = FALSE
        BY DEF TypeOK
    <2>4. UNCHANGED <<children, attempts, uptime, retry, forsaken>>
        OBVIOUS
    <2> HIDE DEF WatchRestart, Enter
    <2> QED
        BY <2>1, <2>2, <2>3, <2>4 DEF TypeOK
<1>3. TodoSound'
    BY DEF TodoSound, NoOrphans, Spawning, TypeOK
<1>4. NoOrphans'
    BY DEF NoOrphans, TodoSound, Spawning, TypeOK
<1>5. DueScheduled'
    BY DEF DueScheduled, TodoSound, Spawning, TypeOK
<1>6. RetryWithinBudget'
    BY DEF RetryWithinBudget, Spawning, TypeOK
<1>7. Accounted'
    BY DEF Accounted, TodoSound, Spawning, TypeOK
<1> QED
    BY <1>2, <1>3, <1>4, <1>5, <1>6, <1>7

\* A terminated process is gone from the list; its handle stays until the shutdown ends
\* or is dropped by a watch restart.
LEMMA TerminateStep ==
    ASSUME IInv, NEW s \in Service, Terminate(s)
    PROVE  IInv'
<1> USE SupervisorAssumption DEF IInv, Over, Stopping, ShuttingDown, Terminated, Terminate, Turn, Enter, supervision
<1>2. TypeOK'
    <2>1. mode' \in Modes /\ slept' \in BOOLEAN
        BY DEF TypeOK, Modes, Spawning
    <2>2. proc' \in [Service -> Processes]
        BY DEF TypeOK, Processes
    <2> QED
        BY <2>1, <2>2 DEF TypeOK, Spawning
<1>3. TodoSound'
    BY DEF TodoSound, NoOrphans, Spawning, TypeOK
<1>4. NoOrphans'
    BY DEF NoOrphans, TodoSound, Spawning, TypeOK
<1>5. DueScheduled'
    BY DEF DueScheduled, TodoSound, Spawning, TypeOK
<1>6. RetryWithinBudget'
    BY DEF RetryWithinBudget, Spawning, TypeOK
<1>7. Accounted'
    BY DEF Accounted, TodoSound, Spawning, TypeOK
<1> QED
    BY <1>2, <1>3, <1>4, <1>5, <1>6, <1>7

\* A shutdown begins with every handle there is and ends when all are treated.
LEMMA EndsStep ==
    ASSUME IInv, Shutdown \/ Stopped \/ Kill
    PROVE  IInv'
<1> USE SupervisorAssumption DEF IInv, Over, Stopping, ShuttingDown, Shutdown, Stopped, Kill, Enter, supervision
<1>2. TypeOK'
    <2>1. mode' \in Modes /\ slept' \in BOOLEAN
        BY DEF TypeOK, Modes, Spawning
    <2>2. proc' \in [Service -> Processes]
        BY DEF TypeOK, Processes
    <2> QED
        BY <2>1, <2>2 DEF TypeOK, Spawning
<1>3. TodoSound'
    BY DEF TodoSound, NoOrphans, Spawning, TypeOK
<1>4. NoOrphans'
    BY DEF NoOrphans, TodoSound, Spawning, TypeOK
<1>5. DueScheduled'
    BY DEF DueScheduled, TodoSound, Spawning, TypeOK
<1>6. RetryWithinBudget'
    BY DEF RetryWithinBudget, Spawning, TypeOK
<1>7. Accounted'
    BY DEF Accounted, TodoSound, Spawning, TypeOK
<1> QED
    BY <1>2, <1>3, <1>4, <1>5, <1>6, <1>7

\* Processes exit, files change and time passes in any mode.
LEMMA EnvironmentStep ==
    ASSUME IInv, WatcherEvent \/ Tick \/ (\E s \in Service : Exit(s)) \/ UNCHANGED vars
    PROVE  IInv'
<1> USE SupervisorAssumption DEF IInv, Over, Stopping, ShuttingDown, WatcherEvent, SourceChanges, IgnoredEvent, Tick, Exit, supervision, vars
<1>1. ASSUME Tick PROVE TypeOK'
    <2>1. \A n \in 0 .. Backoff \ {0} : n - 1 \in 0 .. Backoff
        BY <1>1
    <2>2. \A n \in 0 .. Stable : n < Stable => n + 1 \in 0 .. Stable
        BY <1>1
    <2>3. retry' \in [Service -> 0 .. Backoff \cup {None}]
        BY <1>1, <2>1 DEF TypeOK
    <2>4. uptime' \in [Service -> 0 .. Stable]
        BY <1>1, <2>2 DEF TypeOK
    <2> QED
        BY <1>1, <2>3, <2>4 DEF TypeOK
<1>2. TypeOK'
    <2>1. CASE WatcherEvent
        <3>1. slept' = FALSE /\ changed' \in BOOLEAN
            BY <2>1 DEF TypeOK
        <3>2. UNCHANGED <<mode, todo, waiting, proc, children, attempts, uptime, retry, forsaken>>
            BY <2>1
        <3> HIDE DEF WatcherEvent, Exit, Tick
        <3> QED
            BY <3>1, <3>2 DEF TypeOK
    <2>2. CASE \E s \in Service : Exit(s)
        <3>1. proc' \in [Service -> Processes]
            BY <2>2 DEF TypeOK, Processes
        <3> QED
            BY <2>2, <3>1 DEF TypeOK
    <2>3. CASE UNCHANGED vars
        BY <2>3 DEF TypeOK
    <2> QED
        BY <1>1, <2>1, <2>2, <2>3
<1>3. TodoSound'
    BY DEF TodoSound, NoOrphans, Spawning, TypeOK
<1>4. NoOrphans'
    BY DEF NoOrphans, TodoSound, Spawning, TypeOK
<1>5. DueScheduled'
    BY DEF DueScheduled, TodoSound, Spawning, TypeOK
<1>6. RetryWithinBudget'
    BY DEF RetryWithinBudget, Spawning, TypeOK
<1>7. Accounted'
    BY DEF Accounted, TodoSound, Spawning, TypeOK
<1> QED
    BY <1>2, <1>3, <1>4, <1>5, <1>6, <1>7

-----------------------------------------------------------------------------

\* Every step of the supervisor or of its environment keeps the invariant.
LEMMA NextInvariant == IInv /\ [Next]_vars => IInv'
<1> SUFFICES ASSUME IInv, [Next]_vars PROVE IInv'
    OBVIOUS
<1>1. CASE Working
    <2>1. CASE Stopped
        BY <2>1, EndsStep
    <2>2. ASSUME NEW s \in Service,
                 Spawn(s) \/ SpawnFails(s) \/ NotReady(s) \/ Ready(s) \/ Terminate(s)
          PROVE  IInv'
        BY <2>2, SpawnStep, SpawnFailsStep, NotReadyStep, ReadyStep, TerminateStep
    <2> QED
        BY <1>1, <2>1, <2>2 DEF Working
<1>2. CASE Supervise
    BY <1>2, SuperviseStep
<1>3. CASE WatchRestart
    BY <1>3, WatchRestartStep
<1>4. CASE Shutdown \/ Kill
    BY <1>4, EndsStep
<1>5. CASE WatcherEvent \/ Tick \/ (\E s \in Service : Exit(s)) \/ UNCHANGED vars
    BY <1>5, EnvironmentStep
<1> QED
    BY <1>1, <1>2, <1>3, <1>4, <1>5 DEF Next

\* The supervisor keeps its lists, handles, processes and budgets in agreement, for
\* any services: what the theorems below read off.
THEOREM SupervisorInvariant == Spec => []IInv
BY InitInvariant, NextInvariant, PTL DEF Spec

\* Every variable of the supervisor has its type in every reachable state; the
\* attempts never exceed max_restart_attempts.
THEOREM SupervisorTypeCorrect == Spec => []TypeOK
<1>1. IInv => TypeOK
    BY DEF IInv
<1> QED
    BY <1>1, SupervisorInvariant, PTL

\* No process escapes the supervisor: each has a handle, is awaited, or was terminated
\* or reaped, unless a signal killed the orchestrator.
THEOREM SupervisorNoOrphans == Spec => []NoOrphans
<1>1. IInv => NoOrphans
    BY DEF IInv
<1> QED
    BY <1>1, SupervisorInvariant, PTL

\* A scheduled restart is within the budget of a service that is down.
THEOREM SupervisorRetryWithinBudget == Spec => []RetryWithinBudget
<1>1. IInv => RetryWithinBudget
    BY DEF IInv
<1> QED
    BY <1>1, SupervisorInvariant, PTL

\* Between its lists the supervisor has no service that it should restart and
\* has lost sight of, save after a failed watch restart.
THEOREM SupervisorForgetsNone == Spec => []NoServiceForgotten
<1>1. IInv => NoServiceForgotten
    BY DEF IInv, Accounted, NoServiceForgotten, Spawning
<1> QED
    BY <1>1, SupervisorInvariant, PTL

\* spawn_service is only ever called for a service whose processes are done with.
THEOREM SupervisorSpawnsOnce == Spec => SpawnsOnce
<1>1. ASSUME IInv, NEW s \in Service, Spawn(s)
      PROVE  proc[s] \in Over
    BY <1>1, SupervisorAssumption DEF IInv, TodoSound, NoOrphans, Spawn, Turn, Spawning
<1>2. IInv /\ [Next]_vars => [\A s \in Service : Spawn(s) => proc[s] \in Over]_vars
    BY <1>1
<1> QED
    BY <1>2, SupervisorInvariant, PTL DEF Spec, SpawnsOnce

\* terminate_child is only ever called for a service when all that depends on it, among
\* what is being stopped, has been terminated or reaped.
THEOREM SupervisorDependencyOutlives == Spec => DependencyOutlives
<1> DEFINE Dependents(s) ==
        \A t \in Service : (s \in DependsOn[t] /\ (ShuttingDown \/ t \in Watched))
            => proc[t] \in Over
<1>1. ASSUME IInv, NEW s \in Service, Terminate(s)
      PROVE  Dependents(s)
    <2> SUFFICES ASSUME NEW t \in Service, s \in DependsOn[t], ShuttingDown \/ t \in Watched,
                        proc[t] \notin Over
                 PROVE  FALSE
        OBVIOUS
    <2>1. Precedes(s, t) /\ ~Precedes(t, s)
        BY SupervisorAssumption
    <2>2. Stopping /\ \A x \in todo \ {s} : Precedes(x, s)
        BY <1>1 DEF Terminate, Turn
    <2>3. t \in todo
        BY <1>1, <2>2, SupervisorAssumption
        DEF IInv, TodoSound, NoOrphans, Spawning, Stopping, ShuttingDown
    <2> QED
        BY <2>1, <2>2, <2>3, SupervisorAssumption
<1>2. IInv /\ [Next]_vars => [\A s \in Service : Terminate(s) => Dependents(s)]_vars
    BY <1>1
<1> QED
    BY <1>2, SupervisorInvariant, PTL DEF Spec, DependencyOutlives
=============================================================================
