----------------------------- MODULE Migrations -----------------------------
(***************************************************************************)
(* Schema migrations of services that share one Postgres database:         *)
(* krab_core's db/postgres.rs and the boot sequence of the users service   *)
(* (db/migrations.rs).  A replica connects, passes the promotion and the   *)
(* governance policy, takes the session-level advisory lock on a           *)
(* connection of its own, applies the versions that are not on record,     *)
(* each in a transaction that also writes its row, releases the lock and   *)
(* reports drift.  An operator's rollback takes the same lock.             *)
(*                                                                         *)
(* Every statement is a step of its own: replicas interleave between any   *)
(* two of them.  Faults: a statement fails; a commit succeeds and its      *)
(* answer is lost; a replica crashes; the connection that holds the lock   *)
(* dies while the replica goes on.                                         *)
(*                                                                         *)
(* A migration's SQL is opaque.  schema[v] counts how often the forward    *)
(* SQL of v has been committed less how often its rollback SQL has been.   *)
(* All replicas carry the same compiled migrations.  The ownership table   *)
(* is written and never read, and is left out.                             *)
(***************************************************************************)
EXTENDS Integers, FiniteSets

CONSTANTS
    Migrators,       \* processes that boot or roll back
    Versions,        \* versions that may be on record
    Compiled,        \* versions the release carries
    Critical,        \* ... whose failure always stops a run
    Destructive,     \* ... that may lose data
    Reversible,      \* ... that have rollback_sql
    PolicyOf,        \* a migrator's failure policy, "halt" or "continue"
    EnvOf,           \* a migrator's environment: a rung of the ladder, or OffLadder
    ReleaseStages,   \* rungs that are release environments
    RequireRehearsal,\* whether a release needs a rehearsed rollback
    ConnectRetries,  \* attempts to connect
    StartRows,       \* what krab_migrations may hold at first
    StartStages,     \* what krab_migration_environment may hold at first
    MaxRuns          \* bound: boots and rollbacks in a behaviour

\* PROMOTION_LADDER: local, dev, staging, prod
Ladder == 1..4
NoStage == 0
OffLadder == -1

\* What a row's checksum is, compared with the compiled SQL.
NoRow == "none"
RowStates == {NoRow, "current", "legacy", "mismatch"}

NoHolder == "nobody"

ASSUME MigrationsAssumption ==
    /\ Versions \subseteq Int
    /\ IsFiniteSet(Versions)
    /\ Compiled \subseteq Versions
    /\ Critical \subseteq Compiled
    /\ Destructive \subseteq Compiled
    /\ Reversible \subseteq Compiled
    /\ PolicyOf \in [Migrators -> {"halt", "continue"}]
    /\ EnvOf \in [Migrators -> Ladder \cup {OffLadder}]
    /\ ReleaseStages \subseteq Ladder
    /\ RequireRehearsal \in BOOLEAN
    /\ ConnectRetries \in Nat
    /\ StartRows \subseteq [Versions -> RowStates]
    /\ StartStages \subseteq Ladder \cup {NoStage, OffLadder}
    /\ MaxRuns \in Nat
    /\ NoHolder \notin Migrators

VARIABLES
    ledger,      \* whether the table krab_migrations exists
    rows,        \* krab_migrations
    schema,      \* net committed runs of a version's SQL
    lock,        \* the session that holds the advisory lock
    stage,       \* latest row of krab_migration_environment
    rehearsed,   \* a successful rehearsal is on record
    audit,       \* decisions in krab_migration_policy_audit
    pc,          \* next statement of a migrator
    todo,        \* versions its loop has yet to visit
    attempts,    \* failed attempts to connect
    runs,        \* boots and rollbacks so far
    sessionLost, \* some lock connection died under its migrator
    undoStarted  \* some rollback has been started

database == <<ledger, rows, schema>>
policies == <<stage, rehearsed, audit>>
history == <<runs, sessionLost, undoStarted>>
vars == <<database, lock, policies, pc, todo, attempts, history>>

Unlocked == {"idle", "connect", "promote", "record", "govern", "audit", "lock",
             "undo_lock", "drift"}
Forward == {"create", "check", "sql", "commit", "release"}
Backward == {"undo_check", "undo_commit"}
Locked == Forward \cup Backward \cup {"leave"}

TypeOK ==
    /\ ledger \in BOOLEAN
    /\ rows \in [Versions -> RowStates]
    /\ schema \in [Versions -> Int]
    /\ lock \in Migrators \cup {NoHolder}
    /\ stage \in Ladder \cup {NoStage, OffLadder}
    /\ rehearsed \in BOOLEAN
    /\ audit \subseteq {"allow", "deny"}
    /\ pc \in [Migrators -> Unlocked \cup Locked]
    /\ todo \in [Migrators -> SUBSET Compiled]
    /\ attempts \in [Migrators -> Nat]
    /\ runs \in Nat
    /\ sessionLost \in BOOLEAN
    /\ undoStarted \in BOOLEAN

Recorded(v) == rows[v] # NoRow

\* A recorded version implies that every lower critical one is recorded.
CriticalPrefix ==
    \A v \in Compiled, w \in Critical : Recorded(v) /\ w < v => Recorded(w)

\* An empty database, or one that earlier releases have migrated some way.
Init ==
    /\ rows \in StartRows
    /\ CriticalPrefix
    /\ ledger \in BOOLEAN
    /\ ~ledger => \A v \in Versions : ~Recorded(v)
    /\ schema = [v \in Versions |-> IF Recorded(v) THEN 1 ELSE 0]
    /\ lock = NoHolder
    /\ stage \in StartStages
    /\ rehearsed = FALSE
    /\ audit = {}
    /\ pc = [m \in Migrators |-> "idle"]
    /\ todo = [m \in Migrators |-> {}]
    /\ attempts = [m \in Migrators |-> 0]
    /\ runs = 0
    /\ sessionLost = FALSE
    /\ undoStarted = FALSE

-----------------------------------------------------------------------------
Goto(m, label) == pc' = [pc EXCEPT ![m] = label]

\* The version a loop handles next: ascending forward, descending in a rollback.
Lowest(m, v) == v \in todo[m] /\ \A w \in todo[m] : v <= w
Highest(m, v) == v \in todo[m] /\ \A w \in todo[m] : w <= v

Visit(m, v) == todo' = [todo EXCEPT ![m] = @ \ {v}]

\* A `?` inside the locked section leaves through release_migration_lock.
Bail(m) == /\ Goto(m, "leave")
           /\ todo' = [todo EXCEPT ![m] = {}]

-----------------------------------------------------------------------------
(* A replica boots: build the pool, then run_postgres_migration_lifecycle. *)

Boot(m) ==
    /\ pc[m] = "idle"
    /\ runs < MaxRuns
    /\ runs' = runs + 1
    /\ Goto(m, "connect")
    /\ UNCHANGED <<database, lock, policies, todo, attempts, sessionLost, undoStarted>>

\* connect_with_config: a transient error is retried, the others fail fast.
Connect(m) ==
    /\ pc[m] = "connect"
    /\ \/ /\ Goto(m, "promote")
          /\ attempts' = [attempts EXCEPT ![m] = 0]
       \/ /\ attempts[m] + 1 < ConnectRetries
          /\ attempts' = [attempts EXCEPT ![m] = @ + 1]
          /\ UNCHANGED pc
       \/ /\ Goto(m, "idle")
          /\ attempts' = [attempts EXCEPT ![m] = 0]
    /\ UNCHANGED <<database, lock, policies, todo, history>>

\* promotion_stage_index of the target and of the latest record must exist.
PromotionAllowed(m) ==
    /\ EnvOf[m] \in Ladder
    /\ stage # NoStage => stage \in Ladder /\ stage <= EnvOf[m]

\* enforce_promotion_policy reads the latest record ...
Promote(m) ==
    /\ pc[m] = "promote"
    /\ Goto(m, IF ~PromotionAllowed(m) THEN "idle"
               ELSE IF stage = EnvOf[m] THEN "govern" ELSE "record")
    /\ UNCHANGED <<database, lock, policies, todo, attempts, history>>

\* ... and writes its own in a later statement.
RecordStage(m) ==
    /\ pc[m] = "record"
    /\ stage' = EnvOf[m]
    /\ Goto(m, "govern")
    /\ UNCHANGED <<database, lock, rehearsed, audit, todo, attempts, history>>

\* enforce_migration_governance: a release needs a rehearsed rollback.
Govern(m) ==
    /\ pc[m] = "govern"
    /\ Goto(m, IF EnvOf[m] \in ReleaseStages /\ RequireRehearsal /\ ~rehearsed
               THEN "idle" ELSE "audit")
    /\ UNCHANGED <<database, lock, policies, todo, attempts, history>>

\* The decision is recorded first, then a denial refuses the run.
Audit(m) ==
    /\ pc[m] = "audit"
    /\ \E decision \in {"allow", "deny"} :
        /\ audit' = audit \cup {decision}
        /\ Goto(m, IF decision = "allow" THEN "lock" ELSE "idle")
    /\ UNCHANGED <<database, lock, stage, rehearsed, todo, attempts, history>>

\* record_rollback_rehearsal, by an operator
RecordRehearsal ==
    /\ ~rehearsed
    /\ rehearsed' = TRUE
    /\ UNCHANGED <<database, lock, stage, audit, pc, todo, attempts, history>>

\* detect_migration_drift rewrites legacy checksums; its report is only logged.
DetectDrift(m) ==
    /\ pc[m] = "drift"
    /\ rows' = [v \in Versions |->
                 IF v \in Compiled /\ rows[v] = "legacy" THEN "current" ELSE rows[v]]
    /\ Goto(m, "idle")
    /\ UNCHANGED <<ledger, schema, lock, policies, todo, attempts, history>>

-----------------------------------------------------------------------------
(* The advisory lock and the two loops that run under it.                  *)

\* acquire_migration_lock blocks until the lock is free.
AcquireLock(m) ==
    /\ pc[m] \in {"lock", "undo_lock"}
    /\ lock = NoHolder
    /\ lock' = m
    /\ Goto(m, IF pc[m] = "lock" THEN "create" ELSE "undo_check")
    /\ UNCHANGED <<database, policies, todo, attempts, history>>

\* A release that returns when the unlock fails, and keeps its session open.
ReleaseLockUnlessUnlockFails(m) ==
    /\ pc[m] \in {"release", "leave"}
    /\ lock' \in {lock, NoHolder}
    /\ Goto(m, IF pc[m] = "release" THEN "drift" ELSE "idle")
    /\ UNCHANGED <<database, policies, todo, attempts, history>>

\* release_migration_lock closes the session whether or not the unlock worked.
ReleaseLock(m) ==
    /\ pc[m] \in {"release", "leave"}
    /\ lock' = IF lock = m THEN NoHolder ELSE lock
    /\ Goto(m, IF pc[m] = "release" THEN "drift" ELSE "idle")
    /\ UNCHANGED <<database, policies, todo, attempts, history>>

CreateTable(m) ==
    /\ pc[m] = "create"
    /\ ledger' = TRUE
    /\ todo' = [todo EXCEPT ![m] = Compiled]
    /\ Goto(m, "check")
    /\ UNCHANGED <<rows, schema, lock, policies, attempts, history>>

\* The loop of run_versioned_migrations_locked: refuse, skip, upgrade, fail on a
\* mismatch, or begin the version's transaction.
CheckVersion(m, v) ==
    /\ pc[m] = "check"
    /\ Lowest(m, v)
    /\ \/ /\ v \in Destructive \ Reversible \/ rows[v] = "mismatch"
          /\ Bail(m)
          /\ UNCHANGED rows
       \/ /\ v \notin Destructive \ Reversible
          /\ rows[v] \in {"current", "legacy"}
          /\ rows' = [rows EXCEPT ![v] = "current"]
          /\ Visit(m, v)
          /\ UNCHANGED pc
       \/ /\ v \notin Destructive \ Reversible
          /\ rows[v] = NoRow
          /\ Goto(m, "sql")
          /\ UNCHANGED <<rows, todo>>
    /\ UNCHANGED <<ledger, schema, lock, policies, attempts, history>>

\* The SQL runs outside the transaction: its effect is there before its row.
RunSqlUncommitted(m, v) ==
    /\ pc[m] = "sql"
    /\ Lowest(m, v)
    /\ schema' = [schema EXCEPT ![v] = @ + 1]
    /\ Goto(m, "commit")
    /\ UNCHANGED <<ledger, rows, lock, policies, todo, attempts, history>>

\* A failure is skipped under the continue policy, critical or not.
SqlFailsSkipAll(m, v) ==
    /\ pc[m] = "sql"
    /\ Lowest(m, v)
    /\ IF PolicyOf[m] = "continue"
       THEN Visit(m, v) /\ Goto(m, "check")
       ELSE Bail(m)
    /\ UNCHANGED <<database, lock, policies, attempts, history>>

\* raw_sql inside the transaction: nothing is visible before the commit.
RunSql(m, v) ==
    /\ pc[m] = "sql"
    /\ Lowest(m, v)
    /\ Goto(m, "commit")
    /\ UNCHANGED <<database, lock, policies, todo, attempts, history>>

\* The SQL fails: the transaction is rolled back and the policy decides.
SqlFails(m, v) ==
    /\ pc[m] = "sql"
    /\ Lowest(m, v)
    /\ IF PolicyOf[m] = "continue" /\ v \notin Critical
       THEN Visit(m, v) /\ Goto(m, "check")
       ELSE Bail(m)
    /\ UNCHANGED <<database, lock, policies, attempts, history>>

\* INSERT of the row and commit.  The primary key refuses a second row.  The
\* answer of a commit may be lost after it took effect.
InsertAndCommit(m, v) ==
    /\ pc[m] = "commit"
    /\ Lowest(m, v)
    /\ \/ /\ ~Recorded(v)
          /\ rows' = [rows EXCEPT ![v] = "current"]
          /\ schema' = [schema EXCEPT ![v] = @ + 1]
          /\ (Visit(m, v) /\ Goto(m, "check")) \/ Bail(m)
       \/ /\ Recorded(v)
          /\ Bail(m)
          /\ UNCHANGED <<rows, schema>>
    /\ UNCHANGED <<ledger, lock, policies, attempts, history>>

\* The loop is through: the run returns its report.
RunComplete(m) ==
    /\ pc[m] = "check"
    /\ todo[m] = {}
    /\ Goto(m, "release")
    /\ UNCHANGED <<database, lock, policies, todo, attempts, history>>

-----------------------------------------------------------------------------
(* rollback_to_version, called by an operator.                             *)

\* A rollback that does not take the lock.
StartRollbackUnlocked(m, target) ==
    /\ pc[m] = "idle"
    /\ runs < MaxRuns
    /\ runs' = runs + 1
    /\ undoStarted' = TRUE
    /\ todo' = [todo EXCEPT ![m] = {v \in Compiled : v > target}]
    /\ Goto(m, "undo_check")
    /\ UNCHANGED <<database, lock, policies, attempts, sessionLost>>

StartRollback(m, target) ==
    /\ pc[m] = "idle"
    /\ runs < MaxRuns
    /\ runs' = runs + 1
    /\ undoStarted' = TRUE
    /\ todo' = [todo EXCEPT ![m] = {v \in Compiled : v > target}]
    /\ Goto(m, "undo_lock")
    /\ UNCHANGED <<database, lock, policies, attempts, sessionLost>>

\* The SELECT fails without the table; a version that is not on record is
\* passed over; one without rollback_sql ends the rollback.
CheckUndo(m, v) ==
    /\ pc[m] = "undo_check"
    /\ Highest(m, v)
    /\ \/ /\ ledger /\ ~Recorded(v)
          /\ Visit(m, v)
          /\ UNCHANGED pc
       \/ /\ ~ledger \/ (Recorded(v) /\ v \notin Reversible)
          /\ Bail(m)
       \/ /\ ledger /\ Recorded(v) /\ v \in Reversible
          /\ Goto(m, "undo_commit")
          /\ UNCHANGED todo
    /\ UNCHANGED <<database, lock, policies, attempts, history>>

\* rollback_sql, DELETE and commit.  A DELETE that finds no row is no error.
CommitUndo(m, v) ==
    /\ pc[m] = "undo_commit"
    /\ Highest(m, v)
    /\ rows' = [rows EXCEPT ![v] = NoRow]
    /\ schema' = [schema EXCEPT ![v] = @ - 1]
    /\ (Visit(m, v) /\ Goto(m, "undo_check")) \/ Bail(m)
    /\ UNCHANGED <<ledger, lock, policies, attempts, history>>

UndoComplete(m) ==
    /\ pc[m] = "undo_check"
    /\ todo[m] = {}
    /\ Goto(m, "leave")
    /\ UNCHANGED <<database, lock, policies, todo, attempts, history>>

-----------------------------------------------------------------------------
(* Faults.                                                                 *)

\* A statement fails.  Outside the locked section the boot ends; inside, an open
\* transaction is dropped and the section is left through the release.
StatementFails(m) ==
    /\ pc[m] \in (Unlocked \ {"idle", "connect"}) \cup (Locked \ {"release", "leave", "sql"})
    /\ Goto(m, IF pc[m] \in Locked THEN "leave" ELSE "idle")
    /\ todo' = [todo EXCEPT ![m] = {}]
    /\ UNCHANGED <<database, lock, policies, attempts, history>>

\* The process dies: its transaction is aborted, its session and lock are gone.
Crash(m) ==
    /\ pc[m] # "idle"
    /\ Goto(m, "idle")
    /\ todo' = [todo EXCEPT ![m] = {}]
    /\ attempts' = [attempts EXCEPT ![m] = 0]
    /\ lock' = IF lock = m THEN NoHolder ELSE lock
    /\ UNCHANGED <<database, policies, history>>

\* The dedicated connection dies and Postgres frees the lock; the migrator
\* works on pooled connections and does not notice.
LoseSession(m) ==
    /\ lock = m
    /\ lock' = NoHolder
    /\ sessionLost' = TRUE
    /\ UNCHANGED <<database, policies, pc, todo, attempts, runs, undoStarted>>

-----------------------------------------------------------------------------
\* What a migrator does by itself.
Step(m) ==
    \/ Connect(m)
    \/ Promote(m)
    \/ RecordStage(m)
    \/ Govern(m)
    \/ Audit(m)
    \/ AcquireLock(m)
    \/ CreateTable(m)
    \/ \E v \in Compiled :
        \/ CheckVersion(m, v)
        \/ RunSql(m, v)
        \/ SqlFails(m, v)
        \/ InsertAndCommit(m, v)
        \/ CheckUndo(m, v)
        \/ CommitUndo(m, v)
    \/ RunComplete(m)
    \/ UndoComplete(m)
    \/ ReleaseLock(m)
    \/ DetectDrift(m)

Fault(m) == StatementFails(m) \/ Crash(m) \/ LoseSession(m)

Next ==
    \/ \E m \in Migrators :
        \/ Boot(m)
        \/ \E target \in Versions : StartRollback(m, target)
        \/ Step(m)
        \/ Fault(m)
    \/ RecordRehearsal

\* A process that runs takes its next step: every call is awaited to its end.
\* Postgres serves the waiters of an advisory lock in order, so a waiter that
\* finds it free again and again gets it.
Fairness ==
    \A m \in Migrators : WF_vars(Step(m)) /\ SF_vars(AcquireLock(m))

Spec == Init /\ [][Next]_vars /\ Fairness

-----------------------------------------------------------------------------
(* Properties.                                                             *)

\* No lock connection has died in a history with a rollback.  Two rollbacks of
\* which one has lost the lock can undo a version twice: the DELETE of the
\* second finds no row, which is no error.
Undisturbed == ~sessionLost \/ ~undoStarted

\* The ledger tells the truth: a version has a row exactly when its SQL is in
\* effect once.  It survives crashes between any two statements, commits whose
\* answer is lost and, while nobody rolls back, migrators that lost the lock
\* and run side by side (run_versioned_migrations_locked, one transaction for
\* the SQL and its row, and the primary key).
RowsMatchSchema ==
    Undisturbed => \A v \in Versions : schema[v] = IF Recorded(v) THEN 1 ELSE 0

\* What a migrator read before it began a transaction is still so when it
\* commits: nobody else records or removes that version in between, as long as
\* no lock connection has died (the advisory lock around both loops).
CheckStillTrue ==
    ~sessionLost =>
        \A m \in Migrators, v \in Compiled :
            /\ pc[m] \in {"sql", "commit"} /\ Lowest(m, v) => ~Recorded(v)
            /\ pc[m] = "undo_commit" /\ Highest(m, v) => Recorded(v)

\* No version is on record over a critical one that is missing, whatever fails,
\* stops halfway or is rolled back, under either failure policy
\* (run_versioned_migrations_locked ascending, rollback_to_version descending).
CriticalFirst == Undisturbed => CriticalPrefix

\* Every boot and every rollback ends, by success or error: no migrator waits
\* forever for the lock of one that failed, crashed or could not unlock
\* (acquire_migration_lock, release_migration_lock).
EveryRunEnds == \A m \in Migrators : pc[m] # "idle" ~> pc[m] = "idle"
=============================================================================
