-------------------------- MODULE MigrationsProofs --------------------------
(***************************************************************************)
(* Safety of the migrations for any number of replicas, any migrations,    *)
(* policies and environments, and any number of crashes, failed statements *)
(* and lost connections.                                                   *)
(*                                                                         *)
(* The properties are not inductive by themselves.  LockOwned gives mutual *)
(* exclusion of the locked sections as long as no lock connection died;    *)
(* Visited says what an ascending run has behind it, UndoOrder what a      *)
(* descending rollback has; UndoAnnounced ties the phases of a rollback to *)
(* the flag on which the properties depend.                                *)
(***************************************************************************)
EXTENDS Migrations, TLAPS

\* While no lock connection has died, the locked section is the holder's alone.
LockOwned ==
    ~sessionLost => \A m \in Migrators : pc[m] \in Locked <=> lock = m

UndoAnnounced ==
    \A m \in Migrators : pc[m] \in Backward \cup {"undo_lock"} => undoStarted

\* Every critical version behind an ascending run is on record.
Visited ==
    Undisturbed =>
        \A m \in Migrators, w \in Critical :
            pc[m] \in {"check", "sql", "commit", "release"} /\ w \notin todo[m]
                => Recorded(w)

\* A rollback has the highest versions in hand at first, and leaves nothing on
\* record above one that it has yet to visit.
UndoOrder ==
    \A m \in Migrators, u \in Compiled, w \in Compiled :
        w \in todo[m] /\ u \notin todo[m] =>
            /\ pc[m] = "undo_lock" => u < w
            /\ pc[m] \in Backward /\ ~sessionLost /\ w < u => ~Recorded(u)

IInv ==
    /\ TypeOK
    /\ LockOwned
    /\ UndoAnnounced
    /\ RowsMatchSchema
    /\ CheckStillTrue
    /\ Visited
    /\ UndoOrder
    /\ CriticalFirst

-----------------------------------------------------------------------------

\* A database as earlier releases left it satisfies the invariant.
LEMMA InitInvariant == Init => IInv
<1> SUFFICES ASSUME Init PROVE IInv
    OBVIOUS
<1> USE MigrationsAssumption
<1>1. TypeOK
    <2>1. schema \in [Versions -> Int]
        BY DEF Init
    <2>2. lock \in Migrators \cup {NoHolder} /\ pc \in [Migrators -> Unlocked \cup Locked]
        BY DEF Init, Unlocked
    <2>3. stage \in Ladder \cup {NoStage, OffLadder} /\ rows \in [Versions -> RowStates]
        BY DEF Init
    <2> QED
        BY <2>1, <2>2, <2>3 DEF Init, TypeOK
<1>2. LockOwned /\ UndoAnnounced /\ Visited /\ UndoOrder
    BY DEF Init, LockOwned, UndoAnnounced, Visited, UndoOrder, Locked, Forward, Backward
<1>3. RowsMatchSchema /\ CheckStillTrue /\ CriticalFirst
    BY DEF Init, RowsMatchSchema, CheckStillTrue, CriticalFirst, Recorded
<1> QED
    BY <1>1, <1>2, <1>3 DEF IInv

\* Every step keeps the types.
LEMMA TypeStep == IInv /\ [Next]_vars => TypeOK'
<1> SUFFICES ASSUME IInv, [Next]_vars PROVE TypeOK'
    OBVIOUS
<1> USE MigrationsAssumption DEF database, policies, history, RowStates, NoRow
<1>0. TypeOK
    BY DEF IInv
<1>1. ASSUME NEW m \in Migrators,
           Boot(m)
    PROVE  TypeOK'
    BY <1>0, <1>1 DEF TypeOK, Unlocked, Locked, Forward, Backward, Boot, Goto
<1>2. ASSUME NEW m \in Migrators,
           Connect(m)
    PROVE  TypeOK'
    BY <1>0, <1>2 DEF TypeOK, Unlocked, Locked, Forward, Backward, Connect, Goto
<1>3. ASSUME NEW m \in Migrators,
           Promote(m)
    PROVE  TypeOK'
    BY <1>0, <1>3 DEF TypeOK, Unlocked, Locked, Forward, Backward, Promote, Goto
<1>4. ASSUME NEW m \in Migrators,
           RecordStage(m)
    PROVE  TypeOK'
    BY <1>0, <1>4 DEF TypeOK, Unlocked, Locked, Forward, Backward, RecordStage, Goto
<1>5. ASSUME NEW m \in Migrators,
           Govern(m)
    PROVE  TypeOK'
    BY <1>0, <1>5 DEF TypeOK, Unlocked, Locked, Forward, Backward, Govern, Goto
<1>6. ASSUME NEW m \in Migrators,
           Audit(m)
    PROVE  TypeOK'
    BY <1>0, <1>6 DEF TypeOK, Unlocked, Locked, Forward, Backward, Audit, Goto
<1>7. ASSUME NEW m \in Migrators,
           DetectDrift(m)
    PROVE  TypeOK'
    BY <1>0, <1>7 DEF TypeOK, Unlocked, Locked, Forward, Backward, DetectDrift, Goto
<1>8. ASSUME NEW m \in Migrators,
           AcquireLock(m)
    PROVE  TypeOK'
    BY <1>0, <1>8 DEF TypeOK, Unlocked, Locked, Forward, Backward, AcquireLock, Goto
<1>9. ASSUME NEW m \in Migrators,
           ReleaseLock(m)
    PROVE  TypeOK'
    BY <1>0, <1>9 DEF TypeOK, Unlocked, Locked, Forward, Backward, ReleaseLock, Goto
<1>10. ASSUME NEW m \in Migrators,
           CreateTable(m)
    PROVE  TypeOK'
    BY <1>0, <1>10 DEF TypeOK, Unlocked, Locked, Forward, Backward, CreateTable,
        Goto
<1>11. ASSUME NEW m \in Migrators, NEW v \in Compiled,
           CheckVersion(m, v)
    PROVE  TypeOK'
    BY <1>0, <1>11 DEF TypeOK, Unlocked, Locked, Forward, Backward, CheckVersion,
        Goto, Lowest, Visit, Bail
<1>12. ASSUME NEW m \in Migrators, NEW v \in Compiled,
           RunSql(m, v)
    PROVE  TypeOK'
    BY <1>0, <1>12 DEF TypeOK, Unlocked, Locked, Forward, Backward, RunSql, Goto,
        Lowest
<1>13. ASSUME NEW m \in Migrators, NEW v \in Compiled,
           SqlFails(m, v)
    PROVE  TypeOK'
    BY <1>0, <1>13 DEF TypeOK, Unlocked, Locked, Forward, Backward, SqlFails, Goto,
        Lowest, Visit, Bail
<1>14. ASSUME NEW m \in Migrators, NEW v \in Compiled,
           InsertAndCommit(m, v)
    PROVE  TypeOK'
    BY <1>0, <1>14 DEF TypeOK, Unlocked, Locked, Forward, Backward, InsertAndCommit,
        Goto, Lowest, Visit, Bail
<1>15. ASSUME NEW m \in Migrators,
           RunComplete(m)
    PROVE  TypeOK'
    BY <1>0, <1>15 DEF TypeOK, Unlocked, Locked, Forward, Backward, RunComplete,
        Goto
<1>16. ASSUME NEW m \in Migrators, NEW t \in Versions,
           StartRollback(m, t)
    PROVE  TypeOK'
    BY <1>0, <1>16 DEF TypeOK, Unlocked, Locked, Forward, Backward, StartRollback,
        Goto
<1>17. ASSUME NEW m \in Migrators, NEW v \in Compiled,
           CheckUndo(m, v)
    PROVE  TypeOK'
    BY <1>0, <1>17 DEF TypeOK, Unlocked, Locked, Forward, Backward, CheckUndo, Goto,
        Highest, Visit, Bail
<1>18. ASSUME NEW m \in Migrators, NEW v \in Compiled,
           CommitUndo(m, v)
    PROVE  TypeOK'
    BY <1>0, <1>18 DEF TypeOK, Unlocked, Locked, Forward, Backward, CommitUndo,
        Goto, Highest, Visit, Bail
<1>19. ASSUME NEW m \in Migrators,
           UndoComplete(m)
    PROVE  TypeOK'
    BY <1>0, <1>19 DEF TypeOK, Unlocked, Locked, Forward, Backward, UndoComplete,
        Goto
<1>20. ASSUME NEW m \in Migrators,
           StatementFails(m)
    PROVE  TypeOK'
    BY <1>0, <1>20 DEF TypeOK, Unlocked, Locked, Forward, Backward, StatementFails,
        Goto
<1>21. ASSUME NEW m \in Migrators,
           Crash(m)
    PROVE  TypeOK'
    BY <1>0, <1>21 DEF TypeOK, Unlocked, Locked, Forward, Backward, Crash, Goto
<1>22. ASSUME NEW m \in Migrators,
           LoseSession(m)
    PROVE  TypeOK'
    BY <1>0, <1>22 DEF TypeOK, Unlocked, Locked, Forward, Backward, LoseSession
<1>23. CASE UNCHANGED vars \/ RecordRehearsal
    BY <1>0, <1>23 DEF TypeOK, Unlocked, Locked, Forward, Backward, vars, RecordRehearsal
<1> QED
    BY <1>1, <1>2, <1>3, <1>4, <1>5, <1>6, <1>7, <1>8, <1>9, <1>10, <1>11, <1>12, <1>13, <1>14, <1>15, <1>16, <1>17, <1>18, <1>19, <1>20, <1>21, <1>22, <1>23 DEF Next, Step, Fault

\* The advisory lock admits one migrator to the locked section.
LEMMA LockStep == IInv /\ [Next]_vars => LockOwned'
<1> SUFFICES ASSUME IInv, [Next]_vars PROVE LockOwned'
    OBVIOUS
<1> USE MigrationsAssumption DEF database, policies, history, RowStates, NoRow
<1>0. TypeOK /\ LockOwned
    BY DEF IInv
<1>1. ASSUME NEW m \in Migrators,
           Boot(m) \/ Connect(m) \/ Promote(m)
             \/ RecordStage(m) \/ Govern(m) \/ Audit(m)
    PROVE  LockOwned'
    BY <1>0, <1>1 DEF TypeOK, LockOwned, Locked, Unlocked, Forward, Backward, Boot,
        Connect, Promote, RecordStage, Govern, Audit, Goto
<1>2. ASSUME NEW m \in Migrators,
           DetectDrift(m)
    PROVE  LockOwned'
    BY <1>0, <1>2 DEF TypeOK, LockOwned, Locked, Unlocked, Forward, Backward,
        DetectDrift, Goto
<1>3. ASSUME NEW m \in Migrators,
           AcquireLock(m) \/ ReleaseLock(m) \/ CreateTable(m)
             \/ RunComplete(m) \/ UndoComplete(m)
    PROVE  LockOwned'
    BY <1>0, <1>3 DEF TypeOK, LockOwned, Locked, Unlocked, Forward, Backward,
        AcquireLock, ReleaseLock, CreateTable, RunComplete, UndoComplete, Goto
<1>4. ASSUME NEW m \in Migrators, NEW t \in Versions,
           StartRollback(m, t)
    PROVE  LockOwned'
    BY <1>0, <1>4 DEF TypeOK, LockOwned, Locked, Unlocked, Forward, Backward,
        StartRollback, Goto
<1>5. ASSUME NEW m \in Migrators, NEW v \in Compiled,
           CheckVersion(m, v)
    PROVE  LockOwned'
    BY <1>0, <1>5 DEF TypeOK, LockOwned, Locked, Unlocked, Forward, Backward,
        CheckVersion, Goto, Lowest, Visit, Bail
<1>6. ASSUME NEW m \in Migrators, NEW v \in Compiled,
           RunSql(m, v) \/ SqlFails(m, v)
    PROVE  LockOwned'
    BY <1>0, <1>6 DEF TypeOK, LockOwned, Locked, Unlocked, Forward, Backward,
        RunSql, SqlFails, Goto, Lowest, Visit, Bail
<1>7. ASSUME NEW m \in Migrators, NEW v \in Compiled,
           InsertAndCommit(m, v)
    PROVE  LockOwned'
    BY <1>0, <1>7 DEF TypeOK, LockOwned, Locked, Unlocked, Forward, Backward,
        InsertAndCommit, Goto, Lowest, Visit, Bail
<1>8. ASSUME NEW m \in Migrators, NEW v \in Compiled,
           CheckUndo(m, v)
    PROVE  LockOwned'
    BY <1>0, <1>8 DEF TypeOK, LockOwned, Locked, Unlocked, Forward, Backward,
        CheckUndo, Goto, Highest, Visit, Bail
<1>9. ASSUME NEW m \in Migrators, NEW v \in Compiled,
           CommitUndo(m, v)
    PROVE  LockOwned'
    BY <1>0, <1>9 DEF TypeOK, LockOwned, Locked, Unlocked, Forward, Backward,
        CommitUndo, Goto, Highest, Visit, Bail
<1>10. ASSUME NEW m \in Migrators,
           StatementFails(m) \/ Crash(m) \/ LoseSession(m)
    PROVE  LockOwned'
    BY <1>0, <1>10 DEF TypeOK, LockOwned, Locked, Unlocked, Forward, Backward,
        StatementFails, Crash, LoseSession, Goto
<1>11. CASE UNCHANGED vars \/ RecordRehearsal
    BY <1>0, <1>11 DEF TypeOK, LockOwned, Locked, Unlocked, Forward, Backward, vars, RecordRehearsal
<1> QED
    BY <1>1, <1>2, <1>3, <1>4, <1>5, <1>6, <1>7, <1>8, <1>9, <1>10, <1>11 DEF Next, Step, Fault

\* Only a started rollback is in a phase of a rollback.
LEMMA UndoAnnouncedStep == IInv /\ [Next]_vars => UndoAnnounced'
<1> SUFFICES ASSUME IInv, [Next]_vars PROVE UndoAnnounced'
    OBVIOUS
<1> USE MigrationsAssumption DEF database, policies, history, RowStates, NoRow
<1>0. TypeOK /\ UndoAnnounced
    BY DEF IInv
<1>1. ASSUME NEW m \in Migrators,
           Boot(m) \/ Connect(m) \/ Promote(m)
             \/ RecordStage(m) \/ Govern(m) \/ Audit(m)
    PROVE  UndoAnnounced'
    BY <1>0, <1>1 DEF TypeOK, UndoAnnounced, Locked, Backward, Boot, Connect,
        Promote, RecordStage, Govern, Audit, Goto
<1>2. ASSUME NEW m \in Migrators,
           DetectDrift(m)
    PROVE  UndoAnnounced'
    BY <1>0, <1>2 DEF TypeOK, UndoAnnounced, Locked, Backward, DetectDrift, Goto
<1>3. ASSUME NEW m \in Migrators,
           AcquireLock(m) \/ ReleaseLock(m) \/ CreateTable(m)
             \/ RunComplete(m) \/ UndoComplete(m)
    PROVE  UndoAnnounced'
    BY <1>0, <1>3 DEF TypeOK, UndoAnnounced, Locked, Backward, AcquireLock,
        ReleaseLock, CreateTable, RunComplete, UndoComplete, Goto
<1>4. ASSUME NEW m \in Migrators, NEW t \in Versions,
           StartRollback(m, t)
    PROVE  UndoAnnounced'
    BY <1>0, <1>4 DEF TypeOK, UndoAnnounced, Locked, Backward, StartRollback, Goto
<1>5. ASSUME NEW m \in Migrators, NEW v \in Compiled,
           CheckVersion(m, v)
    PROVE  UndoAnnounced'
    BY <1>0, <1>5 DEF TypeOK, UndoAnnounced, Locked, Backward, CheckVersion, Goto,
        Lowest, Visit, Bail
<1>6. ASSUME NEW m \in Migrators, NEW v \in Compiled,
           RunSql(m, v) \/ SqlFails(m, v)
    PROVE  UndoAnnounced'
    BY <1>0, <1>6 DEF TypeOK, UndoAnnounced, Locked, Backward, RunSql, SqlFails,
        Goto, Lowest, Visit, Bail
<1>7. ASSUME NEW m \in Migrators, NEW v \in Compiled,
           InsertAndCommit(m, v)
    PROVE  UndoAnnounced'
    BY <1>0, <1>7 DEF TypeOK, UndoAnnounced, Locked, Backward, InsertAndCommit,
        Goto, Lowest, Visit, Bail
<1>8. ASSUME NEW m \in Migrators, NEW v \in Compiled,
           CheckUndo(m, v)
    PROVE  UndoAnnounced'
    BY <1>0, <1>8 DEF TypeOK, UndoAnnounced, Locked, Backward, CheckUndo, Goto,
        Highest, Visit, Bail
<1>9. ASSUME NEW m \in Migrators, NEW v \in Compiled,
           CommitUndo(m, v)
    PROVE  UndoAnnounced'
    BY <1>0, <1>9 DEF TypeOK, UndoAnnounced, Locked, Backward, CommitUndo, Goto,
        Highest, Visit, Bail
<1>10. ASSUME NEW m \in Migrators,
           StatementFails(m) \/ Crash(m) \/ LoseSession(m)
    PROVE  UndoAnnounced'
    BY <1>0, <1>10 DEF TypeOK, UndoAnnounced, Locked, Backward, StatementFails,
        Crash, LoseSession, Goto
<1>11. CASE UNCHANGED vars \/ RecordRehearsal
    BY <1>0, <1>11 DEF TypeOK, UndoAnnounced, Locked, Backward, vars, RecordRehearsal
<1> QED
    BY <1>1, <1>2, <1>3, <1>4, <1>5, <1>6, <1>7, <1>8, <1>9, <1>10, <1>11 DEF Next, Step, Fault

\* The row and the effect of a version change together.
LEMMA RowsStep == IInv /\ [Next]_vars => RowsMatchSchema'
<1> SUFFICES ASSUME IInv, [Next]_vars PROVE RowsMatchSchema'
    OBVIOUS
<1> USE MigrationsAssumption DEF database, policies, history, RowStates, NoRow
<1>0. TypeOK /\ RowsMatchSchema /\ UndoAnnounced /\ CheckStillTrue
    BY DEF IInv
<1>1. ASSUME NEW m \in Migrators,
           Boot(m) \/ Connect(m) \/ Promote(m)
             \/ RecordStage(m) \/ Govern(m) \/ Audit(m)
    PROVE  RowsMatchSchema'
    BY <1>0, <1>1 DEF TypeOK, RowsMatchSchema, Recorded, Undisturbed, Boot, Connect,
        Promote, RecordStage, Govern, Audit
<1>2. ASSUME NEW m \in Migrators,
           DetectDrift(m)
    PROVE  RowsMatchSchema'
    BY <1>0, <1>2 DEF TypeOK, RowsMatchSchema, Recorded, Undisturbed, DetectDrift,
        RowStates
<1>3. ASSUME NEW m \in Migrators,
           AcquireLock(m) \/ ReleaseLock(m) \/ CreateTable(m)
             \/ RunComplete(m) \/ UndoComplete(m)
    PROVE  RowsMatchSchema'
    BY <1>0, <1>3 DEF TypeOK, RowsMatchSchema, Recorded, Undisturbed, AcquireLock,
        ReleaseLock, CreateTable, RunComplete, UndoComplete
<1>4. ASSUME NEW m \in Migrators, NEW t \in Versions,
           StartRollback(m, t)
    PROVE  RowsMatchSchema'
    BY <1>0, <1>4 DEF TypeOK, RowsMatchSchema, Recorded, Undisturbed, StartRollback
<1>5. ASSUME NEW m \in Migrators, NEW v \in Compiled,
           CheckVersion(m, v)
    PROVE  RowsMatchSchema'
    BY <1>0, <1>5 DEF TypeOK, RowsMatchSchema, Recorded, Undisturbed, CheckVersion,
        Lowest
<1>6. ASSUME NEW m \in Migrators, NEW v \in Compiled,
           RunSql(m, v) \/ SqlFails(m, v)
    PROVE  RowsMatchSchema'
    BY <1>0, <1>6 DEF TypeOK, RowsMatchSchema, Recorded, Undisturbed, RunSql,
        SqlFails
<1>7. ASSUME NEW m \in Migrators, NEW v \in Compiled,
           InsertAndCommit(m, v)
    PROVE  RowsMatchSchema'
    BY <1>0, <1>7 DEF TypeOK, RowsMatchSchema, Recorded, Undisturbed,
        InsertAndCommit
<1>8. ASSUME NEW m \in Migrators, NEW v \in Compiled,
           CheckUndo(m, v)
    PROVE  RowsMatchSchema'
    BY <1>0, <1>8 DEF TypeOK, RowsMatchSchema, Recorded, Undisturbed, CheckUndo
<1>9. ASSUME NEW m \in Migrators, NEW v \in Compiled,
           CommitUndo(m, v)
    PROVE  RowsMatchSchema'
    BY <1>0, <1>9 DEF TypeOK, RowsMatchSchema, Recorded, Undisturbed, CommitUndo,
        UndoAnnounced, CheckStillTrue, Highest, Backward
<1>10. ASSUME NEW m \in Migrators,
           StatementFails(m) \/ Crash(m) \/ LoseSession(m)
    PROVE  RowsMatchSchema'
    BY <1>0, <1>10 DEF TypeOK, RowsMatchSchema, Recorded, Undisturbed,
        StatementFails, Crash, LoseSession
<1>11. CASE UNCHANGED vars \/ RecordRehearsal
    BY <1>0, <1>11 DEF TypeOK, RowsMatchSchema, Recorded, Undisturbed, vars, RecordRehearsal
<1> QED
    BY <1>1, <1>2, <1>3, <1>4, <1>5, <1>6, <1>7, <1>8, <1>9, <1>10, <1>11 DEF Next, Step, Fault

\* Under the lock, what was read stays so until the commit.
LEMMA CheckStep == IInv /\ [Next]_vars => CheckStillTrue'
<1> SUFFICES ASSUME IInv, [Next]_vars PROVE CheckStillTrue'
    OBVIOUS
<1> USE MigrationsAssumption DEF database, policies, history, RowStates, NoRow
<1>0. TypeOK /\ CheckStillTrue /\ LockOwned
    BY DEF IInv
<1>1. ASSUME NEW m \in Migrators,
           Boot(m) \/ Connect(m) \/ Promote(m)
             \/ RecordStage(m) \/ Govern(m) \/ Audit(m)
    PROVE  CheckStillTrue'
    BY <1>0, <1>1 DEF TypeOK, CheckStillTrue, LockOwned, Recorded, Locked, Forward,
        Backward, Lowest, Highest, Boot, Connect, Promote, RecordStage, Govern,
        Audit, Goto
<1>2. ASSUME NEW m \in Migrators,
           DetectDrift(m)
    PROVE  CheckStillTrue'
    BY <1>0, <1>2 DEF TypeOK, CheckStillTrue, LockOwned, Recorded, Locked, Forward,
        Backward, Lowest, Highest, DetectDrift, Goto
<1>3. ASSUME NEW m \in Migrators,
           AcquireLock(m) \/ ReleaseLock(m) \/ CreateTable(m)
             \/ RunComplete(m) \/ UndoComplete(m)
    PROVE  CheckStillTrue'
    BY <1>0, <1>3 DEF TypeOK, CheckStillTrue, LockOwned, Recorded, Locked, Forward,
        Backward, Lowest, Highest, AcquireLock, ReleaseLock, CreateTable,
        RunComplete, UndoComplete, Goto
<1>4. ASSUME NEW m \in Migrators, NEW t \in Versions,
           StartRollback(m, t)
    PROVE  CheckStillTrue'
    BY <1>0, <1>4 DEF TypeOK, CheckStillTrue, LockOwned, Recorded, Locked, Forward,
        Backward, Lowest, Highest, StartRollback, Goto
<1>5. ASSUME NEW m \in Migrators, NEW v \in Compiled,
           CheckVersion(m, v)
    PROVE  CheckStillTrue'
    BY <1>0, <1>5 DEF TypeOK, CheckStillTrue, LockOwned, Recorded, Locked, Forward,
        Backward, Lowest, Highest, CheckVersion, Goto, Visit, Bail
<1>6. ASSUME NEW m \in Migrators, NEW v \in Compiled,
           RunSql(m, v) \/ SqlFails(m, v)
    PROVE  CheckStillTrue'
    BY <1>0, <1>6 DEF TypeOK, CheckStillTrue, LockOwned, Recorded, Locked, Forward,
        Backward, Lowest, Highest, RunSql, SqlFails, Goto, Visit, Bail
<1>7. ASSUME NEW m \in Migrators, NEW v \in Compiled,
           InsertAndCommit(m, v)
    PROVE  CheckStillTrue'
    BY <1>0, <1>7 DEF TypeOK, CheckStillTrue, LockOwned, Recorded, Locked, Forward,
        Backward, Lowest, Highest, InsertAndCommit, Goto, Visit, Bail
<1>8. ASSUME NEW m \in Migrators, NEW v \in Compiled,
           CheckUndo(m, v)
    PROVE  CheckStillTrue'
    <2>1. CASE Visit(m, v) /\ UNCHANGED pc
        BY <1>0, <1>8, <2>1 DEF TypeOK, CheckStillTrue, Recorded, Lowest, Highest,
            CheckUndo, Visit
    <2>2. CASE Bail(m)
        BY <1>0, <1>8, <2>2 DEF TypeOK, CheckStillTrue, Recorded, Lowest, Highest,
            CheckUndo, Goto, Bail
    <2>3. CASE Recorded(v) /\ Goto(m, "undo_commit") /\ UNCHANGED todo
        <3>1. UNCHANGED <<rows, todo, sessionLost>> /\ Highest(m, v)
            BY <1>8, <2>3 DEF CheckUndo
        <3>2. pc'[m] = "undo_commit" /\ \A q \in Migrators \ {m} : pc'[q] = pc[q]
            BY <1>0, <2>3 DEF TypeOK, Goto
        <3>3. \A w \in Compiled : Highest(m, w) => w = v
            <4>1. v \in Int /\ \A w \in Compiled : w \in Int
                OBVIOUS
            <4>2. ASSUME NEW w \in Compiled, Highest(m, w) PROVE w <= v /\ v <= w
                BY <3>1, <4>2 DEF Highest
            <4> QED
                BY <4>1, <4>2
        <3> QED
            BY <1>0, <2>3, <3>1, <3>2, <3>3 DEF CheckStillTrue, Recorded, Lowest, Highest
    <2> QED
        BY <1>8, <2>1, <2>2, <2>3 DEF CheckUndo
<1>9. ASSUME NEW m \in Migrators, NEW v \in Compiled,
           CommitUndo(m, v)
    PROVE  CheckStillTrue'
    BY <1>0, <1>9 DEF TypeOK, CheckStillTrue, LockOwned, Recorded, Locked, Forward,
        Backward, Lowest, Highest, CommitUndo, Goto, Visit, Bail
<1>10. ASSUME NEW m \in Migrators,
           StatementFails(m) \/ Crash(m) \/ LoseSession(m)
    PROVE  CheckStillTrue'
    BY <1>0, <1>10 DEF TypeOK, CheckStillTrue, LockOwned, Recorded, Locked, Forward,
        Backward, Lowest, Highest, StatementFails, Crash, LoseSession, Goto
<1>11. CASE UNCHANGED vars \/ RecordRehearsal
    BY <1>0, <1>11 DEF TypeOK, CheckStillTrue, LockOwned, Recorded, Locked, Forward, Backward, Lowest, Highest, vars, RecordRehearsal
<1> QED
    BY <1>1, <1>2, <1>3, <1>4, <1>5, <1>6, <1>7, <1>8, <1>9, <1>10, <1>11 DEF Next, Step, Fault

\* A run leaves no critical version behind it that is not on record.
LEMMA VisitedStep == IInv /\ [Next]_vars => Visited'
<1> SUFFICES ASSUME IInv, [Next]_vars PROVE Visited'
    OBVIOUS
<1> USE MigrationsAssumption DEF database, policies, history, RowStates, NoRow
<1>0. TypeOK /\ Visited /\ LockOwned /\ UndoAnnounced
    BY DEF IInv
<1>1. ASSUME NEW m \in Migrators,
           Boot(m) \/ Connect(m) \/ Promote(m)
             \/ RecordStage(m) \/ Govern(m) \/ Audit(m)
    PROVE  Visited'
    BY <1>0, <1>1 DEF TypeOK, Visited, LockOwned, UndoAnnounced, Undisturbed,
        Recorded, Locked, Forward, Backward, Boot, Connect, Promote, RecordStage,
        Govern, Audit, Goto
<1>2. ASSUME NEW m \in Migrators,
           DetectDrift(m)
    PROVE  Visited'
    BY <1>0, <1>2 DEF TypeOK, Visited, LockOwned, UndoAnnounced, Undisturbed,
        Recorded, Locked, Forward, Backward, DetectDrift, Goto
<1>3. ASSUME NEW m \in Migrators,
           AcquireLock(m) \/ ReleaseLock(m) \/ CreateTable(m)
             \/ RunComplete(m) \/ UndoComplete(m)
    PROVE  Visited'
    BY <1>0, <1>3 DEF TypeOK, Visited, LockOwned, UndoAnnounced, Undisturbed,
        Recorded, Locked, Forward, Backward, AcquireLock, ReleaseLock, CreateTable,
        RunComplete, UndoComplete, Goto
<1>4. ASSUME NEW m \in Migrators, NEW t \in Versions,
           StartRollback(m, t)
    PROVE  Visited'
    BY <1>0, <1>4 DEF TypeOK, Visited, LockOwned, UndoAnnounced, Undisturbed,
        Recorded, Locked, Forward, Backward, StartRollback, Goto
<1>5. ASSUME NEW m \in Migrators, NEW v \in Compiled,
           CheckVersion(m, v)
    PROVE  Visited'
    BY <1>0, <1>5 DEF TypeOK, Visited, LockOwned, UndoAnnounced, Undisturbed,
        Recorded, Locked, Forward, Backward, CheckVersion, Goto, Lowest, Visit, Bail
<1>6. ASSUME NEW m \in Migrators, NEW v \in Compiled,
           RunSql(m, v) \/ SqlFails(m, v)
    PROVE  Visited'
    BY <1>0, <1>6 DEF TypeOK, Visited, LockOwned, UndoAnnounced, Undisturbed,
        Recorded, Locked, Forward, Backward, RunSql, SqlFails, Goto, Lowest, Visit,
        Bail
<1>7. ASSUME NEW m \in Migrators, NEW v \in Compiled,
           InsertAndCommit(m, v)
    PROVE  Visited'
    BY <1>0, <1>7 DEF TypeOK, Visited, LockOwned, UndoAnnounced, Undisturbed,
        Recorded, Locked, Forward, Backward, InsertAndCommit, Goto, Lowest, Visit,
        Bail
<1>8. ASSUME NEW m \in Migrators, NEW v \in Compiled,
           CheckUndo(m, v)
    PROVE  Visited'
    BY <1>0, <1>8 DEF TypeOK, Visited, LockOwned, UndoAnnounced, Undisturbed,
        Recorded, Locked, Forward, Backward, CheckUndo, Goto, Highest, Visit, Bail
<1>9. ASSUME NEW m \in Migrators, NEW v \in Compiled,
           CommitUndo(m, v)
    PROVE  Visited'
    BY <1>0, <1>9 DEF TypeOK, Visited, LockOwned, UndoAnnounced, Undisturbed,
        Recorded, Locked, Forward, Backward, CommitUndo, Goto, Highest, Visit, Bail
<1>10. ASSUME NEW m \in Migrators,
           StatementFails(m) \/ Crash(m) \/ LoseSession(m)
    PROVE  Visited'
    BY <1>0, <1>10 DEF TypeOK, Visited, LockOwned, UndoAnnounced, Undisturbed,
        Recorded, Locked, Forward, Backward, StatementFails, Crash, LoseSession,
        Goto
<1>11. CASE UNCHANGED vars \/ RecordRehearsal
    BY <1>0, <1>11 DEF TypeOK, Visited, LockOwned, UndoAnnounced, Undisturbed, Recorded, Locked, Forward, Backward, vars, RecordRehearsal
<1> QED
    BY <1>1, <1>2, <1>3, <1>4, <1>5, <1>6, <1>7, <1>8, <1>9, <1>10, <1>11 DEF Next, Step, Fault

\* A rollback leaves nothing on record above what it has yet to visit.
LEMMA UndoOrderStep == IInv /\ [Next]_vars => UndoOrder'
<1> SUFFICES ASSUME IInv, [Next]_vars PROVE UndoOrder'
    OBVIOUS
<1> USE MigrationsAssumption DEF database, policies, history, RowStates, NoRow
<1>0. TypeOK /\ UndoOrder /\ LockOwned
    BY DEF IInv
<1>1. ASSUME NEW m \in Migrators,
           Boot(m) \/ Connect(m) \/ Promote(m)
             \/ RecordStage(m) \/ Govern(m) \/ Audit(m)
    PROVE  UndoOrder'
    BY <1>0, <1>1 DEF TypeOK, UndoOrder, LockOwned, Recorded, Locked, Forward,
        Backward, Boot, Connect, Promote, RecordStage, Govern, Audit, Goto
<1>2. ASSUME NEW m \in Migrators,
           DetectDrift(m)
    PROVE  UndoOrder'
    BY <1>0, <1>2 DEF TypeOK, UndoOrder, LockOwned, Recorded, Locked, Forward,
        Backward, DetectDrift, Goto
<1>3. ASSUME NEW m \in Migrators,
           AcquireLock(m) \/ ReleaseLock(m) \/ CreateTable(m)
             \/ RunComplete(m) \/ UndoComplete(m)
    PROVE  UndoOrder'
    BY <1>0, <1>3 DEF TypeOK, UndoOrder, LockOwned, Recorded, Locked, Forward,
        Backward, AcquireLock, ReleaseLock, CreateTable, RunComplete, UndoComplete,
        Goto
<1>4. ASSUME NEW m \in Migrators, NEW t \in Versions,
           StartRollback(m, t)
    PROVE  UndoOrder'
    BY <1>0, <1>4 DEF TypeOK, UndoOrder, LockOwned, Recorded, Locked, Forward,
        Backward, StartRollback, Goto
<1>5. ASSUME NEW m \in Migrators, NEW v \in Compiled,
           CheckVersion(m, v)
    PROVE  UndoOrder'
    BY <1>0, <1>5 DEF TypeOK, UndoOrder, LockOwned, Recorded, Locked, Forward,
        Backward, CheckVersion, Goto, Lowest, Visit, Bail
<1>6. ASSUME NEW m \in Migrators, NEW v \in Compiled,
           RunSql(m, v) \/ SqlFails(m, v)
    PROVE  UndoOrder'
    BY <1>0, <1>6 DEF TypeOK, UndoOrder, LockOwned, Recorded, Locked, Forward,
        Backward, RunSql, SqlFails, Goto, Lowest, Visit, Bail
<1>7. ASSUME NEW m \in Migrators, NEW v \in Compiled,
           InsertAndCommit(m, v)
    PROVE  UndoOrder'
    BY <1>0, <1>7 DEF TypeOK, UndoOrder, LockOwned, Recorded, Locked, Forward,
        Backward, InsertAndCommit, Goto, Lowest, Visit, Bail
<1>8. ASSUME NEW m \in Migrators, NEW v \in Compiled,
           CheckUndo(m, v)
    PROVE  UndoOrder'
    BY <1>0, <1>8 DEF TypeOK, UndoOrder, LockOwned, Recorded, Locked, Forward,
        Backward, CheckUndo, Goto, Highest, Visit, Bail
<1>9. ASSUME NEW m \in Migrators, NEW v \in Compiled,
           CommitUndo(m, v)
    PROVE  UndoOrder'
    BY <1>0, <1>9 DEF TypeOK, UndoOrder, LockOwned, Recorded, Locked, Forward,
        Backward, CommitUndo, Goto, Highest, Visit, Bail
<1>10. ASSUME NEW m \in Migrators,
           StatementFails(m) \/ Crash(m) \/ LoseSession(m)
    PROVE  UndoOrder'
    BY <1>0, <1>10 DEF TypeOK, UndoOrder, LockOwned, Recorded, Locked, Forward,
        Backward, StatementFails, Crash, LoseSession, Goto
<1>11. CASE UNCHANGED vars \/ RecordRehearsal
    BY <1>0, <1>11 DEF TypeOK, UndoOrder, LockOwned, Recorded, Locked, Forward, Backward, vars, RecordRehearsal
<1> QED
    BY <1>1, <1>2, <1>3, <1>4, <1>5, <1>6, <1>7, <1>8, <1>9, <1>10, <1>11 DEF Next, Step, Fault

\* No step records a version over a missing critical one.
LEMMA CriticalStep == IInv /\ [Next]_vars => CriticalFirst'
<1> SUFFICES ASSUME IInv, [Next]_vars PROVE CriticalFirst'
    OBVIOUS
<1> USE MigrationsAssumption DEF database, policies, history, RowStates, NoRow
<1>0. TypeOK /\ CriticalFirst /\ Visited /\ UndoOrder /\ UndoAnnounced
    BY DEF IInv
<1>1. ASSUME NEW m \in Migrators,
           Boot(m) \/ Connect(m) \/ Promote(m)
             \/ RecordStage(m) \/ Govern(m) \/ Audit(m)
    PROVE  CriticalFirst'
    BY <1>0, <1>1 DEF TypeOK, CriticalFirst, CriticalPrefix, Visited, UndoOrder,
        UndoAnnounced, Undisturbed, Recorded, Backward, Boot, Connect, Promote,
        RecordStage, Govern, Audit
<1>2. ASSUME NEW m \in Migrators,
           DetectDrift(m)
    PROVE  CriticalFirst'
    BY <1>0, <1>2 DEF TypeOK, CriticalFirst, CriticalPrefix, Visited, UndoOrder,
        UndoAnnounced, Undisturbed, Recorded, Backward, DetectDrift
<1>3. ASSUME NEW m \in Migrators,
           AcquireLock(m) \/ ReleaseLock(m) \/ CreateTable(m)
             \/ RunComplete(m) \/ UndoComplete(m)
    PROVE  CriticalFirst'
    BY <1>0, <1>3 DEF TypeOK, CriticalFirst, CriticalPrefix, Visited, UndoOrder,
        UndoAnnounced, Undisturbed, Recorded, Backward, AcquireLock, ReleaseLock,
        CreateTable, RunComplete, UndoComplete
<1>4. ASSUME NEW m \in Migrators, NEW t \in Versions,
           StartRollback(m, t)
    PROVE  CriticalFirst'
    BY <1>0, <1>4 DEF TypeOK, CriticalFirst, CriticalPrefix, Visited, UndoOrder,
        UndoAnnounced, Undisturbed, Recorded, Backward, StartRollback
<1>5. ASSUME NEW m \in Migrators, NEW v \in Compiled,
           CheckVersion(m, v)
    PROVE  CriticalFirst'
    BY <1>0, <1>5 DEF TypeOK, CriticalFirst, CriticalPrefix, Visited, UndoOrder,
        UndoAnnounced, Undisturbed, Recorded, Backward, CheckVersion, Lowest
<1>6. ASSUME NEW m \in Migrators, NEW v \in Compiled,
           RunSql(m, v) \/ SqlFails(m, v)
    PROVE  CriticalFirst'
    BY <1>0, <1>6 DEF TypeOK, CriticalFirst, CriticalPrefix, Visited, UndoOrder,
        UndoAnnounced, Undisturbed, Recorded, Backward, RunSql, SqlFails
<1>7. ASSUME NEW m \in Migrators, NEW v \in Compiled,
           InsertAndCommit(m, v)
    PROVE  CriticalFirst'
    BY <1>0, <1>7 DEF TypeOK, CriticalFirst, CriticalPrefix, Visited, UndoOrder,
        UndoAnnounced, Undisturbed, Recorded, Backward, InsertAndCommit, Lowest
<1>8. ASSUME NEW m \in Migrators, NEW v \in Compiled,
           CheckUndo(m, v)
    PROVE  CriticalFirst'
    BY <1>0, <1>8 DEF TypeOK, CriticalFirst, CriticalPrefix, Visited, UndoOrder,
        UndoAnnounced, Undisturbed, Recorded, Backward, CheckUndo
<1>9. ASSUME NEW m \in Migrators, NEW v \in Compiled,
           CommitUndo(m, v)
    PROVE  CriticalFirst'
    BY <1>0, <1>9 DEF TypeOK, CriticalFirst, CriticalPrefix, Visited, UndoOrder,
        UndoAnnounced, Undisturbed, Recorded, Backward, CommitUndo, Highest
<1>10. ASSUME NEW m \in Migrators,
           StatementFails(m) \/ Crash(m) \/ LoseSession(m)
    PROVE  CriticalFirst'
    BY <1>0, <1>10 DEF TypeOK, CriticalFirst, CriticalPrefix, Visited, UndoOrder,
        UndoAnnounced, Undisturbed, Recorded, Backward, StatementFails, Crash,
        LoseSession
<1>11. CASE UNCHANGED vars \/ RecordRehearsal
    BY <1>0, <1>11 DEF TypeOK, CriticalFirst, CriticalPrefix, Visited, UndoOrder, UndoAnnounced, Undisturbed, Recorded, Backward, vars, RecordRehearsal
<1> QED
    BY <1>1, <1>2, <1>3, <1>4, <1>5, <1>6, <1>7, <1>8, <1>9, <1>10, <1>11 DEF Next, Step, Fault

-----------------------------------------------------------------------------

\* The invariant holds throughout: it is inductive.
THEOREM Invariant == Spec => []IInv
<1>1. Init => IInv
    BY InitInvariant
<1>2. IInv /\ [Next]_vars => IInv'
    BY TypeStep, LockStep, UndoAnnouncedStep, RowsStep, CheckStep, VisitedStep,
       UndoOrderStep, CriticalStep DEF IInv
<1> QED
    BY <1>1, <1>2, PTL DEF Spec

\* The variables keep their types.
THEOREM TypeCorrect == Spec => []TypeOK
<1>1. IInv => TypeOK
    BY DEF IInv
<1> QED
    BY <1>1, Invariant, PTL

\* krab_migrations records exactly the versions that are in effect, through
\* crashes and lost answers, and through lost locks while nobody rolls back.
THEOREM LedgerIsTruthful == Spec => []RowsMatchSchema
<1>1. IInv => RowsMatchSchema
    BY DEF IInv
<1> QED
    BY <1>1, Invariant, PTL

\* What a migrator read before a transaction still holds when it commits, as
\* long as no lock connection has died.
THEOREM NoStaleCheck == Spec => []CheckStillTrue
<1>1. IInv => CheckStillTrue
    BY DEF IInv
<1> QED
    BY <1>1, Invariant, PTL

\* A version is never on record over a critical one that is missing.
THEOREM CriticalVersionsFirst == Spec => []CriticalFirst
<1>1. IInv => CriticalFirst
    BY DEF IInv
<1> QED
    BY <1>1, Invariant, PTL

\* At most one migrator is between acquire_migration_lock and
\* release_migration_lock while no lock connection has died.
THEOREM MutualExclusion ==
    Spec => [](~sessionLost => \A m, n \in Migrators :
                   pc[m] \in Locked /\ pc[n] \in Locked => m = n)
<1>1. IInv => (~sessionLost => \A m, n \in Migrators :
                   pc[m] \in Locked /\ pc[n] \in Locked => m = n)
    BY DEF IInv, LockOwned
<1> QED
    BY <1>1, Invariant, PTL
=============================================================================
