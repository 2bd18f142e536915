---------------------------- MODULE BridgeTypes -----------------------------
(***************************************************************************)
(* Type correctness of Bridge, for any number of workers, submitters,       *)
(* cancellers, tasks and checkouts, any fault mix and any bound on runs.    *)
(***************************************************************************)
EXTENDS Bridge, WellFoundedInduction, TLAPS

\* Steps at which a process works on no task.
Resting == {"idle", "stopped", "scan"}

\* Steps of cancel_active after it has read a run.
RunCancelSteps ==
    {"cancelKill", "cancelMark", "cancelClose", "cancelUnlink", "cancelRefs",
     "cancelLock"}

\* A process between two steps of a call has a task, and inside the claimed
\* section or past the read of the run registry it has a run.
Working ==
    \A p \in Procs :
        /\ pc[p] \notin Resting => job[p] \in Tasks
        /\ pc[p] \in ClaimSteps \cup RunCancelSteps => run[p] \in Runs

Typed == TypeOK /\ Working

----------------------------------------------------------------------------
(* Lemmas about the operators the actions are built from.                   *)

\* What runtime.latest_run returns: a run of the task asked for, or no run when
\* the task has none.
LEMMA LatestRunOfTask ==
    ASSUME NEW t
    PROVE  /\ LatestRun(t) \in Runs \cup {NoRun}
           /\ LatestRun(t) # NoRun => runTask[LatestRun(t)] = t
           /\ LatestRun(t) = NoRun => RunsOf(t) = {}
<1>1. CASE RunsOf(t) = {}
  BY <1>1 DEF LatestRun
<1>2. CASE RunsOf(t) # {}
  <2> DEFINE S == {MaxRuns - r : r \in RunsOf(t)}
  <2>1. S \subseteq Nat /\ S # {}
    BY <1>2, BoundsAssumption DEF RunsOf, Runs
  <2>2. PICK m \in S : \A y \in S : ~ (<<y, m>> \in OpToRel(<, Nat))
    BY <2>1, NatLessThanWellFounded, WFMin
  <2>a. \A a, b \in Nat : a < b => <<a, b>> \in OpToRel(<, Nat)
    BY Zenon DEF OpToRel
  <2>b. \A y \in S : y \in Nat /\ m \in Nat /\ ~ (y < m)
    BY <2>1, <2>2, <2>a
  <2>3. \A y \in S : m <= y
    BY <2>b
  <2>4. PICK x \in RunsOf(t) : m = MaxRuns - x
    OBVIOUS
  <2>5. ASSUME NEW r \in RunsOf(t) PROVE x >= r
    <3>1. MaxRuns - x <= MaxRuns - r
      BY <2>3, <2>4
    <3> QED
      BY <3>1, BoundsAssumption DEF RunsOf, Runs
  <2>6. Max(RunsOf(t)) \in RunsOf(t)
    BY <2>5 DEF Max
  <2> QED
    BY <1>2, <2>6 DEF LatestRun, RunsOf, Runs, NoRun
<1> QED
  BY <1>1, <1>2

\* A legal edge leads from a status to a status; none leaves CANCELLED.
LEMMA LegalEdges ==
    /\ \A from, to : Legal(from, to) => from \in Statuses /\ to \in Statuses
    /\ \A to : ~ Legal("CANCELLED", to)
BY DEF Legal, LegalTransitions, Statuses

LEMMA GotoTyped ==
    ASSUME LocalsOK, Working, NEW p \in Procs, pc[p] \notin Resting,
           NEW there \in PcValues, Goto(p, there),
           there \in ClaimSteps \cup RunCancelSteps
               => pc[p] \in ClaimSteps \cup RunCancelSteps
    PROVE  LocalsOK' /\ Working'
<1>1. LocalsOK'
  BY DEF LocalsOK, Goto
<1>2. Working'
  BY DEF LocalsOK, Working, Goto
<1> QED
  BY <1>1, <1>2

LEMMA LeaveTyped ==
    ASSUME LocalsOK, Working, NEW p \in Procs, NEW there \in {"idle", "stopped"},
           Leave(p, there)
    PROVE  LocalsOK' /\ Working'
<1>0. there \in PcValues /\ there \in Resting
      /\ there \notin ClaimSteps \cup RunCancelSteps
  BY DEF PcValues, Resting, ClaimSteps, RunCancelSteps
<1>1. LocalsOK'
  BY <1>0 DEF LocalsOK, Leave, NothingSeen
<1>2. Working'
  BY <1>0 DEF LocalsOK, Working, Leave
<1> QED
  BY <1>1, <1>2

LEMMA NextRowTyped ==
    ASSUME LocalsOK, Working, NEW p \in Procs, NextRow(p)
    PROVE  LocalsOK' /\ Working'
<1>0. "scan" \in PcValues /\ "scan" \in Resting
      /\ "scan" \notin ClaimSteps \cup RunCancelSteps
  BY DEF PcValues, Resting, ClaimSteps, RunCancelSteps, RecoverySteps
<1>1. LocalsOK'
  BY <1>0 DEF LocalsOK, NextRow, NothingSeen
<1>2. Working'
  BY <1>0 DEF LocalsOK, Working, NextRow
<1> QED
  BY <1>1, <1>2

\* A part of the state an action leaves alone keeps its type.
LEMMA UnchangedTyped ==
    /\ StoreOK /\ UNCHANGED store => StoreOK'
    /\ FilesOK /\ UNCHANGED files => FilesOK'
    /\ RegistryOK /\ UNCHANGED registry => RegistryOK'
    /\ ExecutorOK /\ UNCHANGED <<verdict, child>> => ExecutorOK'
    /\ LocksOK /\ UNCHANGED <<lock, nextRun>> => LocksOK'
    /\ LocalsOK /\ Working /\ UNCHANGED locals => LocalsOK' /\ Working'
BY DEF StoreOK, FilesOK, RegistryOK, ExecutorOK, LocksOK, LocalsOK, Working,
       store, files, registry, locals

LEMMA FaultTyped ==
    ASSUME faulted \in 0 .. MaxFaults, NEW kind, Injected(kind)
    PROVE  faulted' \in 0 .. MaxFaults
BY BoundsAssumption DEF Injected

LEMMA TransitionTyped ==
    ASSUME StoreOK, NEW id, NEW t \in Tasks, NEW to, Transition(id, t, to)
    PROVE  StoreOK'
<1>1. CASE Commit(id, t, to)
  <2>1. to \in Statuses
    BY <1>1, LegalEdges DEF Commit, Accepted
  <2> QED
    BY <1>1, <2>1 DEF StoreOK, Commit, Event
<1>2. CASE UNCHANGED store
  BY <1>2 DEF StoreOK, store
<1> QED
  BY <1>1, <1>2 DEF Transition

LEMMA FinishRunTyped ==
    ASSUME RegistryOK, NEW r, NEW o \in RunOutcomes, FinishRun(r, o)
    PROVE  RegistryOK'
BY DEF RegistryOK, FinishRun

----------------------------------------------------------------------------
(* Typing, one lemma per kind of process and one step per action.           *)

\* Type correctness of the steps of execute_task.
LEMMA CoordinatorTyped ==
    ASSUME Typed, NEW p \in Procs, CoordinatorStep(p)
    PROVE  Typed'
<1> USE DEF Typed, TypeOK
<1>1. CASE ExecuteCheck(p)
  <2>1. LocalsOK' /\ Working'
    BY <1>1, GotoTyped, LeaveTyped DEF ExecuteCheck, Resting, ClaimSteps,
       RunCancelSteps, PcValues, ExecuteSteps, SubmitSteps, CancelSteps,
       RecoverySteps
  <2> QED
    BY <1>1, <2>1, UnchangedTyped DEF ExecuteCheck
<1>2. CASE ValidationFails(p)
  <2>1. LocalsOK' /\ Working'
    BY <1>2, GotoTyped, LeaveTyped DEF ValidationFails, Resting, ClaimSteps,
       RunCancelSteps, PcValues, ExecuteSteps, SubmitSteps, CancelSteps,
       RecoverySteps
  <2> QED
    BY <1>2, <2>1, UnchangedTyped DEF ValidationFails
<1>3. CASE AcquireLock(p)
  <2>1. LocalsOK'
    BY <1>3 DEF AcquireLock, LocalsOK, PcValues, ExecuteSteps, ClaimSteps
  <2>2. Working'
    BY <1>3 DEF AcquireLock, LocalsOK, Working, Resting, ClaimSteps,
       RunCancelSteps
  <2>3. LockPayload(job[p], nextRun)
            \in [task : Tasks \cup {NoTask}, run : Runs \cup {NoRun}]
    BY <1>3 DEF AcquireLock, LockPayload, LocalsOK
  <2>4. LocksOK'
    <3> DEFINE Payloads == [task : Tasks \cup {NoTask}, run : Runs \cup {NoRun}]
    <3>1. nextRun' \in 1 .. MaxRuns + 1
      BY <1>3, BoundsAssumption DEF AcquireLock, Runs
    <3>2. lock \in [Checkouts -> Payloads] /\ LockPayload(job[p], nextRun) \in Payloads
      BY <2>3 DEF LocksOK
    <3> HIDE DEF Payloads
    <3>3. lock' \in [Checkouts -> Payloads]
      BY <1>3, <3>2 DEF AcquireLock
    <3> QED
      BY <3>1, <3>3 DEF LocksOK, Payloads
  <2> QED
    BY <1>3, <2>1, <2>2, <2>4, UnchangedTyped DEF AcquireLock
<1>4. CASE LockBusy(p)
  <2>1. LocalsOK' /\ Working'
    BY <1>4, GotoTyped, LeaveTyped DEF LockBusy, Resting, ClaimSteps,
       RunCancelSteps, PcValues, ExecuteSteps, SubmitSteps, CancelSteps,
       RecoverySteps
  <2> QED
    BY <1>4, <2>1, UnchangedTyped DEF LockBusy
<1>5. CASE StartTransition(p)
  <2>1. LocalsOK' /\ Working'
    BY <1>5, GotoTyped, LeaveTyped DEF StartTransition, Resting, ClaimSteps,
       RunCancelSteps, PcValues, ExecuteSteps, SubmitSteps, CancelSteps,
       RecoverySteps
  <2>2. StoreOK'
    BY <1>5, TransitionTyped, UnchangedTyped DEF StartTransition, Working,
       Resting
  <2> QED
    BY <1>5, <2>1, <2>2, UnchangedTyped DEF StartTransition
<1>6. CASE StartRun(p)
  <2>1. LocalsOK' /\ Working'
    BY <1>6, GotoTyped, LeaveTyped DEF StartRun, Resting, ClaimSteps,
       RunCancelSteps, PcValues, ExecuteSteps, SubmitSteps, CancelSteps,
       RecoverySteps
  <2>2. RegistryOK'
    BY <1>6 DEF StartRun, RegistryOK, LocalsOK, RunOutcomes
  <2> QED
    BY <1>6, <2>1, <2>2, UnchangedTyped DEF StartRun, registry, vars
<1>7. CASE Spawn(p)
  <2>1. LocalsOK' /\ Working'
    BY <1>7, GotoTyped, LeaveTyped DEF Spawn, Resting, ClaimSteps,
       RunCancelSteps, PcValues, ExecuteSteps, SubmitSteps, CancelSteps,
       RecoverySteps
  <2>2. ExecutorOK'
    BY <1>7 DEF Spawn, ExecutorOK, ExecutorVerdicts, StopsChildOrNot
  <2> QED
    BY <1>7, <2>1, <2>2, UnchangedTyped DEF Spawn
<1>8. CASE SpawnFails(p)
  <2>1. LocalsOK' /\ Working'
    BY <1>8, GotoTyped, LeaveTyped DEF SpawnFails, Resting, ClaimSteps,
       RunCancelSteps, PcValues, ExecuteSteps, SubmitSteps, CancelSteps,
       RecoverySteps
  <2>2. ExecutorOK'
    BY <1>8 DEF SpawnFails, ExecutorOK, ExecutorVerdicts, StopsChildOrNot
  <2>3. faulted' \in 0 .. MaxFaults
    BY <1>8, FaultTyped DEF SpawnFails
  <2> QED
    BY <1>8, <2>1, <2>2, <2>3, UnchangedTyped DEF SpawnFails
<1>9. CASE RecordSpawn(p)
  <2>1. LocalsOK' /\ Working'
    BY <1>9, GotoTyped, LeaveTyped DEF RecordSpawn, Resting, ClaimSteps,
       RunCancelSteps, PcValues, ExecuteSteps, SubmitSteps, CancelSteps,
       RecoverySteps
  <2>2. RegistryOK'
    BY <1>9 DEF RecordSpawn, RegistryOK, LocalsOK, RunOutcomes
  <2>3. faulted' \in 0 .. MaxFaults
    BY <1>9, FaultTyped, BoundsAssumption DEF RecordSpawn, Injected
  <2> QED
    BY <1>9, <2>1, <2>2, <2>3, UnchangedTyped DEF RecordSpawn, registry,
       vars
<1>10. CASE ObserverFails(p)
  <2>1. LocalsOK' /\ Working'
    BY <1>10, GotoTyped, LeaveTyped DEF ObserverFails, Resting, ClaimSteps,
       RunCancelSteps, PcValues, ExecuteSteps, SubmitSteps, CancelSteps,
       RecoverySteps
  <2>2. ExecutorOK'
    BY <1>10 DEF ObserverFails, ExecutorOK, ExecutorVerdicts,
       StopsChildOrNot
  <2>3. faulted' \in 0 .. MaxFaults
    BY <1>10, FaultTyped DEF ObserverFails
  <2> QED
    BY <1>10, <2>1, <2>2, <2>3, UnchangedTyped DEF ObserverFails
<1>11. CASE ExecutorReturns(p)
  <2>1. LocalsOK' /\ Working'
    BY <1>11, GotoTyped, LeaveTyped DEF ExecutorReturns, Resting,
       ClaimSteps, RunCancelSteps, PcValues, ExecuteSteps, SubmitSteps,
       CancelSteps, RecoverySteps
  <2>2. ExecutorOK'
    BY <1>11, VerdictsAssumption DEF ExecutorReturns, ExecutorOK,
       ExecutorVerdicts, StopsChildOrNot
  <2> QED
    BY <1>11, <2>1, <2>2, UnchangedTyped DEF ExecutorReturns
<1>12. CASE GuardFires(p)
  <2>1. LocalsOK' /\ Working'
    BY <1>12, GotoTyped, LeaveTyped DEF GuardFires, Resting, ClaimSteps,
       RunCancelSteps, PcValues, ExecuteSteps, SubmitSteps, CancelSteps,
       RecoverySteps
  <2>2. verdict' \in [Runs -> ExecutorVerdicts \cup {"none"}]
    BY <1>12, VerdictsAssumption DEF GuardFires, ExecutorOK
  <2>3. child' \in [Runs -> {"none", "alive", "stray", "exited", "killed"}]
    BY <1>12 DEF GuardFires, ExecutorOK
  <2>4. ExecutorOK'
    BY <1>12, <2>2, <2>3 DEF ExecutorOK
  <2>5. faulted' \in 0 .. MaxFaults
    BY <1>12, FaultTyped DEF GuardFires
  <2> QED
    BY <1>12, <2>1, <2>2, <2>3, <2>4, <2>5, UnchangedTyped DEF GuardFires
<1>13. CASE CheckCancelled(p)
  <2>1. LocalsOK' /\ Working'
    BY <1>13, GotoTyped, LeaveTyped DEF CheckCancelled, Resting, ClaimSteps,
       RunCancelSteps, PcValues, ExecuteSteps, SubmitSteps, CancelSteps,
       RecoverySteps
  <2> QED
    BY <1>13, <2>1, UnchangedTyped DEF CheckCancelled
<1>14. CASE WriteResult(p)
  <2>1. LocalsOK' /\ Working'
    BY <1>14, GotoTyped, LeaveTyped DEF WriteResult, Resting, ClaimSteps,
       RunCancelSteps, PcValues, ExecuteSteps, SubmitSteps, CancelSteps,
       RecoverySteps
  <2>2. FilesOK'
    BY <1>14 DEF WriteResult, FilesOK, files, LocalsOK
  <2> QED
    BY <1>14, <2>1, <2>2, UnchangedTyped DEF WriteResult
<1>15. CASE WriteCheckpoint(p)
  <2>1. LocalsOK' /\ Working'
    BY <1>15, GotoTyped, LeaveTyped DEF WriteCheckpoint, Resting,
       ClaimSteps, RunCancelSteps, PcValues, ExecuteSteps, SubmitSteps,
       CancelSteps, RecoverySteps
  <2>2. FilesOK'
    BY <1>15 DEF WriteCheckpoint, FilesOK, files, LocalsOK
  <2> QED
    BY <1>15, <2>1, <2>2, UnchangedTyped DEF WriteCheckpoint
<1>16. CASE WriteFails(p)
  <2>1. LocalsOK' /\ Working'
    BY <1>16, GotoTyped, LeaveTyped DEF WriteFails, Resting, ClaimSteps,
       RunCancelSteps, PcValues, ExecuteSteps, SubmitSteps, CancelSteps,
       RecoverySteps
  <2>2. faulted' \in 0 .. MaxFaults
    BY <1>16, FaultTyped DEF WriteFails
  <2> QED
    BY <1>16, <2>1, <2>2, UnchangedTyped DEF WriteFails
<1>17. CASE Finish(p)
  <2>1. LocalsOK' /\ Working'
    BY <1>17, GotoTyped, LeaveTyped DEF Finish, Resting, ClaimSteps,
       RunCancelSteps, PcValues, ExecuteSteps, SubmitSteps, CancelSteps,
       RecoverySteps
  <2>2. StoreOK'
    BY <1>17, TransitionTyped, UnchangedTyped DEF Finish, Working, Resting
  <2> QED
    BY <1>17, <2>1, <2>2, UnchangedTyped DEF Finish
<1>18. CASE Rejected(p)
  <2>1. LocalsOK' /\ Working'
    BY <1>18, GotoTyped, LeaveTyped DEF Rejected, Resting, ClaimSteps,
       RunCancelSteps, PcValues, ExecuteSteps, SubmitSteps, CancelSteps,
       RecoverySteps
  <2> QED
    BY <1>18, <2>1, UnchangedTyped DEF Rejected
<1>19. CASE Recheck(p)
  <2>1. LocalsOK' /\ Working'
    BY <1>19, GotoTyped, LeaveTyped DEF Recheck, Resting, ClaimSteps,
       RunCancelSteps, PcValues, ExecuteSteps, SubmitSteps, CancelSteps,
       RecoverySteps
  <2> QED
    BY <1>19, <2>1, UnchangedTyped DEF Recheck
<1>20. CASE Undo(p)
  <2>1. LocalsOK' /\ Working'
    BY <1>20, GotoTyped, LeaveTyped DEF Undo, Resting, ClaimSteps,
       RunCancelSteps, PcValues, ExecuteSteps, SubmitSteps, CancelSteps,
       RecoverySteps
  <2>2. FilesOK'
    BY <1>20 DEF Undo, FilesOK, files, LocalsOK
  <2> QED
    BY <1>20, <2>1, <2>2, UnchangedTyped DEF Undo
<1>21. CASE CloseCancelled(p)
  <2>1. LocalsOK' /\ Working'
    BY <1>21, GotoTyped, LeaveTyped DEF CloseCancelled, Resting, ClaimSteps,
       RunCancelSteps, PcValues, ExecuteSteps, SubmitSteps, CancelSteps,
       RecoverySteps
  <2>2. RegistryOK'
    BY <1>21, FinishRunTyped DEF CloseCancelled, RunOutcomes,
       ExecutorVerdicts
  <2> QED
    BY <1>21, <2>1, <2>2, UnchangedTyped DEF CloseCancelled, registry, vars
<1>22. CASE SetRefs(p)
  <2>1. LocalsOK' /\ Working'
    BY <1>22, GotoTyped, LeaveTyped DEF SetRefs, Resting, ClaimSteps,
       RunCancelSteps, PcValues, ExecuteSteps, SubmitSteps, CancelSteps,
       RecoverySteps
  <2>2. StoreOK'
    BY <1>22 DEF SetRefs, UpdateTaskRefs, StoreOK
  <2> QED
    BY <1>22, <2>1, <2>2, UnchangedTyped DEF SetRefs
<1>23. CASE Close(p)
  <2>1. LocalsOK' /\ Working'
    BY <1>23, GotoTyped, LeaveTyped DEF Close, Resting, ClaimSteps,
       RunCancelSteps, PcValues, ExecuteSteps, SubmitSteps, CancelSteps,
       RecoverySteps
  <2>2. verdict[run[p]] \in RunOutcomes
    BY <1>23 DEF Close, ExecutorOK, Working, ClaimSteps, RunOutcomes
  <2>3. RegistryOK'
    BY <1>23, FinishRunTyped, <2>2 DEF Close, RunOutcomes, ExecutorVerdicts
  <2> QED
    BY <1>23, <2>1, <2>2, <2>3, UnchangedTyped DEF Close, registry, vars
<1>24. CASE Release(p)
  <2>1. LocalsOK' /\ Working'
    BY <1>24, GotoTyped, LeaveTyped DEF Release, Resting, ClaimSteps,
       RunCancelSteps, PcValues, ExecuteSteps, SubmitSteps, CancelSteps,
       RecoverySteps
  <2>2. LocksOK'
    BY <1>24, BoundsAssumption DEF Release, LocksOK, Runs, NoRun,
       LockPayload, NoLock, LocalsOK
  <2>3. child' \in [Runs -> {"none", "alive", "stray", "exited", "killed"}]
    BY <1>24 DEF Release, ExecutorOK
  <2>4. ExecutorOK'
    BY <1>24, <2>3 DEF Release, ExecutorOK
  <2> QED
    BY <1>24, <2>1, <2>2, <2>4, UnchangedTyped DEF Release
<1>25. CASE Crash(p)
  <2>1. LocalsOK' /\ Working'
    BY <1>25, GotoTyped, LeaveTyped DEF Crash, Resting, ClaimSteps,
       RunCancelSteps, PcValues, ExecuteSteps, SubmitSteps, CancelSteps,
       RecoverySteps
  <2>2. faulted' \in 0 .. MaxFaults
    BY <1>25, FaultTyped DEF Crash
  <2> QED
    BY <1>25, <2>1, <2>2, UnchangedTyped DEF Crash
<1>26. CASE TreeKill(p)
  <2>1. LocalsOK' /\ Working'
    BY <1>26, GotoTyped, LeaveTyped DEF TreeKill, Resting, ClaimSteps,
       RunCancelSteps, PcValues, ExecuteSteps, SubmitSteps, CancelSteps,
       RecoverySteps
  <2>2. ExecutorOK'
    BY <1>26 DEF TreeKill, ExecutorOK, ExecutorVerdicts, StopsChildOrNot
  <2>3. faulted' \in 0 .. MaxFaults
    BY <1>26, FaultTyped DEF TreeKill
  <2> QED
    BY <1>26, <2>1, <2>2, <2>3, UnchangedTyped DEF TreeKill
<1>27. CASE Interrupt(p)
  <2>1. LocalsOK' /\ Working'
    BY <1>27, GotoTyped, LeaveTyped DEF Interrupt, Resting, ClaimSteps,
       RunCancelSteps, PcValues, ExecuteSteps, SubmitSteps, CancelSteps,
       RecoverySteps
  <2>2. ExecutorOK'
    BY <1>27 DEF Interrupt, ExecutorOK, ExecutorVerdicts, StopsChildOrNot
  <2>3. faulted' \in 0 .. MaxFaults
    BY <1>27, FaultTyped DEF Interrupt
  <2> QED
    BY <1>27, <2>1, <2>2, <2>3, UnchangedTyped DEF Interrupt
<1>28. CASE Restart(p)
  <2>1. LocalsOK' /\ Working'
    BY <1>28, GotoTyped, LeaveTyped DEF Restart, Resting, ClaimSteps,
       RunCancelSteps, PcValues, ExecuteSteps, SubmitSteps, CancelSteps,
       RecoverySteps
  <2> QED
    BY <1>28, <2>1, UnchangedTyped DEF Restart
<1> QED
  BY <1>1, <1>2, <1>3, <1>4, <1>5, <1>6, <1>7, <1>8, <1>9, <1>10, <1>11, <1>12, <1>13, <1>14, <1>15, <1>16, <1>17, <1>18, <1>19, <1>20, <1>21, <1>22, <1>23, <1>24, <1>25, <1>26, <1>27, <1>28
  DEF CoordinatorStep

\* Type correctness of the steps of reconcile_running and of the pick.
LEMMA RecoveryTyped ==
    ASSUME Typed, NEW p \in Procs, RecoveryStep(p)
    PROVE  Typed'
<1> USE DEF Typed, TypeOK
<1>1. CASE ReconcileScan(p)
  <2> DEFINE rows == {<<t, refs[t]>> : t \in {u \in Tasks : status[u] = "RUNNING"}}
  <2>1. rows \in SUBSET (Tasks \X BOOLEAN)
    BY DEF StoreOK
  <2>2. LocalsOK'
    BY <1>1, <2>1 DEF ReconcileScan, LocalsOK, PcValues, RecoverySteps
  <2>3. Working'
    BY <1>1 DEF ReconcileScan, LocalsOK, Working, Resting, ClaimSteps,
       RunCancelSteps
  <2> QED
    BY <1>1, <2>2, <2>3, UnchangedTyped DEF ReconcileScan
<1>2. CASE ReconcileRead(p)
  <2>1. PICK row \in scan[p] :
           LET t == row[1]
               r == LatestRun(t) IN
           /\ job' = [job EXCEPT ![p] = t]
           /\ run' = [run EXCEPT ![p] = r]
           /\ seen' = [seen EXCEPT ![p] =
                [refs |-> row[2], verdict |-> "none",
                 open |-> r # NoRun /\ runOutcome[r] = "open",
                 ident |-> r # NoRun /\ ident[r]]]
           /\ scan' = [scan EXCEPT ![p] = @ \ {row}]
           /\ pc' = [pc EXCEPT ![p] = "judge"]
    BY <1>2 DEF ReconcileRead
  <2>2. row[1] \in Tasks /\ row[2] \in BOOLEAN
    BY DEF LocalsOK
  <2>3. LatestRun(row[1]) \in Runs \cup {NoRun}
    BY LatestRunOfTask
  <2>4. /\ pc' \in [Procs -> PcValues]
        /\ job' \in [Procs -> Tasks \cup {NoTask}]
        /\ run' \in [Procs -> Runs \cup {NoRun}]
    BY <2>1, <2>2, <2>3 DEF LocalsOK, PcValues, RecoverySteps
  <2>5. seen' \in [Procs -> [refs : BOOLEAN, open : BOOLEAN, ident : BOOLEAN,
                             verdict : ExecutorVerdicts \cup {"none"}]]
    <3>1. /\ (LatestRun(row[1]) # NoRun /\ runOutcome[LatestRun(row[1])] = "open")
                \in BOOLEAN
          /\ (LatestRun(row[1]) # NoRun /\ ident[LatestRun(row[1])]) \in BOOLEAN
      BY <2>3 DEF RegistryOK
    <3> QED
      BY <2>1, <2>2, <3>1 DEF LocalsOK
  <2>6. scan' \in [Procs -> SUBSET (Tasks \X BOOLEAN)]
    BY <2>1 DEF LocalsOK
  <2>7. LocalsOK'
    BY <2>4, <2>5, <2>6 DEF LocalsOK
  <2>8. Working'
    BY <1>2, <2>1, <2>2 DEF LocalsOK, Working, Resting, ClaimSteps,
       RunCancelSteps
  <2> QED
    BY <1>2, <2>7, <2>8, UnchangedTyped DEF ReconcileRead
<1>3. CASE JudgeTerminal(p)
  <2>1. verdict[result[job[p]]] \in ExecutorVerdicts \cup {"none"}
    BY <1>3 DEF JudgeTerminal, TerminalOnDisk, Working, Resting, FilesOK,
       ExecutorOK
  <2>2. LocalsOK'
    BY <1>3, <2>1 DEF JudgeTerminal, LocalsOK, PcValues, RecoverySteps
  <2>3. Working'
    BY <1>3 DEF JudgeTerminal, LocalsOK, Working, Resting, ClaimSteps,
       RunCancelSteps
  <2> QED
    BY <1>3, <2>2, <2>3, UnchangedTyped DEF JudgeTerminal
<1>4. CASE JudgeAlive(p)
  <2>1. LocalsOK' /\ Working'
    BY <1>4, GotoTyped, LeaveTyped, NextRowTyped DEF JudgeAlive, Resting,
       ClaimSteps, RunCancelSteps, PcValues, ExecuteSteps, SubmitSteps,
       CancelSteps, RecoverySteps
  <2> QED
    BY <1>4, <2>1, UnchangedTyped DEF JudgeAlive
<1>5. CASE JudgeStale(p)
  <2>1. LocalsOK'
    <3>1. seen' \in [Procs -> [refs : BOOLEAN, open : BOOLEAN, ident : BOOLEAN,
                               verdict : ExecutorVerdicts \cup {"none"}]]
      <4>1. CASE seen' = seen
        BY <4>1 DEF LocalsOK
      <4>2. CASE seen' = [seen EXCEPT ![p].ident = FALSE]
        <5>1. seen[p] \in [refs : BOOLEAN, open : BOOLEAN, ident : BOOLEAN,
                           verdict : ExecutorVerdicts \cup {"none"}]
          BY DEF LocalsOK
        <5>2. [seen[p] EXCEPT !.ident = FALSE]
                \in [refs : BOOLEAN, open : BOOLEAN, ident : BOOLEAN,
                    verdict : ExecutorVerdicts \cup {"none"}]
          BY <5>1
        <5>3. seen' = [seen EXCEPT ![p] = [seen[p] EXCEPT !.ident = FALSE]]
          BY <4>2
        <5> QED
          BY <5>2, <5>3 DEF LocalsOK
      <4> QED
        BY <1>5, <4>1, <4>2 DEF JudgeStale
    <3>2. pc' \in [Procs -> PcValues]
      BY <1>5 DEF JudgeStale, LocalsOK, PcValues, RecoverySteps
    <3>3. UNCHANGED <<job, run, scan>>
      BY <1>5 DEF JudgeStale
    <3> QED
      BY <3>1, <3>2, <3>3 DEF LocalsOK
  <2>3. Working'
    BY <1>5 DEF JudgeStale, LocalsOK, Working, Resting, ClaimSteps,
       RunCancelSteps
  <2>2. faulted' \in 0 .. MaxFaults
    BY <1>5, FaultTyped, BoundsAssumption DEF JudgeStale, Injected
  <2> QED
    BY <1>5, <2>1, <2>2, <2>3, UnchangedTyped DEF JudgeStale
<1>6. CASE Adopt(p)
  <2>1. LocalsOK' /\ Working'
    BY <1>6, GotoTyped, LeaveTyped, NextRowTyped DEF Adopt, Resting,
       ClaimSteps, RunCancelSteps, PcValues, ExecuteSteps, SubmitSteps,
       CancelSteps, RecoverySteps
  <2>2. StoreOK'
    BY <1>6, TransitionTyped, UnchangedTyped DEF Adopt, Working, Resting
  <2> QED
    BY <1>6, <2>1, <2>2, UnchangedTyped DEF Adopt
<1>7. CASE AdoptClose(p)
  <2>1. LocalsOK' /\ Working'
    BY <1>7, GotoTyped, LeaveTyped, NextRowTyped DEF AdoptClose, Resting,
       ClaimSteps, RunCancelSteps, PcValues, ExecuteSteps, SubmitSteps,
       CancelSteps, RecoverySteps
  <2>2. seen[p].verdict \in RunOutcomes
    BY <1>7 DEF LocalsOK, RunOutcomes
  <2>3. RegistryOK'
    BY <1>7, FinishRunTyped, <2>2 DEF AdoptClose, RunOutcomes,
       ExecutorVerdicts
  <2> QED
    BY <1>7, <2>1, <2>2, <2>3, UnchangedTyped DEF AdoptClose, registry, vars
<1>8. CASE StaleClose(p)
  <2>1. LocalsOK' /\ Working'
    BY <1>8, GotoTyped, LeaveTyped DEF StaleClose, Resting, ClaimSteps,
       RunCancelSteps, PcValues, ExecuteSteps, SubmitSteps, CancelSteps,
       RecoverySteps
  <2>2. RegistryOK'
    BY <1>8, FinishRunTyped DEF StaleClose, RunOutcomes, ExecutorVerdicts
  <2> QED
    BY <1>8, <2>1, <2>2, UnchangedTyped DEF StaleClose, registry, vars
<1>9. CASE StaleMark(p)
  <2>1. LocalsOK' /\ Working'
    BY <1>9, GotoTyped, LeaveTyped, NextRowTyped DEF StaleMark, Resting,
       ClaimSteps, RunCancelSteps, PcValues, ExecuteSteps, SubmitSteps,
       CancelSteps, RecoverySteps
  <2>2. StoreOK'
    BY <1>9, TransitionTyped, UnchangedTyped DEF StaleMark, Working, Resting
  <2> QED
    BY <1>9, <2>1, <2>2, UnchangedTyped DEF StaleMark
<1>10. CASE WorkerPick(p)
  <2>1. LocalsOK'
    BY <1>10 DEF WorkerPick, LocalsOK, Goto, Leave, NothingSeen, NextRow,
       Resting, ClaimSteps, RunCancelSteps, PcValues, ExecuteSteps,
       SubmitSteps, CancelSteps, RecoverySteps
  <2>2. Working'
    BY <1>10 DEF WorkerPick, LocalsOK, Working, Goto, Leave, NextRow,
       Resting, ClaimSteps, RunCancelSteps, PcValues, ExecuteSteps,
       SubmitSteps, CancelSteps, RecoverySteps
  <2> QED
    BY <1>10, <2>1, <2>2, UnchangedTyped DEF WorkerPick
<1>11. CASE NothingReady(p)
  <2>1. LocalsOK' /\ Working'
    BY <1>11, GotoTyped, LeaveTyped DEF NothingReady, Resting, ClaimSteps,
       RunCancelSteps, PcValues, ExecuteSteps, SubmitSteps, CancelSteps,
       RecoverySteps
  <2> QED
    BY <1>11, <2>1, UnchangedTyped DEF NothingReady
<1> QED
  BY <1>1, <1>2, <1>3, <1>4, <1>5, <1>6, <1>7, <1>8, <1>9, <1>10, <1>11
  DEF RecoveryStep

\* Type correctness of the steps of a cancel.
LEMMA CancellerTyped ==
    ASSUME Typed, NEW p \in Procs, CancellerStep(p)
    PROVE  Typed'
<1> USE DEF Typed, TypeOK
<1>0. ASSUME NEW t \in Tasks, CancelRead(p, t) PROVE Typed'
  <2>1. LocalsOK'
    BY <1>0 DEF CancelRead, LocalsOK, PcValues, CancelSteps
  <2>2. Working'
    BY <1>0 DEF CancelRead, LocalsOK, Working, Resting, ClaimSteps, RunCancelSteps
  <2> QED
    BY <1>0, <2>1, <2>2, UnchangedTyped DEF CancelRead
<1>1. CASE CancelDirect(p)
  <2>1. LocalsOK' /\ Working'
    BY <1>1, GotoTyped, LeaveTyped DEF CancelDirect, Resting, ClaimSteps,
       RunCancelSteps, PcValues, ExecuteSteps, SubmitSteps, CancelSteps,
       RecoverySteps
  <2>2. StoreOK'
    BY <1>1, TransitionTyped, UnchangedTyped DEF CancelDirect, Working,
       Resting
  <2> QED
    BY <1>1, <2>1, <2>2, UnchangedTyped DEF CancelDirect
<1>2. CASE CancelActive(p)
  <2>1. LocalsOK'
    <3>1. CASE status[job[p]] = "RUNNING"
      <4>1. refs[job[p]] \in BOOLEAN
        BY <1>2 DEF CancelActive, Working, Resting, StoreOK
      <4>2. /\ pc' = [pc EXCEPT ![p] = "cancelRun"]
            /\ seen' = [seen EXCEPT ![p].refs = refs[job[p]]]
            /\ UNCHANGED <<job, run, scan>>
        BY <1>2, <3>1 DEF CancelActive
      <4>3. seen' \in [Procs -> [refs : BOOLEAN, open : BOOLEAN, ident : BOOLEAN,
                                 verdict : ExecutorVerdicts \cup {"none"}]]
        BY <4>1, <4>2 DEF LocalsOK
      <4> QED
        BY <4>2, <4>3 DEF LocalsOK, PcValues, CancelSteps
    <3>2. CASE status[job[p]] # "RUNNING"
      BY <1>2, <3>2, LeaveTyped DEF CancelActive
    <3> QED
      BY <3>1, <3>2
  <2>2. Working'
    BY <1>2 DEF CancelActive, LocalsOK, Working, Goto, Leave, NextRow,
       Resting, ClaimSteps, RunCancelSteps, PcValues, ExecuteSteps,
       SubmitSteps, CancelSteps, RecoverySteps
  <2> QED
    BY <1>2, <2>1, <2>2, UnchangedTyped DEF CancelActive
<1>3. CASE CancelRun(p)
  <2>1. LocalsOK'
    <3>1. CASE pc' = [pc EXCEPT ![p] = "cancelKill"]
      BY <1>3, <3>1, LatestRunOfTask, LeaveTyped
      DEF CancelRun, LocalsOK, PcValues, CancelSteps
    <3>2. CASE Leave(p, "idle")
      BY <3>2, LeaveTyped
    <3> QED
      BY <1>3, <3>1, <3>2 DEF CancelRun
  <2>2. Working'
    <3>1. ASSUME LatestRun(job[p]) # NoRun,
                 pc' = [pc EXCEPT ![p] = "cancelKill"],
                 run' = [run EXCEPT ![p] = LatestRun(job[p])],
                 UNCHANGED job
          PROVE  Working'
      <4>1. LatestRun(job[p]) \in Runs
        BY <3>1, LatestRunOfTask
      <4>2. job[p] \in Tasks
        BY <1>3 DEF CancelRun, Working, Resting
      <4> QED
        BY <3>1, <4>1, <4>2 DEF LocalsOK, Working
    <3>2. CASE Leave(p, "idle")
      BY <3>2, LeaveTyped
    <3> QED
      BY <1>3, <3>1, <3>2 DEF CancelRun
  <2> QED
    BY <1>3, <2>1, <2>2, UnchangedTyped DEF CancelRun
<1>4. CASE CancelKill(p)
  <2>1. LocalsOK' /\ Working'
    BY <1>4, GotoTyped, LeaveTyped DEF CancelKill, Resting, ClaimSteps,
       RunCancelSteps, PcValues, ExecuteSteps, SubmitSteps, CancelSteps,
       RecoverySteps
  <2>2. ExecutorOK'
    BY <1>4 DEF CancelKill, ExecutorOK, ExecutorVerdicts, StopsChildOrNot
  <2> QED
    BY <1>4, <2>1, <2>2, UnchangedTyped DEF CancelKill
<1>5. CASE CancelKillFails(p)
  <2>1. LocalsOK' /\ Working'
    BY <1>5, GotoTyped, LeaveTyped DEF CancelKillFails, Resting, ClaimSteps,
       RunCancelSteps, PcValues, ExecuteSteps, SubmitSteps, CancelSteps,
       RecoverySteps
  <2>2. ExecutorOK'
    BY <1>5 DEF CancelKillFails, ExecutorOK, ExecutorVerdicts,
       StopsChildOrNot
  <2>3. faulted' \in 0 .. MaxFaults
    BY <1>5, FaultTyped, BoundsAssumption DEF CancelKillFails, Injected
  <2> QED
    BY <1>5, <2>1, <2>2, <2>3, UnchangedTyped DEF CancelKillFails
<1>6. CASE CancelMark(p)
  <2>1. LocalsOK' /\ Working'
    BY <1>6, GotoTyped, LeaveTyped DEF CancelMark, Resting, ClaimSteps,
       RunCancelSteps, PcValues, ExecuteSteps, SubmitSteps, CancelSteps,
       RecoverySteps
  <2>2. StoreOK'
    BY <1>6, TransitionTyped, UnchangedTyped DEF CancelMark, Working,
       Resting
  <2> QED
    BY <1>6, <2>1, <2>2, UnchangedTyped DEF CancelMark
<1>7. CASE CancelClose(p)
  <2>1. LocalsOK' /\ Working'
    BY <1>7, GotoTyped, LeaveTyped DEF CancelClose, Resting, ClaimSteps,
       RunCancelSteps, PcValues, ExecuteSteps, SubmitSteps, CancelSteps,
       RecoverySteps
  <2>2. RegistryOK'
    BY <1>7, FinishRunTyped DEF CancelClose, RunOutcomes, ExecutorVerdicts
  <2> QED
    BY <1>7, <2>1, <2>2, UnchangedTyped DEF CancelClose, registry, vars
<1>8. CASE CancelUnlink(p)
  <2>1. LocalsOK' /\ Working'
    BY <1>8, GotoTyped, LeaveTyped DEF CancelUnlink, Resting, ClaimSteps,
       RunCancelSteps, PcValues, ExecuteSteps, SubmitSteps, CancelSteps,
       RecoverySteps
  <2>2. FilesOK'
    BY <1>8 DEF CancelUnlink, FilesOK, files, LocalsOK
  <2> QED
    BY <1>8, <2>1, <2>2, UnchangedTyped DEF CancelUnlink
<1>9. CASE CancelRefs(p)
  <2>1. LocalsOK' /\ Working'
    BY <1>9, GotoTyped, LeaveTyped DEF CancelRefs, Resting, ClaimSteps,
       RunCancelSteps, PcValues, ExecuteSteps, SubmitSteps, CancelSteps,
       RecoverySteps
  <2>2. StoreOK'
    BY <1>9 DEF CancelRefs, UpdateTaskRefs, StoreOK
  <2> QED
    BY <1>9, <2>1, <2>2, UnchangedTyped DEF CancelRefs
<1>10. CASE CancelLock(p)
  <2>1. LocalsOK' /\ Working'
    BY <1>10, GotoTyped, LeaveTyped DEF CancelLock, Resting, ClaimSteps,
       RunCancelSteps, PcValues, ExecuteSteps, SubmitSteps, CancelSteps,
       RecoverySteps
  <2>2. LocksOK'
    BY <1>10, BoundsAssumption DEF CancelLock, LocksOK, Runs, NoRun,
       LockPayload, NoLock, LocalsOK
  <2> QED
    BY <1>10, <2>1, <2>2, UnchangedTyped DEF CancelLock
<1> QED
  BY <1>0, <1>1, <1>2, <1>3, <1>4, <1>5, <1>6, <1>7, <1>8, <1>9, <1>10
  DEF CancellerStep

\* Type correctness of the steps of a submit.
LEMMA SubmitterTyped ==
    ASSUME Typed, NEW p \in Submitters, SubmitterStep(p)
    PROVE  Typed'
<1> USE DEF Typed, TypeOK
<1> p \in Procs
  BY DEF Procs
<1>0. ASSUME NEW t \in Tasks \ Mailbox, SubmitCheck(p, t) PROVE Typed'
  <2>1. LocalsOK'
    BY <1>0 DEF SubmitCheck, LocalsOK, PcValues, SubmitSteps
  <2>2. Working'
    BY <1>0 DEF SubmitCheck, LocalsOK, Working, Resting, ClaimSteps, RunCancelSteps
  <2> QED
    BY <1>0, <2>1, <2>2, UnchangedTyped DEF SubmitCheck
<1>4. CASE SubmitWrite(p)
  <2>1. LocalsOK' /\ Working'
    BY <1>4, GotoTyped, LeaveTyped DEF SubmitWrite, Resting, ClaimSteps,
       RunCancelSteps, PcValues, ExecuteSteps, SubmitSteps, CancelSteps,
       RecoverySteps
  <2>2. FilesOK'
    BY <1>4 DEF SubmitWrite, FilesOK
  <2> QED
    BY <1>4, <2>1, <2>2, UnchangedTyped DEF SubmitWrite
<1>1. CASE SubmitCreate(p)
  <2>1. LocalsOK' /\ Working'
    BY <1>1, GotoTyped, LeaveTyped DEF SubmitCreate, Resting, ClaimSteps,
       RunCancelSteps, PcValues, ExecuteSteps, SubmitSteps, CancelSteps,
       RecoverySteps
  <2>2. StoreOK'
    BY <1>1 DEF SubmitCreate, CreateTask, StoreOK, Statuses
  <2> QED
    BY <1>1, <2>1, <2>2, UnchangedTyped DEF SubmitCreate
<1>2. CASE SubmitConflict(p)
  <2>1. LocalsOK' /\ Working'
    BY <1>2, GotoTyped, LeaveTyped DEF SubmitConflict, Resting, ClaimSteps,
       RunCancelSteps, PcValues, ExecuteSteps, SubmitSteps, CancelSteps,
       RecoverySteps
  <2> QED
    BY <1>2, <2>1, UnchangedTyped DEF SubmitConflict
<1>3. CASE SubmitReady(p)
  <2>1. LocalsOK' /\ Working'
    BY <1>3, GotoTyped, LeaveTyped DEF SubmitReady, Resting, ClaimSteps,
       RunCancelSteps, PcValues, ExecuteSteps, SubmitSteps, CancelSteps,
       RecoverySteps
  <2>2. StoreOK'
    BY <1>3, TransitionTyped, UnchangedTyped DEF SubmitReady, Working,
       Resting
  <2> QED
    BY <1>3, <2>1, <2>2, UnchangedTyped DEF SubmitReady
<1> QED
  BY <1>0, <1>1, <1>2, <1>3, <1>4
  DEF SubmitterStep

LEMMA IngestTyped ==
    ASSUME Typed, NEW t \in Tasks, IngestCreate(t) \/ IngestReady(t)
    PROVE  Typed'
<1> USE DEF Typed, TypeOK
<1>1. StoreOK'
  <2>1. CASE IngestCreate(t)
    BY <2>1 DEF IngestCreate, CreateTask, StoreOK, Statuses
  <2>2. CASE IngestReady(t)
    BY <2>2, TransitionTyped DEF IngestReady, Transition
  <2> QED
    BY <2>1, <2>2
<1> QED
  BY <1>1, UnchangedTyped DEF IngestCreate, IngestReady, locals

LEMMA ChildExitsTyped ==
    ASSUME Typed, NEW r \in Runs, ChildExits(r)
    PROVE  Typed'
<1> USE DEF Typed, TypeOK
<1>1. ExecutorOK'
  BY DEF ChildExits, ExecutorOK
<1> QED
  BY <1>1, UnchangedTyped DEF ChildExits, locals

LEMMA TypedStep == Typed /\ [Next]_vars => Typed'
<1> SUFFICES ASSUME Typed, [Next]_vars PROVE Typed'
  OBVIOUS
<1>1. ASSUME NEW p \in Coordinators, CoordinatorStep(p) PROVE Typed'
  BY <1>1, CoordinatorTyped DEF Procs, Coordinators
<1>2. ASSUME NEW p \in Submitters, SubmitterStep(p) PROVE Typed'
  BY <1>2, SubmitterTyped DEF Procs
<1>3. ASSUME NEW p \in Workers, RecoveryStep(p) PROVE Typed'
  BY <1>3, RecoveryTyped DEF Procs
<1>4. ASSUME NEW p \in Cancellers, CancellerStep(p) PROVE Typed'
  BY <1>4, CancellerTyped DEF Procs
<1>5. ASSUME NEW t \in Tasks, IngestCreate(t) \/ IngestReady(t) PROVE Typed'
  BY <1>5, IngestTyped
<1>6. ASSUME NEW r \in Runs, ChildExits(r) PROVE Typed'
  BY <1>6, ChildExitsTyped
<1>7. CASE UNCHANGED vars
  BY <1>7, UnchangedTyped DEF vars, locals, Typed, TypeOK
<1> QED
  BY <1>1, <1>2, <1>3, <1>4, <1>5, <1>6, <1>7 DEF Next

LEMMA TypedInit == Init => Typed
<1> SUFFICES ASSUME Init PROVE Typed
  OBVIOUS
<1>1. StoreOK /\ FilesOK /\ RegistryOK /\ ExecutorOK
  BY DEF Init, StoreOK, FilesOK, RegistryOK, ExecutorOK, RunOutcomes
<1>2. LocksOK
  BY BoundsAssumption DEF Init, LocksOK, NoLock
<1>3. LocalsOK
  BY DEF Init, LocalsOK, PcValues, NothingSeen
<1>4. Working
  BY DEF Init, Working, Resting, ClaimSteps, RunCancelSteps
<1> QED
  BY <1>1, <1>2, <1>3, <1>4, BoundsAssumption DEF Init, Typed, TypeOK

\* Every reachable state is well typed, and a process between two steps of a
\* call has the task, and past its claim the run, that the code has in hand.
THEOREM TypeCorrect == Spec => []Typed
BY TypedInit, TypedStep, PTL DEF Spec

\* The type invariant the runs check.
THEOREM TypeInvariant == Spec => []TypeOK
<1>1. Typed => TypeOK
  BY DEF Typed
<1> QED
  BY <1>1, TypeCorrect, PTL

=============================================================================
