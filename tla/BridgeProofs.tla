---------------------------- MODULE BridgeProofs ----------------------------
(***************************************************************************)
(* Safety of Bridge, for any number of processes, tasks and checkouts.       *)
(*                                                                          *)
(* A step of the bridge is, as far as claims on checkouts go, one of three: *)
(* a claim (AcquireLock), a release (Release), or a step that leaves every  *)
(* lock file alone and lets no process into the claimed section.  The lock  *)
(* invariant is proved once for the three kinds.                            *)
(***************************************************************************)
EXTENDS BridgeTypes, FiniteSetTheorems

\* The process q takes a step that touches no lock and enters no claim.
Bystands(q) ==
    /\ UNCHANGED <<lock, nextRun>>
    /\ \A p \in Procs \ {q} :
          pc'[p] = pc[p] /\ job'[p] = job[p] /\ run'[p] = run[p]
    /\ pc'[q] \in ClaimSteps =>
          pc[q] \in ClaimSteps /\ job'[q] = job[q] /\ run'[q] = run[q]

\* Inside its claimed section a coordinator owns the lock file of its checkout:
\* the payload is its own, and its run id was handed out to it alone.
OwnsLock ==
    \A p \in Coordinators :
        InClaim(p) => /\ lock[Checkout[job[p]]] = LockPayload(job[p], run[p])
                      /\ run[p] < nextRun

DistinctRuns ==
    \A p, q \in Coordinators :
        InClaim(p) /\ InClaim(q) /\ run[p] = run[q] => p = q

Claimed == OwnsLock /\ DistinctRuns

LEMMA NoOwnerLoaded ==
    ASSUME LocksOK, NEW c \in Checkouts
    PROVE  LoadLockOwner(c) = NoTask
<1>1. lock[c] \in [task : Tasks \cup {NoTask}, run : Runs \cup {NoRun}]
  BY DEF LocksOK
<1>2. DOMAIN lock[c] = {"task", "run"}
  BY <1>1
<1> QED
  BY <1>2 DEF LoadLockOwner

\* A payload tells its run.
LEMMA PayloadRun ==
    ASSUME NEW t, NEW u, NEW q, NEW r, LockPayload(t, q) = LockPayload(u, r)
    PROVE  q = r
<1>1. LockPayload(t, q).run = q /\ LockPayload(u, r).run = r
  BY DEF LockPayload
<1> QED
  BY <1>1

LEMMA CoordinatorKinds ==
    ASSUME Typed, NEW p \in Coordinators, CoordinatorStep(p)
    PROVE  Bystands(p) \/ AcquireLock(p) \/ Release(p)
<1> USE DEF Bystands, Goto, Leave, ClaimSteps, Typed, TypeOK, LocalsOK, locals,
        Procs, Coordinators, CoordinatorStep
<1>1. CASE \/ ExecuteCheck(p) \/ ValidationFails(p) \/ LockBusy(p)
           \/ StartTransition(p) \/ StartRun(p) \/ Spawn(p) \/ SpawnFails(p)
  BY <1>1 DEF ExecuteCheck, ValidationFails, LockBusy, StartTransition,
     StartRun, Spawn, SpawnFails
<1>2. CASE \/ RecordSpawn(p) \/ ObserverFails(p) \/ ExecutorReturns(p)
           \/ GuardFires(p) \/ CheckCancelled(p) \/ WriteResult(p)
           \/ WriteCheckpoint(p)
  BY <1>2 DEF RecordSpawn, ObserverFails, ExecutorReturns, GuardFires,
     CheckCancelled, WriteResult, WriteCheckpoint
<1>3. CASE \/ WriteFails(p) \/ Finish(p) \/ Rejected(p) \/ Recheck(p) \/ Undo(p)
           \/ CloseCancelled(p) \/ SetRefs(p) \/ Close(p)
  BY <1>3 DEF WriteFails, Finish, Rejected, Recheck, Undo, CloseCancelled,
     SetRefs, Close
<1>4. CASE Crash(p) \/ TreeKill(p) \/ Interrupt(p) \/ Restart(p)
  BY <1>4 DEF Crash, TreeKill, Interrupt, Restart
<1> QED
  BY <1>1, <1>2, <1>3, <1>4

LEMMA RecoveryKinds ==
    ASSUME Typed, NEW p \in Workers, RecoveryStep(p)
    PROVE  Bystands(p)
BY DEF Bystands, Goto, Leave, NextRow, ClaimSteps, Typed, TypeOK, LocalsOK,
   Procs, RecoveryStep, ReconcileScan, ReconcileRead, JudgeTerminal,
   JudgeAlive, JudgeStale, Adopt, AdoptClose, StaleClose, StaleMark,
   WorkerPick, NothingReady

LEMMA CancellerKinds ==
    ASSUME Typed, NEW p \in Cancellers, CancellerStep(p)
    PROVE  Bystands(p)
<1> USE DEF Bystands, Goto, Leave, ClaimSteps, Typed, TypeOK, LocalsOK, Procs
<1>1. CASE CancelLock(p)
  <2>1. job[p] \in Tasks
    BY <1>1 DEF CancelLock, Working, Resting
  <2>2. LoadLockOwner(Checkout[job[p]]) # job[p]
    BY <2>1, NoOwnerLoaded, CheckoutAssumption, TasksAssumption
  <2> QED
    BY <1>1, <2>2 DEF CancelLock
<1>2. CASE \E t \in Tasks : CancelRead(p, t)
  BY <1>2 DEF CancelRead
<1>3. CASE CancelDirect(p) \/ CancelActive(p) \/ CancelRun(p) \/ CancelKill(p)
  BY <1>3 DEF CancelDirect, CancelActive, CancelRun, CancelKill
<1>4. CASE CancelKillFails(p) \/ CancelMark(p)
  BY <1>4 DEF CancelKillFails, CancelMark
<1>5. CASE CancelClose(p) \/ CancelUnlink(p) \/ CancelRefs(p)
  BY <1>5 DEF CancelClose, CancelUnlink, CancelRefs
<1> QED
  BY <1>1, <1>2, <1>3, <1>4, <1>5 DEF CancellerStep

LEMMA SubmitterKinds ==
    ASSUME Typed, NEW p \in Submitters, SubmitterStep(p)
    PROVE  Bystands(p)
BY DEF Bystands, Goto, Leave, ClaimSteps, Typed, TypeOK, LocalsOK, Procs,
   SubmitterStep, SubmitCheck, SubmitWrite, SubmitCreate, SubmitConflict,
   SubmitReady

\* The three kinds of step; the last disjunct is a step of no process.
LEMMA StepKinds ==
    ASSUME Typed, [Next]_vars
    PROVE  \/ \E p \in Coordinators : AcquireLock(p) \/ Release(p)
           \/ \E q \in Procs : Bystands(q)
           \/ UNCHANGED <<lock, nextRun, pc, job, run>>
<1>1. CASE \E p \in Coordinators : CoordinatorStep(p)
  BY <1>1, CoordinatorKinds DEF Procs, Coordinators
<1>2. CASE \E p \in Submitters : SubmitterStep(p)
  BY <1>2, SubmitterKinds DEF Procs
<1>3. CASE \E p \in Workers : RecoveryStep(p)
  BY <1>3, RecoveryKinds DEF Procs
<1>4. CASE \E p \in Cancellers : CancellerStep(p)
  BY <1>4, CancellerKinds DEF Procs
<1>5. CASE \/ \E t \in Tasks : IngestCreate(t) \/ IngestReady(t)
           \/ \E r \in Runs : ChildExits(r)
  BY <1>5 DEF IngestCreate, IngestReady, ChildExits, locals
<1>6. CASE UNCHANGED vars
  BY <1>6 DEF vars, locals
<1> QED
  BY <1>1, <1>2, <1>3, <1>4, <1>5, <1>6 DEF Next

----------------------------------------------------------------------------
LEMMA ClaimedStep ==
    ASSUME Typed, Claimed, [Next]_vars
    PROVE  Claimed'
<1> USE DEF Claimed, OwnsLock, DistinctRuns, InClaim
<1>1. ASSUME NEW q \in Procs, Bystands(q) PROVE Claimed'
  BY <1>1 DEF Bystands, Procs, Coordinators
<1>2. ASSUME NEW q \in Coordinators, AcquireLock(q) PROVE Claimed'
  <2>1. /\ lock[Checkout[job[q]]] = NoLock
        /\ lock' = [lock EXCEPT ![Checkout[job[q]]] = LockPayload(job[q], nextRun)]
        /\ run' = [run EXCEPT ![q] = nextRun]
        /\ job' = job
        /\ pc' = [pc EXCEPT ![q] = "start"]
        /\ nextRun' = nextRun + 1
        /\ nextRun \in Runs
        /\ pc[q] = "acquire"
    BY <1>2 DEF AcquireLock
  <2>2. job[q] \in Tasks /\ Checkout[job[q]] \in Checkouts
    BY <2>1, CheckoutAssumption DEF Typed, Working, Resting, Procs, Coordinators
  <2>3. ASSUME NEW p \in Coordinators, InClaim(p)
        PROVE  Checkout[job[p]] # Checkout[job[q]] /\ run[p] # nextRun
               /\ run[p] \in Runs
    <3>1. job[p] \in Tasks /\ run[p] \in Runs
      BY <2>3 DEF Typed, Working, Resting, ClaimSteps, Procs, Coordinators
    <3>2. LockPayload(job[p], run[p]) # NoLock
      BY <3>1, TasksAssumption DEF LockPayload, NoLock
    <3> QED
      BY <2>1, <2>3, <3>1, <3>2 DEF Runs
  <2>4. ~ InClaim(q)
    BY <2>1 DEF ClaimSteps
  <2>5. ASSUME NEW p \in Coordinators, p # q, InClaim(p)'
        PROVE  InClaim(p) /\ run'[p] = run[p]
    BY <2>1, <2>5 DEF Typed, TypeOK, LocalsOK
  <2>6. run'[q] = nextRun /\ lock'[Checkout[job[q]]] = LockPayload(job[q], nextRun)
    BY <2>1, <2>2 DEF Typed, TypeOK, LocalsOK, LocksOK, Procs, Coordinators
  <2>7. OwnsLock'
    BY <2>1, <2>2, <2>3, <2>5, <2>6 DEF Runs
  <2>8. DistinctRuns'
    BY <2>1, <2>3, <2>5, <2>6
  <2> QED
    BY <2>7, <2>8
<1>3. ASSUME NEW q \in Coordinators, Release(q) PROVE Claimed'
  <2>1. /\ pc[q] = "release"
        /\ lock' = [lock EXCEPT ![Checkout[job[q]]] = NoLock]
        /\ nextRun' = nextRun
        /\ pc' = [pc EXCEPT ![q] = "idle"]
        /\ job' = [job EXCEPT ![q] = NoTask]
        /\ run' = [run EXCEPT ![q] = NoRun]
    BY <1>3 DEF Release, Leave
  <2>2. InClaim(q) /\ ~ InClaim(q)'
    BY <2>1 DEF ClaimSteps, Typed, TypeOK, LocalsOK, Procs, Coordinators
  <2>3. ASSUME NEW p \in Coordinators, p # q, InClaim(p)
        PROVE  Checkout[job[p]] # Checkout[job[q]]
    <3>1. ASSUME Checkout[job[p]] = Checkout[job[q]] PROVE run[p] = run[q]
      BY <2>2, <2>3, <3>1, PayloadRun
    <3> QED
      BY <2>2, <2>3, <3>1
  <2>4. ASSUME NEW p \in Coordinators, InClaim(p)'
        PROVE  p # q /\ InClaim(p) /\ job'[p] = job[p] /\ run'[p] = run[p]
    BY <2>1, <2>2, <2>4 DEF Typed, TypeOK, LocalsOK
  <2> QED
    BY <2>1, <2>3, <2>4
<1>4. CASE UNCHANGED <<lock, nextRun, pc, job, run>>
  BY <1>4
<1> QED
  BY <1>1, <1>2, <1>3, <1>4, StepKinds

\* The lock files keep their owners in every reachable state.
THEOREM LocksOwned == Spec => []Claimed
<1>1. Init => Claimed
  BY DEF Init, Claimed, OwnsLock, DistinctRuns, InClaim, ClaimSteps,
     Coordinators, Procs
<1> QED
  BY <1>1, ClaimedStep, TypeCorrect, PTL DEF Spec

\* Two coordinators are never inside the claimed section of one checkout
\* (execution.checkout_lock), for any number of workers, submitters and
\* cancellers and under every fault of the model.
THEOREM MutualExclusion == Spec => []CheckoutExclusive
<1>1. Claimed => CheckoutExclusive
  <2> SUFFICES ASSUME Claimed, NEW p \in Coordinators, NEW q \in Coordinators,
                      InClaim(p), InClaim(q),
                      Checkout[job[p]] = Checkout[job[q]]
               PROVE  p = q
    BY DEF CheckoutExclusive
  <2>1. LockPayload(job[p], run[p]) = LockPayload(job[q], run[q])
    BY DEF Claimed, OwnsLock
  <2>2. run[p] = run[q]
    BY <2>1, PayloadRun
  <2> QED
    BY <2>2 DEF Claimed, DistinctRuns
<1> QED
  BY <1>1, LocksOwned, PTL

----------------------------------------------------------------------------
(* A run closed as CANCELLED belongs to a task that is CANCELLED: the race  *)
(* of cancel_active with execute_task, for any number of either.            *)
(*                                                                          *)
(* The argument needs what each process knows of the run it works on: the   *)
(* run id of a coordinator is fresh until it is recorded, belongs to the    *)
(* task it executes from then on, and whoever is about to close a run as    *)
(* CANCELLED has seen, or made, its task CANCELLED.                         *)

\* Steps at which a process works on a run that is in the registry.
OwnRunSteps ==
    {"spawn", "observe", "wait", "returned", "writeResult", "writeCheckpoint",
     "finish", "rejected", "recheck", "undo", "closeCancelled", "setRefs",
     "close"} \cup RunCancelSteps

\* Steps before the run of a coordinator is in the registry.
StartSteps == {"start", "record"}

\* Steps between a look at a CANCELLED task and the close of its run.
SettledSteps == {"undo", "closeCancelled", "cancelClose", "cancelUnlink"}

FreshRuns == \A r \in Runs : r >= nextRun => runTask[r] = NoTask

UnstartedRuns ==
    \A p \in Coordinators : pc[p] \in StartSteps => runTask[run[p]] = NoTask

KnownRuns ==
    \A p \in Procs :
        /\ pc[p] \in OwnRunSteps => runTask[run[p]] = job[p]
        /\ pc[p] \in SettledSteps => status[job[p]] = "CANCELLED"

\* What table task_events says of a cancellation is still so.
CancelEvents ==
    \A e \in events : e.to = "CANCELLED" => status[e.task] = "CANCELLED"

ClosedRuns ==
    \A r \in Runs :
        runOutcome[r] = "CANCELLED" =>
            runTask[r] \in Tasks /\ status[runTask[r]] = "CANCELLED"

Cancelled ==
    /\ FreshRuns
    /\ UnstartedRuns
    /\ KnownRuns
    /\ CancelEvents
    /\ ClosedRuns

----------------------------------------------------------------------------
(* The store: no step takes a task out of CANCELLED.                        *)

Kept ==
    /\ \A t \in Tasks : status[t] = "CANCELLED" => status'[t] = "CANCELLED"
    /\ CancelEvents'

LEMMA TransitionKeeps ==
    ASSUME StoreOK, CancelEvents, NEW id, NEW t \in Tasks, NEW to,
           Transition(id, t, to)
    PROVE  Kept /\ (to = "CANCELLED" => status'[t] = "CANCELLED")
<1>1. CASE Commit(id, t, to)
  <2>1. /\ status' = [status EXCEPT ![t] = to]
        /\ events' = events \cup {Event(id, t, to)}
        /\ status[t] # "CANCELLED"
    BY <1>1, LegalEdges DEF Commit, Accepted
  <2>2. Event(id, t, to).task = t /\ Event(id, t, to).to = to
    BY DEF Event
  <2> QED
    BY <2>1, <2>2 DEF Kept, CancelEvents, StoreOK
<1>2. CASE Replayed(id, t, to) /\ UNCHANGED store
  <2>1. Event(id, t, to).task = t /\ Event(id, t, to).to = to
    BY DEF Event
  <2> QED
    BY <1>2, <2>1 DEF Replayed, Kept, CancelEvents, store
<1> QED
  BY <1>1, <1>2 DEF Transition

LEMMA CreateKeeps ==
    ASSUME StoreOK, CancelEvents, NEW t \in Tasks, CreateTask(t)
    PROVE  Kept
BY DEF CreateTask, Kept, CancelEvents, StoreOK, Absent

LEMMA UnchangedKeeps ==
    ASSUME CancelEvents, UNCHANGED <<status, events>>
    PROVE  Kept
BY DEF Kept, CancelEvents

LEMMA CoordinatorKeeps ==
    ASSUME Typed, CancelEvents, NEW p \in Coordinators, CoordinatorStep(p)
    PROVE  Kept
<1>0. StoreOK /\ (pc[p] \notin Resting => job[p] \in Tasks)
  BY DEF Typed, TypeOK, Working, Coordinators, Procs
<1>1. CASE StartTransition(p)
  <2>1. job[p] \in Tasks
    BY <1>0, <1>1 DEF StartTransition, Resting
  <2> QED
    BY <1>0, <1>1, <2>1, TransitionKeeps, UnchangedKeeps
    DEF StartTransition, store
<1>2. CASE Finish(p)
  <2>1. job[p] \in Tasks
    BY <1>0, <1>2 DEF Finish, Resting
  <2> QED
    BY <1>0, <1>2, <2>1, TransitionKeeps, UnchangedKeeps DEF Finish, store
<1>3. CASE SetRefs(p)
  BY <1>3, UnchangedKeeps DEF SetRefs, UpdateTaskRefs
<1>4. CASE ~ (StartTransition(p) \/ Finish(p) \/ SetRefs(p))
  <2>1. UNCHANGED store
    BY <1>4 DEF CoordinatorStep, ExecuteCheck, ValidationFails, AcquireLock,
       LockBusy, StartRun, Spawn, SpawnFails, RecordSpawn, ObserverFails,
       ExecutorReturns, GuardFires, CheckCancelled, WriteResult,
       WriteCheckpoint, WriteFails, Rejected, Recheck, Undo, CloseCancelled,
       Close, Release, Crash, TreeKill, Interrupt, Restart
  <2> QED
    BY <2>1, UnchangedKeeps DEF store
<1> QED
  BY <1>1, <1>2, <1>3, <1>4

LEMMA SubmitterKeeps ==
    ASSUME Typed, CancelEvents, NEW p \in Submitters, SubmitterStep(p)
    PROVE  Kept
<1>0. StoreOK /\ (pc[p] \notin Resting => job[p] \in Tasks)
  BY DEF Typed, TypeOK, Working, Procs
<1>1. CASE SubmitCreate(p)
  <2>1. job[p] \in Tasks
    BY <1>0, <1>1 DEF SubmitCreate, Resting
  <2> QED
    BY <1>0, <1>1, <2>1, CreateKeeps DEF SubmitCreate
<1>2. CASE SubmitReady(p)
  <2>1. job[p] \in Tasks
    BY <1>0, <1>2 DEF SubmitReady, Resting
  <2> QED
    BY <1>0, <1>2, <2>1, TransitionKeeps, UnchangedKeeps DEF SubmitReady, store
<1>3. CASE \/ SubmitWrite(p) \/ SubmitConflict(p)
           \/ \E t \in Tasks \ Mailbox : SubmitCheck(p, t)
  BY <1>3, UnchangedKeeps DEF SubmitWrite, SubmitConflict, SubmitCheck, store
<1> QED
  BY <1>1, <1>2, <1>3 DEF SubmitterStep

LEMMA RecoveryKeeps ==
    ASSUME Typed, CancelEvents, NEW p \in Workers, RecoveryStep(p)
    PROVE  Kept
<1>0. StoreOK /\ (pc[p] \notin Resting => job[p] \in Tasks)
  BY DEF Typed, TypeOK, Working, Procs
<1>1. CASE Adopt(p)
  <2>1. job[p] \in Tasks
    BY <1>0, <1>1 DEF Adopt, Resting
  <2> QED
    BY <1>0, <1>1, <2>1, TransitionKeeps, UnchangedKeeps DEF Adopt, store
<1>2. CASE StaleMark(p)
  <2>1. job[p] \in Tasks
    BY <1>0, <1>2 DEF StaleMark, Resting
  <2> QED
    BY <1>0, <1>2, <2>1, TransitionKeeps, UnchangedKeeps DEF StaleMark, store
<1>3. CASE ~ (Adopt(p) \/ StaleMark(p))
  BY <1>3, UnchangedKeeps
  DEF RecoveryStep, ReconcileScan, ReconcileRead, JudgeTerminal, JudgeAlive,
      JudgeStale, AdoptClose, StaleClose, WorkerPick, NothingReady, store
<1> QED
  BY <1>1, <1>2, <1>3

LEMMA CancellerKeeps ==
    ASSUME Typed, CancelEvents, NEW p \in Cancellers, CancellerStep(p)
    PROVE  Kept
<1>0. StoreOK /\ (pc[p] \notin Resting => job[p] \in Tasks)
  BY DEF Typed, TypeOK, Working, Procs
<1>1. CASE CancelDirect(p)
  <2>1. job[p] \in Tasks
    BY <1>0, <1>1 DEF CancelDirect, Resting
  <2> QED
    BY <1>0, <1>1, <2>1, TransitionKeeps, UnchangedKeeps DEF CancelDirect, store
<1>2. CASE CancelMark(p)
  <2>1. job[p] \in Tasks
    BY <1>0, <1>2 DEF CancelMark, Resting
  <2> QED
    BY <1>0, <1>2, <2>1, TransitionKeeps, UnchangedKeeps DEF CancelMark, store
<1>3. CASE CancelRefs(p)
  BY <1>3, UnchangedKeeps DEF CancelRefs, UpdateTaskRefs
<1>4. CASE ~ (CancelDirect(p) \/ CancelMark(p) \/ CancelRefs(p))
  BY <1>4, UnchangedKeeps
  DEF CancellerStep, CancelRead, CancelActive, CancelRun, CancelKill,
      CancelKillFails, CancelClose, CancelUnlink, CancelLock, store
<1> QED
  BY <1>1, <1>2, <1>3, <1>4

\* No step of any process takes a task out of CANCELLED.
LEMMA StepKeeps ==
    ASSUME Typed, CancelEvents, [Next]_vars
    PROVE  Kept
<1>1. CASE \E t \in Tasks : IngestCreate(t) \/ IngestReady(t)
  <2>1. StoreOK
    BY DEF Typed, TypeOK
  <2>2. ASSUME NEW t \in Tasks, IngestCreate(t) PROVE Kept
    BY <2>1, <2>2, CreateKeeps DEF IngestCreate
  <2>3. ASSUME NEW t \in Tasks, IngestReady(t) PROVE Kept
    <3>1. Transition(<<"ingest-ready", t>>, t, "READY")
      BY <2>3 DEF IngestReady, Transition
    <3> QED
      BY <2>1, <3>1, TransitionKeeps
  <2> QED
    BY <1>1, <2>2, <2>3
<1>2. CASE \E r \in Runs : ChildExits(r)
  BY <1>2, UnchangedKeeps DEF ChildExits, store
<1>3. CASE UNCHANGED vars
  BY <1>3, UnchangedKeeps DEF vars, store
<1> QED
  BY <1>1, <1>2, <1>3, CoordinatorKeeps, SubmitterKeeps, RecoveryKeeps,
     CancellerKeeps DEF Next

----------------------------------------------------------------------------
(* The run registry: every step of a process q is a claim, a StartRun, or    *)
(* one that leaves the owners of the runs alone.                            *)

KeepsOwners(q) ==
    /\ UNCHANGED <<runTask, nextRun>>
    /\ \A p \in Procs \ {q} :
          pc'[p] = pc[p] /\ job'[p] = job[p] /\ run'[p] = run[p]
    /\ \A r \in Runs :
          runOutcome'[r] = "CANCELLED" =>
              \/ runOutcome[r] = "CANCELLED"
              \/ r = run[q] /\ pc[q] \in {"closeCancelled", "cancelClose"}
    /\ pc'[q] \in StartSteps => pc[q] \in StartSteps /\ run'[q] = run[q]
    /\ pc'[q] \in OwnRunSteps =>
          \/ pc[q] \in OwnRunSteps /\ job'[q] = job[q] /\ run'[q] = run[q]
          \/ runTask[run'[q]] = job'[q]
    /\ pc'[q] \in SettledSteps =>
          \/ pc[q] \in SettledSteps /\ job'[q] = job[q]
          \/ status'[job'[q]] = "CANCELLED"

LEMMA CoordinatorOwners ==
    ASSUME Typed, NEW p \in Coordinators, CoordinatorStep(p)
    PROVE  KeepsOwners(p) \/ AcquireLock(p) \/ StartRun(p)
<1> USE DEF KeepsOwners, StartSteps, OwnRunSteps, SettledSteps, RunCancelSteps,
        Goto, Leave, Typed, TypeOK, LocalsOK, registry, locals, store, Procs,
        Coordinators
<1>1. CASE \/ ExecuteCheck(p) \/ ValidationFails(p) \/ LockBusy(p)
           \/ StartTransition(p) \/ Spawn(p) \/ SpawnFails(p)
  BY <1>1 DEF ExecuteCheck, ValidationFails, LockBusy, StartTransition, Spawn,
     SpawnFails
<1>2. CASE \/ RecordSpawn(p) \/ ObserverFails(p) \/ ExecutorReturns(p)
           \/ GuardFires(p) \/ CheckCancelled(p) \/ WriteResult(p)
           \/ WriteCheckpoint(p)
  BY <1>2 DEF RecordSpawn, ObserverFails, ExecutorReturns, GuardFires,
     CheckCancelled, WriteResult, WriteCheckpoint
<1>3. CASE \/ WriteFails(p) \/ Finish(p) \/ Rejected(p) \/ Recheck(p) \/ Undo(p)
           \/ SetRefs(p) \/ Release(p)
  <2>1. CASE WriteFails(p) \/ Finish(p) \/ Rejected(p)
    BY <2>1 DEF WriteFails, Finish, Rejected
  <2>2. CASE Recheck(p) \/ Undo(p) \/ SetRefs(p) \/ Release(p)
    BY <2>2 DEF Recheck, Undo, SetRefs, Release
  <2> QED
    BY <1>3, <2>1, <2>2
<1>4. CASE CloseCancelled(p)
  BY <1>4 DEF CloseCancelled, FinishRun, RegistryOK
<1>5. CASE Close(p)
  <2>1. run[p] \in Runs
    BY <1>5 DEF Close, Working, ClaimSteps
  <2>2. verdict[run[p]] # "CANCELLED"
    BY <2>1 DEF ExecutorOK, ExecutorVerdicts
  <2> QED
    BY <1>5, <2>2 DEF Close, FinishRun, RegistryOK
<1>6. CASE Crash(p) \/ TreeKill(p) \/ Interrupt(p) \/ Restart(p)
  BY <1>6 DEF Crash, TreeKill, Interrupt, Restart
<1> QED
  BY <1>1, <1>2, <1>3, <1>4, <1>5, <1>6 DEF CoordinatorStep

LEMMA SubmitterOwners ==
    ASSUME Typed, NEW p \in Submitters, SubmitterStep(p)
    PROVE  KeepsOwners(p)
BY DEF KeepsOwners, StartSteps, OwnRunSteps, SettledSteps, RunCancelSteps,
   Goto, Leave, Typed, TypeOK, LocalsOK, registry, Procs, SubmitterStep,
   SubmitCheck, SubmitWrite, SubmitCreate, SubmitConflict, SubmitReady

LEMMA RecoveryOwners ==
    ASSUME Typed, NEW p \in Workers, RecoveryStep(p)
    PROVE  KeepsOwners(p)
<1> USE DEF KeepsOwners, StartSteps, OwnRunSteps, SettledSteps, RunCancelSteps,
        Goto, Leave, NextRow, Typed, TypeOK, LocalsOK, registry, Procs
<1>1. CASE AdoptClose(p) \/ StaleClose(p)
  <2>1. seen[p].verdict # "CANCELLED"
    BY DEF ExecutorVerdicts
  <2> QED
    BY <1>1, <2>1 DEF AdoptClose, StaleClose, FinishRun, RegistryOK
<1>2. CASE ~ (AdoptClose(p) \/ StaleClose(p))
  BY <1>2 DEF RecoveryStep, ReconcileScan, ReconcileRead, JudgeTerminal,
     JudgeAlive, JudgeStale, Adopt, StaleMark, WorkerPick, NothingReady
<1> QED
  BY <1>1, <1>2

LEMMA CancellerOwners ==
    ASSUME Typed, CancelEvents, NEW p \in Cancellers, CancellerStep(p)
    PROVE  KeepsOwners(p)
<1> USE DEF KeepsOwners, StartSteps, OwnRunSteps, SettledSteps, RunCancelSteps,
        Goto, Leave, Typed, TypeOK, LocalsOK, registry, Procs
<1>1. CASE CancelRun(p)
  BY <1>1, LatestRunOfTask DEF CancelRun
<1>2. CASE CancelMark(p)
  <2>1. job[p] \in Tasks
    BY <1>2 DEF CancelMark, Working, Resting
  <2>2. Transition(<<"cancel", run[p]>>, job[p], "CANCELLED")
           => status'[job[p]] = "CANCELLED"
    BY <2>1, TransitionKeeps
  <2> QED
    BY <1>2, <2>2 DEF CancelMark
<1>3. CASE CancelClose(p)
  BY <1>3 DEF CancelClose, FinishRun, RegistryOK
<1>4. CASE \/ \E t \in Tasks : CancelRead(p, t)
           \/ CancelDirect(p) \/ CancelActive(p)
  BY <1>4 DEF CancelRead, CancelDirect, CancelActive
<1>5. CASE CancelKill(p) \/ CancelKillFails(p)
  BY <1>5 DEF CancelKill, CancelKillFails
<1>6. CASE CancelUnlink(p) \/ CancelRefs(p) \/ CancelLock(p)
  BY <1>6 DEF CancelUnlink, CancelRefs, CancelLock
<1> QED
  BY <1>1, <1>2, <1>3, <1>4, <1>5, <1>6 DEF CancellerStep

LEMMA StepOwners ==
    ASSUME Typed, CancelEvents, [Next]_vars
    PROVE  \/ \E p \in Coordinators : AcquireLock(p) \/ StartRun(p)
           \/ \E q \in Procs : KeepsOwners(q)
           \/ UNCHANGED <<registry, nextRun, pc, job, run>>
<1>1. CASE \E p \in Coordinators : CoordinatorStep(p)
  BY <1>1, CoordinatorOwners DEF Procs, Coordinators
<1>2. CASE \E p \in Submitters : SubmitterStep(p)
  BY <1>2, SubmitterOwners DEF Procs
<1>3. CASE \E p \in Workers : RecoveryStep(p)
  BY <1>3, RecoveryOwners DEF Procs
<1>4. CASE \E p \in Cancellers : CancellerStep(p)
  BY <1>4, CancellerOwners DEF Procs
<1>5. CASE \/ \E t \in Tasks : IngestCreate(t) \/ IngestReady(t)
           \/ \E r \in Runs : ChildExits(r)
  BY <1>5 DEF IngestCreate, IngestReady, ChildExits, locals
<1>6. CASE UNCHANGED vars
  BY <1>6 DEF vars, locals
<1> QED
  BY <1>1, <1>2, <1>3, <1>4, <1>5, <1>6 DEF Next

----------------------------------------------------------------------------
LEMMA CancelledStep ==
    ASSUME Typed, Claimed, Cancelled, [Next]_vars
    PROVE  Cancelled'
<1> USE DEF Cancelled, FreshRuns, UnstartedRuns, KnownRuns, ClosedRuns
<1>0. Kept /\ CancelEvents'
  BY StepKeeps DEF Kept
<1>1. /\ Coordinators \subseteq Procs
      /\ \A p \in Procs : pc[p] \in OwnRunSteps \cup SettledSteps => job[p] \in Tasks
  BY DEF Typed, Working, Resting, OwnRunSteps, SettledSteps, RunCancelSteps,
     Procs, Coordinators
<1>2. ASSUME NEW q \in Procs, KeepsOwners(q) PROVE Cancelled'
  <2>1. FreshRuns' /\ UnstartedRuns'
    BY <1>1, <1>2 DEF KeepsOwners
  <2>2. ASSUME NEW p \in Procs
        PROVE  /\ (pc[p] \in OwnRunSteps => runTask[run[p]] = job[p])'
               /\ (pc[p] \in SettledSteps => status[job[p]] = "CANCELLED")'
    <3>1. CASE p = q
      BY <1>0, <1>1, <1>2, <3>1 DEF KeepsOwners, Kept
    <3>2. CASE p # q
      BY <1>0, <1>1, <1>2, <3>2 DEF KeepsOwners, Kept
    <3> QED
      BY <3>1, <3>2
  <2>3. ClosedRuns'
    <3>1. pc[q] \in {"closeCancelled", "cancelClose"} =>
             runTask[run[q]] = job[q] /\ job[q] \in Tasks
                 /\ status[job[q]] = "CANCELLED"
      BY <1>1 DEF OwnRunSteps, SettledSteps, RunCancelSteps
    <3> QED
      BY <1>0, <1>2, <3>1 DEF KeepsOwners, Kept
  <2> QED
    BY <1>0, <2>1, <2>2, <2>3
<1>3. ASSUME NEW q \in Coordinators, AcquireLock(q) PROVE Cancelled'
  <2>1. /\ nextRun \in Runs /\ nextRun' = nextRun + 1
        /\ run' = [run EXCEPT ![q] = nextRun]
        /\ pc' = [pc EXCEPT ![q] = "start"]
        /\ UNCHANGED <<job, runTask, runOutcome>>
    BY <1>3 DEF AcquireLock, registry
  <2>2. FreshRuns'
    BY <2>1, BoundsAssumption DEF Runs
  <2>3. UnstartedRuns'
    BY <1>1, <2>1, BoundsAssumption DEF Typed, TypeOK, LocalsOK, Runs
  <2>4. KnownRuns'
    BY <1>0, <1>1, <2>1
    DEF Typed, TypeOK, LocalsOK, Kept, OwnRunSteps, SettledSteps, RunCancelSteps
  <2>5. ClosedRuns'
    BY <1>0, <2>1 DEF Kept
  <2> QED
    BY <1>0, <2>2, <2>3, <2>4, <2>5
<1>4. ASSUME NEW q \in Coordinators, StartRun(q) PROVE Cancelled'
  <2>1. /\ pc[q] = "record" /\ pc' = [pc EXCEPT ![q] = "spawn"]
        /\ runTask' = [runTask EXCEPT ![run[q]] = job[q]]
        /\ runOutcome' = [runOutcome EXCEPT ![run[q]] = "open"]
        /\ UNCHANGED <<job, run, nextRun, status>>
    BY <1>4 DEF StartRun, Goto, store
  <2>2. /\ q \in Procs /\ job[q] \in Tasks /\ run[q] \in Runs
        /\ run[q] < nextRun /\ runTask[run[q]] = NoTask
    BY <1>1, <2>1 DEF Typed, Working, Resting, ClaimSteps, Claimed, OwnsLock,
       InClaim, StartSteps
  <2>3. FreshRuns'
    BY <2>1, <2>2, BoundsAssumption DEF Runs, Typed, TypeOK, LocksOK
  <2>4. UnstartedRuns'
    <3>1. ASSUME NEW p \in Coordinators, p # q, pc[p] \in StartSteps
          PROVE  run[p] # run[q]
      BY <2>1, <3>1 DEF Claimed, DistinctRuns, InClaim, ClaimSteps, StartSteps
    <3> QED
      BY <1>1, <2>1, <3>1
      DEF Typed, TypeOK, LocalsOK, RegistryOK, StartSteps
  <2>5. KnownRuns'
    <3>1. ASSUME NEW p \in Procs, pc[p] \in OwnRunSteps
          PROVE  run[p] # run[q]
      BY <1>1, <2>2, <3>1, TasksAssumption
    <3>2. ASSUME NEW p \in Procs, p # q
          PROVE  pc'[p] = pc[p]
      BY <2>1, <3>2 DEF Typed, TypeOK, LocalsOK
    <3>3. pc'[q] = "spawn" /\ runTask'[run[q]] = job[q]
      BY <2>1, <2>2 DEF Typed, TypeOK, LocalsOK, RegistryOK
    <3>4. ASSUME NEW p \in Procs, pc[p] \in OwnRunSteps
          PROVE  runTask'[run[p]] = runTask[run[p]]
      BY <2>1, <3>1, <3>4
    <3> QED
      BY <2>1, <3>2, <3>3, <3>4 DEF SettledSteps
  <2>6. ClosedRuns'
    BY <1>0, <2>1, <2>2, TasksAssumption
    DEF Typed, TypeOK, RegistryOK, Kept
  <2> QED
    BY <1>0, <2>3, <2>4, <2>5, <2>6
<1>5. CASE UNCHANGED <<registry, nextRun, pc, job, run>>
  <2>1. UNCHANGED <<runTask, runOutcome>>
    BY <1>5 DEF registry
  <2>2. FreshRuns' /\ UnstartedRuns' /\ ClosedRuns'
    BY <1>0, <1>5, <2>1 DEF Kept
  <2>3. KnownRuns'
    BY <1>0, <1>1, <1>5, <2>1 DEF Kept
  <2> QED
    BY <1>0, <2>2, <2>3
<1> QED
  BY <1>2, <1>3, <1>4, <1>5, StepOwners

\* What the processes know of their runs, and of a CANCELLED task, stays true.
THEOREM RunsKnown == Spec => []Cancelled
<1>1. Init => Cancelled
  BY DEF Init, Cancelled, FreshRuns, UnstartedRuns, KnownRuns, CancelEvents,
     ClosedRuns, StartSteps, OwnRunSteps, SettledSteps, RunCancelSteps, Procs,
     Coordinators
<1> QED
  BY <1>1, CancelledStep, TypeCorrect, LocksOwned, PTL DEF Spec

\* A run closed as CANCELLED, by cancel_active or by execute_task, belongs to
\* a task that is and stays CANCELLED: neither the verdict of the executor nor
\* the adoption or the stale mark of recovery takes the task elsewhere.
THEOREM CancelledRuns == Spec => []CancelledRunCancelledTask
<1>1. Cancelled => CancelledRunCancelledTask
  BY DEF Cancelled, ClosedRuns, CancelledRunCancelledTask
<1> QED
  BY <1>1, RunsKnown, PTL

----------------------------------------------------------------------------
(* Evidence: the files behind the refs of a task, and the verdict of the run *)
(* that wrote them.                                                         *)
(*                                                                          *)
(* Only an undo and a cancel unlink files, and both do so after their task   *)
(* has become CANCELLED, for good.  So what a coordinator has written is     *)
(* there when it sets the refs, unless its task is CANCELLED by then.        *)

\* Steps of execute_task at which both files are written.
FiledSteps == {"finish", "recheck", "setRefs"}

\* Steps at which the executor has returned.
JudgedSteps == {"returned", "writeResult", "writeCheckpoint", "finish"}

Evidence(t) == result[t] # NoRun /\ checkpoint[t] # NoRun

RefsBacked ==
    \A t \in Tasks : refs[t] /\ status[t] # "CANCELLED" => Evidence(t)

WrittenFiles ==
    \A p \in Coordinators :
        status[job[p]] # "CANCELLED" =>
            /\ pc[p] \in FiledSteps => Evidence(job[p])
            /\ pc[p] = "writeCheckpoint" => result[job[p]] # NoRun

KnownVerdicts ==
    /\ \A p \in Coordinators : pc[p] \in JudgedSteps => verdict[run[p]] # "none"
    /\ \A t \in Tasks : result[t] # NoRun => verdict[result[t]] # "none"
    /\ \A p \in Workers : pc[p] = "adopt" => seen[p].verdict # "none"

Evident == RefsBacked /\ WrittenFiles /\ KnownVerdicts

\* What a step of process q may do to files, refs and verdicts.
KeepsEvidence(q) ==
    /\ \A p \in Procs \ {q} :
          pc'[p] = pc[p] /\ job'[p] = job[p] /\ run'[p] = run[p]
              /\ seen'[p] = seen[p]
    /\ \A t \in Tasks :
          status[t] # "CANCELLED" =>
              /\ result[t] # NoRun => result'[t] # NoRun
              /\ checkpoint[t] # NoRun => checkpoint'[t] # NoRun
    /\ \A t \in Tasks :
          refs'[t] => refs[t] \/ (q \in Coordinators /\ pc[q] = "setRefs" /\ t = job[q])
    /\ \A r \in Runs : verdict[r] # "none" => verdict'[r] # "none"
    /\ \A t \in Tasks :
          \/ result'[t] \in {result[t], NoRun}
          \/ q \in Coordinators /\ pc[q] = "writeResult" /\ result'[t] = run[q]
    /\ pc'[q] \in FiledSteps =>
          /\ pc[q] \in FiledSteps \cup {"writeCheckpoint"}
          /\ job'[q] = job[q]
          /\ pc[q] = "writeCheckpoint" => checkpoint'[job[q]] # NoRun
    /\ pc'[q] = "writeCheckpoint" => job'[q] = job[q] /\ result'[job[q]] # NoRun
    /\ pc'[q] \in JudgedSteps =>
          \/ pc[q] \in JudgedSteps /\ run'[q] = run[q]
          \/ verdict'[run'[q]] # "none"
    /\ pc'[q] = "adopt" =>
          /\ result[job[q]] # NoRun
          /\ job[q] \in Tasks
          /\ seen'[q].verdict = verdict[result[job[q]]]

LEMMA CoordinatorEvidence ==
    ASSUME Typed, Cancelled, NEW p \in Coordinators, CoordinatorStep(p)
    PROVE  KeepsEvidence(p)
<1> USE DEF KeepsEvidence, FiledSteps, JudgedSteps, Goto, Leave, Typed, TypeOK,
        LocalsOK, store, files, registry, locals, Procs, Coordinators
<1>1. CASE \/ ExecuteCheck(p) \/ ValidationFails(p) \/ AcquireLock(p)
           \/ LockBusy(p) \/ StartRun(p) \/ Spawn(p)
  BY <1>1 DEF ExecuteCheck, ValidationFails, AcquireLock, LockBusy, StartRun,
     Spawn
<1>2. CASE StartTransition(p) \/ Finish(p)
  <2>1. UNCHANGED <<refs, files, verdict>>
    BY <1>2 DEF StartTransition, Finish, Transition, Commit
  <2> QED
    BY <1>2, <2>1 DEF StartTransition, Finish
<1>3. CASE \/ SpawnFails(p) \/ ObserverFails(p) \/ ExecutorReturns(p)
           \/ GuardFires(p)
  <2>1. /\ pc' = [pc EXCEPT ![p] = "returned"]
        /\ UNCHANGED <<job, run, seen, status, refs, result, checkpoint>>
    BY <1>3 DEF SpawnFails, ObserverFails, ExecutorReturns, GuardFires
  <2>2. pc[p] \in {"spawn", "observe", "wait"}
    BY <1>3 DEF SpawnFails, ObserverFails, ExecutorReturns, GuardFires
  <2>3. run[p] \in Runs
    BY <2>2 DEF Working, ClaimSteps
  <2>4. \E v \in ExecutorVerdicts : verdict' = [verdict EXCEPT ![run[p]] = v]
    BY <1>3, VerdictsAssumption DEF SpawnFails, ObserverFails, ExecutorReturns,
       GuardFires, ExecutorVerdicts
  <2>5. verdict'[run[p]] # "none"
        /\ \A r \in Runs : verdict[r] # "none" => verdict'[r] # "none"
    BY <2>3, <2>4 DEF ExecutorVerdicts, ExecutorOK
  <2> QED
    BY <2>1, <2>5
<1>4. CASE \/ RecordSpawn(p) \/ CheckCancelled(p) \/ WriteFails(p)
           \/ Rejected(p) \/ Recheck(p)
  BY <1>4 DEF RecordSpawn, CheckCancelled, WriteFails, Rejected, Recheck
<1>5. CASE WriteResult(p)
  <2>1. run[p] \in Runs /\ job[p] \in Tasks
    BY <1>5 DEF WriteResult, Working, ClaimSteps, Resting
  <2>2. run[p] # NoRun
    BY <2>1, BoundsAssumption DEF Runs, NoRun
  <2> QED
    BY <1>5, <2>1, <2>2 DEF WriteResult, FilesOK
<1>6. CASE WriteCheckpoint(p)
  <2>1. run[p] \in Runs /\ job[p] \in Tasks
    BY <1>6 DEF WriteCheckpoint, Working, ClaimSteps, Resting
  <2>2. run[p] # NoRun
    BY <2>1, BoundsAssumption DEF Runs, NoRun
  <2> QED
    BY <1>6, <2>1, <2>2 DEF WriteCheckpoint, FilesOK
<1>7. CASE Undo(p)
  <2>1. status[job[p]] = "CANCELLED"
    BY <1>7 DEF Undo, Cancelled, KnownRuns, SettledSteps
  <2> QED
    BY <1>7, <2>1 DEF Undo, FilesOK
<1>8. CASE SetRefs(p)
  BY <1>8 DEF SetRefs, UpdateTaskRefs, StoreOK
<1>9. CASE CloseCancelled(p) \/ Close(p) \/ Release(p)
  BY <1>9 DEF CloseCancelled, Close, Release, FinishRun
<1>10. CASE Crash(p) \/ TreeKill(p) \/ Interrupt(p) \/ Restart(p)
  BY <1>10 DEF Crash, TreeKill, Interrupt, Restart
<1> QED
  BY <1>1, <1>2, <1>3, <1>4, <1>5, <1>6, <1>7, <1>8, <1>9, <1>10
  DEF CoordinatorStep

LEMMA SubmitterEvidence ==
    ASSUME Typed, NEW p \in Submitters, SubmitterStep(p)
    PROVE  KeepsEvidence(p)
<1> USE DEF KeepsEvidence, FiledSteps, JudgedSteps, Goto, Leave, Typed, TypeOK,
        LocalsOK, store, files, Procs
<1>1. CASE SubmitConflict(p) \/ \E t \in Tasks \ Mailbox : SubmitCheck(p, t)
  BY <1>1 DEF SubmitConflict, SubmitCheck
<1>2. CASE SubmitWrite(p) \/ SubmitCreate(p) \/ SubmitReady(p)
  BY <1>2 DEF SubmitWrite, SubmitCreate, CreateTask, SubmitReady, Transition, Commit
<1> QED
  BY <1>1, <1>2 DEF SubmitterStep

LEMMA RecoveryEvidence ==
    ASSUME Typed, NEW p \in Workers, RecoveryStep(p)
    PROVE  KeepsEvidence(p)
<1> USE DEF KeepsEvidence, FiledSteps, JudgedSteps, Goto, Leave, NextRow,
        Typed, TypeOK, LocalsOK, store, files, Procs
<1>1. CASE JudgeTerminal(p)
  <2>1. job[p] \in Tasks
    BY <1>1 DEF JudgeTerminal, Working, Resting
  <2> QED
    BY <1>1, <2>1 DEF JudgeTerminal, TerminalOnDisk
<1>2. CASE Adopt(p) \/ StaleMark(p)
  <2>1. UNCHANGED <<refs, files, verdict>>
    BY <1>2 DEF Adopt, StaleMark, Transition, Commit
  <2> QED
    BY <1>2, <2>1 DEF Adopt, StaleMark
<1>3. CASE ReconcileScan(p) \/ ReconcileRead(p)
  BY <1>3 DEF ReconcileScan, ReconcileRead
<1>4. CASE \/ JudgeAlive(p) \/ JudgeStale(p) \/ AdoptClose(p) \/ StaleClose(p)
           \/ WorkerPick(p) \/ NothingReady(p)
  BY <1>4 DEF JudgeAlive, JudgeStale, AdoptClose, StaleClose, WorkerPick,
     NothingReady
<1> QED
  BY <1>1, <1>2, <1>3, <1>4 DEF RecoveryStep

LEMMA CancellerEvidence ==
    ASSUME Typed, Cancelled, NEW p \in Cancellers, CancellerStep(p)
    PROVE  KeepsEvidence(p)
<1> USE DEF KeepsEvidence, FiledSteps, JudgedSteps, Goto, Leave, Typed, TypeOK,
        LocalsOK, store, files, Procs
<1>1. CASE CancelDirect(p) \/ CancelMark(p)
  <2>1. UNCHANGED <<refs, files, verdict>>
    BY <1>1 DEF CancelDirect, CancelMark, Transition, Commit
  <2> QED
    BY <1>1, <2>1 DEF CancelDirect, CancelMark
<1>2. CASE CancelUnlink(p)
  <2>1. status[job[p]] = "CANCELLED"
    BY <1>2 DEF CancelUnlink, Cancelled, KnownRuns, SettledSteps
  <2> QED
    BY <1>2, <2>1 DEF CancelUnlink, FilesOK
<1>3. CASE CancelRefs(p)
  BY <1>3 DEF CancelRefs, UpdateTaskRefs, StoreOK
<1>4. CASE \E t \in Tasks : CancelRead(p, t)
  BY <1>4 DEF CancelRead
<1>5. CASE \/ CancelActive(p) \/ CancelRun(p) \/ CancelKill(p)
           \/ CancelKillFails(p) \/ CancelClose(p) \/ CancelLock(p)
  BY <1>5 DEF CancelActive, CancelRun, CancelKill, CancelKillFails,
     CancelClose, CancelLock
<1> QED
  BY <1>1, <1>2, <1>3, <1>4, <1>5 DEF CancellerStep

LEMMA EvidentStep ==
    ASSUME Typed, Cancelled, Evident, [Next]_vars
    PROVE  Evident'
<1> USE DEF Evident, RefsBacked, WrittenFiles, KnownVerdicts, Evidence
<1>0. Kept
  BY StepKeeps DEF Cancelled
<1>1. ASSUME NEW q \in Procs, KeepsEvidence(q) PROVE Evident'
  <2>0. /\ \A p \in Coordinators :
              pc[p] \in FiledSteps \cup JudgedSteps \cup {"setRefs"} =>
                  job[p] \in Tasks
        /\ \A p \in Coordinators : pc[p] \in JudgedSteps => run[p] \in Runs
        /\ \A t \in Tasks : result[t] \in Runs \cup {NoRun}
        /\ Coordinators \subseteq Procs /\ Workers \subseteq Procs
        /\ NoRun \notin Runs
    BY DEF Typed, TypeOK, FilesOK, Working, Resting, FiledSteps, JudgedSteps,
       ClaimSteps, Procs, Coordinators, Runs, NoRun
  <2>1. RefsBacked'
    <3> SUFFICES ASSUME NEW t \in Tasks, refs'[t], status'[t] # "CANCELLED"
                 PROVE  Evidence(t)'
      OBVIOUS
    <3>1. status[t] # "CANCELLED"
      BY <1>0 DEF Kept
    <3>2. Evidence(t)
      BY <1>1, <3>1 DEF KeepsEvidence, FiledSteps
    <3> QED
      BY <1>1, <3>1, <3>2 DEF KeepsEvidence
  <2>2. WrittenFiles'
    <3> SUFFICES ASSUME NEW p \in Coordinators, status'[job'[p]] # "CANCELLED"
                 PROVE  /\ pc'[p] \in FiledSteps => Evidence(job[p])'
                        /\ pc'[p] = "writeCheckpoint" => result'[job'[p]] # NoRun
      OBVIOUS
    <3>1. CASE p # q
      BY <1>0, <1>1, <2>0, <3>1 DEF KeepsEvidence, Kept, JudgedSteps
    <3>2. CASE p = q
      BY <1>0, <1>1, <2>0, <3>2 DEF KeepsEvidence, Kept, JudgedSteps
    <3> QED
      BY <3>1, <3>2
  <2>3. \A p \in Coordinators : pc'[p] \in JudgedSteps => verdict'[run'[p]] # "none"
    BY <1>1, <2>0 DEF KeepsEvidence
  <2>4. \A t \in Tasks : result'[t] # NoRun => verdict'[result'[t]] # "none"
    BY <1>1, <2>0 DEF KeepsEvidence, JudgedSteps
  <2>5. \A p \in Workers : pc'[p] = "adopt" => seen'[p].verdict # "none"
    BY <1>1, <2>0 DEF KeepsEvidence
  <2> QED
    BY <2>1, <2>2, <2>3, <2>4, <2>5
<1>2. CASE \/ \E t \in Tasks : IngestCreate(t) \/ IngestReady(t)
           \/ \E r \in Runs : ChildExits(r)
           \/ UNCHANGED vars
  <2>1. UNCHANGED <<refs, result, checkpoint, verdict, pc, job, run, seen>>
    BY <1>2 DEF IngestCreate, IngestReady, CreateTask, Commit, ChildExits, vars,
       store, files, locals
  <2>2. \A p \in Coordinators :
            pc[p] \in FiledSteps \cup {"writeCheckpoint"} => job[p] \in Tasks
    BY DEF Typed, Working, Resting, FiledSteps, Procs, Coordinators
  <2> QED
    BY <1>0, <2>1, <2>2 DEF Kept
<1> QED
  BY <1>1, <1>2, CoordinatorEvidence, SubmitterEvidence, RecoveryEvidence,
     CancellerEvidence DEF Next, Procs, Coordinators

\* What the refs of a task point to, and what the result of a run says, is known.
THEOREM EvidenceKept == Spec => []Evident
<1>1. Init => Evident
  BY DEF Init, Evident, RefsBacked, WrittenFiles, KnownVerdicts, Evidence,
     FiledSteps, JudgedSteps, Coordinators, Procs
<1> QED
  BY <1>1, EvidentStep, TypeCorrect, RunsKnown, PTL DEF Spec

\* No interleaving of execute_task, its undo, cancel_active, recovery and the
\* deaths of their processes leaves a deliverable task whose refs point to a
\* file that is not there.
THEOREM EvidenceIsOnDisk == Spec => []EvidenceOnDisk
<1>1. Evident => EvidenceOnDisk
  BY DEF Evident, RefsBacked, Evidence, EvidenceOnDisk, Deliverable
<1> QED
  BY <1>1, EvidenceKept, PTL

----------------------------------------------------------------------------
(* Children.  The lock file of a checkout outlives a coordinator that died,  *)
(* and names the run whose child may be alive under it; a coordinator that   *)
(* gives its lock back with its child alive leaves a stray.                  *)

\* Steps of a claim before the child of the run is spawned.
UnspawnedSteps == {"start", "record", "spawn"}

LockedChildren ==
    \A r \in Runs :
        child[r] = "alive" =>
            /\ r < nextRun
            /\ runTask[r] \in Tasks
            /\ lock[Checkout[runTask[r]]] = LockPayload(runTask[r], r)

NoneBeforeSpawn ==
    \A p \in Coordinators : pc[p] \in UnspawnedSteps => child[run[p]] # "alive"

Attended == LockedChildren /\ NoneBeforeSpawn

\* A step of process q brings no child to life, claims no run, and lets go of
\* the lock of its checkout only at its release.
KeepsChildren(q) ==
    /\ \A r \in Runs : child'[r] = "alive" => child[r] = "alive"
    /\ \A p \in Procs \ {q} :
          pc'[p] = pc[p] /\ job'[p] = job[p] /\ run'[p] = run[p]
    /\ pc'[q] \in UnspawnedSteps =>
          pc[q] \in UnspawnedSteps /\ run'[q] = run[q]
    /\ UNCHANGED <<runTask, nextRun>>
    /\ lock' = lock

LEMMA CoordinatorChildren ==
    ASSUME Typed, NEW p \in Coordinators, CoordinatorStep(p)
    PROVE  \/ KeepsChildren(p)
           \/ AcquireLock(p) \/ StartRun(p) \/ Spawn(p) \/ Release(p)
<1> USE DEF KeepsChildren, UnspawnedSteps, Goto, Leave, Typed, TypeOK,
        LocalsOK, registry, locals, Procs, Coordinators
<1>1. CASE \/ ExecuteCheck(p) \/ ValidationFails(p) \/ LockBusy(p)
           \/ StartTransition(p) \/ SpawnFails(p)
  BY <1>1 DEF ExecuteCheck, ValidationFails, LockBusy, StartTransition,
     SpawnFails
<1>2. CASE RecordSpawn(p)
  BY <1>2 DEF RecordSpawn
<1>3. CASE ObserverFails(p) \/ Interrupt(p)
  BY <1>3 DEF ObserverFails, Interrupt, StopsChildOrNot, ExecutorOK
<1>4. CASE ExecutorReturns(p) \/ GuardFires(p)
  <2>1. run[p] \in Runs
    BY <1>4 DEF ExecutorReturns, GuardFires, Working, ClaimSteps
  <2>2. child' = child \/ child' = [child EXCEPT ![run[p]] = "killed"]
    BY <1>4 DEF ExecutorReturns, GuardFires
  <2>3. \A r \in Runs : child'[r] = "alive" => child[r] = "alive"
    BY <2>1, <2>2 DEF ExecutorOK
  <2> QED
    BY <1>4, <2>3 DEF ExecutorReturns, GuardFires
<1>5. CASE \/ CheckCancelled(p) \/ WriteResult(p) \/ WriteCheckpoint(p)
           \/ WriteFails(p) \/ Finish(p) \/ Rejected(p) \/ Recheck(p)
  BY <1>5 DEF CheckCancelled, WriteResult, WriteCheckpoint, WriteFails, Finish,
     Rejected, Recheck
<1>6. CASE Undo(p) \/ CloseCancelled(p) \/ SetRefs(p) \/ Close(p)
  BY <1>6 DEF Undo, CloseCancelled, SetRefs, Close, FinishRun
<1>7. CASE Crash(p) \/ TreeKill(p) \/ Restart(p)
  BY <1>7 DEF Crash, TreeKill, Restart
<1> QED
  BY <1>1, <1>2, <1>3, <1>4, <1>5, <1>6, <1>7 DEF CoordinatorStep

\* Only a step of a coordinator starts or ends inside a claimed section.
LEMMA OthersOutside ==
    ASSUME NEW p \in Procs, Typed,
           \/ p \in Submitters /\ SubmitterStep(p)
           \/ p \in Workers /\ RecoveryStep(p)
           \/ p \in Cancellers /\ CancellerStep(p)
    PROVE  pc[p] \notin ClaimSteps /\ pc'[p] \notin ClaimSteps
<1> USE DEF Goto, Leave, NextRow, Typed, TypeOK, LocalsOK, ClaimSteps
<1>1. CASE p \in Submitters /\ SubmitterStep(p)
  BY <1>1 DEF SubmitterStep, SubmitCheck, SubmitWrite, SubmitCreate,
     SubmitConflict, SubmitReady
<1>2. CASE p \in Workers /\ RecoveryStep(p)
  <2>1. CASE \/ ReconcileScan(p) \/ ReconcileRead(p) \/ WorkerPick(p)
             \/ NothingReady(p)
    BY <2>1 DEF ReconcileScan, ReconcileRead, WorkerPick, NothingReady
  <2>2. CASE JudgeTerminal(p) \/ JudgeAlive(p) \/ JudgeStale(p)
    BY <2>2 DEF JudgeTerminal, JudgeAlive, JudgeStale
  <2>3. CASE Adopt(p) \/ AdoptClose(p) \/ StaleClose(p) \/ StaleMark(p)
    BY <2>3 DEF Adopt, AdoptClose, StaleClose, StaleMark
  <2> QED
    BY <1>2, <2>1, <2>2, <2>3 DEF RecoveryStep
<1>3. CASE p \in Cancellers /\ CancellerStep(p)
  <2>1. CASE \/ \E t \in Tasks : CancelRead(p, t)
             \/ CancelDirect(p) \/ CancelActive(p) \/ CancelRun(p)
    BY <2>1 DEF CancelRead, CancelDirect, CancelActive, CancelRun
  <2>2. CASE CancelKill(p) \/ CancelKillFails(p) \/ CancelMark(p)
    BY <2>2 DEF CancelKill, CancelKillFails, CancelMark
  <2>3. CASE \/ CancelClose(p) \/ CancelUnlink(p) \/ CancelRefs(p)
             \/ CancelLock(p)
    BY <2>3 DEF CancelClose, CancelUnlink, CancelRefs, CancelLock
  <2> QED
    BY <1>3, <2>1, <2>2, <2>3 DEF CancellerStep
<1> QED
  BY <1>1, <1>2, <1>3

LEMMA OtherChildren ==
    ASSUME Typed, NEW p \in Procs,
           \/ p \in Submitters /\ SubmitterStep(p)
           \/ p \in Workers /\ RecoveryStep(p)
           \/ p \in Cancellers /\ CancellerStep(p)
    PROVE  KeepsChildren(p)
<1> USE DEF KeepsChildren, Goto, Leave, NextRow, Typed, TypeOK, LocalsOK, Procs
<1>1. Bystands(p)
  BY SubmitterKinds, RecoveryKinds, CancellerKinds
<1>2. UNCHANGED runTask
  BY DEF SubmitterStep, SubmitCheck, SubmitWrite, SubmitCreate, SubmitConflict,
   SubmitReady,
     RecoveryStep, ReconcileScan, ReconcileRead, JudgeTerminal, JudgeAlive,
     JudgeStale, Adopt, AdoptClose, StaleClose, StaleMark, WorkerPick,
     NothingReady, CancellerStep, CancelRead, CancelDirect, CancelActive,
     CancelRun, CancelKill, CancelKillFails, CancelMark, CancelClose,
     CancelUnlink, CancelRefs, CancelLock, FinishRun, registry
<1>3. pc'[p] \notin ClaimSteps
  BY OthersOutside
<1>4. \A r \in Runs : child'[r] = "alive" => child[r] = "alive"
  <2>1. CASE p \in Cancellers /\ (CancelKill(p) \/ CancelKillFails(p))
    BY <2>1 DEF CancelKill, CancelKillFails, ExecutorOK
  <2>2. CASE ~ (p \in Cancellers /\ (CancelKill(p) \/ CancelKillFails(p)))
    BY <2>2 DEF SubmitterStep, SubmitCheck, SubmitWrite, SubmitCreate,
       SubmitConflict, SubmitReady, RecoveryStep, ReconcileScan, ReconcileRead, JudgeTerminal,
       JudgeAlive, JudgeStale, Adopt, AdoptClose, StaleClose, StaleMark,
       WorkerPick, NothingReady, CancellerStep, CancelRead, CancelDirect,
       CancelActive, CancelRun, CancelMark, CancelClose, CancelUnlink,
       CancelRefs, CancelLock
  <2> QED
    BY <2>1, <2>2
<1> QED
  BY <1>1, <1>2, <1>3, <1>4 DEF Bystands, UnspawnedSteps, ClaimSteps

LEMMA PayloadTaken ==
    ASSUME NEW t \in Tasks, NEW r
    PROVE  LockPayload(t, r) # NoLock
<1>1. LockPayload(t, r).task = t /\ NoLock.task = NoTask
  BY DEF LockPayload, NoLock
<1> QED
  BY <1>1, TasksAssumption

LEMMA AttendedStep ==
    ASSUME Typed, Claimed, Cancelled, Attended, [Next]_vars
    PROVE  Attended'
<1> USE DEF Attended, LockedChildren, NoneBeforeSpawn, InClaim
<1>0. /\ Coordinators \subseteq Procs
      /\ \A p \in Procs : InClaim(p) => job[p] \in Tasks /\ run[p] \in Runs
      /\ NoTask \notin Tasks
      /\ lock \in [Checkouts ->
                      [task : Tasks \cup {NoTask}, run : Runs \cup {NoRun}]]
      /\ child \in [Runs -> {"none", "alive", "stray", "exited", "killed"}]
      /\ runTask \in [Runs -> Tasks \cup {NoTask}]
      /\ pc \in [Procs -> PcValues] /\ run \in [Procs -> Runs \cup {NoRun}]
      /\ Checkout \in [Tasks -> Checkouts]
      /\ UnspawnedSteps \subseteq ClaimSteps
  BY TasksAssumption, CheckoutAssumption
  DEF Typed, TypeOK, LocksOK, ExecutorOK, RegistryOK, LocalsOK, Working, Resting,
      ClaimSteps, UnspawnedSteps, Procs, Coordinators
<1>1. ASSUME NEW q \in Procs, KeepsChildren(q) PROVE Attended'
  BY <1>0, <1>1 DEF KeepsChildren
<1>2. ASSUME NEW q \in Coordinators, AcquireLock(q) PROVE Attended'
  <2>1. /\ lock[Checkout[job[q]]] = NoLock
        /\ lock' = [lock EXCEPT ![Checkout[job[q]]] = LockPayload(job[q], nextRun)]
        /\ run' = [run EXCEPT ![q] = nextRun]
        /\ pc' = [pc EXCEPT ![q] = "start"]
        /\ nextRun' = nextRun + 1
        /\ nextRun \in Runs
        /\ UNCHANGED <<child, runTask>>
    BY <1>2 DEF AcquireLock, registry
  <2>2. \A r \in Runs : child[r] = "alive" =>
            /\ r < nextRun + 1 /\ r # nextRun
            /\ lock'[Checkout[runTask[r]]] = LockPayload(runTask[r], r)
    <3> SUFFICES ASSUME NEW r \in Runs, child[r] = "alive"
                 PROVE  /\ r < nextRun + 1 /\ r # nextRun
                        /\ lock'[Checkout[runTask[r]]] = LockPayload(runTask[r], r)
      OBVIOUS
    <3>1. r < nextRun /\ r < nextRun + 1 /\ r # nextRun
      BY <2>1 DEF Runs
    <3>2. lock[Checkout[runTask[r]]] # NoLock
      <4>1. lock[Checkout[runTask[r]]] = LockPayload(runTask[r], r)
        OBVIOUS
      <4>2. LockPayload(runTask[r], r) # NoLock
        BY <1>0, PayloadTaken
      <4> QED
        BY <4>1, <4>2
    <3> QED
      BY <1>0, <2>1, <3>1, <3>2
  <2>3. LockedChildren'
    BY <2>1, <2>2
  <2>4. NoneBeforeSpawn'
    <3> SUFFICES ASSUME NEW p \in Coordinators, pc'[p] \in UnspawnedSteps
                 PROVE  child[run'[p]] # "alive"
      BY <2>1
    <3>1. CASE p = q
      BY <1>0, <2>1, <2>2, <3>1
    <3>2. CASE p # q
      BY <1>0, <2>1, <3>2
    <3> QED
      BY <3>1, <3>2
  <2> QED
    BY <2>3, <2>4
<1>3. ASSUME NEW q \in Coordinators, StartRun(q) PROVE Attended'
  <2>1. /\ pc[q] = "record" /\ pc' = [pc EXCEPT ![q] = "spawn"]
        /\ runTask' = [runTask EXCEPT ![run[q]] = job[q]]
        /\ UNCHANGED <<job, run, nextRun, lock, child>>
    BY <1>3 DEF StartRun, Goto
  <2>2. InClaim(q) /\ child[run[q]] # "alive"
    BY <2>1 DEF ClaimSteps, UnspawnedSteps
  <2>3. \A r \in Runs : child[r] = "alive" => runTask'[r] = runTask[r]
    BY <1>0, <2>1, <2>2
  <2> QED
    BY <1>0, <2>1, <2>2, <2>3 DEF UnspawnedSteps
<1>4. ASSUME NEW q \in Coordinators, Spawn(q) PROVE Attended'
  <2>1. /\ pc[q] = "spawn" /\ pc' = [pc EXCEPT ![q] = "observe"]
        /\ child' = [child EXCEPT ![run[q]] = "alive"]
        /\ UNCHANGED <<job, run, nextRun, lock, runTask>>
    BY <1>4 DEF Spawn, Goto, registry
  <2>2. InClaim(q) /\ runTask[run[q]] = job[q]
    BY <1>0, <2>1 DEF ClaimSteps, Cancelled, KnownRuns, OwnRunSteps
  <2>3. /\ lock[Checkout[runTask[run[q]]]] = LockPayload(runTask[run[q]], run[q])
        /\ run[q] < nextRun /\ runTask[run[q]] \in Tasks
    BY <1>0, <2>2 DEF Claimed, OwnsLock
  <2>4. LockedChildren'
    BY <1>0, <2>1, <2>3
  <2>5. NoneBeforeSpawn'
    <3> SUFFICES ASSUME NEW p \in Coordinators, pc'[p] \in UnspawnedSteps
                 PROVE  child'[run[p]] # "alive"
      BY <2>1
    <3>1. p # q /\ pc[p] = pc'[p]
      BY <1>0, <2>1 DEF UnspawnedSteps
    <3>2. run[p] # run[q]
      BY <2>2, <3>1 DEF Claimed, DistinctRuns, ClaimSteps, UnspawnedSteps
    <3> QED
      BY <1>0, <2>1, <2>2, <3>1, <3>2
  <2> QED
    BY <2>4, <2>5
<1>5. ASSUME NEW q \in Coordinators, Release(q) PROVE Attended'
  <2>1. /\ pc[q] = "release"
        /\ lock' = [lock EXCEPT ![Checkout[job[q]]] = NoLock]
        /\ child' = [r \in Runs |-> IF r = run[q] /\ child[r] = "alive"
                                   THEN "stray" ELSE child[r]]
        /\ pc' = [pc EXCEPT ![q] = "idle"]
        /\ run' = [run EXCEPT ![q] = NoRun]
        /\ UNCHANGED <<runTask, nextRun>>
    BY <1>5 DEF Release, Leave, registry
  <2>2. InClaim(q) /\ lock[Checkout[job[q]]] = LockPayload(job[q], run[q])
    BY <2>1 DEF Claimed, OwnsLock, ClaimSteps
  <2>3. \A r \in Runs : child'[r] = "alive" => child[r] = "alive" /\ r # run[q]
    BY <2>1
  <2>4. \A r \in Runs : child'[r] = "alive" =>
            Checkout[runTask[r]] # Checkout[job[q]]
    BY <2>2, <2>3, PayloadRun
  <2>5. LockedChildren'
    BY <1>0, <2>1, <2>3, <2>4
  <2>6. NoneBeforeSpawn'
    <3> SUFFICES ASSUME NEW p \in Coordinators, pc'[p] \in UnspawnedSteps
                 PROVE  child'[run'[p]] # "alive"
      OBVIOUS
    <3>1. p # q /\ pc'[p] = pc[p] /\ run'[p] = run[p]
      BY <1>0, <2>1 DEF UnspawnedSteps
    <3>2. run[p] \in Runs
      BY <1>0, <3>1 DEF ClaimSteps, UnspawnedSteps
    <3> QED
      BY <2>3, <3>1, <3>2
  <2> QED
    BY <2>5, <2>6
<1>6. CASE \/ \E t \in Tasks : IngestCreate(t) \/ IngestReady(t)
           \/ \E r \in Runs : ChildExits(r)
           \/ UNCHANGED vars
  <2>1. /\ UNCHANGED <<pc, job, run, nextRun, lock, runTask>>
        /\ \A r \in Runs : child'[r] = "alive" => child[r] = "alive"
    BY <1>0, <1>6 DEF IngestCreate, IngestReady, ChildExits, vars, registry, locals
  <2> QED
    BY <1>0, <2>1
<1> QED
  BY <1>1, <1>2, <1>3, <1>4, <1>5, <1>6, CoordinatorChildren, OtherChildren
  DEF Next, Procs, Coordinators

\* The lock file of a checkout names the run whose child is alive under it,
\* also when the coordinator of that run is dead (execution.checkout_lock).
THEOREM ChildrenAttended == Spec => []Attended
<1>1. Init => Attended
  BY DEF Init, Attended, LockedChildren, NoneBeforeSpawn, UnspawnedSteps,
     Coordinators, Procs
<1>2. Typed /\ Claimed /\ Cancelled /\ Attended /\ [Next]_vars => Attended'
  BY AttendedStep
<1> QED
  BY <1>1, <1>2, TypeCorrect, LocksOwned, RunsKnown, PTL DEF Spec

\* At most one executor child works under the lock of a checkout, whatever is
\* killed, cancelled or recovered, and also after a coordinator died and its
\* orphan lives on.
THEOREM OneChild == Spec => []OneChildPerCheckout
<1>1. Attended => OneChildPerCheckout
  <2> SUFFICES ASSUME Attended, NEW q \in Runs, NEW r \in Runs,
                      child[q] = "alive", child[r] = "alive",
                      Checkout[runTask[q]] = Checkout[runTask[r]]
               PROVE  q = r
    BY DEF OneChildPerCheckout
  <2>1. LockPayload(runTask[q], q) = LockPayload(runTask[r], r)
    BY DEF Attended, LockedChildren
  <2> QED
    BY <2>1, PayloadRun
<1> QED
  BY <1>1, ChildrenAttended, PTL

----------------------------------------------------------------------------
(* Strays.  A child that a coordinator has stopped waiting for is left over: *)
(* as a stray, or still under the lock its coordinator is about to release.  *)

PastWaitSteps ==
    ClaimSteps \ {"start", "record", "spawn", "observe", "wait"}

LeftOver(r) ==
    \/ child[r] = "stray"
    \/ /\ child[r] = "alive"
       /\ \E p \in Coordinators : pc[p] \in PastWaitSteps /\ run[p] = r

LeftOvers == {r \in Runs : LeftOver(r)}

\* A step of process q that leaves no child over, or a fault that may leave the
\* child of the run of q.
KeepsStrays(q) ==
    /\ \A r \in Runs : child'[r] = "stray" => child[r] = "stray"
    /\ \A r \in Runs :
          child'[r] = "alive" =>
             \/ child[r] = "alive"
             \/ pc[q] = "spawn" /\ pc'[q] = "observe" /\ r = run[q]
    /\ \A p \in Procs \ {q} : pc'[p] = pc[p] /\ run'[p] = run[p]
    /\ faulted' \in {faulted, faulted + 1}
    /\ pc'[q] \in PastWaitSteps =>
          /\ run'[q] = run[q]
          /\ \/ pc[q] \in PastWaitSteps
             \/ child'[run[q]] # "alive"
             \/ faulted' = faulted + 1

LEMMA CoordinatorStrays ==
    ASSUME Typed, Attended, NEW p \in Coordinators, CoordinatorStep(p)
    PROVE  KeepsStrays(p) \/ AcquireLock(p) \/ Release(p)
<1> USE DEF KeepsStrays, PastWaitSteps, ClaimSteps, Goto, Leave, Injected, locals,
        Procs, Coordinators
<1>0. /\ pc \in [Procs -> PcValues] /\ run \in [Procs -> Runs \cup {NoRun}]
      /\ child \in [Runs -> {"none", "alive", "stray", "exited", "killed"}]
      /\ pc[p] \in ClaimSteps => run[p] \in Runs
      /\ pc[p] = "start" => child[run[p]] # "alive"
  BY DEF Typed, TypeOK, LocalsOK, ExecutorOK, Working, Attended,
     NoneBeforeSpawn, UnspawnedSteps
<1>1. CASE \/ ExecuteCheck(p) \/ ValidationFails(p) \/ LockBusy(p)
           \/ StartTransition(p) \/ StartRun(p)
  BY <1>0, <1>1 DEF ExecuteCheck, ValidationFails, LockBusy, StartTransition,
     StartRun
<1>2. CASE Spawn(p) \/ RecordSpawn(p)
  BY <1>0, <1>2 DEF Spawn, RecordSpawn
<1>3. CASE SpawnFails(p)
  <2>1. child' = child /\ faulted' = faulted + 1
    BY <1>3 DEF SpawnFails
  <2>2. child[run[p]] # "alive"
    BY <1>3 DEF SpawnFails, Attended, NoneBeforeSpawn, UnspawnedSteps
  <2> QED
    BY <1>0, <1>3, <2>1, <2>2 DEF SpawnFails
<1>4. CASE ObserverFails(p) \/ Interrupt(p)
  <2>1. child' = child \/ child' = [child EXCEPT ![run[p]] = "killed"]
    BY <1>4 DEF ObserverFails, Interrupt, StopsChildOrNot
  <2> QED
    BY <1>0, <1>4, <2>1 DEF ObserverFails, Interrupt
<1>5. CASE GuardFires(p)
  <2>1. \/ child' = [child EXCEPT ![run[p]] = "killed"] /\ faulted' = faulted
        \/ child' = child /\ faulted' = faulted + 1
    BY <1>5 DEF GuardFires
  <2> QED
    BY <1>0, <1>5, <2>1 DEF GuardFires
<1>6. CASE ExecutorReturns(p)
  <2>1. child[run[p]] # "alive" /\ child' = child /\ faulted' = faulted
    BY <1>6 DEF ExecutorReturns
  <2> QED
    BY <1>0, <1>6, <2>1 DEF ExecutorReturns
<1>7. CASE \/ CheckCancelled(p) \/ WriteResult(p) \/ WriteCheckpoint(p)
           \/ WriteFails(p) \/ Finish(p) \/ Rejected(p) \/ Recheck(p)
  BY <1>0, <1>7 DEF CheckCancelled, WriteResult, WriteCheckpoint, WriteFails,
     Finish, Rejected, Recheck
<1>8. CASE Undo(p) \/ CloseCancelled(p) \/ SetRefs(p) \/ Close(p)
  BY <1>0, <1>8 DEF Undo, CloseCancelled, SetRefs, Close
<1>9. CASE Crash(p) \/ TreeKill(p) \/ Restart(p)
  BY <1>0, <1>9 DEF Crash, TreeKill, Restart
<1> QED
  BY <1>1, <1>2, <1>3, <1>4, <1>5, <1>6, <1>7, <1>8, <1>9 DEF CoordinatorStep

LEMMA OtherStrays ==
    ASSUME Typed, NEW p \in Procs,
           \/ p \in Submitters /\ SubmitterStep(p)
           \/ p \in Workers /\ RecoveryStep(p)
           \/ p \in Cancellers /\ CancellerStep(p)
    PROVE  KeepsStrays(p)
<1>1. Bystands(p)
  BY SubmitterKinds, RecoveryKinds, CancellerKinds
<1>2. pc'[p] \notin ClaimSteps
  BY OthersOutside
<1>3. CASE p \in Cancellers /\ (CancelKill(p) \/ CancelKillFails(p))
  <2>1. /\ \/ child' = child
           \/ child' = [child EXCEPT ![run[p]] = "killed"]
           \/ child' = [child EXCEPT ![run[p]] = child[run[p]]]
        /\ faulted' \in {faulted, faulted + 1}
    BY <1>3 DEF CancelKill, CancelKillFails
  <2>2. child \in [Runs -> {"none", "alive", "stray", "exited", "killed"}]
    BY DEF Typed, TypeOK, ExecutorOK
  <2> QED
    BY <1>1, <1>2, <2>1, <2>2 DEF KeepsStrays, Bystands, PastWaitSteps
<1>4. CASE ~ (p \in Cancellers /\ (CancelKill(p) \/ CancelKillFails(p)))
  <2>1. child' = child /\ faulted' \in {faulted, faulted + 1}
    BY <1>4 DEF SubmitterStep, SubmitCheck, SubmitWrite, SubmitCreate,
       SubmitConflict, SubmitReady, RecoveryStep, ReconcileScan, ReconcileRead,
       JudgeTerminal, JudgeAlive, JudgeStale, Adopt, AdoptClose, StaleClose,
       StaleMark, WorkerPick, NothingReady, CancellerStep, CancelRead,
       CancelDirect, CancelActive, CancelRun, CancelMark, CancelClose,
       CancelUnlink, CancelRefs, CancelLock
  <2> QED
    BY <1>1, <1>2, <2>1 DEF KeepsStrays, Bystands, PastWaitSteps
<1> QED
  BY <1>3, <1>4

\* A step leaves no child over, or it is a fault and leaves one.
LEMMA StraysStep ==
    ASSUME Typed, Claimed, Attended, [Next]_vars
    PROVE  \/ LeftOvers' \subseteq LeftOvers /\ faulted' \in {faulted, faulted + 1}
           \/ /\ \E r \in Runs : LeftOvers' \subseteq LeftOvers \cup {r}
              /\ faulted' = faulted + 1
<1>0. /\ Coordinators \subseteq Procs
      /\ pc \in [Procs -> PcValues] /\ run \in [Procs -> Runs \cup {NoRun}]
      /\ child \in [Runs -> {"none", "alive", "stray", "exited", "killed"}]
      /\ \A p \in Procs : pc[p] \in ClaimSteps => run[p] \in Runs
      /\ PastWaitSteps \subseteq ClaimSteps /\ "spawn" \in ClaimSteps
  BY DEF Procs, Coordinators, Typed, TypeOK, LocalsOK, ExecutorOK, Working,
     PastWaitSteps, ClaimSteps
<1>1. ASSUME NEW q \in Procs, KeepsStrays(q),
             q \notin Coordinators => pc'[q] \notin ClaimSteps /\ pc[q] \notin ClaimSteps
      PROVE  \/ LeftOvers' \subseteq LeftOvers /\ faulted' \in {faulted, faulted + 1}
             \/ /\ \E r \in Runs : LeftOvers' \subseteq LeftOvers \cup {r}
                /\ faulted' = faulted + 1
  <2> DEFINE Drops == q \in Coordinators /\ pc'[q] \in PastWaitSteps
                        /\ pc[q] \notin PastWaitSteps /\ faulted' = faulted + 1
  <2>1. ASSUME NEW r \in Runs, LeftOver(r)', ~ LeftOver(r)
        PROVE  Drops /\ r = run'[q]
    <3>1. child'[r] = "alive"
      BY <1>1, <2>1 DEF LeftOver, KeepsStrays
    <3>2. PICK p \in Coordinators : pc'[p] \in PastWaitSteps /\ run'[p] = r
      BY <2>1, <3>1 DEF LeftOver
    <3>3. CASE p # q
      <4>1. pc[p] \in PastWaitSteps /\ run[p] = r
        BY <1>0, <1>1, <3>2, <3>3 DEF KeepsStrays
      <4>2. child[r] # "alive"
        BY <2>1, <4>1 DEF LeftOver
      <4>3. pc[q] = "spawn" /\ run[q] = run[p]
        BY <1>1, <3>1, <4>1, <4>2 DEF KeepsStrays
      <4>4. q \in Coordinators /\ InClaim(q) /\ InClaim(p)
        BY <1>0, <1>1, <4>1, <4>3 DEF InClaim
      <4> QED
        BY <3>3, <4>3, <4>4 DEF Claimed, DistinctRuns
    <3>4. CASE p = q
      <4>1. run'[q] = run[q] /\ run[q] = r /\ pc'[q] # "observe"
        BY <1>1, <3>2, <3>4 DEF KeepsStrays, PastWaitSteps
      <4>2. child[r] = "alive"
        BY <1>1, <3>1, <4>1 DEF KeepsStrays
      <4>3. pc[q] \notin PastWaitSteps
        BY <2>1, <3>2, <3>4, <4>1, <4>2 DEF LeftOver
      <4> QED
        BY <1>1, <3>1, <3>2, <3>4, <4>1, <4>3 DEF KeepsStrays
    <3> QED
      BY <3>3, <3>4
  <2>2. CASE Drops
    <3>1. CASE \E r \in Runs : LeftOver(r)' /\ ~ LeftOver(r)
      <4>1. PICK r \in Runs : LeftOver(r)' /\ ~ LeftOver(r)
        BY <3>1
      <4>2. LeftOvers' \subseteq LeftOvers \cup {r}
        BY <2>1, <4>1 DEF LeftOvers
      <4> QED
        BY <2>2, <4>2
    <3>2. CASE ~ \E r \in Runs : LeftOver(r)' /\ ~ LeftOver(r)
      <4>1. LeftOvers' \subseteq LeftOvers
        BY <3>2 DEF LeftOvers
      <4> QED
        BY <2>2, <4>1
    <3> QED
      BY <3>1, <3>2
  <2>3. CASE ~ Drops
    <3>1. LeftOvers' \subseteq LeftOvers
      BY <2>1, <2>3 DEF LeftOvers
    <3> QED
      BY <1>1, <3>1 DEF KeepsStrays
  <2> QED
    BY <2>2, <2>3
<1>2. ASSUME NEW q \in Coordinators, AcquireLock(q)
      PROVE  LeftOvers' \subseteq LeftOvers /\ faulted' = faulted
  <2>1. /\ run' = [run EXCEPT ![q] = nextRun] /\ pc' = [pc EXCEPT ![q] = "start"]
        /\ UNCHANGED <<child, faulted>>
    BY <1>2 DEF AcquireLock
  <2> QED
    BY <1>0, <2>1 DEF LeftOvers, LeftOver, PastWaitSteps
<1>3. ASSUME NEW q \in Coordinators, Release(q)
      PROVE  LeftOvers' \subseteq LeftOvers /\ faulted' = faulted
  <2>1. /\ pc[q] = "release" /\ pc' = [pc EXCEPT ![q] = "idle"]
        /\ run' = [run EXCEPT ![q] = NoRun]
        /\ child' = [r \in Runs |-> IF r = run[q] /\ child[r] = "alive"
                                   THEN "stray" ELSE child[r]]
        /\ faulted' = faulted
    BY <1>3 DEF Release, Leave
  <2>2. ASSUME NEW r \in Runs, LeftOver(r)' PROVE LeftOver(r)
    <3>1. CASE child'[r] = "stray"
      BY <2>1, <3>1 DEF LeftOver, PastWaitSteps, ClaimSteps
    <3>2. CASE child'[r] # "stray"
      <4>1. child'[r] = "alive" /\ child[r] = "alive"
        BY <2>1, <2>2, <3>2 DEF LeftOver
      <4>2. PICK p \in Coordinators : pc'[p] \in PastWaitSteps /\ run'[p] = r
        BY <2>2, <4>1 DEF LeftOver
      <4>3. p # q
        BY <1>0, <2>1, <4>2 DEF PastWaitSteps, ClaimSteps
      <4> QED
        BY <1>0, <2>1, <4>1, <4>2, <4>3 DEF LeftOver
    <3> QED
      BY <3>1, <3>2
  <2> QED
    BY <2>1, <2>2 DEF LeftOvers
<1>4. CASE \/ \E t \in Tasks : IngestCreate(t) \/ IngestReady(t)
           \/ \E r \in Runs : ChildExits(r)
           \/ UNCHANGED vars
  <2>1. /\ UNCHANGED <<pc, run, faulted>>
        /\ \A r \in Runs : child'[r] = child[r] \/ child'[r] = "exited"
    BY <1>0, <1>4 DEF IngestCreate, IngestReady, ChildExits, vars, locals
  <2> QED
    BY <2>1 DEF LeftOvers, LeftOver
<1>5. ASSUME NEW q \in Procs,
             \/ q \in Submitters /\ SubmitterStep(q)
             \/ q \in Workers /\ RecoveryStep(q)
             \/ q \in Cancellers /\ CancellerStep(q)
      PROVE  KeepsStrays(q) /\ pc'[q] \notin ClaimSteps /\ pc[q] \notin ClaimSteps
  BY <1>5, OtherStrays, OthersOutside
<1> QED
  BY <1>1, <1>2, <1>3, <1>4, <1>5, CoordinatorStrays DEF Next, Procs, Coordinators

LEMMA RunsAreFinite == IsFiniteSet(Runs)
BY FS_Interval, BoundsAssumption DEF Runs

\* Every checkout given up with its child alive has a fault of its own: a stop
\* that failed, an interrupt or an observer that raised.  Without one of them
\* the lock of docs/executors.md:49 does keep concurrent writers out.
THEOREM StraysCounted == Spec => []StraysAreFaults
<1> DEFINE Inv == Cardinality(LeftOvers) <= faulted
<1>1. Init => Inv
  <2>1. Init => LeftOvers = {}
    BY DEF Init, LeftOvers, LeftOver
  <2>2. Init => faulted = 0
    BY DEF Init
  <2> QED
    BY <2>1, <2>2, FS_EmptySet
<1>2. Typed /\ Claimed /\ Attended /\ Inv /\ [Next]_vars => Inv'
  <2> SUFFICES ASSUME Typed, Claimed, Attended, Inv, [Next]_vars
               PROVE  Inv'
    OBVIOUS
  <2>1. IsFiniteSet(LeftOvers) /\ LeftOvers \in SUBSET Runs
    BY RunsAreFinite, FS_Subset DEF LeftOvers
  <2>2. Cardinality(LeftOvers) \in Nat /\ faulted \in Nat
    BY <2>1, FS_CardinalityType, BoundsAssumption DEF Typed, TypeOK
  <2>3. LeftOvers' \in SUBSET Runs
    BY DEF LeftOvers
  <2>4. IsFiniteSet(LeftOvers') /\ Cardinality(LeftOvers') \in Nat
    BY <2>3, RunsAreFinite, FS_Subset, FS_CardinalityType
  <2>5. ASSUME LeftOvers' \subseteq LeftOvers, faulted' \in {faulted, faulted + 1}
        PROVE  Cardinality(LeftOvers') <= faulted'
    <3>1. Cardinality(LeftOvers') <= Cardinality(LeftOvers)
      BY <2>1, <2>5, FS_Subset
    <3> QED
      BY <2>2, <2>4, <2>5, <3>1
  <2>6. ASSUME NEW r \in Runs, LeftOvers' \subseteq LeftOvers \cup {r},
               faulted' = faulted + 1
        PROVE  Cardinality(LeftOvers') <= faulted'
    <3> DEFINE More == LeftOvers \cup {r}
    <3>1. /\ IsFiniteSet(More)
          /\ Cardinality(More) \in {Cardinality(LeftOvers), Cardinality(LeftOvers) + 1}
      BY <2>1, FS_AddElement
    <3>2. Cardinality(LeftOvers') <= Cardinality(More)
      BY <2>6, <3>1, FS_Subset
    <3> HIDE DEF More
    <3> QED
      BY <2>2, <2>4, <2>6, <3>1, <3>2
  <2> QED
    BY <2>5, <2>6, StraysStep
<1>3. Typed /\ Inv => StraysAreFaults
  <2> SUFFICES ASSUME Typed, Inv PROVE Cardinality(Strays) <= faulted
    BY DEF StraysAreFaults
  <2>1. IsFiniteSet(LeftOvers)
    BY RunsAreFinite, FS_Subset DEF LeftOvers
  <2>2. Strays \in SUBSET LeftOvers
    BY DEF Strays, LeftOvers, LeftOver
  <2>3. /\ Cardinality(LeftOvers) \in Nat /\ Cardinality(Strays) \in Nat
        /\ Cardinality(Strays) <= Cardinality(LeftOvers)
    BY <2>1, <2>2, FS_Subset, FS_CardinalityType
  <2>4. faulted \in Nat
    BY BoundsAssumption DEF Typed, TypeOK
  <2> QED
    BY <2>3, <2>4
<1> HIDE DEF Inv
<1> QED
  BY <1>1, <1>2, <1>3, TypeCorrect, LocksOwned, ChildrenAttended, PTL DEF Spec

----------------------------------------------------------------------------
(* Refinement: the bridge implements ExclusiveExecution.                    *)

\* Nobody enters or leaves a claimed section.
StaysPut ==
    /\ UNCHANGED nextRun
    /\ \A p \in Coordinators :
          /\ InClaim(p)' <=> InClaim(p)
          /\ InClaim(p) => job'[p] = job[p] /\ run'[p] = run[p]

LEMMA StaysPutHolds ==
    ASSUME StaysPut
    PROVE  UNCHANGED Holder
<1> DEFINE H(c) == {run[p] : p \in {q \in Coordinators :
                                      InClaim(q) /\ Checkout[job[q]] = c}}
<1>1. ASSUME NEW c \in Checkouts PROVE H(c)' = H(c)
  BY DEF StaysPut
<1> HIDE DEF H
<1>2. Holder = [c \in Checkouts |-> H(c)]
  BY DEF Holder, H
<1>3. Holder' = [c \in Checkouts |-> H(c)']
  BY DEF Holder, H
<1> QED
  BY <1>1, <1>2, <1>3

\* The status of task t takes the edge to another status.
Edge(t, to) ==
    Legal(status[t], to) /\ status' = [status EXCEPT ![t] = to]

\* What a step does to the statuses, in terms of the promise.
StatusMoves ==
    \/ UNCHANGED status
    \/ \E t \in Tasks :
          \/ status[t] = Absent /\ status' = [status EXCEPT ![t] = "QUEUED"]
          \/ Edge(t, "RUNNING") /\ \E p \in Coordinators : InClaim(p) /\ job[p] = t
          \/ \E to \in {"READY", "CANCELLED"} \cup Deliverable : Edge(t, to)

\* Coordinator p leaves its claimed section: by Release, or by its death.
Exits(p) ==
    /\ InClaim(p) /\ ~ InClaim(p)'
    /\ \A q \in Coordinators \ {p} :
          pc'[q] = pc[q] /\ job'[q] = job[q] /\ run'[q] = run[q]
    /\ UNCHANGED <<status, nextRun>>

LEMMA TransitionEdge ==
    ASSUME NEW id, NEW t, NEW to, Transition(id, t, to)
    PROVE  UNCHANGED status \/ Edge(t, to)
BY DEF Transition, Commit, Accepted, Edge, store

LEMMA FinalStatusDeliverable ==
    \A v \in ExecutorVerdicts : FinalStatus[v] \in Deliverable
BY DEF FinalStatus, ExecutorVerdicts, Deliverable

LEMMA CoordinatorPromise ==
    ASSUME Typed, Evident, NEW p \in Coordinators, CoordinatorStep(p)
    PROVE  (StaysPut /\ StatusMoves) \/ AcquireLock(p) \/ Exits(p)
<1> USE DEF StaysPut, Exits, InClaim, ClaimSteps, Goto, Leave, Typed, TypeOK,
        LocalsOK, store, locals, Procs, Coordinators
<1>1. CASE \/ ExecuteCheck(p) \/ ValidationFails(p) \/ LockBusy(p)
           \/ StartRun(p) \/ Spawn(p) \/ SpawnFails(p) \/ RecordSpawn(p)
           \/ ObserverFails(p) \/ ExecutorReturns(p) \/ GuardFires(p)
  BY <1>1 DEF StatusMoves, ExecuteCheck, ValidationFails, LockBusy, StartRun,
     Spawn, SpawnFails, RecordSpawn, ObserverFails, ExecutorReturns, GuardFires
<1>2. CASE StartTransition(p)
  <2>1. StaysPut /\ pc[p] = "start"
    BY <1>2 DEF StartTransition
  <2>2. job[p] \in Tasks
    BY <2>1 DEF Working, Resting
  <2>3. UNCHANGED status \/ Edge(job[p], "RUNNING")
    BY <1>2, TransitionEdge DEF StartTransition
  <2> QED
    BY <2>1, <2>2, <2>3 DEF StatusMoves
<1>3. CASE Finish(p)
  <2>1. StaysPut /\ pc[p] = "finish"
    BY <1>3 DEF Finish
  <2>2. job[p] \in Tasks /\ verdict[run[p]] \in ExecutorVerdicts
    BY <2>1 DEF Working, Resting, Evident, KnownVerdicts, JudgedSteps,
       ExecutorOK
  <2>3. UNCHANGED status \/ Edge(job[p], FinalStatus[verdict[run[p]]])
    BY <1>3, TransitionEdge DEF Finish
  <2> QED
    BY <2>1, <2>2, <2>3, FinalStatusDeliverable DEF StatusMoves
<1>4. CASE \/ CheckCancelled(p) \/ WriteResult(p) \/ WriteCheckpoint(p)
           \/ WriteFails(p) \/ Rejected(p) \/ Recheck(p) \/ Undo(p)
  BY <1>4 DEF StatusMoves, CheckCancelled, WriteResult, WriteCheckpoint,
     WriteFails, Rejected, Recheck, Undo
<1>5. CASE \/ CloseCancelled(p) \/ SetRefs(p) \/ Close(p) \/ Interrupt(p)
           \/ Restart(p)
  BY <1>5 DEF StatusMoves, CloseCancelled, SetRefs, UpdateTaskRefs, Close,
     Interrupt, Restart
<1>6. CASE Release(p)
  BY <1>6 DEF Release
<1>7. CASE Crash(p) \/ TreeKill(p)
  <2>1. /\ pc' = [pc EXCEPT ![p] = "stopped"]
        /\ job' = [job EXCEPT ![p] = NoTask]
        /\ run' = [run EXCEPT ![p] = NoRun]
        /\ UNCHANGED <<status, nextRun>>
    BY <1>7 DEF Crash, TreeKill
  <2>2. CASE InClaim(p)
    BY <2>1, <2>2
  <2>3. CASE ~ InClaim(p)
    BY <2>1, <2>3 DEF StatusMoves
  <2> QED
    BY <2>2, <2>3
<1> QED
  BY <1>1, <1>2, <1>3, <1>4, <1>5, <1>6, <1>7 DEF CoordinatorStep

LEMMA OthersPromise ==
    ASSUME Typed, Evident, NEW p \in Procs,
           \/ p \in Submitters /\ SubmitterStep(p)
           \/ p \in Workers /\ RecoveryStep(p)
           \/ p \in Cancellers /\ CancellerStep(p)
    PROVE  StaysPut /\ StatusMoves
<1>1. StaysPut
  <2>1. Bystands(p)
    BY SubmitterKinds, RecoveryKinds, CancellerKinds
  <2>2. pc[p] \notin ClaimSteps /\ pc'[p] \notin ClaimSteps
    BY OthersOutside
  <2> QED
    BY <2>1, <2>2 DEF Bystands, StaysPut, InClaim, Procs, Coordinators
<1>0. pc[p] \notin Resting => job[p] \in Tasks
  BY DEF Typed, Working
<1>2. StatusMoves
  <2>1. CASE p \in Submitters /\ SubmitterStep(p)
    <3>1. CASE SubmitCreate(p)
      BY <1>0, <3>1 DEF SubmitCreate, CreateTask, StatusMoves, Resting
    <3>2. CASE SubmitReady(p)
      BY <1>0, <3>2, TransitionEdge DEF SubmitReady, StatusMoves, Resting, store
    <3>3. CASE \/ SubmitWrite(p) \/ SubmitConflict(p)
               \/ \E t \in Tasks \ Mailbox : SubmitCheck(p, t)
      BY <3>3 DEF SubmitWrite, SubmitConflict, SubmitCheck, StatusMoves, store
    <3> QED
      BY <2>1, <3>1, <3>2, <3>3 DEF SubmitterStep
  <2>2. CASE p \in Workers /\ RecoveryStep(p)
    <3>1. CASE Adopt(p)
      <4>1. job[p] \in Tasks /\ seen[p].verdict \in ExecutorVerdicts
        BY <1>0, <2>2, <3>1 DEF Adopt, Resting, Typed, TypeOK, LocalsOK, Evident,
           KnownVerdicts
      <4>2. UNCHANGED status \/ Edge(job[p], FinalStatus[seen[p].verdict])
        BY <3>1, TransitionEdge DEF Adopt, store
      <4> QED
        BY <4>1, <4>2, FinalStatusDeliverable DEF StatusMoves
    <3>2. CASE StaleMark(p)
      BY <1>0, <3>2, TransitionEdge
      DEF StaleMark, StatusMoves, Resting, Deliverable, store
    <3>3. CASE ~ (Adopt(p) \/ StaleMark(p))
      BY <2>2, <3>3 DEF RecoveryStep, ReconcileScan, ReconcileRead,
         JudgeTerminal, JudgeAlive, JudgeStale, AdoptClose, StaleClose,
         WorkerPick, NothingReady, StatusMoves, store
    <3> QED
      BY <3>1, <3>2, <3>3
  <2>3. CASE p \in Cancellers /\ CancellerStep(p)
    <3>1. CASE CancelDirect(p) \/ CancelMark(p)
      BY <1>0, <3>1, TransitionEdge
      DEF CancelDirect, CancelMark, StatusMoves, Resting, store
    <3>2. CASE ~ (CancelDirect(p) \/ CancelMark(p))
      BY <2>3, <3>2 DEF CancellerStep, CancelRead, CancelActive, CancelRun,
         CancelKill, CancelKillFails, CancelClose, CancelUnlink, CancelRefs,
         UpdateTaskRefs, CancelLock, StatusMoves, store
    <3> QED
      BY <3>1, <3>2
  <2> QED
    BY <2>1, <2>2, <2>3
<1> QED
  BY <1>1, <1>2

LEMMA StepPromise ==
    ASSUME Typed, Evident, [Next]_vars
    PROVE  \/ StaysPut /\ StatusMoves
           \/ \E p \in Coordinators : AcquireLock(p) \/ Exits(p)
<1>1. CASE \E t \in Tasks : IngestCreate(t)
  BY <1>1 DEF IngestCreate, CreateTask, StaysPut, StatusMoves, InClaim, locals
<1>2. CASE \E t \in Tasks : IngestReady(t)
  BY <1>2 DEF IngestReady, Commit, Accepted, Edge, StaysPut, StatusMoves,
     InClaim, locals
<1>3. CASE (\E r \in Runs : ChildExits(r)) \/ UNCHANGED vars
  BY <1>3 DEF ChildExits, vars, store, locals, StaysPut, StatusMoves, InClaim
<1> QED
  BY <1>1, <1>2, <1>3, CoordinatorPromise, OthersPromise
  DEF Next, Procs, Coordinators

LEMMA HolderOf ==
    ASSUME NEW c \in Checkouts
    PROVE  Holder[c] = {run[p] : p \in {q \in Coordinators :
                                    InClaim(q) /\ Checkout[job[q]] = c}}
BY DEF Holder

\* The promise speaks of statuses in the words of TaskState.
LEMMA PromiseWords ==
    /\ Actual!Absent = Absent
    /\ Actual!Deliverable = Deliverable
    /\ \A from, to : Actual!Legal(from, to) <=> Legal(from, to)
<1>1. Actual!Statuses = Statuses
  BY DEF Actual!Statuses, Statuses
<1>2. Actual!LegalTransitions = LegalTransitions
  BY <1>1 DEF Actual!LegalTransitions, LegalTransitions
<1> QED
  BY <1>1, <1>2 DEF Actual!Absent, Absent, Actual!Deliverable, Deliverable,
     Actual!Legal, Legal

LEMMA PromiseStep ==
    ASSUME Typed, Claimed, Evident, [Next]_vars
    PROVE  [Actual!Next]_(Actual!vars)
<1> USE DEF Actual!Next, Actual!vars, Actual!Create, Actual!Begin,
        Actual!Move, Actual!Drop, Actual!Claim
<1>1. CASE StaysPut /\ StatusMoves
  <2>1. UNCHANGED Holder /\ UNCHANGED nextRun
    BY <1>1, StaysPutHolds DEF StaysPut
  <2>2. ASSUME NEW t \in Tasks,
               status[t] = Absent, status' = [status EXCEPT ![t] = "QUEUED"]
        PROVE  Actual!Create(t)
    BY <2>1, <2>2, PromiseWords
  <2>3. ASSUME NEW t \in Tasks, Edge(t, "RUNNING"),
               NEW p \in Coordinators, InClaim(p), job[p] = t
        PROVE  Actual!Begin(t)
    <3>1. run[p] \in Holder[Checkout[t]]
      BY <2>3, HolderOf, CheckoutAssumption
    <3>2. status[t] \in {s \in Statuses : Legal(s, "RUNNING")}
      BY <2>3 DEF Edge, Legal, LegalTransitions, Typed, TypeOK, StoreOK
    <3> QED
      BY <2>1, <2>3, <3>1, <3>2, PromiseWords DEF Edge
  <2>4. ASSUME NEW t \in Tasks,
               NEW to \in {"READY", "CANCELLED"} \cup Deliverable, Edge(t, to)
        PROVE  Actual!Move(t)
    BY <2>1, <2>4, PromiseWords DEF Edge
  <2> QED
    BY <1>1, <2>1, <2>2, <2>3, <2>4 DEF StatusMoves
<1>2. ASSUME NEW p \in Coordinators, AcquireLock(p)
      PROVE  Actual!Next
  <2> DEFINE c == Checkout[job[p]]
  <2>1. /\ lock[c] = NoLock
        /\ run' = [run EXCEPT ![p] = nextRun]
        /\ pc' = [pc EXCEPT ![p] = "start"]
        /\ pc[p] = "acquire"
        /\ nextRun' = nextRun + 1
        /\ nextRun \in Runs
        /\ UNCHANGED <<job, status>>
    BY <1>2 DEF AcquireLock, store
  <2>2. c \in Checkouts
    BY <2>1, CheckoutAssumption DEF Typed, Working, Resting, Procs, Coordinators
  <2>3. ASSUME NEW q \in Coordinators, InClaim(q) PROVE Checkout[job[q]] # c
    <3>1. job[q] \in Tasks
      BY <2>3 DEF Typed, Working, Resting, InClaim, ClaimSteps, Procs,
         Coordinators
    <3>2. lock[Checkout[job[q]]] # NoLock
      BY <2>3, <3>1, PayloadTaken DEF Claimed, OwnsLock
    <3> QED
      BY <2>1, <3>2
  <2>4. \A q \in Coordinators :
            /\ InClaim(q)' <=> InClaim(q) \/ q = p
            /\ q # p => run'[q] = run[q]
            /\ q = p => run'[q] = nextRun
    BY <2>1 DEF InClaim, ClaimSteps, Typed, TypeOK, LocalsOK, Procs, Coordinators
  <2>5. Holder[c] = {} /\ Holder'[c] = {nextRun}
    BY <2>1, <2>2, <2>3, <2>4, HolderOf DEF Holder
  <2>6. ASSUME NEW d \in Checkouts, d # c PROVE Holder'[d] = Holder[d]
    BY <2>1, <2>4, <2>6 DEF Holder
  <2>7. Holder' = [Holder EXCEPT ![c] = {nextRun}]
    BY <2>2, <2>5, <2>6 DEF Holder
  <2>8. nextRun \notin 1 .. nextRun - 1
        /\ (1 .. nextRun - 1)' = (1 .. nextRun - 1) \cup {nextRun}
    BY <2>1, BoundsAssumption DEF Runs
  <2>9. Actual!Claim(c, nextRun)
    BY <2>1, <2>5, <2>7, <2>8
  <2> QED
    BY <2>1, <2>2, <2>9
<1>3. ASSUME NEW p \in Coordinators, Exits(p)
      PROVE  Actual!Next
  <2> DEFINE c == Checkout[job[p]]
  <2>1. InClaim(p) /\ c \in Checkouts
    BY <1>3, CheckoutAssumption
    DEF Exits, Typed, Working, Resting, InClaim, ClaimSteps, Procs, Coordinators
  <2>2. \A q \in Coordinators :
            InClaim(q) /\ Checkout[job[q]] = c => q = p
    BY <2>1, PayloadRun DEF Claimed, OwnsLock, DistinctRuns
  <2>3. \A q \in Coordinators :
            /\ InClaim(q)' <=> InClaim(q) /\ q # p
            /\ q # p => job'[q] = job[q] /\ run'[q] = run[q]
    BY <1>3 DEF Exits, InClaim
  <2>4. Holder'[c] = {}
    BY <2>1, <2>2, <2>3 DEF Holder
  <2>5. ASSUME NEW d \in Checkouts, d # c PROVE Holder'[d] = Holder[d]
    BY <2>3, <2>5 DEF Holder
  <2>6. Holder' = [Holder EXCEPT ![c] = {}]
    BY <2>1, <2>4, <2>5 DEF Holder
  <2>7. Actual!Drop(c)
    BY <1>3, <2>6 DEF Exits
  <2> QED
    BY <2>1, <2>7
<1> QED
  BY <1>1, <1>2, <1>3, StepPromise

\* The bridge implements the promise: whatever its processes do, tasks follow
\* the legal edges, a checkout has at most one claim, no claim is handed out
\* twice, and a task starts to run only while its checkout is claimed by the
\* coordinator that starts it.
THEOREM KeepsClaims == Spec => ClaimsKept
<1>1. Init => Actual!Init
  <2>1. ASSUME Init, NEW c \in Checkouts PROVE Holder[c] = {}
    BY <2>1, HolderOf DEF Init, InClaim, ClaimSteps, Procs, Coordinators
  <2>2. Init => Holder = [c \in Checkouts |-> {}]
    BY <2>1 DEF Holder
  <2>3. Init => 1 .. nextRun - 1 = {}
    BY DEF Init
  <2> QED
    BY <2>2, <2>3, PromiseWords DEF Init, Actual!Init
<1>2. Typed /\ Claimed /\ Evident /\ [Next]_vars => [Actual!Next]_(Actual!vars)
  BY PromiseStep
<1> QED
  BY <1>1, <1>2, TypeCorrect, LocksOwned, EvidenceKept, PTL
  DEF Spec, ClaimsKept, Actual!Spec

----------------------------------------------------------------------------
(* Recovery in a home that one durable worker serves alone: what it calls   *)
(* stale is stale, and is settled.                                          *)
(*                                                                          *)
(* A task runs once there, since a task that is picked READY has no run yet *)
(* and none returns to READY; and nothing the worker has read about a run   *)
(* changes before it acts on it, but for a child that ends.                 *)

\* One durable worker and no submit.  (Cancels and the mailbox are not limited.)
SoleWorker == Submitters = {} /\ \A p, q \in Workers : p = q

Early(t) == status[t] \in {Absent, "QUEUED", "READY"}

\* Recovery has marked t stale.
Marked(t) == Event(<<"stale", t>>, t, "INTERRUPTED") \in events

Untouched(t) == ~ Marked(t) /\ \A r \in Runs : runTask[r] # t

\* Steps between the pick of a task and its transition to RUNNING.
PickedSteps == {"check", "acquire", "start"}

StartedEvents == \A e \in events : e.to = "RUNNING" => ~ Early(e.task)

OneRunPerTask ==
    \A q, r \in Runs : runTask[q] = runTask[r] /\ runTask[q] # NoTask => q = r

MarkedAreSettled ==
    \A t \in Tasks :
        /\ Early(t) => Untouched(t)
        /\ Marked(t) => status[t] # "RUNNING"

PickedAreNew ==
    \A p \in Workers :
        /\ pc[p] \in PickedSteps \cup {"record"} => Untouched(job[p])
        /\ pc[p] = "record" => ~ Early(job[p])

Solo ==
    /\ StartedEvents /\ OneRunPerTask /\ MarkedAreSettled /\ PickedAreNew

\* A step that takes no task back before its start, marks none stale and starts
\* none.
Gentle ==
    /\ \A t \in Tasks :
          /\ Early(t)' => Early(t)
          /\ Marked(t)' => Marked(t)
          /\ status'[t] = "RUNNING" => status[t] = "RUNNING"
    /\ StartedEvents'

LEMMA UnchangedGentle ==
    ASSUME StartedEvents, UNCHANGED <<status, events>>
    PROVE  Gentle
BY DEF Gentle, StartedEvents, Early, Marked

LEMMA TransitionGentle ==
    ASSUME StoreOK, StartedEvents, NEW id, NEW t \in Tasks, NEW to,
           Transition(id, t, to),
           \/ to \in Statuses \ {"QUEUED", "READY", "RUNNING"}
           \/ to = "READY" /\ Early(t),
           \A u \in Tasks : id # <<"stale", u>>
    PROVE  Gentle
<1>1. CASE Replayed(id, t, to) /\ UNCHANGED store
  BY <1>1, UnchangedGentle DEF store
<1>2. CASE Commit(id, t, to)
  <2>1. /\ status' = [status EXCEPT ![t] = to]
        /\ events' = events \cup {Event(id, t, to)}
    BY <1>2 DEF Commit
  <2>2. /\ Event(id, t, to).id = id /\ Event(id, t, to).to = to
        /\ Event(id, t, to).task = t
    BY DEF Event
  <2>3. ASSUME NEW u \in Tasks
        PROVE  /\ Early(u)' => Early(u)
               /\ Marked(u)' => Marked(u)
               /\ status'[u] = "RUNNING" => status[u] = "RUNNING"
    <3>1. Event(<<"stale", u>>, u, "INTERRUPTED").id = <<"stale", u>>
      BY DEF Event
    <3>2. Marked(u)' => Marked(u)
      BY <2>1, <2>2, <3>1 DEF Marked
    <3>3. /\ Early(u)' => Early(u)
          /\ status'[u] = "RUNNING" => status[u] = "RUNNING"
      BY <2>1 DEF Early, StoreOK, Statuses, Absent
    <3> QED
      BY <3>2, <3>3
  <2>4. StartedEvents'
    <3>1. to # "RUNNING"
      OBVIOUS
    <3> QED
      BY <2>1, <2>2, <2>3, <3>1 DEF StartedEvents, StoreOK
  <2> QED
    BY <2>3, <2>4 DEF Gentle
<1> QED
  BY <1>1, <1>2 DEF Transition

LEMMA CreateGentle ==
    ASSUME StoreOK, StartedEvents, NEW t \in Tasks, CreateTask(t)
    PROVE  Gentle
BY DEF CreateTask, StoreOK, Gentle, StartedEvents, Early, Marked, Absent

\* The event ids of state.transition tell its callers apart.
LEMMA EventIds ==
    /\ \A t, u : <<"stale", t>> # <<"terminal", u>> /\ <<"stale", t>> # <<"finish", u>>
    /\ \A t, u : <<"stale", t>> # <<"direct-cancel", u>> /\ <<"stale", t>> # <<"cancel", u>>
    /\ \A t, u : <<"stale", t>> # <<"ingest-ready", u>> /\ <<"stale", t>> # <<"start", u>>
OBVIOUS

LEMMA CoordinatorGentle ==
    ASSUME Typed, Evident, StartedEvents, NEW p \in Coordinators,
           CoordinatorStep(p), ~ StartTransition(p)
    PROVE  Gentle
<1>1. CASE Finish(p)
  <2>1. /\ StoreOK /\ job[p] \in Tasks
        /\ verdict[run[p]] \in ExecutorVerdicts
    BY <1>1 DEF Finish, Typed, TypeOK, Working, Resting, ClaimSteps, Evident,
       KnownVerdicts, JudgedSteps, ExecutorOK, Procs, Coordinators
  <2>2. FinalStatus[verdict[run[p]]] \in Statuses \ {"QUEUED", "READY", "RUNNING"}
    BY <2>1, FinalStatusDeliverable DEF Deliverable, Statuses
  <2>3. \/ Transition(<<"finish", run[p]>>, job[p], FinalStatus[verdict[run[p]]])
        \/ UNCHANGED store
    BY <1>1 DEF Finish
  <2> QED
    BY <2>1, <2>2, <2>3, EventIds, TransitionGentle, UnchangedGentle DEF store
<1>2. CASE SetRefs(p)
  BY <1>2, UnchangedGentle DEF SetRefs, UpdateTaskRefs
<1>3. CASE ~ (Finish(p) \/ SetRefs(p))
  <2>1. UNCHANGED store
    BY <1>3 DEF CoordinatorStep, ExecuteCheck, ValidationFails, AcquireLock,
       LockBusy, StartRun, Spawn, SpawnFails, RecordSpawn, ObserverFails,
       ExecutorReturns, GuardFires, CheckCancelled, WriteResult,
       WriteCheckpoint, WriteFails, Rejected, Recheck, Undo, CloseCancelled,
       Close, Release, Crash, TreeKill, Interrupt, Restart
  <2> QED
    BY <2>1, UnchangedGentle DEF store
<1> QED
  BY <1>1, <1>2, <1>3

LEMMA RecoveryGentle ==
    ASSUME Typed, Evident, StartedEvents, NEW p \in Workers, RecoveryStep(p),
           ~ StaleMark(p)
    PROVE  Gentle
<1>1. CASE Adopt(p)
  <2>1. /\ StoreOK /\ job[p] \in Tasks
        /\ seen[p].verdict \in ExecutorVerdicts
    BY <1>1 DEF Adopt, Typed, TypeOK, Working, Resting, Evident,
       KnownVerdicts, LocalsOK, Procs
  <2>2. FinalStatus[seen[p].verdict] \in Statuses \ {"QUEUED", "READY", "RUNNING"}
    BY <2>1, FinalStatusDeliverable DEF Deliverable, Statuses
  <2>3. \/ Transition(<<"terminal", job[p]>>, job[p], FinalStatus[seen[p].verdict])
        \/ UNCHANGED store
    BY <1>1 DEF Adopt
  <2> QED
    BY <2>1, <2>2, <2>3, EventIds, TransitionGentle, UnchangedGentle DEF store
<1>2. CASE ~ Adopt(p)
  BY <1>2, UnchangedGentle
  DEF RecoveryStep, ReconcileScan, ReconcileRead, JudgeTerminal, JudgeAlive,
      JudgeStale, AdoptClose, StaleClose, WorkerPick, NothingReady, store
<1> QED
  BY <1>1, <1>2

LEMMA CancellerGentle ==
    ASSUME Typed, StartedEvents, NEW p \in Cancellers, CancellerStep(p)
    PROVE  Gentle
<1>0. StoreOK /\ (pc[p] \notin Resting => job[p] \in Tasks)
  BY DEF Typed, TypeOK, Working, Procs
<1>1. CASE CancelDirect(p)
  <2>1. job[p] \in Tasks
    BY <1>0, <1>1 DEF CancelDirect, Resting
  <2>2. \/ Transition(<<"direct-cancel", job[p]>>, job[p], "CANCELLED")
        \/ UNCHANGED store
    BY <1>1 DEF CancelDirect
  <2> QED
    BY <1>0, <2>1, <2>2, EventIds, TransitionGentle, UnchangedGentle
    DEF store, Statuses
<1>2. CASE CancelMark(p)
  <2>1. job[p] \in Tasks
    BY <1>0, <1>2 DEF CancelMark, Resting
  <2>2. \/ Transition(<<"cancel", run[p]>>, job[p], "CANCELLED")
        \/ UNCHANGED store
    BY <1>2 DEF CancelMark
  <2> QED
    BY <1>0, <2>1, <2>2, EventIds, TransitionGentle, UnchangedGentle
    DEF store, Statuses
<1>3. CASE CancelRefs(p)
  BY <1>3, UnchangedGentle DEF CancelRefs, UpdateTaskRefs
<1>4. CASE ~ (CancelDirect(p) \/ CancelMark(p) \/ CancelRefs(p))
  BY <1>4, UnchangedGentle
  DEF CancellerStep, CancelRead, CancelActive, CancelRun, CancelKill,
      CancelKillFails, CancelClose, CancelUnlink, CancelLock, store
<1> QED
  BY <1>1, <1>2, <1>3, <1>4

LEMMA OthersGentle ==
    ASSUME Typed, StartedEvents,
           \/ \E t \in Tasks : IngestCreate(t) \/ IngestReady(t)
           \/ \E r \in Runs : ChildExits(r)
           \/ UNCHANGED vars
    PROVE  Gentle
<1>0. StoreOK
  BY DEF Typed, TypeOK
<1>1. ASSUME NEW t \in Tasks, IngestCreate(t) PROVE Gentle
  BY <1>0, <1>1, CreateGentle DEF IngestCreate
<1>2. ASSUME NEW t \in Tasks, IngestReady(t) PROVE Gentle
  <2>1. Transition(<<"ingest-ready", t>>, t, "READY") /\ Early(t)
    BY <1>2 DEF IngestReady, Transition, Early
  <2> QED
    BY <1>0, <2>1, EventIds, TransitionGentle
<1>3. CASE \/ \E r \in Runs : ChildExits(r)
           \/ UNCHANGED vars
  BY <1>3, UnchangedGentle DEF ChildExits, vars, store
<1> QED
  BY <1>1, <1>2, <1>3

LEMMA StepGentle ==
    ASSUME SoleWorker, Typed, Evident, StartedEvents, [Next]_vars
    PROVE  Gentle \/ \E p \in Workers : StartTransition(p) \/ StaleMark(p)
<1>1. Coordinators = Workers
  BY DEF SoleWorker, Coordinators
<1>2. ASSUME NEW p \in Workers, CoordinatorStep(p), ~ StartTransition(p)
      PROVE  Gentle
  BY <1>1, <1>2, CoordinatorGentle
<1> QED
  BY <1>1, <1>2, RecoveryGentle, CancellerGentle, OthersGentle
  DEF Next, SoleWorker

----------------------------------------------------------------------------
(* The locals of the worker.                                                *)

\* What a step does to a worker between the pick of a task and its run.
KeepsPicked(p) ==
    /\ UNCHANGED runTask
    /\ pc'[p] \in PickedSteps =>
          \/ pc[p] \in PickedSteps /\ job'[p] = job[p]
          \/ job'[p] \in Tasks /\ status[job'[p]] = "READY"
    /\ pc'[p] = "record" => pc[p] = "record" /\ job'[p] = job[p]

LEMMA CoordinatorMoves ==
    ASSUME Typed, NEW p \in Workers, CoordinatorStep(p)
    PROVE  ~ StartTransition(p) /\ ~ StartRun(p) => KeepsPicked(p)
<1> USE DEF KeepsPicked, PickedSteps, Goto, Leave, Typed,
        TypeOK, LocalsOK, Procs
<1>1. CASE \/ ExecuteCheck(p) \/ ValidationFails(p) \/ AcquireLock(p)
           \/ LockBusy(p) \/ StartTransition(p) \/ StartRun(p) \/ Spawn(p)
           \/ SpawnFails(p) \/ RecordSpawn(p) \/ ObserverFails(p)
  BY <1>1 DEF ExecuteCheck, ValidationFails, AcquireLock, LockBusy,
     StartTransition, StartRun, Spawn, SpawnFails, RecordSpawn, ObserverFails,
     registry
<1>2. CASE \/ ExecutorReturns(p) \/ GuardFires(p) \/ CheckCancelled(p)
           \/ WriteResult(p) \/ WriteCheckpoint(p) \/ WriteFails(p) \/ Finish(p)
           \/ Rejected(p) \/ Recheck(p) \/ Undo(p)
  BY <1>2 DEF ExecutorReturns, GuardFires, CheckCancelled, WriteResult,
     WriteCheckpoint, WriteFails, Finish, Rejected, Recheck, Undo, registry
<1>3. CASE \/ CloseCancelled(p) \/ SetRefs(p) \/ Close(p) \/ Release(p)
           \/ Crash(p) \/ TreeKill(p) \/ Interrupt(p) \/ Restart(p)
  BY <1>3 DEF CloseCancelled, SetRefs, Close, Release, Crash, TreeKill,
     Interrupt, Restart, FinishRun, registry
<1> QED
  BY <1>1, <1>2, <1>3 DEF CoordinatorStep

LEMMA RecoveryMoves ==
    ASSUME Typed, NEW p \in Workers, RecoveryStep(p)
    PROVE  KeepsPicked(p)
<1> USE DEF KeepsPicked, PickedSteps, Goto, Leave, NextRow,
        Typed, TypeOK, LocalsOK, Procs
<1>1. CASE WorkerPick(p) \/ NothingReady(p) \/ ReconcileScan(p) \/ ReconcileRead(p)
  BY <1>1 DEF WorkerPick, NothingReady, ReconcileScan, ReconcileRead, registry
<1>2. CASE JudgeTerminal(p) \/ JudgeAlive(p) \/ JudgeStale(p)
  BY <1>2 DEF JudgeTerminal, JudgeAlive, JudgeStale, registry
<1>3. CASE Adopt(p) \/ AdoptClose(p) \/ StaleClose(p) \/ StaleMark(p)
  BY <1>3 DEF Adopt, AdoptClose, StaleClose, StaleMark, FinishRun, registry
<1> QED
  BY <1>1, <1>2, <1>3 DEF RecoveryStep

LEMMA OthersMove ==
    ASSUME Typed, NEW p \in Workers,
           \/ \E q \in Cancellers : CancellerStep(q)
           \/ \E t \in Tasks : IngestCreate(t) \/ IngestReady(t)
           \/ \E r \in Runs : ChildExits(r)
           \/ UNCHANGED vars
    PROVE  KeepsPicked(p)
<1> DEFINE Aside ==
        UNCHANGED runTask /\ pc'[p] = pc[p] /\ job'[p] = job[p]
<1>1. ASSUME NEW q \in Cancellers, CancellerStep(q)
      PROVE  Aside
  <2>1. p # q /\ p \in Procs /\ q \in Procs
    BY ProcsAssumption DEF Procs, Coordinators
  <2> QED
    BY <1>1, <2>1
    DEF CancellerStep, CancelRead, CancelDirect, CancelActive, CancelRun,
        CancelKill, CancelKillFails, CancelMark, CancelClose, CancelUnlink,
        CancelRefs, CancelLock, FinishRun, Goto, Leave, registry, Typed, TypeOK,
        LocalsOK
<1>2. ASSUME NEW t \in Tasks, IngestCreate(t) \/ IngestReady(t)
      PROVE  Aside
  BY <1>2 DEF IngestCreate, IngestReady, registry, locals
<1>3. ASSUME NEW r \in Runs, ChildExits(r)
      PROVE  Aside
  BY <1>3 DEF ChildExits, registry, locals
<1>4. ASSUME UNCHANGED vars
      PROVE  Aside
  BY <1>4 DEF vars, registry, locals
<1>5. Aside
  BY <1>1, <1>2, <1>3, <1>4
<1> QED
  BY <1>5 DEF KeepsPicked

LEMMA WorkerMoves ==
    ASSUME SoleWorker, Typed, NEW p \in Workers, [Next]_vars
    PROVE  ~ StartTransition(p) /\ ~ StartRun(p) => KeepsPicked(p)
<1>1. Coordinators = {p} /\ Workers = {p} /\ Submitters = {}
  BY DEF SoleWorker, Coordinators
<1>2. CASE CoordinatorStep(p)
  BY <1>2, CoordinatorMoves
<1>3. CASE RecoveryStep(p)
  BY <1>3, RecoveryMoves
<1>4. CASE ~ CoordinatorStep(p) /\ ~ RecoveryStep(p)
  <2>1. \/ \E q \in Cancellers : CancellerStep(q)
        \/ \E t \in Tasks : IngestCreate(t) \/ IngestReady(t)
        \/ \E r \in Runs : ChildExits(r)
        \/ UNCHANGED vars
    BY <1>1, <1>4 DEF Next
  <2> QED
    BY <2>1, OthersMove
<1> QED
  BY <1>2, <1>3, <1>4

LEMMA RunsStay ==
    ASSUME SoleWorker, Typed, CancelEvents, [Next]_vars
    PROVE  UNCHANGED runTask \/ \E p \in Workers : StartRun(p)
<1>1. Coordinators = Workers
  BY DEF SoleWorker, Coordinators
<1> QED
  BY <1>1, StepOwners DEF KeepsOwners, AcquireLock, registry

----------------------------------------------------------------------------
LEMMA SoloInit == Init => Solo
BY TasksAssumption DEF Init, Solo, StartedEvents, OneRunPerTask, MarkedAreSettled,
   PickedAreNew, PickedSteps, Untouched, Marked, Early, Procs

LEMMA SoloStarts ==
    ASSUME SoleWorker, Typed, Solo, NEW p \in Workers, StartTransition(p)
    PROVE  Solo'
<1>1. /\ pc[p] = "start" /\ job[p] \in Tasks /\ Untouched(job[p])
      /\ status \in [Tasks -> Statuses \cup {Absent}]
      /\ \A e \in events : e.task \in Tasks
      /\ UNCHANGED <<runTask, job>>
      /\ Workers = {p} /\ p \in Procs
  BY DEF StartTransition, Typed, TypeOK, StoreOK, Working, Resting, Solo,
     PickedAreNew, PickedSteps, SoleWorker, Procs, registry, Goto
<1>2. pc \in [Procs -> PcValues]
  BY DEF Typed, TypeOK, LocalsOK
<1>3. CASE Refused(<<"start", run[p]>>, job[p], "RUNNING") /\ Goto(p, "release")
           /\ UNCHANGED store
  <2>1. pc'[p] = "release" /\ UNCHANGED <<status, events>>
    BY <1>1, <1>2, <1>3 DEF Goto, store
  <2> QED
    BY <1>1, <2>1 DEF Solo, StartedEvents, OneRunPerTask, MarkedAreSettled,
       PickedAreNew, PickedSteps, Early, Marked, Untouched
<1>4. CASE Transition(<<"start", run[p]>>, job[p], "RUNNING") /\ Goto(p, "record")
  <2> DEFINE new == Event(<<"start", run[p]>>, job[p], "RUNNING")
  <2>0. new.task = job[p] /\ new.to = "RUNNING"
    BY DEF Event
  <2>1. /\ ~ Early(job[p])'
        /\ \A t \in Tasks \ {job[p]} : status'[t] = status[t]
        /\ \A e \in events' : e \in events \/ e = new
        /\ events \subseteq events'
    <3>1. CASE Commit(<<"start", run[p]>>, job[p], "RUNNING")
      BY <1>1, <3>1 DEF Commit, Early, Absent
    <3>2. CASE /\ Replayed(<<"start", run[p]>>, job[p], "RUNNING")
               /\ UNCHANGED store
      BY <1>1, <2>0, <3>2 DEF Replayed, Solo, StartedEvents, Early, store
    <3> QED
      BY <1>4, <3>1, <3>2 DEF Transition
  <2>2. \A t : Marked(t)' <=> Marked(t)
    <3>1. \A t : Event(<<"stale", t>>, t, "INTERRUPTED").to = "INTERRUPTED"
      BY DEF Event
    <3> QED
      BY <2>0, <2>1, <3>1 DEF Marked
  <2>3. pc'[p] = "record"
    BY <1>1, <1>2, <1>4 DEF Goto
  <2>4. StartedEvents'
    BY <1>1, <2>0, <2>1 DEF Solo, StartedEvents, Early
  <2>5. \A t : Untouched(t)' <=> Untouched(t)
    BY <1>1, <2>2 DEF Untouched
  <2>6. MarkedAreSettled'
    BY <1>1, <2>1, <2>2, <2>5 DEF Solo, MarkedAreSettled, Untouched, Early
  <2>7. PickedAreNew'
    BY <1>1, <2>1, <2>3, <2>5 DEF PickedAreNew
  <2> QED
    BY <1>1, <2>4, <2>6, <2>7 DEF Solo, OneRunPerTask
<1> QED
  BY <1>3, <1>4 DEF StartTransition

LEMMA SoloRuns ==
    ASSUME SoleWorker, Typed, UnstartedRuns, Solo, NEW p \in Workers, StartRun(p)
    PROVE  Solo'
<1>1. /\ pc[p] = "record" /\ job[p] \in Tasks /\ run[p] \in Runs
      /\ Untouched(job[p]) /\ ~ Early(job[p]) /\ runTask[run[p]] = NoTask
      /\ runTask \in [Runs -> Tasks \cup {NoTask}]
      /\ runTask' = [runTask EXCEPT ![run[p]] = job[p]]
      /\ UNCHANGED <<status, events>>
      /\ Workers = {p} /\ p \in Procs
  BY DEF StartRun, Typed, TypeOK, RegistryOK, Working, Resting, Solo,
     PickedAreNew, SoleWorker, Procs, Coordinators, store, UnstartedRuns,
     StartSteps, ClaimSteps
<1>2. pc'[p] = "spawn"
  BY <1>1 DEF StartRun, Goto, Typed, TypeOK, LocalsOK
<1>3. \A t \in Tasks : /\ Early(t)' <=> Early(t)
                       /\ Marked(t)' <=> Marked(t)
  BY <1>1 DEF Early, Marked
<1>4. OneRunPerTask'
  BY <1>1, TasksAssumption DEF Solo, OneRunPerTask, Untouched
<1>5. MarkedAreSettled'
  BY <1>1, <1>3 DEF Solo, MarkedAreSettled, Untouched
<1>6. PickedAreNew'
  BY <1>1, <1>2 DEF PickedAreNew, PickedSteps
<1>7. StartedEvents'
  BY <1>1 DEF Solo, StartedEvents, Early
<1> QED
  BY <1>4, <1>5, <1>6, <1>7 DEF Solo

LEMMA SoloMarks ==
    ASSUME SoleWorker, Typed, Solo, NEW p \in Workers, StaleMark(p)
    PROVE  /\ Solo'
           /\ pc'[p] = "scan" => status'[job[p]] # "RUNNING"
<1>1. /\ pc[p] = "staleMark" /\ job[p] \in Tasks
      /\ status \in [Tasks -> Statuses \cup {Absent}]
      /\ UNCHANGED runTask
      /\ Workers = {p} /\ p \in Procs
  BY DEF StaleMark, Typed, TypeOK, StoreOK, Working, Resting, SoleWorker, Procs,
     registry
<1>2. pc \in [Procs -> PcValues]
  BY DEF Typed, TypeOK, LocalsOK
<1>3. CASE /\ Refused(<<"stale", job[p]>>, job[p], "INTERRUPTED")
           /\ Leave(p, "stopped") /\ UNCHANGED store
  <2>1. pc'[p] = "stopped" /\ UNCHANGED <<status, events>>
    BY <1>1, <1>2, <1>3 DEF Leave, store
  <2> QED
    BY <1>1, <2>1 DEF Solo, StartedEvents, OneRunPerTask, MarkedAreSettled,
       PickedAreNew, PickedSteps, Early, Marked, Untouched
<1>4. CASE Transition(<<"stale", job[p]>>, job[p], "INTERRUPTED") /\ NextRow(p)
  <2> DEFINE new == Event(<<"stale", job[p]>>, job[p], "INTERRUPTED")
  <2>0. /\ new.task = job[p] /\ new.to = "INTERRUPTED"
        /\ \A t : Event(<<"stale", t>>, t, "INTERRUPTED").task = t
    BY DEF Event
  <2>1. pc'[p] = "scan"
    BY <1>1, <1>2, <1>4 DEF NextRow
  <2>2. CASE Commit(<<"stale", job[p]>>, job[p], "INTERRUPTED")
    <3>1. /\ status' = [status EXCEPT ![job[p]] = "INTERRUPTED"]
          /\ events' = events \cup {new}
      BY <2>2 DEF Commit
    <3>2. /\ status'[job[p]] = "INTERRUPTED"
          /\ \A t \in Tasks : t = job[p] => ~ Early(t)'
      BY <1>1, <3>1 DEF Early, Absent
    <3>3. /\ \A t \in Tasks \ {job[p]} : status'[t] = status[t]
          /\ \A t \in Tasks \ {job[p]} : Marked(t)' <=> Marked(t)
      BY <1>1, <2>0, <3>1 DEF Marked
    <3>4. MarkedAreSettled'
      BY <1>1, <3>2, <3>3 DEF Solo, MarkedAreSettled, Untouched, Early
    <3>5. PickedAreNew'
      BY <1>1, <2>1 DEF PickedAreNew, PickedSteps
    <3>6. StartedEvents'
      <4> SUFFICES ASSUME NEW e \in events', e.to = "RUNNING"
                   PROVE  ~ (status'[e.task] \in {Absent, "QUEUED", "READY"})
        BY DEF StartedEvents, Early
      <4>1. e \in events
        BY <2>0, <3>1
      <4>2. e.task \in Tasks /\ ~ Early(e.task)
        BY <4>1 DEF Solo, StartedEvents, Typed, TypeOK, StoreOK
      <4> QED
        BY <3>2, <3>3, <4>2 DEF Early
    <3> QED
      BY <1>1, <3>2, <3>4, <3>5, <3>6 DEF Solo, OneRunPerTask
  <2>3. CASE /\ Replayed(<<"stale", job[p]>>, job[p], "INTERRUPTED")
             /\ UNCHANGED store
    <3>1. Marked(job[p]) /\ UNCHANGED <<status, events>>
      BY <2>3 DEF Replayed, Marked, store
    <3>2. status'[job[p]] # "RUNNING"
      BY <1>1, <3>1 DEF Solo, MarkedAreSettled
    <3> QED
      BY <1>1, <2>1, <3>1, <3>2
      DEF Solo, StartedEvents, OneRunPerTask, MarkedAreSettled,
          PickedAreNew, PickedSteps, Early, Marked, Untouched
  <2> QED
    BY <1>4, <2>2, <2>3 DEF Transition
<1> QED
  BY <1>3, <1>4 DEF StaleMark

LEMMA SoloStep ==
    ASSUME SoleWorker, Typed, Evident, Cancelled, Solo, [Next]_vars
    PROVE  Solo'
<1>1. CASE \E p \in Workers : StartTransition(p) \/ StartRun(p) \/ StaleMark(p)
  BY <1>1, SoloStarts, SoloRuns, SoloMarks DEF Cancelled
<1>2. CASE ~ \E p \in Workers : StartTransition(p) \/ StartRun(p) \/ StaleMark(p)
  <2>1. Gentle /\ UNCHANGED runTask
    BY <1>2, StepGentle, RunsStay DEF Solo, Cancelled
  <2>2. \A t \in Tasks : /\ Early(t)' => Early(t)
                         /\ Untouched(t) => Untouched(t)'
    BY <2>1 DEF Gentle, Untouched
  <2>3. MarkedAreSettled'
    BY <2>1, <2>2 DEF Solo, MarkedAreSettled, Gentle
  <2>4. ASSUME NEW p \in Workers
        PROVE  /\ pc'[p] \in PickedSteps \cup {"record"} => Untouched(job[p])'
               /\ pc'[p] = "record" => ~ Early(job[p])'
    <3>1. KeepsPicked(p)
      BY <1>2, WorkerMoves
    <3>2. pc[p] \in PickedSteps \cup {"record"} => job[p] \in Tasks
      BY DEF PickedSteps, Typed, Working, Resting, Procs
    <3>3. \A t \in Tasks : status[t] = "READY" => Untouched(t)
      BY DEF Solo, MarkedAreSettled, Early
    <3>4. pc'[p] \in PickedSteps \cup {"record"} =>
              job'[p] \in Tasks /\ Untouched(job'[p])
      BY <3>1, <3>2, <3>3 DEF KeepsPicked, Solo, PickedAreNew, PickedSteps
    <3>5. pc'[p] = "record" => job'[p] \in Tasks /\ ~ Early(job'[p])
      BY <3>1, <3>2 DEF KeepsPicked, Solo, PickedAreNew
    <3> QED
      BY <2>2, <3>4, <3>5 DEF Untouched, Early, Marked
  <2> QED
    BY <2>1, <2>3, <2>4 DEF Solo, Gentle, OneRunPerTask, PickedAreNew
<1> QED
  BY <1>1, <1>2

LEMMA MarksBySteps ==
    ASSUME SoleWorker, Typed, CancelEvents, [Next]_vars, NEW p \in Workers,
           pc[p] = "staleMark", pc'[p] = "scan"
    PROVE  StaleMark(p)
<1>1. Coordinators = {p} /\ Workers = {p} /\ Submitters = {} /\ p \in Procs
  BY DEF SoleWorker, Coordinators, Procs
<1>2. pc \in [Procs -> PcValues]
  BY DEF Typed, TypeOK, LocalsOK
<1>3. ~ CoordinatorStep(p)
  BY <1>1, <1>2
  DEF CoordinatorStep, ExecuteCheck, ValidationFails, AcquireLock, LockBusy,
      StartTransition, StartRun, Spawn, SpawnFails, RecordSpawn, ObserverFails,
      ExecutorReturns, GuardFires, CheckCancelled, WriteResult, WriteCheckpoint,
      WriteFails, Finish, Rejected, Recheck, Undo, CloseCancelled, SetRefs,
      Close, Release, Crash, TreeKill, Interrupt, Restart, Leave
<1>4. CASE RecoveryStep(p)
  BY <1>4
  DEF RecoveryStep, ReconcileScan, ReconcileRead, JudgeTerminal, JudgeAlive,
      JudgeStale, Adopt, AdoptClose, StaleClose, WorkerPick, NothingReady
<1>5. CASE ~ RecoveryStep(p)
  <2>1. CASE \E q \in Cancellers : CancellerStep(q)
    BY <1>1, <2>1, CancellerOwners, ProcsAssumption DEF KeepsOwners, Procs, Typed
  <2>2. CASE \/ \E t \in Tasks : IngestCreate(t) \/ IngestReady(t)
             \/ \E r \in Runs : ChildExits(r)
             \/ UNCHANGED vars
    BY <2>2 DEF IngestCreate, IngestReady, ChildExits, vars, locals
  <2> QED
    BY <1>1, <1>3, <1>5, <2>1, <2>2 DEF Next
<1> QED
  BY <1>4, <1>5

\* In a home that one durable worker serves, with any number of cancels and the
\* mailbox, a task that recovery has dealt with is no longer RUNNING
\* (runtime.reconcile_running): the event id of its transition was not spent on
\* an earlier start of the same task.
THEOREM StaleSettled ==
    ASSUME SoleWorker
    PROVE  Spec => StaleTaskSettled
<1>1. Init => Solo
  BY SoloInit
<1>2. Typed /\ Evident /\ Cancelled /\ Solo /\ [Next]_vars => Solo'
  BY SoloStep
<1>3. Spec => []Solo
  BY <1>1, <1>2, TypeCorrect, EvidenceKept, RunsKnown, PTL DEF Spec
<1>4. ASSUME Typed, Cancelled, Solo, [Next]_vars
      PROVE  [\A p \in Workers :
                  pc[p] = "staleMark" /\ pc'[p] = "scan"
                      => status'[job[p]] # "RUNNING"]_vars
  <2> SUFFICES ASSUME NEW p \in Workers, pc[p] = "staleMark", pc'[p] = "scan"
               PROVE  status'[job[p]] # "RUNNING"
    OBVIOUS
  <2>1. StaleMark(p)
    BY <1>4, MarksBySteps DEF Cancelled
  <2> QED
    BY <1>4, <2>1, SoloMarks
<1> QED
  BY <1>3, <1>4, TypeCorrect, RunsKnown, PTL DEF Spec, StaleTaskSettled

----------------------------------------------------------------------------
(* The documented promise in such a home: a task is started from READY.      *)

\* What the sole worker has picked can only be cancelled before it starts it.
PickedAreReady ==
    \A p \in Workers :
        pc[p] \in PickedSteps => status[job[p]] \in {"READY", "CANCELLED"}

\* A step that leaves a picked task where it is, or cancels it.
Calm ==
    \A t \in Tasks :
        status[t] \in {"READY", "CANCELLED"}
            => status'[t] \in {"READY", "CANCELLED"}

LEMMA OthersCalm ==
    ASSUME Typed,
           \/ \E q \in Cancellers : CancellerStep(q)
           \/ \E t \in Tasks : IngestCreate(t) \/ IngestReady(t)
           \/ \E r \in Runs : ChildExits(r)
           \/ UNCHANGED vars
    PROVE  Calm
<1>0. status \in [Tasks -> Statuses \cup {Absent}]
  BY DEF Typed, TypeOK, StoreOK
<1>1. ASSUME NEW q \in Cancellers, CancelDirect(q) \/ CancelMark(q)
      PROVE  Calm
  <2>1. ASSUME NEW id, NEW t \in Tasks, Transition(id, t, "CANCELLED")
        PROVE  Calm
    BY <1>0, <2>1 DEF Transition, Commit, Calm, store
  <2>2. job[q] \in Tasks
    BY <1>1 DEF CancelDirect, CancelMark, Typed, Working, Resting, Procs
  <2> QED
    BY <1>1, <2>1, <2>2 DEF CancelDirect, CancelMark, Calm, store
<1>2. ASSUME NEW q \in Cancellers, CancellerStep(q),
             ~ (CancelDirect(q) \/ CancelMark(q))
      PROVE  Calm
  BY <1>2 DEF CancellerStep, CancelRead, CancelActive, CancelRun, CancelKill,
     CancelKillFails, CancelClose, CancelUnlink, CancelRefs, UpdateTaskRefs,
     CancelLock, Calm, store
<1>3. ASSUME NEW t \in Tasks, IngestCreate(t) \/ IngestReady(t)
      PROVE  Calm
  BY <1>0, <1>3 DEF IngestCreate, IngestReady, CreateTask, Commit, Calm, Absent
<1>4. CASE (\E r \in Runs : ChildExits(r)) \/ UNCHANGED vars
  BY <1>4 DEF ChildExits, vars, store, Calm
<1> QED
  BY <1>1, <1>2, <1>3, <1>4

LEMMA PickedStep ==
    ASSUME SoleWorker, Typed, PickedAreReady, [Next]_vars
    PROVE  PickedAreReady'
<1> SUFFICES ASSUME NEW p \in Workers, pc'[p] \in PickedSteps
             PROVE  status'[job'[p]] \in {"READY", "CANCELLED"}
  BY DEF PickedAreReady
<1>0. /\ Coordinators = {p} /\ Workers = {p} /\ Submitters = {} /\ p \in Procs
      /\ pc \in [Procs -> PcValues]
      /\ pc[p] \in PickedSteps => job[p] \in Tasks
  BY DEF SoleWorker, Coordinators, Procs, Typed, TypeOK, LocalsOK, Working,
     Resting, PickedSteps
<1>1. ~ StartTransition(p) /\ ~ StartRun(p)
  BY <1>0 DEF StartTransition, StartRun, Goto, PickedSteps
<1>2. /\ job'[p] \in Tasks
      /\ status[job'[p]] \in {"READY", "CANCELLED"}
  BY <1>0, <1>1, WorkerMoves DEF KeepsPicked, PickedAreReady
<1>3. CASE CoordinatorStep(p)
  <2>1. UNCHANGED status
    BY <1>0, <1>1, <1>3
    DEF CoordinatorStep, ExecuteCheck, ValidationFails, AcquireLock, LockBusy,
        Spawn, SpawnFails, RecordSpawn, ObserverFails, ExecutorReturns,
        GuardFires, CheckCancelled, WriteResult, WriteCheckpoint, WriteFails,
        Finish, Rejected, Recheck, Undo, CloseCancelled, SetRefs,
        UpdateTaskRefs, Close, Release, Crash, TreeKill, Interrupt, Restart,
        Goto, PickedSteps, store
  <2> QED
    BY <1>2, <2>1
<1>4. CASE RecoveryStep(p)
  <2>1. UNCHANGED status
    BY <1>0, <1>4
    DEF RecoveryStep, ReconcileScan, ReconcileRead, JudgeTerminal, JudgeAlive,
        JudgeStale, Adopt, AdoptClose, StaleClose, StaleMark, WorkerPick,
        NothingReady, Goto, NextRow, Leave, PickedSteps, store
  <2> QED
    BY <1>2, <2>1
<1>5. CASE ~ CoordinatorStep(p) /\ ~ RecoveryStep(p)
  <2>1. Calm
    BY <1>0, <1>5, OthersCalm DEF Next
  <2> QED
    BY <1>2, <2>1 DEF Calm
<1> QED
  BY <1>3, <1>4, <1>5

\* A task that begins to run was READY.
LEMMA BeginsReady ==
    ASSUME SoleWorker, Typed, Evident, StartedEvents, PickedAreReady, [Next]_vars,
           NEW t \in Tasks, status[t] # "RUNNING", status'[t] = "RUNNING"
    PROVE  status[t] = "READY"
<1>0. status \in [Tasks -> Statuses \cup {Absent}]
  BY DEF Typed, TypeOK, StoreOK
<1>1. ASSUME NEW p \in Workers, StartTransition(p)
      PROVE  status[t] = "READY"
  <2>1. job[p] \in Tasks /\ status[job[p]] \in {"READY", "CANCELLED"}
    BY <1>1 DEF StartTransition, PickedAreReady, PickedSteps, Typed, Working,
       Resting, Procs
  <2>2. Commit(<<"start", run[p]>>, job[p], "RUNNING")
    BY <1>1 DEF StartTransition, Transition, store
  <2>3. Legal(status[job[p]], "RUNNING") /\ t = job[p]
    BY <1>0, <2>1, <2>2 DEF Commit, Accepted
  <2> QED
    BY <2>1, <2>3, LegalEdges DEF Legal, LegalTransitions
<1>2. ASSUME NEW p \in Workers, StaleMark(p)
      PROVE  FALSE
  <2>1. job[p] \in Tasks
    BY <1>2 DEF StaleMark, Typed, Working, Resting, Procs
  <2>2. \/ UNCHANGED status
        \/ status' = [status EXCEPT ![job[p]] = "INTERRUPTED"]
    BY <1>2 DEF StaleMark, Transition, Commit, store
  <2> QED
    BY <1>0, <2>1, <2>2
<1> QED
  BY <1>1, <1>2, StepGentle DEF Gentle

LEMMA DocumentedWords ==
    /\ Documented!Absent = Absent
    /\ Documented!Deliverable = Deliverable
    /\ \A from, to : Documented!Legal(from, to) <=> Legal(from, to)
<1>1. Documented!Statuses = Statuses
  BY DEF Documented!Statuses, Statuses
<1>2. Documented!LegalTransitions = LegalTransitions
  BY <1>1 DEF Documented!LegalTransitions, LegalTransitions
<1> QED
  BY <1>1, <1>2 DEF Documented!Absent, Absent, Documented!Deliverable,
     Deliverable, Documented!Legal, Legal

LEMMA DocumentedStep ==
    ASSUME SoleWorker, Typed, Claimed, Evident, StartedEvents, PickedAreReady,
           [Next]_vars
    PROVE  [Documented!Next]_(Documented!vars)
<1>1. [Actual!Next]_(Actual!vars)
  BY PromiseStep
<1>2. CASE UNCHANGED Actual!vars
  BY <1>2 DEF Actual!vars, Documented!vars
<1>3. ASSUME NEW t \in Tasks, Actual!Create(t) \/ Actual!Move(t)
      PROVE  Documented!Create(t) \/ Documented!Move(t)
  BY <1>3, PromiseWords, DocumentedWords
  DEF Actual!Create, Actual!Move, Documented!Create, Documented!Move
<1>4. ASSUME NEW t \in Tasks, Actual!Begin(t)
      PROVE  Documented!Begin(t)
  <2>1. status[t] # "RUNNING" /\ status'[t] = "RUNNING"
    BY <1>4, PromiseWords, LegalEdges
    DEF Actual!Begin, Typed, TypeOK, StoreOK, Legal, LegalTransitions
  <2>2. status[t] = "READY"
    BY <2>1, BeginsReady
  <2> QED
    BY <1>4, <2>2, PromiseWords, DocumentedWords
    DEF Actual!Begin, Documented!Begin
<1>5. ASSUME NEW c \in Checkouts, Actual!Drop(c)
      PROVE  Documented!Drop(c)
  BY <1>5 DEF Actual!Drop, Documented!Drop
<1>6. ASSUME NEW c \in Checkouts, NEW k \in Runs, Actual!Claim(c, k)
      PROVE  Documented!Claim(c, k)
  BY <1>6 DEF Actual!Claim, Documented!Claim
<1> QED
  BY <1>1, <1>2, <1>3, <1>4, <1>5, <1>6 DEF Actual!Next, Documented!Next

\* In a home that one durable worker serves, the promise of docs/executors.md
\* holds as it is written: a task starts to run from READY only, under the one
\* claim of its checkout.
THEOREM KeepsPromise ==
    ASSUME SoleWorker
    PROVE  Spec => PromiseKept
<1>1. Init => Documented!Init /\ Solo /\ PickedAreReady
  <2>1. ASSUME Init, NEW c \in Checkouts PROVE Holder[c] = {}
    BY <2>1, HolderOf DEF Init, InClaim, ClaimSteps, Procs, Coordinators
  <2>2. Init => Holder = [c \in Checkouts |-> {}]
    BY <2>1 DEF Holder
  <2>3. Init => 1 .. nextRun - 1 = {}
    BY DEF Init
  <2>4. Init => PickedAreReady
    BY DEF Init, PickedAreReady, PickedSteps, Procs
  <2> QED
    BY <2>2, <2>3, <2>4, DocumentedWords, SoloInit DEF Init, Documented!Init
<1>2. Typed /\ Evident /\ Cancelled /\ Solo /\ [Next]_vars => Solo'
  BY SoloStep
<1>3. Typed /\ PickedAreReady /\ [Next]_vars => PickedAreReady'
  BY PickedStep
<1>4. Typed /\ Claimed /\ Evident /\ Solo /\ PickedAreReady /\ [Next]_vars
          => [Documented!Next]_(Documented!vars)
  BY DocumentedStep DEF Solo
<1> QED
  BY <1>1, <1>2, <1>3, <1>4, TypeCorrect, LocksOwned, EvidenceKept, RunsKnown, PTL
  DEF Spec, PromiseKept, Documented!Spec

----------------------------------------------------------------------------
(* Recovery and a living child.  A coordinator spawns a child before it      *)
(* records an identity, and does both once for a run of its own; so what     *)
(* recovery read of a run with an identity stays so while it acts on it.     *)

StaleSteps == {"staleClose", "staleMark"}

IdentifiedRuns == \A r \in Runs : ident[r] => r < nextRun

NoneIdentified ==
    \A p \in Coordinators : pc[p] \in UnspawnedSteps => ~ ident[run[p]]

ReadRuns ==
    \A p \in Workers :
        pc[p] \in StaleSteps \cup {"judge"} /\ seen[p].ident
            => run[p] \in Runs /\ ident[run[p]]

FoundDead ==
    \A p \in Workers :
        pc[p] \in StaleSteps /\ seen[p].ident => ~ Alive(run[p])

Judged == IdentifiedRuns /\ NoneIdentified /\ ReadRuns /\ FoundDead

\* The identity of a run is recorded, and its child spawned, by the coordinator
\* that holds it; nobody else's locals change.
KeepsProbes(q) ==
    /\ ident' = ident \/ (q \in Coordinators /\ RecordSpawn(q))
    /\ \A r \in Runs :
          Alive(r)' => \/ Alive(r)
                       \/ q \in Coordinators /\ pc[q] = "spawn" /\ r = run[q]
    /\ \A p \in Procs \ {q} :
          pc'[p] = pc[p] /\ run'[p] = run[p] /\ seen'[p] = seen[p]
    /\ pc'[q] \in UnspawnedSteps =>
          pc[q] \in UnspawnedSteps /\ run'[q] = run[q]
    /\ pc'[q] = "judge" => ReconcileRead(q)
    /\ pc'[q] \in StaleSteps =>
          \/ JudgeStale(q)
          \/ pc[q] \in StaleSteps /\ run'[q] = run[q] /\ seen'[q] = seen[q]
    /\ UNCHANGED nextRun

LEMMA CoordinatorProbes ==
    ASSUME Typed, NEW p \in Coordinators, CoordinatorStep(p)
    PROVE  KeepsProbes(p) \/ AcquireLock(p)
<1> USE DEF KeepsProbes, Alive, UnspawnedSteps, StaleSteps, Goto, Leave, Typed,
        TypeOK, LocalsOK, ExecutorOK, registry, locals, Procs, Coordinators
<1>1. CASE \/ ExecuteCheck(p) \/ ValidationFails(p) \/ LockBusy(p)
           \/ StartTransition(p) \/ StartRun(p) \/ Spawn(p) \/ SpawnFails(p)
  BY <1>1 DEF ExecuteCheck, ValidationFails, LockBusy, StartTransition,
     StartRun, Spawn, SpawnFails
<1>2. CASE RecordSpawn(p)
  BY <1>2 DEF RecordSpawn
<1>3. CASE ObserverFails(p) \/ Interrupt(p)
  BY <1>3 DEF ObserverFails, Interrupt, StopsChildOrNot
<1>4. CASE ExecutorReturns(p) \/ GuardFires(p) \/ CheckCancelled(p)
  BY <1>4 DEF ExecutorReturns, GuardFires, CheckCancelled
<1>5. CASE \/ WriteResult(p) \/ WriteCheckpoint(p) \/ WriteFails(p)
           \/ Finish(p) \/ Rejected(p) \/ Recheck(p) \/ Undo(p)
  BY <1>5 DEF WriteResult, WriteCheckpoint, WriteFails, Finish, Rejected,
     Recheck, Undo
<1>6. CASE CloseCancelled(p) \/ SetRefs(p) \/ Close(p)
  BY <1>6 DEF CloseCancelled, SetRefs, Close, FinishRun
<1>7. CASE Release(p) \/ Crash(p) \/ TreeKill(p) \/ Restart(p)
  BY <1>7 DEF Release, Crash, TreeKill, Restart
<1> QED
  BY <1>1, <1>2, <1>3, <1>4, <1>5, <1>6, <1>7 DEF CoordinatorStep

LEMMA SubmitterProbes ==
    ASSUME Typed, NEW p \in Submitters, SubmitterStep(p)
    PROVE  KeepsProbes(p)
BY DEF KeepsProbes, Alive, UnspawnedSteps, StaleSteps, Goto, Leave, Typed,
   TypeOK, LocalsOK, registry, Procs, SubmitterStep, SubmitCheck, SubmitWrite,
   SubmitCreate, SubmitConflict, SubmitReady

LEMMA RecoveryProbes ==
    ASSUME Typed, NEW p \in Workers, RecoveryStep(p)
    PROVE  KeepsProbes(p)
<1> USE DEF KeepsProbes, Alive, UnspawnedSteps, StaleSteps, Goto, Leave, NextRow,
        Typed, TypeOK, LocalsOK, registry, Procs
<1>1. CASE WorkerPick(p) \/ NothingReady(p) \/ ReconcileScan(p) \/ ReconcileRead(p)
  BY <1>1 DEF WorkerPick, NothingReady, ReconcileScan, ReconcileRead
<1>2. CASE JudgeTerminal(p) \/ JudgeAlive(p) \/ JudgeStale(p)
  BY <1>2 DEF JudgeTerminal, JudgeAlive, JudgeStale
<1>3. CASE Adopt(p) \/ AdoptClose(p) \/ StaleClose(p) \/ StaleMark(p)
  BY <1>3 DEF Adopt, AdoptClose, StaleClose, StaleMark, FinishRun
<1> QED
  BY <1>1, <1>2, <1>3 DEF RecoveryStep

LEMMA CancellerProbes ==
    ASSUME Typed, NEW p \in Cancellers, CancellerStep(p)
    PROVE  KeepsProbes(p)
<1> USE DEF KeepsProbes, Alive, UnspawnedSteps, StaleSteps, Goto, Leave, Typed,
        TypeOK, LocalsOK, ExecutorOK, registry, Procs
<1>1. CASE \/ \E t \in Tasks : CancelRead(p, t)
           \/ CancelDirect(p) \/ CancelActive(p) \/ CancelRun(p)
  BY <1>1 DEF CancelRead, CancelDirect, CancelActive, CancelRun
<1>2. CASE CancelKill(p) \/ CancelKillFails(p)
  BY <1>2 DEF CancelKill, CancelKillFails
<1>3. CASE CancelMark(p) \/ CancelUnlink(p) \/ CancelRefs(p) \/ CancelLock(p)
  BY <1>3 DEF CancelMark, CancelUnlink, CancelRefs, CancelLock
<1>4. CASE CancelClose(p)
  BY <1>4 DEF CancelClose, FinishRun
<1> QED
  BY <1>1, <1>2, <1>3, <1>4 DEF CancellerStep

LEMMA StepProbes ==
    ASSUME Typed, [Next]_vars
    PROVE  \/ \E p \in Coordinators : AcquireLock(p)
           \/ \E q \in Procs : KeepsProbes(q)
           \/ /\ UNCHANGED <<ident, nextRun, pc, run, seen>>
              /\ \A r \in Runs : Alive(r)' => Alive(r)
<1>1. CASE \E p \in Coordinators : CoordinatorStep(p)
  BY <1>1, CoordinatorProbes DEF Procs, Coordinators
<1>2. CASE \/ \E p \in Submitters : SubmitterStep(p)
           \/ \E p \in Workers : RecoveryStep(p)
           \/ \E p \in Cancellers : CancellerStep(p)
  BY <1>2, SubmitterProbes, RecoveryProbes, CancellerProbes
  DEF Procs, Coordinators
<1>3. CASE \/ \E t \in Tasks : IngestCreate(t) \/ IngestReady(t)
           \/ UNCHANGED vars
  BY <1>3 DEF IngestCreate, IngestReady, vars, registry, locals, Alive
<1>4. CASE \E r \in Runs : ChildExits(r)
  BY <1>4 DEF ChildExits, registry, locals, Alive, Typed, TypeOK, ExecutorOK
<1> QED
  BY <1>1, <1>2, <1>3, <1>4 DEF Next

LEMMA JudgedStep ==
    ASSUME Typed, Claimed, Judged, [Next]_vars
    PROVE  Judged'
<1>0. /\ Coordinators \subseteq Procs /\ Workers \subseteq Coordinators
      /\ pc \in [Procs -> PcValues] /\ run \in [Procs -> Runs \cup {NoRun}]
      /\ ident \in [Runs -> BOOLEAN]
      /\ \A p \in Coordinators : InClaim(p) => run[p] \in Runs
      /\ UnspawnedSteps \subseteq ClaimSteps
  BY DEF Procs, Coordinators, Typed, TypeOK, LocalsOK, RegistryOK, Working,
     InClaim, ClaimSteps, UnspawnedSteps
<1>1. ASSUME NEW q \in Procs, KeepsProbes(q) PROVE Judged'
  <2>0. ASSUME NEW r \in Runs, ident'[r]
        PROVE  \/ ident[r]
               \/ q \in Coordinators /\ pc[q] = "observe" /\ r = run[q]
    <3>1. CASE ident' = ident
      BY <2>0, <3>1
    <3>2. CASE q \in Coordinators /\ RecordSpawn(q)
      <4>1. pc[q] = "observe" /\ (ident' = [ident EXCEPT ![run[q]] = TRUE]
                                   \/ ident' = ident)
        BY <3>2 DEF RecordSpawn
      <4> QED
        BY <1>0, <2>0, <3>2, <4>1
    <3> QED
      BY <1>1, <3>1, <3>2 DEF KeepsProbes
  <2>a. ASSUME NEW r \in Runs, ident[r]
        PROVE  ident'[r]
    <3>1. \/ ident' = ident
          \/ ident' = [ident EXCEPT ![run[q]] = TRUE]
      BY <1>1 DEF KeepsProbes, RecordSpawn
    <3> QED
      BY <1>0, <2>a, <3>1
  <2>1. ASSUME NEW r \in Runs, ident'[r]
        PROVE  ident[r] \/ (q \in Coordinators /\ InClaim(q) /\ r = run[q])
    BY <2>0, <2>1 DEF InClaim, ClaimSteps
  <2>2. IdentifiedRuns'
    BY <1>1, <2>1 DEF KeepsProbes, Judged, IdentifiedRuns, Claimed, OwnsLock
  <2>3. ASSUME NEW p \in Coordinators, pc'[p] \in UnspawnedSteps
        PROVE  ~ ident'[run'[p]]
    <3>1. pc[p] \in UnspawnedSteps /\ run'[p] = run[p]
      BY <1>0, <1>1, <2>3 DEF KeepsProbes
    <3>2. InClaim(p) /\ run[p] \in Runs /\ ~ ident[run[p]]
      BY <1>0, <3>1 DEF Judged, NoneIdentified, InClaim
    <3>3. ASSUME ident'[run[p]]
          PROVE  FALSE
      <4>1. q \in Coordinators /\ pc[q] = "observe" /\ run[q] = run[p]
        BY <2>0, <3>2, <3>3
      <4>2. InClaim(q) /\ q # p
        BY <3>1, <4>1 DEF InClaim, ClaimSteps, UnspawnedSteps
      <4> QED
        BY <3>2, <4>1, <4>2 DEF Claimed, DistinctRuns
    <3> QED
      BY <3>1, <3>3
  <2>4. ASSUME NEW p \in Workers, pc'[p] = "judge", ReconcileRead(p),
               seen'[p].ident
        PROVE  run'[p] \in Runs /\ ident'[run'[p]]
    <3>1. PICK t \in Tasks :
              /\ run' = [run EXCEPT ![p] = LatestRun(t)]
              /\ \E given : seen' = [seen EXCEPT ![p] =
                   [refs |-> given, verdict |-> "none",
                    open |-> LatestRun(t) # NoRun
                                 /\ runOutcome[LatestRun(t)] = "open",
                    ident |-> LatestRun(t) # NoRun /\ ident[LatestRun(t)]]]
      <4>1. \A row \in scan[p] : row[1] \in Tasks
        BY <1>0 DEF Typed, TypeOK, LocalsOK
      <4> QED
        BY <2>4, <4>1, Zenon DEF ReconcileRead
    <3>2. /\ run'[p] = LatestRun(t)
          /\ seen'[p].ident = (LatestRun(t) # NoRun /\ ident[LatestRun(t)])
          /\ ident' = ident
      BY <1>0, <2>4, <3>1 DEF ReconcileRead, registry, Typed, TypeOK, LocalsOK
    <3>3. LatestRun(t) \in Runs \cup {NoRun}
      BY LatestRunOfTask
    <3> QED
      BY <2>4, <3>2, <3>3
  <2>5. ASSUME NEW p \in Workers, JudgeStale(p), seen'[p].ident
        PROVE  /\ run'[p] \in Runs /\ ident'[run'[p]]
               /\ child'[run'[p]] \notin {"alive", "stray"}
    <3>1. /\ pc[p] = "judge" /\ run' = run
          /\ UNCHANGED <<ident, child>>
          /\ seen'[p].ident => seen[p].ident /\ ~ ProcessAlive(p)
      BY <1>0, <2>5 DEF JudgeStale, registry, Typed, TypeOK, LocalsOK
    <3>2. seen[p].ident /\ ~ Alive(run[p])
      BY <2>5, <3>1 DEF ProcessAlive
    <3>3. run[p] \in Runs /\ ident[run[p]]
      BY <3>1, <3>2 DEF Judged, ReadRuns
    <3> QED
      BY <3>1, <3>2, <3>3 DEF Alive
  <2>6. ASSUME NEW p \in Workers, pc[p] \in StaleSteps, seen[p].ident,
               run'[p] = run[p]
        PROVE  /\ run'[p] \in Runs /\ ident'[run'[p]]
               /\ child'[run'[p]] \notin {"alive", "stray"}
    <3>1. run[p] \in Runs /\ ident[run[p]] /\ ~ Alive(run[p])
      BY <2>6 DEF Judged, ReadRuns, FoundDead
    <3>2. ASSUME q \in Coordinators, pc[q] = "spawn", run[p] = run[q]
          PROVE  FALSE
      BY <3>1, <3>2 DEF Judged, NoneIdentified, UnspawnedSteps
    <3>3. child'[run[p]] \notin {"alive", "stray"}
      BY <1>1, <3>1, <3>2 DEF KeepsProbes, Alive
    <3> QED
      BY <2>6, <2>a, <3>1, <3>3
  <2>7. ASSUME NEW p \in Workers, pc'[p] \in StaleSteps \cup {"judge"},
               seen'[p].ident
        PROVE  /\ run'[p] \in Runs /\ ident'[run'[p]]
               /\ pc'[p] \in StaleSteps => child'[run'[p]] \notin {"alive", "stray"}
    <3>1. CASE p # q
      <4>1. pc[p] = pc'[p] /\ run'[p] = run[p] /\ seen'[p] = seen[p]
        BY <1>0, <1>1, <3>1 DEF KeepsProbes
      <4>2. CASE pc[p] = "judge"
        <5>1. run[p] \in Runs /\ ident[run[p]]
          BY <2>7, <4>1, <4>2 DEF Judged, ReadRuns
        <5> QED
          BY <2>a, <4>1, <4>2, <5>1 DEF StaleSteps
      <4> QED
        BY <2>6, <2>7, <4>1, <4>2
    <3>2. CASE p = q
      BY <1>1, <2>4, <2>5, <2>6, <2>7, <3>2 DEF KeepsProbes, StaleSteps
    <3> QED
      BY <3>1, <3>2
  <2> QED
    BY <2>2, <2>3, <2>7
    DEF Judged, NoneIdentified, ReadRuns, FoundDead, Alive, StaleSteps
<1>2. ASSUME NEW q \in Coordinators, AcquireLock(q) PROVE Judged'
  <2>1. /\ run' = [run EXCEPT ![q] = nextRun] /\ pc' = [pc EXCEPT ![q] = "start"]
        /\ nextRun' = nextRun + 1 /\ nextRun \in Runs
        /\ UNCHANGED <<ident, child, seen>>
    BY <1>2 DEF AcquireLock, registry
  <2>2. IdentifiedRuns'
    <3> SUFFICES ASSUME NEW r \in Runs, ident'[r]
                 PROVE  r < nextRun'
      BY DEF IdentifiedRuns
    <3>1. r < nextRun
      BY <2>1 DEF Judged, IdentifiedRuns
    <3> QED
      BY <2>1, <3>1 DEF Runs
  <2>3. ~ ident[nextRun]
    <3>1. ~ (nextRun < nextRun)
      BY <2>1 DEF Runs
    <3> QED
      BY <2>1, <3>1 DEF Judged, IdentifiedRuns
  <2>4. NoneIdentified'
    BY <1>0, <2>1, <2>3 DEF Judged, NoneIdentified
  <2>5. \A p \in Workers : pc'[p] \in StaleSteps \cup {"judge"} =>
            pc'[p] = pc[p] /\ run'[p] = run[p]
    BY <1>0, <2>1 DEF StaleSteps
  <2> QED
    BY <2>1, <2>2, <2>4, <2>5 DEF Judged, ReadRuns, FoundDead, Alive
<1>3. CASE /\ UNCHANGED <<ident, nextRun, pc, run, seen>>
           /\ \A r \in Runs : Alive(r)' => Alive(r)
  BY <1>3 DEF Judged, IdentifiedRuns, NoneIdentified, ReadRuns, FoundDead, Alive
<1> QED
  BY <1>1, <1>2, <1>3, StepProbes

\* Recovery marks no task INTERRUPTED while the child of the run lives, if it
\* read an identity for the run and could ask for the process
\* (runtime.reconcile_running, runtime.process_alive): for any number of
\* workers, submits and cancels, whatever crashes or fails.
THEOREM LiveChildSpared == Spec => RecoverySparesLiveChild
<1>1. Init => Judged
  BY DEF Init, Judged, IdentifiedRuns, NoneIdentified, ReadRuns, FoundDead,
     UnspawnedSteps, StaleSteps, Procs, Coordinators
<1>2. Typed /\ Claimed /\ Judged /\ [Next]_vars => Judged'
  BY JudgedStep
<1>3. Judged =>
          [\A p \in Workers :
               pc[p] = "staleMark" /\ pc'[p] = "scan" /\ seen[p].ident
                   => ~ Alive(run[p])]_vars
  BY DEF Judged, FoundDead, StaleSteps
<1> QED
  BY <1>1, <1>2, <1>3, TypeCorrect, LocksOwned, PTL
  DEF Spec, RecoverySparesLiveChild
=============================================================================
