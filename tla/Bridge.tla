------------------------------- MODULE Bridge -------------------------------
(***************************************************************************)
(* The processes of one bridge home composed: the execution coordinator     *)
(* (submit and the durable worker), recovery, and cancellation, over the     *)
(* shared store, files, locks and child processes.                          *)
(***************************************************************************)
EXTENDS Coordinator, Cancellation, Recovery

(* The mailbox, as far as this composition needs it: ingest_comments creates *)
(* the task and makes it READY, in two transactions.                        *)
IngestCreate(t) ==
    /\ t \in Mailbox
    /\ CreateTask(t)
    /\ UNCHANGED <<files, registry, verdict, child, lock, nextRun, locals,
                   faulted>>

IngestReady(t) ==
    /\ t \in Mailbox
    /\ status[t] = "QUEUED"
    /\ Commit(<<"ingest-ready", t>>, t, "READY")
    /\ UNCHANGED <<files, registry, verdict, child, lock, nextRun, locals,
                   faulted>>

Next ==
    \/ \E p \in Coordinators : CoordinatorStep(p)
    \/ \E p \in Submitters : SubmitterStep(p)
    \/ \E p \in Workers : RecoveryStep(p)
    \/ \E p \in Cancellers : CancellerStep(p)
    \/ \E t \in Tasks : IngestCreate(t) \/ IngestReady(t)
    \/ \E r \in Runs : ChildExits(r)

Spec == Init /\ [][Next]_vars

----------------------------------------------------------------------------
(* Type invariant.                                                          *)

RunOutcomes == {"none", "open", "CANCELLED"} \cup ExecutorVerdicts

PcValues ==
    {"idle", "stopped"} \cup SubmitSteps \cup ExecuteSteps \cup CancelSteps
        \cup RecoverySteps

StoreOK ==
    /\ status \in [Tasks -> Statuses \cup {Absent}]
    /\ \A e \in events : e.task \in Tasks /\ e.to \in Statuses
    /\ refs \in [Tasks -> BOOLEAN]

FilesOK ==
    /\ envelope \in [Tasks -> SUBSET Submitters]
    /\ result \in [Tasks -> Runs \cup {NoRun}]
    /\ checkpoint \in [Tasks -> Runs \cup {NoRun}]

RegistryOK ==
    /\ runTask \in [Runs -> Tasks \cup {NoTask}]
    /\ runOutcome \in [Runs -> RunOutcomes]
    /\ ident \in [Runs -> BOOLEAN]

ExecutorOK ==
    /\ verdict \in [Runs -> ExecutorVerdicts \cup {"none"}]
    /\ child \in [Runs -> {"none", "alive", "stray", "exited", "killed"}]

LocksOK ==
    /\ lock \in [Checkouts ->
                    [task : Tasks \cup {NoTask}, run : Runs \cup {NoRun}]]
    /\ nextRun \in 1 .. MaxRuns + 1

LocalsOK ==
    /\ pc \in [Procs -> PcValues]
    /\ job \in [Procs -> Tasks \cup {NoTask}]
    /\ run \in [Procs -> Runs \cup {NoRun}]
    /\ seen \in [Procs -> [refs : BOOLEAN, open : BOOLEAN, ident : BOOLEAN,
                           verdict : ExecutorVerdicts \cup {"none"}]]
    /\ scan \in [Procs -> SUBSET (Tasks \X BOOLEAN)]

\* Every variable holds a value of its column, file or local variable.
TypeOK ==
    /\ StoreOK
    /\ FilesOK
    /\ RegistryOK
    /\ ExecutorOK
    /\ LocksOK
    /\ LocalsOK
    /\ faulted \in 0 .. MaxFaults

----------------------------------------------------------------------------
(* Safety.                                                                  *)

InClaim(p) == pc[p] \in ClaimSteps

\* Two coordinators are never inside the claimed section of execute_task for
\* one checkout, whatever is cancelled, recovered or killed meanwhile.
CheckoutExclusive ==
    \A p, q \in Coordinators :
        InClaim(p) /\ InClaim(q) /\ Checkout[job[p]] = Checkout[job[q]]
            => p = q

\* At most one executor child works under the lock of a checkout, also after
\* its coordinator died: the lock file a dead coordinator leaves behind
\* protects the checkout from a second execution beside the orphan.
OneChildPerCheckout ==
    \A q, r \in Runs :
        /\ child[q] = "alive" /\ child[r] = "alive"
        /\ Checkout[runTask[q]] = Checkout[runTask[r]]
        => q = r

Strays == {r \in Runs : child[r] = "stray"}

\* Every checkout that was given up with its child alive had a fault of its
\* own: a stop that failed, an interrupt or a raising observer.  A crash, a
\* cancel, a recovery or a failed write never leads there.
StraysAreFaults == Cardinality(Strays) <= faulted

\* What docs/executors.md:49 says of the lock: two executions never write one
\* checkout at once, whatever the lock file says.
OneWriterPerCheckout ==
    \A q, r \in Runs :
        /\ Alive(q) /\ Alive(r)
        /\ Checkout[runTask[q]] = Checkout[runTask[r]]
        => q = r

\* A task the worker may deliver, with its refs set, has both envelopes on
\* disk: no writer, canceller or undo leaves the refs dangling.
EvidenceOnDisk ==
    \A t \in Tasks :
        refs[t] /\ status[t] \in Deliverable
            => result[t] # NoRun /\ checkpoint[t] # NoRun

\* A run closed as CANCELLED belongs to a task that is, and stays, CANCELLED.
CancelledRunCancelledTask ==
    \A r \in Runs : runOutcome[r] = "CANCELLED" => status[runTask[r]] = "CANCELLED"

\* A run recovery found with a process identity, and whose process it could
\* ask for, is not marked INTERRUPTED while its child lives, however long the
\* mark comes after the read and whatever coordinators, cancels and crashes do
\* in between.  An identity recorded after the read does not help: the live
\* run of a submit is marked then, against docs/direct-local-mode.md:46.
RecoverySparesLiveChild ==
    [][\A p \in Workers :
         pc[p] = "staleMark" /\ pc'[p] = "scan" /\ seen[p].ident
            => ~ Alive(run[p])]_vars

\* When recovery has dealt with a stale task, the task is no longer RUNNING.
StaleTaskSettled ==
    [][\A p \in Workers :
         pc[p] = "staleMark" /\ pc'[p] = "scan" => status'[job[p]] # "RUNNING"]_vars

----------------------------------------------------------------------------
(* Liveness.  A worker process keeps taking its steps (its loop has no exit *)
(* but the stop event) and a supervisor restarts a dead one.  Nothing is     *)
(* assumed of a child: the guard of an executor is not there yet while the   *)
(* Codex prompt is written, and is gone with its coordinator.                *)

WorkerProgress(p) ==
    \/ RecoveryStep(p)
    \/ ExecuteCheck(p) \/ AcquireLock(p) \/ LockBusy(p) \/ StartTransition(p)
    \/ StartRun(p) \/ Spawn(p) \/ RecordSpawn(p) \/ ExecutorReturns(p)
    \/ CheckCancelled(p) \/ WriteResult(p) \/ WriteCheckpoint(p) \/ Finish(p)
    \/ Rejected(p) \/ Recheck(p) \/ Undo(p) \/ CloseCancelled(p)
    \/ SetRefs(p) \/ Close(p) \/ Release(p) \/ Restart(p)

FairSpec == Spec /\ \A p \in Workers : WF_vars(WorkerProgress(p))

\* Worker p waits for its child, as long as that child lives.
Waits(p) == pc[p] = "wait" /\ child[run[p]] = "alive"

\* No task stays RUNNING, whatever step of its execution a crash or a cancel
\* hits, unless a child of it lives for ever, or all workers wait for ever for
\* children they have.
RunningSettles ==
    \A t \in Tasks :
        \/ []<>(status[t] # "RUNNING")
        \/ <>[](\E r \in RunsOf(t) : Alive(r))
        \/ <>[](\A p \in Workers : Waits(p))

----------------------------------------------------------------------------
(* The abstract specification, and what of the bridge it sees.              *)

Holder ==
    [c \in Checkouts |->
        {run[p] : p \in {q \in Coordinators : InClaim(q) /\ Checkout[job[q]] = c}}]

\* What docs/executors.md:45-54 promises: a task is started from READY only.
Documented ==
    INSTANCE ExclusiveExecution
        WITH holder <- Holder, spent <- 1 .. nextRun - 1, Claims <- Runs,
             Startable <- {"READY"}

PromiseKept == Documented!Spec

\* What the code keeps also beside a second coordinator, which may have read
\* READY long before it gets the lock: the status machine decides alone.
Actual ==
    INSTANCE ExclusiveExecution
        WITH holder <- Holder, spent <- 1 .. nextRun - 1, Claims <- Runs,
             Startable <- {s \in Statuses : Legal(s, "RUNNING")}

ClaimsKept == Actual!Spec
=============================================================================
