---------------------------- MODULE Coordinator ----------------------------
(***************************************************************************)
(* The execution coordinator: DirectLocalControl.submit and                 *)
(* execution.execute_task.  One action per store transaction or file        *)
(* operation, so that everything other processes do may come in between.    *)
(***************************************************************************)
EXTENDS BridgeState

\* The steps of execute_task inside "with checkout_lock(...)".
ClaimSteps ==
    {"start", "record", "spawn", "observe", "wait", "returned", "writeResult",
     "writeCheckpoint", "finish", "rejected", "recheck", "undo",
     "closeCancelled", "setRefs", "close", "release"}

SubmitSteps == {"write", "create", "ready"}
ExecuteSteps == {"check", "acquire"} \cup ClaimSteps

Injected(kind) ==
    /\ kind \in Faults
    /\ faulted < MaxFaults
    /\ faulted' = faulted + 1

----------------------------------------------------------------------------
(* submit, up to the call of execute_task.                                  *)

SubmitCheck(p, t) ==
    /\ pc[p] = "idle"
    /\ status[t] = Absent
    /\ pc' = [pc EXCEPT ![p] = "write"]
    /\ job' = [job EXCEPT ![p] = t]
    /\ UNCHANGED <<run, seen, scan, store, files, registry, verdict, child,
                   lock, nextRun, faulted>>

\* Before the id is claimed in the store: of two submits the later write
\* stays, whichever of them creates the row.
SubmitWrite(p) ==
    /\ pc[p] = "write"
    /\ envelope' = [envelope EXCEPT ![job[p]] = {p}]
    /\ Goto(p, "create")
    /\ UNCHANGED <<result, checkpoint, store, registry, verdict, child, lock,
                   nextRun, faulted>>

SubmitCreate(p) ==
    /\ pc[p] = "create"
    /\ CreateTask(job[p])
    /\ Goto(p, "ready")
    /\ UNCHANGED <<files, registry, verdict, child, lock, nextRun, faulted>>

\* Two submits of one task id: the loser's create_task raises TaskConflict.
SubmitConflict(p) ==
    /\ pc[p] = "create"
    /\ status[job[p]] # Absent
    /\ Leave(p, "idle")
    /\ UNCHANGED <<store, files, registry, verdict, child, lock, nextRun,
                   faulted>>

SubmitReady(p) ==
    LET t == job[p] IN
    /\ pc[p] = "ready"
    /\ \/ Transition(<<"direct-ready", t>>, t, "READY") /\ Goto(p, "check")
       \/ /\ Refused(<<"direct-ready", t>>, t, "READY")
          /\ Leave(p, "idle")
          /\ UNCHANGED store
    /\ UNCHANGED <<files, registry, verdict, child, lock, nextRun, faulted>>

----------------------------------------------------------------------------
(* execute_task.                                                            *)

\* The task must be READY and its envelope and checkout valid; the status
\* read here is not read again under the lock.
ExecuteCheck(p) ==
    /\ pc[p] = "check"
    /\ \/ status[job[p]] = "READY" /\ Goto(p, "acquire")
       \/ status[job[p]] # "READY" /\ Leave(p, "idle")
    /\ UNCHANGED <<store, files, registry, verdict, child, lock, nextRun,
                   faulted>>

\* A wrong branch, a bad envelope, a repository no longer allowed: it may fail
\* now or in every tick to come, so it is not counted.
ValidationFails(p) ==
    /\ pc[p] = "check"
    /\ "validation" \in Faults
    /\ Leave(p, "idle")
    /\ UNCHANGED <<store, files, registry, verdict, child, lock, nextRun,
                   faulted>>

\* Mutant of AcquireLock: no O_EXCL, an existing file is overwritten.
AcquireLockShared(p) ==
    LET t == job[p] IN
    /\ pc[p] = "acquire"
    /\ nextRun \in Runs
    /\ lock' = [lock EXCEPT ![Checkout[t]] = LockPayload(t, nextRun)]
    /\ nextRun' = nextRun + 1
    /\ run' = [run EXCEPT ![p] = nextRun]
    /\ pc' = [pc EXCEPT ![p] = "start"]
    /\ UNCHANGED <<job, seen, scan, store, files, registry, verdict, child,
                   faulted>>

\* O_CREAT | O_EXCL on the lock file.
AcquireLock(p) ==
    LET t == job[p] IN
    /\ pc[p] = "acquire"
    /\ lock[Checkout[t]] = NoLock
    /\ nextRun \in Runs
    /\ lock' = [lock EXCEPT ![Checkout[t]] = LockPayload(t, nextRun)]
    /\ nextRun' = nextRun + 1
    /\ run' = [run EXCEPT ![p] = nextRun]
    /\ pc' = [pc EXCEPT ![p] = "start"]
    /\ UNCHANGED <<job, seen, scan, store, files, registry, verdict, child,
                   faulted>>

LockBusy(p) ==
    /\ pc[p] = "acquire"
    /\ lock[Checkout[job[p]]] # NoLock
    /\ Leave(p, "idle")
    /\ UNCHANGED <<store, files, registry, verdict, child, lock, nextRun,
                   faulted>>

StartTransition(p) ==
    LET id == <<"start", run[p]>> IN
    /\ pc[p] = "start"
    /\ \/ Transition(id, job[p], "RUNNING") /\ Goto(p, "record")
       \/ /\ Refused(id, job[p], "RUNNING")
          /\ Goto(p, "release")
          /\ UNCHANGED store
    /\ UNCHANGED <<files, registry, verdict, child, lock, nextRun, faulted>>

StartRun(p) ==
    /\ pc[p] = "record"
    /\ runTask' = [runTask EXCEPT ![run[p]] = job[p]]
    /\ runOutcome' = [runOutcome EXCEPT ![run[p]] = "open"]
    /\ Goto(p, "spawn")
    /\ UNCHANGED <<ident, store, files, verdict, child, lock, nextRun, faulted>>

Spawn(p) ==
    /\ pc[p] = "spawn"
    /\ child' = [child EXCEPT ![run[p]] = "alive"]
    /\ Goto(p, "observe")
    /\ UNCHANGED <<store, files, registry, verdict, lock, nextRun, faulted>>

\* The executable is missing, or Popen fails.
SpawnFails(p) ==
    /\ pc[p] = "spawn"
    /\ Injected("validation")
    /\ verdict' = [verdict EXCEPT ![run[p]] = "FAILED"]
    /\ Goto(p, "returned")
    /\ UNCHANGED <<store, files, registry, child, lock, nextRun>>

RecordSpawn(p) ==
    /\ pc[p] = "observe"
    /\ \/ ident' = [ident EXCEPT ![run[p]] = TRUE] /\ UNCHANGED faulted
       \/ Injected("probe") /\ UNCHANGED ident  \* the birth token read ""
    /\ Goto(p, "wait")
    /\ UNCHANGED <<runTask, runOutcome, store, files, verdict, child, lock,
                   nextRun>>

\* The two executors differ in whether an exception stops the child.
StopsChildOrNot(r) ==
    \/ UNCHANGED child
    \/ child[r] = "alive" /\ child' = [child EXCEPT ![r] = "killed"]

\* observer.on_spawn raises.  CommandExecutor stops the child, the Codex
\* launcher does not; execute_task takes either for a FAILED outcome.
ObserverFails(p) ==
    /\ pc[p] = "observe"
    /\ Injected("observer")
    /\ StopsChildOrNot(run[p])
    /\ verdict' = [verdict EXCEPT ![run[p]] = "FAILED"]
    /\ Goto(p, "returned")
    /\ UNCHANGED <<store, files, registry, lock, nextRun>>

\* Mutant of ExecutorReturns: it does not wait for the child.
ExecutorReturnsEarly(p) ==
    /\ pc[p] = "wait"
    /\ \E v \in Verdicts : verdict' = [verdict EXCEPT ![run[p]] = v]
    /\ Goto(p, "returned")
    /\ UNCHANGED <<store, files, registry, child, lock, nextRun, faulted>>

ExecutorReturns(p) ==
    /\ pc[p] = "wait"
    /\ \/ child[run[p]] = "exited" /\
            \E v \in Verdicts : verdict' = [verdict EXCEPT ![run[p]] = v]
       \/ child[run[p]] = "killed" /\
            verdict' = [verdict EXCEPT ![run[p]] = "FAILED"]
    /\ Goto(p, "returned")
    /\ UNCHANGED <<store, files, registry, child, lock, nextRun, faulted>>

\* A guard of the executor (wall or idle timeout, repeated progress, output
\* limit) or a broken stdin pipe makes it kill the tree itself.  Neither
\* executor insists: a kill that failed, or was not confirmed in time, ends the
\* call all the same.
GuardFires(p) ==
    /\ pc[p] = "wait"
    /\ child[run[p]] = "alive"
    /\ \/ child' = [child EXCEPT ![run[p]] = "killed"] /\ UNCHANGED faulted
       \/ Injected("kill") /\ UNCHANGED child
    /\ \E v \in Verdicts \ {"SUCCESS"} :
            verdict' = [verdict EXCEPT ![run[p]] = v]
    /\ Goto(p, "returned")
    /\ UNCHANGED <<store, files, registry, lock, nextRun>>

CheckCancelled(p) ==
    /\ pc[p] = "returned"
    /\ Goto(p, IF status[job[p]] = "CANCELLED" THEN "closeCancelled"
               ELSE "writeResult")
    /\ UNCHANGED <<store, files, registry, verdict, child, lock, nextRun,
                   faulted>>

\* Mutant of WriteResult: the checkpoint is not written.
WriteResultOnly(p) ==
    /\ pc[p] = "writeResult"
    /\ result' = [result EXCEPT ![job[p]] = run[p]]
    /\ Goto(p, "finish")
    /\ UNCHANGED <<envelope, checkpoint, store, registry, verdict, child, lock,
                   nextRun, faulted>>

WriteResult(p) ==
    /\ pc[p] = "writeResult"
    /\ result' = [result EXCEPT ![job[p]] = run[p]]
    /\ Goto(p, "writeCheckpoint")
    /\ UNCHANGED <<envelope, checkpoint, store, registry, verdict, child, lock,
                   nextRun, faulted>>

WriteCheckpoint(p) ==
    /\ pc[p] = "writeCheckpoint"
    /\ checkpoint' = [checkpoint EXCEPT ![job[p]] = run[p]]
    /\ Goto(p, "finish")
    /\ UNCHANGED <<envelope, result, store, registry, verdict, child, lock,
                   nextRun, faulted>>

\* An envelope over MAX_JSON_BYTES, or a full disk: the exception leaves the
\* "with" block, so the lock is released and nothing else is done.
WriteFails(p) ==
    /\ pc[p] \in {"writeResult", "writeCheckpoint"}
    /\ Injected("write")
    /\ Goto(p, "release")
    /\ UNCHANGED <<store, files, registry, verdict, child, lock, nextRun>>

Finish(p) ==
    LET id == <<"finish", run[p]>>
        to == FinalStatus[verdict[run[p]]] IN
    /\ pc[p] = "finish"
    /\ \/ Transition(id, job[p], to) /\ Goto(p, "recheck")
       \/ Refused(id, job[p], to) /\ Goto(p, "rejected") /\ UNCHANGED store
    /\ UNCHANGED <<files, registry, verdict, child, lock, nextRun, faulted>>

Rejected(p) ==
    /\ pc[p] = "rejected"
    /\ Goto(p, IF status[job[p]] = "CANCELLED" THEN "undo" ELSE "release")
    /\ UNCHANGED <<store, files, registry, verdict, child, lock, nextRun,
                   faulted>>

Recheck(p) ==
    /\ pc[p] = "recheck"
    /\ Goto(p, IF status[job[p]] = "CANCELLED" THEN "undo" ELSE "setRefs")
    /\ UNCHANGED <<store, files, registry, verdict, child, lock, nextRun,
                   faulted>>

Undo(p) ==
    /\ pc[p] = "undo"
    /\ result' = [result EXCEPT ![job[p]] = NoRun]
    /\ checkpoint' = [checkpoint EXCEPT ![job[p]] = NoRun]
    /\ Goto(p, "closeCancelled")
    /\ UNCHANGED <<envelope, store, registry, verdict, child, lock, nextRun,
                   faulted>>

CloseCancelled(p) ==
    /\ pc[p] = "closeCancelled"
    /\ FinishRun(run[p], "CANCELLED")
    /\ Goto(p, "release")
    /\ UNCHANGED <<store, files, verdict, child, lock, nextRun, faulted>>

SetRefs(p) ==
    /\ pc[p] = "setRefs"
    /\ UpdateTaskRefs(job[p], TRUE)
    /\ Goto(p, "close")
    /\ UNCHANGED <<files, registry, verdict, child, lock, nextRun, faulted>>

\* Mutant of Close: the run is closed with the status of its task.
CloseWithTaskStatus(p) ==
    /\ pc[p] = "close"
    /\ FinishRun(run[p], status[job[p]])
    /\ Goto(p, "release")
    /\ UNCHANGED <<store, files, verdict, child, lock, nextRun, faulted>>

Close(p) ==
    /\ pc[p] = "close"
    /\ FinishRun(run[p], verdict[run[p]])
    /\ Goto(p, "release")
    /\ UNCHANGED <<store, files, verdict, child, lock, nextRun, faulted>>

\* The "finally" of checkout_lock: the path is unlinked whoever owns it, and
\* whatever became of the child.
Release(p) ==
    /\ pc[p] = "release"
    /\ lock' = [lock EXCEPT ![Checkout[job[p]]] = NoLock]
    /\ child' = [r \in Runs |-> IF r = run[p] /\ child[r] = "alive"
                               THEN "stray" ELSE child[r]]
    /\ Leave(p, "idle")
    /\ UNCHANGED <<store, files, registry, verdict, nextRun, faulted>>

----------------------------------------------------------------------------
(* The child process, and the deaths of a coordinator.                      *)

ChildExits(r) ==
    /\ Alive(r)
    /\ child' = [child EXCEPT ![r] = "exited"]
    /\ UNCHANGED <<store, files, registry, verdict, lock, nextRun, locals,
                   faulted>>

\* Mutant of Crash: the lock is one the system drops with its holder (flock).
CrashUnlocks(p) ==
    /\ pc[p] \notin {"idle", "stopped"}
    /\ Injected("crash")
    /\ lock' = IF pc[p] \in ClaimSteps
               THEN [lock EXCEPT ![Checkout[job[p]]] = NoLock] ELSE lock
    /\ Leave(p, "stopped")
    /\ UNCHANGED <<store, files, registry, verdict, child, nextRun>>

\* The coordinator's process dies alone.  Its lock file stays, and its child
\* survives: it was started in a session (process group) of its own.
Crash(p) ==
    /\ pc[p] \notin {"idle", "stopped"}
    /\ Injected("crash")
    /\ Leave(p, "stopped")
    /\ UNCHANGED <<store, files, registry, verdict, child, lock, nextRun>>

\* lifecycle.stop_worker: taskkill /T takes the child with it.
TreeKill(p) ==
    /\ pc[p] \notin {"idle", "stopped"}
    /\ Injected("treekill")
    /\ child' = [r \in Runs |->
                    IF pc[p] \in ClaimSteps /\ r = run[p] /\ child[r] = "alive"
                    THEN "killed" ELSE child[r]]
    /\ Leave(p, "stopped")
    /\ UNCHANGED <<store, files, registry, verdict, lock, nextRun>>

\* KeyboardInterrupt while the executor waits: no handler of execute_task or
\* of the launcher catches it, the "finally" of checkout_lock still runs.  Only
\* CommandExecutor stops its child on the way out.
Interrupt(p) ==
    /\ pc[p] = "wait"
    /\ Injected("interrupt")
    /\ StopsChildOrNot(run[p])
    /\ Goto(p, "release")
    /\ UNCHANGED <<store, files, registry, verdict, lock, nextRun>>

\* start_worker, or the next submit: a process of its own takes the place.
Restart(p) ==
    /\ pc[p] = "stopped"
    /\ Leave(p, "idle")
    /\ UNCHANGED <<store, files, registry, verdict, child, lock, nextRun,
                   faulted>>

CoordinatorStep(p) ==
    \/ ExecuteCheck(p) \/ ValidationFails(p) \/ AcquireLock(p) \/ LockBusy(p)
    \/ StartTransition(p) \/ StartRun(p) \/ Spawn(p) \/ SpawnFails(p)
    \/ RecordSpawn(p) \/ ObserverFails(p) \/ ExecutorReturns(p)
    \/ GuardFires(p) \/ CheckCancelled(p) \/ WriteResult(p)
    \/ WriteCheckpoint(p) \/ WriteFails(p) \/ Finish(p) \/ Rejected(p)
    \/ Recheck(p) \/ Undo(p) \/ CloseCancelled(p) \/ SetRefs(p) \/ Close(p)
    \/ Release(p) \/ Crash(p) \/ TreeKill(p) \/ Interrupt(p) \/ Restart(p)

SubmitterStep(p) ==
    \/ \E t \in Tasks \ Mailbox : SubmitCheck(p, t)
    \/ SubmitWrite(p) \/ SubmitCreate(p) \/ SubmitConflict(p)
    \/ SubmitReady(p)
=============================================================================
