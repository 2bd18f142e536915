---------------------------- MODULE Cancellation ----------------------------
(***************************************************************************)
(* DirectLocalControl.cancel and runtime.cancel_active.  A cancel is a       *)
(* chain of reads and writes by a process of its own; whatever it read is   *)
(* kept in job, run and seen and may be stale when it is used.              *)
(***************************************************************************)
EXTENDS BridgeState

CancelSteps ==
    {"cancelDirect", "cancelActive", "cancelRun", "cancelKill", "cancelMark",
     "cancelClose", "cancelUnlink", "cancelRefs", "cancelLock"}

\* cancel reads the task: a CANCELLED task is a replay and a task without a
\* legal edge to CANCELLED is refused, neither changes anything.
CancelRead(p, t) ==
    /\ pc[p] = "idle"
    /\ \/ status[t] = "RUNNING" /\ pc' = [pc EXCEPT ![p] = "cancelActive"]
       \/ /\ status[t] # "RUNNING" /\ Legal(status[t], "CANCELLED")
          /\ pc' = [pc EXCEPT ![p] = "cancelDirect"]
    /\ job' = [job EXCEPT ![p] = t]
    /\ UNCHANGED <<run, seen, scan, store, files, registry, verdict, child,
                   lock, nextRun, faulted>>

\* The task may be RUNNING by now: the edge to CANCELLED is legal all the same.
CancelDirect(p) ==
    LET id == <<"direct-cancel", job[p]>> IN
    /\ pc[p] = "cancelDirect"
    /\ \/ Transition(id, job[p], "CANCELLED")
       \/ Refused(id, job[p], "CANCELLED") /\ UNCHANGED store
    /\ Leave(p, "idle")
    /\ UNCHANGED <<files, registry, verdict, child, lock, nextRun, faulted>>

\* cancel_active reads the task again; its refs are what it unlinks later.
CancelActive(p) ==
    /\ pc[p] = "cancelActive"
    /\ IF status[job[p]] = "RUNNING"
       THEN /\ pc' = [pc EXCEPT ![p] = "cancelRun"]
            /\ seen' = [seen EXCEPT ![p].refs = refs[job[p]]]
            /\ UNCHANGED <<job, run, scan>>
       ELSE Leave(p, "idle")
    /\ UNCHANGED <<store, files, registry, verdict, child, lock, nextRun,
                   faulted>>

\* No run, a finished one, or one without a process identity: refused.
CancelRun(p) ==
    LET r == LatestRun(job[p]) IN
    /\ pc[p] = "cancelRun"
    /\ IF r # NoRun /\ runOutcome[r] = "open" /\ ident[r]
       THEN /\ pc' = [pc EXCEPT ![p] = "cancelKill"]
            /\ run' = [run EXCEPT ![p] = r]
            /\ UNCHANGED <<job, seen, scan>>
       ELSE Leave(p, "idle")
    /\ UNCHANGED <<store, files, registry, verdict, child, lock, nextRun,
                   faulted>>

\* Mutant of CancelKill: the run is closed before the task is CANCELLED.
CancelKillThenClose(p) ==
    /\ pc[p] = "cancelKill"
    /\ Alive(run[p])
    /\ child' = [child EXCEPT ![run[p]] = "killed"]
    /\ Goto(p, "cancelClose")
    /\ UNCHANGED <<store, files, registry, verdict, lock, nextRun, faulted>>

\* The birth token still matches: taskkill /T /F.
CancelKill(p) ==
    /\ pc[p] = "cancelKill"
    /\ Alive(run[p])
    /\ child' = [child EXCEPT ![run[p]] = "killed"]
    /\ Goto(p, "cancelMark")
    /\ UNCHANGED <<store, files, registry, verdict, lock, nextRun, faulted>>

\* The process is gone (stale_or_reused_pid), or taskkill fails or times out,
\* in which case the tree may have died nevertheless: nothing is recorded.
CancelKillFails(p) ==
    /\ pc[p] = "cancelKill"
    /\ \/ ~ Alive(run[p]) /\ UNCHANGED <<child, faulted>>
       \/ /\ Alive(run[p])
          /\ "kill" \in Faults /\ faulted < MaxFaults /\ faulted' = faulted + 1
          /\ \E c \in {child[run[p]], "killed"} :
                child' = [child EXCEPT ![run[p]] = c]
    /\ Leave(p, "idle")
    /\ UNCHANGED <<store, files, registry, verdict, lock, nextRun>>

CancelMark(p) ==
    LET id == <<"cancel", run[p]>> IN
    /\ pc[p] = "cancelMark"
    /\ \/ Transition(id, job[p], "CANCELLED") /\ Goto(p, "cancelClose")
       \/ /\ Refused(id, job[p], "CANCELLED")
          /\ Leave(p, "idle")
          /\ UNCHANGED store
    /\ UNCHANGED <<files, registry, verdict, child, lock, nextRun, faulted>>

CancelClose(p) ==
    /\ pc[p] = "cancelClose"
    /\ FinishRun(run[p], "CANCELLED")
    /\ Goto(p, "cancelUnlink")
    /\ UNCHANGED <<store, files, verdict, child, lock, nextRun, faulted>>

CancelUnlink(p) ==
    /\ pc[p] = "cancelUnlink"
    /\ IF seen[p].refs
       THEN /\ result' = [result EXCEPT ![job[p]] = NoRun]
            /\ checkpoint' = [checkpoint EXCEPT ![job[p]] = NoRun]
            /\ UNCHANGED envelope
       ELSE UNCHANGED files
    /\ Goto(p, "cancelRefs")
    /\ UNCHANGED <<store, registry, verdict, child, lock, nextRun, faulted>>

CancelRefs(p) ==
    /\ pc[p] = "cancelRefs"
    /\ UpdateTaskRefs(job[p], FALSE)
    /\ Goto(p, "cancelLock")
    /\ UNCHANGED <<files, registry, verdict, child, lock, nextRun, faulted>>

\* The lock file goes only when its payload names this task.
CancelLock(p) ==
    LET c == Checkout[job[p]] IN
    /\ pc[p] = "cancelLock"
    /\ lock' = IF LoadLockOwner(c) = job[p]
               THEN [lock EXCEPT ![c] = NoLock] ELSE lock
    /\ Leave(p, "idle")
    /\ UNCHANGED <<store, files, registry, verdict, child, nextRun, faulted>>

CancellerStep(p) ==
    \/ \E t \in Tasks : CancelRead(p, t)
    \/ CancelDirect(p) \/ CancelActive(p) \/ CancelRun(p) \/ CancelKill(p)
    \/ CancelKillFails(p) \/ CancelMark(p) \/ CancelClose(p)
    \/ CancelUnlink(p) \/ CancelRefs(p) \/ CancelLock(p)
=============================================================================
