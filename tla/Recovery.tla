------------------------------ MODULE Recovery ------------------------------
(***************************************************************************)
(* What a durable worker does around execute_task: runtime.reconcile_running *)
(* at the start of every tick, then the pick of one READY task.  The rows   *)
(* with status RUNNING are read once; each is then judged by reads of its   *)
(* own, and acted on by further transactions.                               *)
(*                                                                          *)
(* The rows are visited in any order (the code: by updated_at) and any      *)
(* READY task is picked (the code: the oldest; WorkerLoop keeps that order).*)
(***************************************************************************)
EXTENDS BridgeState

RecoverySteps ==
    {"scan", "judge", "adopt", "adoptClose", "staleClose", "staleMark"}

\* SELECT * FROM tasks WHERE status='RUNNING', refs included.
ReconcileScan(p) ==
    /\ pc[p] = "idle"
    /\ pc' = [pc EXCEPT ![p] = "scan"]
    /\ scan' = [scan EXCEPT ![p] =
                   {<<t, refs[t]>> : t \in {u \in Tasks : status[u] = "RUNNING"}}]
    /\ UNCHANGED <<job, run, seen, store, files, registry, verdict, child,
                   lock, nextRun, faulted>>

ReconcileRead(p) ==
    /\ pc[p] = "scan"
    /\ \E row \in scan[p] :
        LET t == row[1]
            r == LatestRun(t) IN
        /\ job' = [job EXCEPT ![p] = t]
        /\ run' = [run EXCEPT ![p] = r]
        /\ seen' = [seen EXCEPT ![p] =
             [refs |-> row[2], verdict |-> "none",
              open |-> r # NoRun /\ runOutcome[r] = "open",
              ident |-> r # NoRun /\ ident[r]]]
        /\ scan' = [scan EXCEPT ![p] = @ \ {row}]
        /\ pc' = [pc EXCEPT ![p] = "judge"]
    /\ UNCHANGED <<store, files, registry, verdict, child, lock, nextRun,
                   faulted>>

TerminalOnDisk(p) ==
    seen[p].refs /\ result[job[p]] # NoRun /\ checkpoint[job[p]] # NoRun

\* process_alive on what latest_run returned.
ProcessAlive(p) == seen[p].ident /\ Alive(run[p])

\* Next row; the locals about this one are dropped.
NextRow(p) ==
    /\ pc' = [pc EXCEPT ![p] = "scan"]
    /\ job' = [job EXCEPT ![p] = NoTask]
    /\ run' = [run EXCEPT ![p] = NoRun]
    /\ seen' = [seen EXCEPT ![p] = NothingSeen]
    /\ UNCHANGED scan

JudgeTerminal(p) ==
    /\ pc[p] = "judge"
    /\ TerminalOnDisk(p)
    /\ pc' = [pc EXCEPT ![p] = "adopt"]
    /\ seen' = [seen EXCEPT ![p].verdict = verdict[result[job[p]]]]
    /\ UNCHANGED <<job, run, scan, store, files, registry, verdict, child,
                   lock, nextRun, faulted>>

JudgeAlive(p) ==
    /\ pc[p] = "judge"
    /\ ~ TerminalOnDisk(p) /\ ProcessAlive(p)
    /\ NextRow(p)
    /\ UNCHANGED <<store, files, registry, verdict, child, lock, nextRun,
                   faulted>>

\* Mutant of JudgeStale: the process is not asked for.
JudgeStaleUnprobed(p) ==
    /\ pc[p] = "judge"
    /\ ~ TerminalOnDisk(p)
    /\ UNCHANGED faulted
    /\ Goto(p, IF seen[p].open THEN "staleClose" ELSE "staleMark")
    /\ UNCHANGED <<store, files, registry, verdict, child, lock, nextRun>>

\* Mutant of JudgeStale: a task without an unfinished run is passed over.
JudgeStaleOpenRunsOnly(p) ==
    /\ pc[p] = "judge"
    /\ ~ TerminalOnDisk(p) /\ ~ ProcessAlive(p)
    /\ IF seen[p].open THEN Goto(p, "staleClose") ELSE NextRow(p)
    /\ UNCHANGED <<store, files, registry, verdict, child, lock, nextRun,
                   faulted>>

\* Not alive, or a probe that failed: the birth token read "" then, as if the
\* run had no process identity.
JudgeStale(p) ==
    /\ pc[p] = "judge"
    /\ ~ TerminalOnDisk(p)
    /\ \/ ~ ProcessAlive(p) /\ UNCHANGED <<seen, faulted>>
       \/ /\ ProcessAlive(p)
          /\ "probe" \in Faults /\ faulted < MaxFaults /\ faulted' = faulted + 1
          /\ seen' = [seen EXCEPT ![p].ident = FALSE]
    /\ pc' = [pc EXCEPT ![p] =
                 IF seen[p].open THEN "staleClose" ELSE "staleMark"]
    /\ UNCHANGED <<job, run, scan, store, files, registry, verdict, child, lock,
                   nextRun>>

\* Unlike the rest of the tick, reconcile_running runs under no handler: an
\* InvalidTransition ends run_worker.
Adopt(p) ==
    LET t == job[p]
        to == FinalStatus[seen[p].verdict] IN
    /\ pc[p] = "adopt"
    /\ \/ Transition(<<"terminal", t>>, t, to) /\
            IF seen[p].open THEN Goto(p, "adoptClose") ELSE NextRow(p)
       \/ /\ Refused(<<"terminal", t>>, t, to)
          /\ Leave(p, "stopped")
          /\ UNCHANGED store
    /\ UNCHANGED <<files, registry, verdict, child, lock, nextRun, faulted>>

AdoptClose(p) ==
    /\ pc[p] = "adoptClose"
    /\ FinishRun(run[p], seen[p].verdict)
    /\ NextRow(p)
    /\ UNCHANGED <<store, files, verdict, child, lock, nextRun, faulted>>

StaleClose(p) ==
    /\ pc[p] = "staleClose"
    /\ FinishRun(run[p], "INTERRUPTED")
    /\ Goto(p, "staleMark")
    /\ UNCHANGED <<store, files, verdict, child, lock, nextRun, faulted>>

\* Mutant of StaleMark: only a task that has a run is transitioned.
StaleMarkWithRun(p) ==
    LET t == job[p] IN
    /\ pc[p] = "staleMark"
    /\ \/ run[p] # NoRun /\ Transition(<<"stale", t>>, t, "INTERRUPTED")
       \/ run[p] = NoRun /\ UNCHANGED store
    /\ NextRow(p)
    /\ UNCHANGED <<files, registry, verdict, child, lock, nextRun, faulted>>

StaleMark(p) ==
    LET t == job[p] IN
    /\ pc[p] = "staleMark"
    /\ \/ Transition(<<"stale", t>>, t, "INTERRUPTED") /\ NextRow(p)
       \/ /\ Refused(<<"stale", t>>, t, "INTERRUPTED")
          /\ Leave(p, "stopped")
          /\ UNCHANGED store
    /\ UNCHANGED <<files, registry, verdict, child, lock, nextRun, faulted>>

----------------------------------------------------------------------------
\* The oldest READY task, which may be any: the order of their creation is in
\* module WorkerLoop.
WorkerPick(p) ==
    /\ pc[p] = "scan" /\ scan[p] = {}
    /\ \E t \in Tasks :
        /\ status[t] = "READY"
        /\ job' = [job EXCEPT ![p] = t]
    /\ pc' = [pc EXCEPT ![p] = "check"]
    /\ UNCHANGED <<run, seen, scan, store, files, registry, verdict, child,
                   lock, nextRun, faulted>>

NothingReady(p) ==
    /\ pc[p] = "scan" /\ scan[p] = {}
    /\ \A t \in Tasks : status[t] # "READY"
    /\ Leave(p, "idle")
    /\ UNCHANGED <<store, files, registry, verdict, child, lock, nextRun,
                   faulted>>

RecoveryStep(p) ==
    \/ ReconcileScan(p) \/ ReconcileRead(p) \/ JudgeTerminal(p)
    \/ JudgeAlive(p) \/ JudgeStale(p) \/ Adopt(p) \/ AdoptClose(p)
    \/ StaleClose(p) \/ StaleMark(p) \/ WorkerPick(p) \/ NothingReady(p)
=============================================================================
