---------------------------- MODULE BridgeState ----------------------------
(***************************************************************************)
(* What the processes of one bridge home share, and the operations on it.   *)
(*                                                                          *)
(* The SQLite store (tables tasks, task_events, execution_runs), the        *)
(* envelope files, the lock files and the executor's child processes are    *)
(* shared by every process that points at the same home: durable workers,   *)
(* "submit" invocations of the CLI and "cancel" invocations.  Each operator *)
(* below is one transaction or one file operation, hence one atomic step.   *)
(***************************************************************************)
EXTENDS Integers, FiniteSets, FiniteSetsExt, TaskState

CONSTANTS
    Workers,     \* durable worker processes (worker.run_worker)
    Submitters,  \* processes running DirectLocalControl.submit
    Cancellers,  \* processes running DirectLocalControl.cancel
    Tasks,       \* task ids
    Mailbox,     \* the tasks that arrive through the mailbox, not a submit
    NoTask,
    Checkouts,   \* checkout directories: one lock file each
    Checkout,    \* the checkout select_repo_target picks for a task
    Verdicts,    \* the verdicts an executor may reach in this instance
    MaxRuns,     \* bound on the run ids handed out
    Faults,      \* which faults the environment may inject
    MaxFaults    \* bound on how many it injects

Procs == Workers \cup Submitters \cup Cancellers
Coordinators == Workers \cup Submitters
Runs == 1 .. MaxRuns
NoRun == 0

FaultKinds ==
    {"crash", "treekill", "interrupt", "observer", "probe", "kill", "write",
     "validation"}

ASSUME TasksAssumption == NoTask \notin Tasks /\ Mailbox \subseteq Tasks
ASSUME CheckoutAssumption == Checkout \in [Tasks -> Checkouts]
ASSUME VerdictsAssumption == Verdicts \subseteq ExecutorVerdicts
ASSUME BoundsAssumption ==
    MaxRuns \in Nat /\ MaxFaults \in Nat /\ Faults \subseteq FaultKinds
ASSUME ProcsAssumption ==
    /\ Workers \cap Submitters = {}
    /\ Cancellers \cap Coordinators = {}

VARIABLES
    status,      \* tasks.status
    events,      \* task_events: what transition has committed
    refs,        \* tasks.result_envelope_ref and checkpoint_ref are set
    envelope,    \* task.json of the task: the submit that wrote it last
    result,      \* result.json of the task: the run that wrote it
    checkpoint,  \* checkpoint.json of the task: the run that wrote it
    runTask,     \* execution_runs.task_id, NoTask when there is no row
    runOutcome,  \* execution_runs.outcome, "open" while finished_at is NULL
    ident,       \* execution_runs holds a pid and a birth token
    verdict,     \* ExecutionOutcome.status of the run's executor
    child,       \* the process tree the run's executor spawned; "stray" is
                 \* one alive whose coordinator has given up the checkout
    lock,        \* the lock file of a checkout: its payload
    nextRun,     \* the next fresh run id (uuid4)
    pc,          \* where each process is
    job,         \* the task it is working on
    run,         \* the run it is working on
    seen,        \* what it read in an earlier step and still relies on
    scan,        \* rows a reconcile pass has still to visit
    faulted      \* faults injected so far

store == <<status, events, refs>>
files == <<envelope, result, checkpoint>>
registry == <<runTask, runOutcome, ident>>
locals == <<pc, job, run, seen, scan>>
vars == <<store, files, registry, verdict, child, lock, nextRun, locals,
          faulted>>

----------------------------------------------------------------------------
(* Locals.                                                                  *)

NothingSeen ==
    [refs |-> FALSE, open |-> FALSE, ident |-> FALSE, verdict |-> "none"]

\* Process p moves to the step named there; its locals keep their values.
Goto(p, there) ==
    /\ pc' = [pc EXCEPT ![p] = there]
    /\ UNCHANGED <<job, run, seen, scan>>

\* Process p ends its call, by a return or by an exception, and waits there.
Leave(p, there) ==
    /\ pc' = [pc EXCEPT ![p] = there]
    /\ job' = [job EXCEPT ![p] = NoTask]
    /\ run' = [run EXCEPT ![p] = NoRun]
    /\ seen' = [seen EXCEPT ![p] = NothingSeen]
    /\ scan' = [scan EXCEPT ![p] = {}]

----------------------------------------------------------------------------
(* state.py: transition and update_task_refs.                               *)

Event(id, t, to) == [id |-> id, task |-> t, to |-> to]

\* The event id is already recorded: the call returns without a change.
Replayed(id, t, to) == Event(id, t, to) \in events

\* The event id is new and the edge is legal.
Accepted(id, t, to) ==
    /\ \A e \in events : e.id # id
    /\ Legal(status[t], to)

Refused(id, t, to) == ~ Accepted(id, t, to) /\ ~ Replayed(id, t, to)

\* Mutant of Commit: the legality of the edge is not checked.
CommitUnchecked(id, t, to) ==
    /\ \A e \in events : e.id # id
    /\ status' = [status EXCEPT ![t] = to]
    /\ events' = events \cup {Event(id, t, to)}
    /\ UNCHANGED refs

Commit(id, t, to) ==
    /\ Accepted(id, t, to)
    /\ status' = [status EXCEPT ![t] = to]
    /\ events' = events \cup {Event(id, t, to)}
    /\ UNCHANGED refs

\* transition returns: it has committed now, or it had before.
Transition(id, t, to) ==
    \/ Commit(id, t, to)
    \/ Replayed(id, t, to) /\ UNCHANGED store

UpdateTaskRefs(t, present) ==
    /\ refs' = [refs EXCEPT ![t] = present]
    /\ UNCHANGED <<status, events>>

\* create_task: the primary key makes it fail when the row exists.
CreateTask(t) ==
    /\ status[t] = Absent
    /\ status' = [status EXCEPT ![t] = "QUEUED"]
    /\ UNCHANGED <<events, refs>>

----------------------------------------------------------------------------
(* runtime.py: the run registry.                                            *)

Alive(r) == child[r] \in {"alive", "stray"}

RunsOf(t) == {r \in Runs : runTask[r] = t}

LatestRun(t) == IF RunsOf(t) = {} THEN NoRun ELSE Max(RunsOf(t))

FinishRun(r, o) ==
    /\ runOutcome' = [runOutcome EXCEPT ![r] = o]
    /\ UNCHANGED <<runTask, ident>>

----------------------------------------------------------------------------
(* Lock files.  The payload is written without the schema_version member    *)
(* envelopes.load_json insists on, so a reader of the file never gets it.   *)

NoLock == [task |-> NoTask, run |-> NoRun]
LockPayload(t, r) == [task |-> t, run |-> r]

\* Mutant of LoadLockOwner: the file is read without asking for a version.
LoadLockOwnerUnversioned(c) == lock[c].task

LoadLockOwner(c) ==
    IF "schema_version" \in DOMAIN lock[c] THEN lock[c].task ELSE NoTask

----------------------------------------------------------------------------
Init ==
    /\ status = [t \in Tasks |-> Absent]
    /\ events = {}
    /\ refs = [t \in Tasks |-> FALSE]
    /\ envelope = [t \in Tasks |-> {}]
    /\ result = [t \in Tasks |-> NoRun]
    /\ checkpoint = [t \in Tasks |-> NoRun]
    /\ runTask = [r \in Runs |-> NoTask]
    /\ runOutcome = [r \in Runs |-> "none"]
    /\ ident = [r \in Runs |-> FALSE]
    /\ verdict = [r \in Runs |-> "none"]
    /\ child = [r \in Runs |-> "none"]
    /\ lock = [c \in Checkouts |-> NoLock]
    /\ nextRun = 1
    /\ pc = [p \in Procs |-> "idle"]
    /\ job = [p \in Procs |-> NoTask]
    /\ run = [p \in Procs |-> NoRun]
    /\ seen = [p \in Procs |-> NothingSeen]
    /\ scan = [p \in Procs |-> {}]
    /\ faulted = 0
=============================================================================
