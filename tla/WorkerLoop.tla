------------------------------ MODULE WorkerLoop ------------------------------
(***************************************************************************)
(* worker.worker_tick, over and over (run_worker): poll every source,       *)
(* execute the oldest READY task, publish pending results.  Delivery is     *)
(* that of module Delivery, step for step.  Of a poll and of an execution   *)
(* there are the steps between which a death or another actor matters to    *)
(* what follows; modules Ingest, Coordinator and Recovery have the rest.    *)
(* All tasks are of one checkout.                                           *)
(*                                                                          *)
(* A task gets its number when it is created, so that numbers are in the    *)
(* order of created_at.                                                     *)
(***************************************************************************)
EXTENDS Delivery, Sequences, SequencesExt

CONSTANTS
    Sources,      \* config.sources: 1 .. the number of mailbox issues
    Mailboxes     \* what the mailboxes may come to hold, comment by comment

ASSUME SourcesAssumption ==
    IsFiniteSet(Sources) /\ Sources = 1 .. Cardinality(Sources)

\* "task" will pass the validation of execute_task, "stuck" never does (its
\* checkout is not on its branch, say); "malformed" makes a poll fail with a
\* GitHubTransportError, "foreign" with an error of another class.
Kinds == {"task", "stuck", "malformed", "foreign"}

ASSUME MailboxesAssumption ==
    \A m \in Mailboxes :
        DOMAIN m = Sources /\ \A s \in Sources : m[s] \in Seq(Kinds)

NoTask == 0
NoComment == 0
PickStage == Cardinality(Sources) + 1
DeliverStage == PickStage + 1
Ended == DeliverStage + 1

VARIABLES
    mailbox,  \* the comments the controller posts, in order
    posted,   \* how many of them are on the issue
    origin,   \* the comment that each task, in order of creation, came from
    recorded, \* the comments with a row in transport_ingests
    phase,    \* an open task: "queued", "ready" or "started"; "again" when it
              \* was settled and restarted, with its refs still set
    left,     \* a dead worker left the lock file of the checkout behind
    at,       \* where each worker is in its tick: a source, or a later stage
    step,     \* the step of the poll or of the execution it is at
    found,    \* the comment it is making a task of
    running   \* the task it is executing or about to execute

mail == <<mailbox, posted, origin, recorded>>
tick == <<at, step, found, running>>
allVars == <<vars, mail, phase, left, tick>>

WorkerInit ==
    /\ Init
    /\ mailbox \in Mailboxes
    /\ posted = [s \in Sources |-> 0]
    /\ origin = <<>>
    /\ recorded = {}
    /\ phase = [t \in Tasks |-> "none"]
    /\ left = FALSE
    /\ at = [p \in Publishers |-> 1]
    /\ step = [p \in Publishers |-> "first"]
    /\ found = [p \in Publishers |-> NoComment]
    /\ running = [p \in Publishers |-> NoTask]

Comment(c) == mailbox[c[1]][c[2]]

KindOf(t) == Comment(origin[t])

\* The posted comments that ingest_comments does not skip as replays.
New(s) == {i \in 1 .. posted[s] : <<s, i>> \notin recorded}

\* The comment that worker p is making a task of, and its task.
Taken(p) == <<at[p], found[p]>>
TaskOf(c) == CHOOSE t \in DOMAIN origin : origin[t] = c

Ready == {t \in DOMAIN origin : task[t] = "open" /\ phase[t] = "ready"}

\* checkout_lock would raise.
Locked == left \/ \E q \in Publishers : step[q] = "execute"

----------------------------------------------------------------------------
(* A poll.                                                                  *)

\* To the first step of this stage of the tick.
Move(p, stage) ==
    /\ at' = [at EXCEPT ![p] = stage]
    /\ step' = [step EXCEPT ![p] = "first"]
    /\ found' = [found EXCEPT ![p] = NoComment]
    /\ running' = [running EXCEPT ![p] = NoTask]

GoOn(p) == Move(p, at[p] + 1)

StepTo(p, there) == step' = [step EXCEPT ![p] = there] /\ UNCHANGED at

\* Worker p begins the poll of source at[p], and comes first to a comment of
\* this kind.
Finds(p, kinds) ==
    /\ at[p] \in Sources /\ step[p] = "first"
    /\ New(at[p]) # {} /\ Comment(<<at[p], Min(New(at[p]))>>) \in kinds

\* Mutant of PollFails: the tick is given up.
PollFailsAndReturns(p) ==
    /\ Finds(p, {"malformed"})
    /\ Move(p, 1)
    /\ UNCHANGED <<vars, mail, phase, left>>

\* gh fails, or the next new comment is malformed: noted, and on.
PollFails(p) ==
    /\ \/ at[p] \in Sources /\ step[p] = "first" /\ Fault
       \/ Finds(p, {"malformed"}) /\ UNCHANGED faults
    /\ GoOn(p)
    /\ UNCHANGED <<task, outcome, comments, pc, queue, mail, phase, left>>

\* "no new task envelope found", or the last of the replays.
PollNothing(p) ==
    /\ at[p] \in Sources /\ step[p] = "first"
    /\ New(at[p]) = {}
    /\ GoOn(p)
    /\ UNCHANGED <<vars, mail, phase, left>>

\* An exception that worker_tick does not catch ends run_worker.
PollRaises(p) ==
    /\ Finds(p, {"foreign"})
    /\ Move(p, Ended)
    /\ UNCHANGED <<vars, mail, phase, left>>

\* "task_id already exists from another event", if there is a row and no
\* record: another worker is at it, or one has died over it.
PollFinds(p) ==
    LET i == Min(New(at[p])) IN
    /\ Finds(p, {"task", "stuck"})
    /\ IF <<at[p], i>> \in ToSet(origin)
       THEN GoOn(p)
       ELSE /\ found' = [found EXCEPT ![p] = i]
            /\ StepTo(p, "create") /\ UNCHANGED running
    /\ UNCHANGED <<vars, mail, phase, left>>

\* Mutant of PollCreates: a second row for the same task.
PollCreatesAgain(p) ==
    LET t == Len(origin) + 1 IN
    /\ step[p] = "create" /\ t \in Tasks
    /\ origin' = Append(origin, Taken(p))
    /\ phase' = [phase EXCEPT ![t] = "queued"]
    /\ StepTo(p, "ready")
    /\ UNCHANGED <<vars, mailbox, posted, recorded, left, found, running>>

\* create_task; the TaskConflict of the later of two workers ends it.
PollCreates(p) ==
    LET t == Len(origin) + 1 IN
    /\ step[p] = "create"
    /\ \/ /\ Taken(p) \notin ToSet(origin) /\ t \in Tasks
          /\ origin' = Append(origin, Taken(p))
          /\ phase' = [phase EXCEPT ![t] = "queued"]
          /\ StepTo(p, "ready") /\ UNCHANGED <<found, running>>
       \/ /\ Taken(p) \in ToSet(origin)
          /\ Move(p, Ended) /\ UNCHANGED <<origin, phase>>
    /\ UNCHANGED <<vars, mailbox, posted, recorded, left>>

\* A task that was cancelled has an "unexpected status", or, cancelled after
\* the look at it, an InvalidTransition.
PollReadies(p) ==
    LET t == TaskOf(Taken(p)) IN
    /\ step[p] = "ready"
    /\ \/ /\ task[t] = "open"
          /\ phase' = [phase EXCEPT ![t] = "ready"]
          /\ StepTo(p, "record") /\ UNCHANGED <<found, running>>
       \/ /\ task[t] # "open"
          /\ GoOn(p) \/ Move(p, Ended)
          /\ UNCHANGED phase
    /\ UNCHANGED <<vars, mail, left>>

\* At most one new task per source and tick.
PollRecords(p) ==
    /\ step[p] = "record"
    /\ recorded' = recorded \cup {Taken(p)}
    /\ GoOn(p)
    /\ UNCHANGED <<vars, mailbox, posted, origin, phase, left>>

Poll(p) ==
    \/ PollFails(p) \/ PollNothing(p) \/ PollRaises(p) \/ PollFinds(p)
    \/ PollCreates(p) \/ PollReadies(p) \/ PollRecords(p)

----------------------------------------------------------------------------
(* Execution, delivery, and the end of a worker.                            *)

\* The oldest task is read as READY; a failed validation is noted and leaves
\* it so.
Pick(p) ==
    /\ at[p] = PickStage /\ step[p] = "first"
    /\ IF Ready # {} /\ KindOf(Min(Ready)) = "task"
       THEN /\ running' = [running EXCEPT ![p] = Min(Ready)]
            /\ StepTo(p, "start") /\ UNCHANGED found
       ELSE GoOn(p)
    /\ UNCHANGED <<vars, mail, phase, left>>

\* The lock is free, and the task is still READY, or has been settled as
\* WAITING_CONTROLLER or INTERRUPTED since it was read.
Start(p) ==
    LET t == running[p] IN
    /\ step[p] = "start" /\ ~ Locked /\ task[t] # "cancelled"
    /\ task' = [task EXCEPT ![t] = "open"]
    /\ phase' = [phase EXCEPT ![t] = IF task[t] = "terminal" THEN "again"
                                     ELSE "started"]
    /\ StepTo(p, "execute")
    /\ UNCHANGED <<outcome, comments, pc, queue, faults, mail, left, found,
                   running>>

\* The lock is taken, or the task is cancelled, or was settled as FAILED: noted.
StartFails(p) ==
    /\ step[p] = "start"
    /\ Locked \/ task[running[p]] # "open"
    /\ GoOn(p)
    /\ UNCHANGED <<vars, mail, phase, left>>

\* The executor has returned.  A cancelled task stays as it is; one that
\* recovery settled meanwhile can only become FAILED.
Executed(p) ==
    LET t == running[p] IN
    /\ step[p] = "execute"
    /\ \/ task[t] \in {"open", "bare"} /\ task' = [task EXCEPT ![t] = "terminal"]
       \/ task[t] # "open" /\ UNCHANGED task
    /\ GoOn(p)
    /\ UNCHANGED <<outcome, comments, pc, queue, faults, mail, phase, left>>

Deliver(p) ==
    /\ at[p] = DeliverStage
    /\ Publish(p)
    /\ IF pc'[p] = "idle" THEN Move(p, 1) ELSE UNCHANGED tick
    /\ UNCHANGED <<mail, phase, left>>

TickStep(p) ==
    Poll(p) \/ Pick(p) \/ Start(p) \/ StartFails(p) \/ Deliver(p)

\* What is settled without new refs: it keeps those it has, if any.
Unfinished(t) == IF phase[t] = "again" THEN "terminal" ELSE "bare"

\* A worker dies.  In an execution it leaves the lock behind, and the task
\* RUNNING, or settled without the refs that come after.
Dies(p) ==
    LET t == running[p] IN
    /\ at[p] # Ended
    /\ Move(p, 1)
    /\ \/ Crash(p) /\ UNCHANGED left
       \/ /\ pc[p] = "idle" /\ Fault
          /\ \/ step[p] # "execute" /\ UNCHANGED <<task, left>>
             \/ /\ step[p] = "execute" /\ left' = TRUE
                /\ \/ UNCHANGED task
                   \/ /\ task[t] = "open"
                      /\ task' = [task EXCEPT ![t] = Unfinished(t)]
          /\ UNCHANGED <<outcome, comments, pc, queue>>
    /\ UNCHANGED <<mail, phase>>

StartAgain(p) ==
    /\ at[p] = Ended
    /\ Move(p, 1)
    /\ UNCHANGED <<vars, mail, phase, left>>

----------------------------------------------------------------------------
(* Others.                                                                  *)

PostComment(s) ==
    /\ posted[s] < Len(mailbox[s])
    /\ posted' = [posted EXCEPT ![s] = @ + 1]
    /\ UNCHANGED <<vars, mailbox, origin, recorded, phase, left, tick>>

\* The tick of worker p begins with reconcile_running: it settles a RUNNING task
\* with no live child, its worker being dead or not yet that far.
Reconcile(p, t) ==
    /\ at[p] = 1 /\ step[p] = "first"
    /\ t \in DOMAIN origin /\ task[t] = "open"
    /\ phase[t] \in {"started", "again"}
    /\ task' = [task EXCEPT ![t] = Unfinished(t)]
    /\ UNCHANGED <<outcome, comments, pc, queue, faults, mail, phase, left, tick>>

\* A task is cancelled, whatever it is doing.  (One that was restarted loses its
\* refs, too: a publisher that has it in its list fails where it posts here.)
CancelTask(t) ==
    /\ t \in DOMAIN origin
    /\ \/ Cancel(t)
       \/ task[t] = "open" /\ task' = [task EXCEPT ![t] = "cancelled"] /\
            UNCHANGED <<outcome, comments, pc, queue, faults>>
    /\ UNCHANGED <<mail, phase, left, tick>>

WorkerNext ==
    \/ \E p \in Publishers :
          TickStep(p) \/ Executed(p) \/ Dies(p) \/ StartAgain(p)
    \/ \E p \in Publishers, t \in Tasks : Reconcile(p, t)
    \/ \E s \in Sources : PostComment(s)
    \/ \E t \in Tasks : CancelTask(t)

WorkerSpec == WorkerInit /\ [][WorkerNext]_allVars

\* The loop has no exit but the stop event, and a worker that ended is started
\* again; an executor need not return, and a dead task need not be settled.
FairWorkerSpec ==
    /\ WorkerSpec
    /\ \A p \in Publishers :
          WF_allVars(TickStep(p)) /\ WF_allVars(StartAgain(p))

----------------------------------------------------------------------------
PollSteps == {"create", "ready", "record"}

\* Every variable has its type; every task has a comment, none has two, and
\* only a comment with a task is recorded.
WorkerTypeOK ==
    /\ TypeOK
    /\ mailbox \in Mailboxes
    /\ \A s \in Sources : posted[s] \in 0 .. Len(mailbox[s])
    /\ IsInjective(origin)
    /\ ToSet(origin) \subseteq {c \in Sources \X Nat : c[2] \in 1 .. posted[c[1]]}
    /\ recorded \subseteq ToSet(origin)
    /\ phase \in [Tasks -> {"none", "queued", "ready", "started", "again"}]
    /\ left \in BOOLEAN
    /\ at \in [Publishers -> 1 .. Ended]
    /\ step \in [Publishers -> PollSteps \cup {"first", "start", "execute"}]
    /\ found \in [Publishers -> Nat]
    /\ running \in [Publishers -> Tasks \cup {NoTask}]
    /\ \A p \in Publishers :
          /\ pc[p] # "idle" => at[p] = DeliverStage
          /\ step[p] \in PollSteps => at[p] \in Sources
          /\ step[p] \in {"ready", "record"} => Taken(p) \in ToSet(origin)
          /\ step[p] \in {"start", "execute"} <=> running[p] # NoTask
          /\ running[p] # NoTask => at[p] = PickStage

\* The comment can be ingested: nothing before it in its own mailbox is
\* malformed, and nothing anywhere ends the worker.
Ingestible(c) ==
    /\ Comment(c) = "task"
    /\ \A i \in 1 .. c[2] - 1 : Comment(<<c[1], i>>) # "malformed"
    /\ \A s \in Sources : "foreign" \notin ToSet(mailbox[s])

\* The poll that made a task of the comment was given up before its record: its
\* worker died, or the task was cancelled at once.
Dropped(c) ==
    /\ c \in ToSet(origin) \ recorded
    /\ \A p \in Publishers : step[p] \in {"ready", "record"} => Taken(p) # c

\* Nothing more comes out of the mailbox before the comment.
Blocked(c) ==
    /\ c \notin ToSet(origin)
    /\ \E i \in 1 .. c[2] - 1 : Dropped(<<c[1], i>>)

\* Task t has no result to be published: it is cancelled, or recovery settled
\* it, or it is not run, as it was dropped while QUEUED, an older task that
\* cannot be run is READY, or a lock is left behind.
NoResult(t) ==
    \/ task[t] \in {"cancelled", "bare"}
    \/ task[t] = "open" /\
          \/ Dropped(origin[t]) /\ phase[t] = "queued"
          \/ \E u \in Ready : u < t /\ KindOf(u) = "stuck"
          \/ left

\* The result cannot be published, or waits behind 4 * Limit older ones, or
\* behind Limit that cannot.
Unpublished(t) ==
    LET older == {u \in 1 .. t - 1 : task[u] \in {"terminal", "bare"}} IN
    \/ t \in Silent \cup Unrenderable
    \/ Cardinality(older) >= 4 * Limit
    \/ Cardinality({u \in older : task[u] = "terminal" /\ u \in Unrenderable})
          >= Limit

Delivered(c) ==
    \E t \in DOMAIN origin : origin[t] = c /\ outcome[t] = "SUCCESS"

\* What the comment waits for, if it waits for ever: a mailbox that is blocked,
\* an executor that does not return, or one of the above.
Held(c) ==
    \/ Blocked(c)
    \/ \E q \in Publishers : step[q] = "execute"
    \/ \E t \in DOMAIN origin : origin[t] = c /\ (NoResult(t) \/ Unpublished(t))

Longest == Max({Len(m[s]) : m \in Mailboxes, s \in Sources})

\* From comment to comment: a posted task is executed, and its result is posted
\* and stays recorded as posted, or it is held for ever by one of the few things
\* named above; nothing that other mailboxes hold or fail to answer, no failed
\* post and no other death of a worker can do that.
PostedIsDelivered ==
    \A s \in Sources : \A i \in 1 .. Longest :
        <>[](posted[s] >= i /\ Ingestible(<<s, i>>))
            => []<>Delivered(<<s, i>>) \/ <>[]Held(<<s, i>>)
=============================================================================
