------------------------------ MODULE Delivery ------------------------------
(***************************************************************************)
(* Delivery of results: worker._pending_delivery_tasks picks tasks whose    *)
(* result is on disk, github_transport.publish_result posts each as a       *)
(* comment and records the outcome.  The post and the record are two steps; *)
(* a worker may die between them and a response may get lost.               *)
(*                                                                          *)
(* Tasks are numbered in the order of their creation, the order in which    *)
(* list_tasks returns them.                                                 *)
(***************************************************************************)
EXTENDS Integers, FiniteSets, FiniteSetsExt

CONSTANTS
    Publishers,   \* worker processes
    N,            \* number of tasks
    Silent,       \* tasks with no delivery row (submitted locally): terminal,
                  \* never pending
    Unrenderable, \* tasks whose comment would be too large
    Limit,        \* max_deliveries_per_tick
    MaxFaults     \* bound on crashes, lost responses and failed posts

Tasks == 1 .. N

ASSUME TasksAssumption ==
    N \in Nat /\ Silent \subseteq Tasks /\ Unrenderable \subseteq Tasks
ASSUME BoundsAssumption == Limit \in Nat \ {0} /\ MaxFaults \in Nat
ASSUME PublishersAssumption == IsFiniteSet(Publishers)

VARIABLES
    task,      \* "open", "terminal" with its refs set, "bare" (terminal, its
               \* refs empty: settled by recovery), or "cancelled"
    outcome,   \* transport_deliveries.outcome
    comments,  \* comments with its result on the target issue
    pc, queue, \* where each publisher is; the tasks it has still to publish,
               \* which it takes in the order of their numbers
    faults

vars == <<task, outcome, comments, pc, queue, faults>>

Init ==
    /\ task = [t \in Tasks |-> "open"]
    /\ outcome = [t \in Tasks |-> "PENDING"]
    /\ comments = [t \in Tasks |-> 0]
    /\ pc = [p \in Publishers |-> "idle"]
    /\ queue = [p \in Publishers |-> {}]
    /\ faults = 0

----------------------------------------------------------------------------
(* worker._pending_delivery_tasks.                                          *)

\* The first n of a set of tasks, in the order of their creation.
FirstOf(S, n) == {t \in S : Cardinality({u \in S : u < t}) < n}

Candidates == FirstOf({t \in Tasks : task[t] \in {"terminal", "bare"}}, 4 * Limit)

Pending ==
    FirstOf({t \in Candidates : /\ task[t] = "terminal" /\ t \notin Silent
                               /\ outcome[t] # "SUCCESS"},
            Limit)

Collect(p) ==
    /\ pc[p] = "idle"
    /\ queue' = [queue EXCEPT ![p] = Pending]
    /\ pc' = [pc EXCEPT ![p] = "next"]
    /\ UNCHANGED <<task, outcome, comments, faults>>

Done(p) ==
    /\ pc[p] = "next" /\ queue[p] = {}
    /\ pc' = [pc EXCEPT ![p] = "idle"]
    /\ UNCHANGED <<task, outcome, comments, queue, faults>>

----------------------------------------------------------------------------
(* github_transport.publish_result.                                         *)

Goto(p, there) == pc' = [pc EXCEPT ![p] = there] /\ UNCHANGED queue

\* The task that publisher p is at.
Current(p) == Min(queue[p])

\* On to the next task of the tick; a GitHubTransportError is noted there.
Leave(p) ==
    /\ pc' = [pc EXCEPT ![p] = "next"]
    /\ queue' = [queue EXCEPT ![p] = @ \ {Current(p)}]

Fault == faults < MaxFaults /\ faults' = faults + 1

\* Mutant of Begin: the row is not read again.
BeginUnread(p) ==
    /\ pc[p] = "next" /\ queue[p] # {}
    /\ IF Current(p) \in Unrenderable THEN Leave(p) ELSE Goto(p, "post")
    /\ UNCHANGED <<task, outcome, comments, faults>>

\* The delivery row is read again; a comment that cannot be rendered raises
\* before anything is posted or recorded.
Begin(p) ==
    /\ pc[p] = "next" /\ queue[p] # {}
    /\ IF outcome[Current(p)] = "SUCCESS" \/ Current(p) \in Unrenderable
       THEN Leave(p) ELSE Goto(p, "post")
    /\ UNCHANGED <<task, outcome, comments, faults>>

\* gh posts the comment, and answers with its id.
Post(p) ==
    /\ pc[p] = "post"
    /\ comments' = [comments EXCEPT ![Current(p)] = @ + 1]
    /\ Goto(p, "posted")
    /\ UNCHANGED <<task, outcome, faults>>

\* gh fails, times out or answers nonsense; the comment may be there or not.
PostFails(p) ==
    /\ pc[p] = "post"
    /\ Fault
    /\ \E n \in {0, 1} : comments' = [comments EXCEPT ![Current(p)] = @ + n]
    /\ Goto(p, "failed")
    /\ UNCHANGED <<task, outcome>>

\* Mutant of RecordSuccess: the row is not updated.
RecordNothing(p) ==
    /\ pc[p] = "posted"
    /\ Leave(p)
    /\ UNCHANGED <<task, outcome, comments, faults>>

RecordSuccess(p) ==
    /\ pc[p] = "posted"
    /\ outcome' = [outcome EXCEPT ![Current(p)] = "SUCCESS"]
    /\ Leave(p)
    /\ UNCHANGED <<task, comments, faults>>

\* Mutant of RecordFailed: the error path records the wrong outcome.
RecordFailedAsSuccess(p) ==
    /\ pc[p] = "failed"
    /\ outcome' = [outcome EXCEPT ![Current(p)] = "SUCCESS"]
    /\ Leave(p)
    /\ UNCHANGED <<task, comments, faults>>

\* Whatever the row held is overwritten.
RecordFailed(p) ==
    /\ pc[p] = "failed"
    /\ outcome' = [outcome EXCEPT ![Current(p)] = "FAILED"]
    /\ Leave(p)
    /\ UNCHANGED <<task, comments, faults>>

\* The worker dies, and a new one starts with a new tick.
Crash(p) ==
    /\ pc[p] # "idle"
    /\ Fault
    /\ pc' = [pc EXCEPT ![p] = "idle"]
    /\ queue' = [queue EXCEPT ![p] = {}]
    /\ UNCHANGED <<task, outcome, comments>>

Publish(p) ==
    \/ Collect(p) \/ Done(p) \/ Begin(p) \/ Post(p) \/ PostFails(p)
    \/ RecordSuccess(p) \/ RecordFailed(p)

----------------------------------------------------------------------------
(* The execution coordinator settles a task, or recovery does for a dead     *)
(* one; a settled one may be cancelled, which leaves its refs and files     *)
(* alone.                                                                   *)

Settle(t) ==
    /\ task[t] = "open"
    /\ \E s \in {"terminal", "bare"} : task' = [task EXCEPT ![t] = s]
    /\ UNCHANGED <<outcome, comments, pc, queue, faults>>

Cancel(t) ==
    /\ task[t] \in {"terminal", "bare"}
    /\ task' = [task EXCEPT ![t] = "cancelled"]
    /\ UNCHANGED <<outcome, comments, pc, queue, faults>>

Next ==
    \/ \E p \in Publishers : Publish(p) \/ Crash(p)
    \/ \E t \in Tasks : Settle(t) \/ Cancel(t)

Spec == Init /\ [][Next]_vars

\* The worker's loop keeps ticking; gh and the network recover in the end, as
\* faults are finitely many.
FairSpec == Spec /\ \A p \in Publishers : WF_vars(Publish(p))

----------------------------------------------------------------------------
TypeOK ==
    /\ task \in [Tasks -> {"open", "terminal", "bare", "cancelled"}]
    /\ outcome \in [Tasks -> {"PENDING", "FAILED", "SUCCESS"}]
    /\ comments \in [Tasks -> Nat]
    /\ pc \in [Publishers -> {"idle", "next", "post", "posted", "failed"}]
    /\ queue \in [Publishers -> SUBSET Tasks]
    /\ \A p \in Publishers :
          pc[p] \in {"post", "posted", "failed"} => queue[p] # {}
    /\ faults \in 0 .. MaxFaults

\* A delivery recorded as SUCCESS has a comment on the issue.
SuccessWasPosted == \A t \in Tasks : outcome[t] = "SUCCESS" => comments[t] > 0

\* A result is posted again only because of a fault or of another worker: every
\* worker posts it once, and once more for each crash or failed call of any.
DuplicatesExplained ==
    \A t \in Tasks : comments[t] <= Cardinality(Publishers) * (1 + faults)

Unattended(t) ==
    \A p \in Publishers :
        pc[p] \in {"post", "posted", "failed"} => Current(p) # t

\* Once a delivery is recorded as SUCCESS and no worker is between its look at
\* the row and its own record, none gets there again, although a worker may
\* still have the task in its queue: no comment follows and the record stays.
DeliveredOnce ==
    [][\A t \in Tasks :
         outcome[t] = "SUCCESS" /\ Unattended(t) =>
             /\ outcome'[t] = "SUCCESS" /\ comments'[t] = comments[t]
             /\ Unattended(t)']_vars

\* Every result that stays deliverable is delivered.
EventuallyDelivered ==
    \A t \in Tasks \ (Silent \cup Unrenderable) :
        task[t] = "terminal" ~> outcome[t] = "SUCCESS" \/ task[t] = "cancelled"
=============================================================================
