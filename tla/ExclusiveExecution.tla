------------------------- MODULE ExclusiveExecution -------------------------
(***************************************************************************)
(* What the bridge promises about local execution, without locks, files,    *)
(* runs or processes: tasks follow the legal status edges, at most one       *)
(* execution holds a checkout, a claim is never handed out twice, and a     *)
(* task starts to run, or is given its own verdict, only under a claim.     *)
(***************************************************************************)
EXTENDS Integers, FiniteSets, TaskState

CONSTANTS
    Tasks, Checkouts, Checkout, Claims,
    Startable  \* the statuses a task may be started from

VARIABLES
    status,  \* the public status of each task
    holder,  \* the claim inside each checkout: {} or a singleton
    spent    \* the claims ever handed out

vars == <<status, holder, spent>>

Init ==
    /\ status = [t \in Tasks |-> Absent]
    /\ holder = [c \in Checkouts |-> {}]
    /\ spent = {}

Create(t) ==
    /\ status[t] = Absent
    /\ status' = [status EXCEPT ![t] = "QUEUED"]
    /\ UNCHANGED <<holder, spent>>

Claim(c, k) ==
    /\ k \notin spent
    /\ spent' = spent \cup {k}
    /\ holder[c] = {}
    /\ holder' = [holder EXCEPT ![c] = {k}]
    /\ UNCHANGED status

\* The execution ends, or its process dies.
Drop(c) ==
    /\ UNCHANGED <<status, spent>>
    /\ holder' = [holder EXCEPT ![c] = {}]

\* Only the holder of its checkout starts a task.
Begin(t) ==
    /\ status[t] \in Startable
    /\ Legal(status[t], "RUNNING")
    /\ status' = [status EXCEPT ![t] = "RUNNING"]
    /\ holder[Checkout[t]] # {}
    /\ UNCHANGED <<holder, spent>>

\* Everything but a start: release to READY, a verdict, a recovery, a cancel.
Move(t) ==
    \E to \in {"READY", "CANCELLED"} \cup Deliverable :
        /\ Legal(status[t], to)
        /\ status' = [status EXCEPT ![t] = to]
        /\ UNCHANGED <<holder, spent>>

Next ==
    \/ \E t \in Tasks : Create(t) \/ Begin(t) \/ Move(t)
    \/ \E c \in Checkouts : Drop(c) \/ \E k \in Claims : Claim(c, k)

Spec == Init /\ [][Next]_vars
=============================================================================
