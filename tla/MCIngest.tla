------------------------------ MODULE MCIngest ------------------------------
(* An instance of Ingest for TLC: what the controller may write.            *)
EXTENDS Ingest

CONSTANTS t1, t2, e1, e2, b1, b2, w1, w2

TaskComment(t, e, b) == [kind |-> "task", task |-> t, event |-> e, body |-> b]
OtherComment(k) == [kind |-> k, task |-> t1, event |-> e1, body |-> b1]

\* One task under two events, one event for two tasks, and an orderly pair.
Anything ==
    {TaskComment(t1, e1, b1), TaskComment(t1, e2, b2), TaskComment(t2, e1, b1)}
        \cup {OtherComment(k) : k \in {"prose", "malformed", "foreign"}}

\* The body of the first task is changed, or another comment becomes it.
Corrected == {TaskComment(t1, e1, b2)}
=============================================================================
