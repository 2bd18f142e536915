---------------------------- MODULE MCWorkerLoop ----------------------------
(* Instances of WorkerLoop for TLC.                                         *)
EXTENDS WorkerLoop

CONSTANTS w1, w2

\* Two tasks beside a malformed comment, a task beside a stuck one, and one
\* beside a comment that ends the worker.
Mixed ==
    {<< <<"malformed", "task">>, <<"task", "task">> >>,
     << <<"stuck">>, <<"task">> >>,
     << <<"task">>, <<"foreign">> >>}
=============================================================================
