-------------------------- MODULE CommandExecutor --------------------------
(***************************************************************************)
(* executors/command.py: one run of a recipe.  Two threads and a child: the *)
(* main loop polls three conditions, the pump thread counts what the child  *)
(* writes, and neither holds a lock.                                        *)
(*                                                                          *)
(* A kill takes effect at once, or not at all; what the child writes is a     *)
(* number of units.                                                         *)
(***************************************************************************)
EXTENDS Integers

CONSTANTS
    MaxOutputBytes,  \* recipe.max_output_bytes
    MaxWritten,      \* bound on what the child writes
    MayFail          \* whether reads, the observer and stops may fail

ASSUME OutputAssumption ==
    MaxOutputBytes \in Nat \ {0} /\ MaxWritten \in Nat
ASSUME FailAssumption == MayFail \in BOOLEAN

VARIABLES
    child,     \* "running", "exited" or "killed"
    exitCode,  \* 0 or 1 once it exited
    held,      \* a descendant of the child keeps its stdout open
    written,   \* what the child has written
    count,     \* what the pump has read
    exceeded, drained, readFailed,  \* the three events
    pump,      \* where the pump thread is
    main,      \* where execute is
    error,     \* its local variable
    timeUp     \* recipe.timeout_seconds are over

events == <<exceeded, drained, readFailed>>
vars == <<child, exitCode, held, written, count, events, pump, main, error,
          timeUp>>

Init ==
    /\ child = "running" /\ exitCode = 0 /\ held \in BOOLEAN
    /\ written = 0 /\ count = 0
    /\ exceeded = FALSE /\ drained = FALSE /\ readFailed = FALSE
    /\ pump = "read"
    /\ main = "observe"
    /\ error = ""
    /\ timeUp = FALSE

----------------------------------------------------------------------------
(* The child, its descendant and the clock.                                 *)

Write ==
    /\ child = "running" /\ written < MaxWritten
    /\ written' = written + 1
    /\ UNCHANGED <<child, exitCode, held, count, events, pump, main, error,
                   timeUp>>

Exit ==
    /\ child = "running"
    /\ child' = "exited"
    /\ exitCode' \in {0, 1}
    /\ UNCHANGED <<held, written, count, events, pump, main, error, timeUp>>

LetGo ==
    /\ held /\ held' = FALSE
    /\ UNCHANGED <<child, exitCode, written, count, events, pump, main, error,
                   timeUp>>

TimeOut ==
    /\ ~ timeUp /\ timeUp' = TRUE
    /\ UNCHANGED <<child, exitCode, held, written, count, events, pump, main,
                   error>>

----------------------------------------------------------------------------
(* The pump thread.                                                         *)

\* Mutant of PumpRead: a read is not cut at the limit.
PumpReadUncapped ==
    /\ pump = "read"
    /\ \E n \in 1 .. MaxWritten : n <= written - count /\ count' = count + n
    /\ pump' = "check"
    /\ UNCHANGED <<child, exitCode, held, written, events, main, error, timeUp>>

\* read(min(4096, max_output_bytes + 1 - count)) returns some of what is there.
PumpRead ==
    /\ pump = "read"
    /\ \E n \in 1 .. MaxOutputBytes + 1 :
        /\ n <= MaxOutputBytes + 1 - count /\ n <= written - count
        /\ count' = count + n
    /\ pump' = "check"
    /\ UNCHANGED <<child, exitCode, held, written, events, main, error, timeUp>>

\* Mutant of PumpCheck: the limit itself is an excess.
PumpCheckStrict ==
    /\ pump = "check"
    /\ exceeded' = (count >= MaxOutputBytes)
    /\ pump' = IF count > MaxOutputBytes THEN "close" ELSE "read"
    /\ UNCHANGED <<child, exitCode, held, written, count, drained, readFailed,
                   main, error, timeUp>>

PumpCheck ==
    /\ pump = "check"
    /\ IF count > MaxOutputBytes
       THEN exceeded' = TRUE /\ pump' = "close"
       ELSE pump' = "read" /\ UNCHANGED exceeded
    /\ UNCHANGED <<child, exitCode, held, written, count, drained, readFailed,
                   main, error, timeUp>>

\* Everybody who could write has closed the pipe, and it is empty.
PumpEof ==
    /\ pump = "read"
    /\ child # "running" /\ ~ held /\ count = written
    /\ pump' = "close"
    /\ UNCHANGED <<child, exitCode, held, written, count, events, main, error,
                   timeUp>>

PumpFails ==
    /\ pump = "read" /\ MayFail
    /\ readFailed' = TRUE
    /\ pump' = "close"
    /\ UNCHANGED <<child, exitCode, held, written, count, exceeded, drained,
                   main, error, timeUp>>

\* The "finally" of the pump.
PumpClose ==
    /\ pump = "close"
    /\ drained' = TRUE
    /\ pump' = "done"
    /\ UNCHANGED <<child, exitCode, held, written, count, exceeded, readFailed,
                   main, error, timeUp>>

PumpStep == PumpRead \/ PumpCheck \/ PumpEof \/ PumpFails \/ PumpClose

----------------------------------------------------------------------------
(* The main thread.                                                         *)

Main(here, there) ==
    /\ main = here /\ main' = there
    /\ UNCHANGED <<written, count, events, pump, timeUp>>

Observe ==
    /\ \/ Main("observe", "limit") /\ UNCHANGED error
       \/ MayFail /\ Main("observe", "cleanup") /\ error' = "observer_error"
    /\ UNCHANGED <<child, exitCode, held>>

CheckLimit ==
    /\ \/ exceeded /\ Main("limit", "stop") /\ error' = "output_limit"
       \/ ~ exceeded /\ Main("limit", "finished") /\ UNCHANGED error
    /\ UNCHANGED <<child, exitCode, held>>

\* Mutant of CheckFinished: the exit of the child is enough.
CheckExitedOnly ==
    /\ \/ child # "running" /\ Main("finished", "wait")
       \/ child = "running" /\ Main("finished", "time")
    /\ UNCHANGED <<child, exitCode, held, error>>

CheckFinished ==
    /\ \/ child # "running" /\ drained /\ Main("finished", "wait")
       \/ ~ (child # "running" /\ drained) /\ Main("finished", "time")
    /\ UNCHANGED <<child, exitCode, held, error>>

\* Mutant of CheckTime: the loop has no deadline.
NoDeadline ==
    /\ Main("time", "limit")
    /\ UNCHANGED <<child, exitCode, held, error>>

CheckTime ==
    /\ \/ timeUp /\ Main("time", "stop") /\ error' = "wall_timeout"
       \/ ~ timeUp /\ Main("time", "limit") /\ UNCHANGED error
    /\ UNCHANGED <<child, exitCode, held>>

\* On POSIX the whole process group dies; taskkill is not tried on a child that
\* has exited, so that its descendants live on.
Kill ==
    /\ child' = IF child = "running" THEN "killed" ELSE child
    /\ held' \in IF child = "running" THEN {FALSE} ELSE {held, FALSE}
    /\ UNCHANGED exitCode

\* stop raises: the group may not be signalled, or the child is still there
\* after five seconds.
KillFails ==
    /\ MayFail
    /\ UNCHANGED <<child, held, exitCode>>

Stop ==
    \/ Main("stop", "wait") /\ Kill /\ UNCHANGED error
    \/ Main("stop", "cleanup") /\ KillFails /\ error' = "process_error"

\* The exit status of the child decides only when nothing else has.
Wait ==
    /\ Main("wait", "cleanup")
    /\ child # "running"
    /\ error' = IF error # "" THEN error
                ELSE IF readFailed THEN "process_error"
                ELSE IF child = "killed" \/ exitCode # 0 THEN "nonzero_exit"
                ELSE ""
    /\ UNCHANGED <<child, exitCode, held>>

\* Mutant of Cleanup: the "finally" stops nothing.
CleanupNothing ==
    /\ Main("cleanup", "returned")
    /\ UNCHANGED <<child, exitCode, held, error>>

\* The "finally" of execute; the join of the pump gives up after a second.
Cleanup ==
    /\ Main("cleanup", "returned")
    /\ \/ Kill /\ UNCHANGED error
       \/ KillFails /\ error' = "cleanup_error"

MainStep ==
    Observe \/ CheckLimit \/ CheckFinished \/ CheckTime \/ Stop \/ Wait \/ Cleanup

Next == Write \/ Exit \/ LetGo \/ TimeOut \/ PumpStep \/ MainStep

Spec == Init /\ [][Next]_vars

\* Both threads are scheduled, and time passes.  The child owes nothing.
FairSpec ==
    Spec /\ WF_vars(MainStep) /\ WF_vars(PumpStep) /\ WF_vars(TimeOut)

----------------------------------------------------------------------------
Status == IF error = "wall_timeout" THEN "INTERRUPTED"
          ELSE IF error # "" THEN "FAILED" ELSE "SUCCESS"

Succeeded == main = "returned" /\ Status = "SUCCESS"

TypeOK ==
    /\ child \in {"running", "exited", "killed"}
    /\ exitCode \in {0, 1}
    /\ written \in 0 .. MaxWritten
    /\ count \in 0 .. MaxOutputBytes + 1
    /\ held \in BOOLEAN /\ timeUp \in BOOLEAN
    /\ exceeded \in BOOLEAN /\ drained \in BOOLEAN /\ readFailed \in BOOLEAN
    /\ pump \in {"read", "check", "close", "done"}
    /\ main \in {"observe", "limit", "finished", "time", "stop", "wait",
                 "cleanup", "returned"}
    /\ error \in {"", "output_limit", "wall_timeout", "observer_error",
                  "process_error", "nonzero_exit", "cleanup_error"}

\* The child may outlive execute, but never unsaid: a SUCCESS, a timeout, an
\* overflow, a failed read or observer, also one whose first stop failed, is
\* returned when the child is gone.
ChildGone ==
    main = "returned" /\ error # "cleanup_error" => child # "running"

\* A SUCCESS is the verdict on a child that exited with 0, and whose output was
\* read to its end or to the limit: nothing it wrote went uncounted below it.
SuccessIsWhole ==
    Succeeded =>
        /\ child = "exited" /\ exitCode = 0 /\ ~ readFailed
        /\ count = written \/ count > MaxOutputBytes

\* Only a child that wrote more than the limit is failed for it.
LimitIsInclusive ==
    main = "returned" /\ error = "output_limit" => written > MaxOutputBytes

\* Output overflow fails.
OverflowFails == Succeeded => count <= MaxOutputBytes

\* execute returns, whatever the child and its descendants do.
Returns == <>(main = "returned")
=============================================================================
