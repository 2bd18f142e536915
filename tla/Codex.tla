-------------------------------- MODULE Codex --------------------------------
(***************************************************************************)
(* executors/codex.py: one run of launch_codex_process.  The main thread    *)
(* writes the prompt, then polls its guards; the pump thread reads progress *)
(* lines; child and launcher are coupled by two pipes of finite capacity,   *)
(* and whoever writes to a full one blocks.                                 *)
(*                                                                          *)
(* The prompt is a number of units, a line is what _progress_from_line      *)
(* makes of it ("" for a line without progress), a timeout is over or not.  *)
(***************************************************************************)
EXTENDS Integers, Sequences, SequencesExt

CONSTANTS
    Prompt,         \* units of the prompt
    PipeCapacity,   \* units, or lines, that a pipe holds
    Progress,       \* progress texts of the child
    RepeatLimit,    \* repeated_progress_limit
    MayFail         \* whether the observer may raise and a stop may fail

Quiet == ""

ASSUME PipesAssumption == Prompt \in Nat /\ PipeCapacity \in Nat \ {0}
ASSUME LimitAssumption == RepeatLimit \in Nat \ {0}
ASSUME FailAssumption == MayFail \in BOOLEAN
ASSUME ProgressAssumption == Quiet \notin Progress

VARIABLES
    child,    \* "running", "exited" or "killed"
    exitCode, \* 0 or 1 once it exited
    message,  \* the status in the file of the last message, "none" if unusable
    unsent,   \* units of the prompt not yet written
    stdin,    \* units in its pipe
    stdout,   \* lines in its pipe
    pump,     \* where the pump thread is
    last, repeats,    \* progress_state
    wallUp, idleUp,   \* the timeouts are over
    main,     \* where launch_codex_process is; "returned" with an outcome,
              \* "raised" by its observer, "unstopped" after a stop that failed
    error,    \* the error_type it returns
    trail, looped     \* history: the last lines read, and whether they were equal

process == <<child, exitCode, message>>
pipes == <<unsent, stdin, stdout>>
progress == <<last, repeats, trail, looped>>
clock == <<wallUp, idleUp>>
vars == <<process, pipes, pump, progress, clock, main, error>>

Init ==
    /\ child = "running" /\ exitCode = 0 /\ message = "none"
    /\ unsent = Prompt /\ stdin = 0 /\ stdout = <<>>
    /\ pump = "none"
    /\ last = Quiet /\ repeats = 0 /\ trail = <<>> /\ looped = FALSE
    /\ wallUp = FALSE /\ idleUp = FALSE
    /\ main = "observe"
    /\ error = ""

----------------------------------------------------------------------------
(* The child.  It owes nothing: it may never read, write or exit.           *)

ReadStdin ==
    /\ child = "running" /\ stdin > 0
    /\ stdin' = stdin - 1
    /\ UNCHANGED <<process, unsent, stdout, pump, progress, clock, main, error>>

WriteLine ==
    /\ child = "running" /\ Len(stdout) < PipeCapacity
    /\ \E line \in Progress \cup {Quiet} : stdout' = Append(stdout, line)
    /\ UNCHANGED <<process, unsent, stdin, pump, progress, clock, main, error>>

Exit ==
    /\ child = "running"
    /\ child' = "exited"
    /\ exitCode' \in {0, 1}
    /\ message' \in {"none", "SUCCESS", "FAILED", "INTERRUPTED"}
    /\ UNCHANGED <<pipes, pump, progress, clock, main, error>>

\* cancel_active terminates the tree.
Cancelled ==
    /\ child = "running"
    /\ child' = "killed"
    /\ UNCHANGED <<exitCode, message, pipes, pump, progress, clock, main, error>>

----------------------------------------------------------------------------
(* Time, from execution_started on.                                         *)

Started == main \in {"wall", "progress", "wait"}

TimeOut ==
    /\ Started
    /\ wallUp' = TRUE
    /\ UNCHANGED <<idleUp, process, pipes, pump, progress, main, error>>

IdleTimeOut ==
    /\ Started
    /\ idleUp' = TRUE
    /\ UNCHANGED <<wallUp, process, pipes, pump, progress, main, error>>

----------------------------------------------------------------------------
(* The pump thread.                                                         *)

AllEqual(s) == \A i \in DOMAIN s : s[i] = s[1]

\* History: the last RepeatLimit lines with progress.
Remember(line) ==
    LET long == Append(trail, line) IN
    /\ trail' = IF Len(long) > RepeatLimit THEN Tail(long) ELSE long
    /\ looped' = (looped \/ (Len(trail') = RepeatLimit /\ AllEqual(trail')))

\* Mutant of Count: another line does not start the count again.
CountOn(line) ==
    /\ repeats' = IF repeats < RepeatLimit THEN repeats + 1 ELSE repeats
    /\ last' = line

\* The count matters up to the limit only.
Count(line) ==
    /\ repeats' = IF line # last THEN 1
                  ELSE IF repeats < RepeatLimit THEN repeats + 1 ELSE repeats
    /\ last' = line

PumpLine ==
    /\ pump = "read" /\ stdout # <<>>
    /\ stdout' = Tail(stdout)
    /\ LET line == Head(stdout) IN
       IF line = Quiet
       THEN UNCHANGED <<pump, progress, idleUp>>
       ELSE /\ Count(line) /\ Remember(line)
            /\ idleUp' = FALSE
            /\ pump' = "observe"
    /\ UNCHANGED <<wallUp, process, unsent, stdin, main, error>>

\* observer.on_progress; when it raises, the thread ends and nobody reads.
PumpObserve ==
    /\ pump = "observe"
    /\ \/ pump' = "read"
       \/ MayFail /\ pump' = "ended"
    /\ UNCHANGED <<process, pipes, progress, clock, main, error>>

PumpEof ==
    /\ pump = "read" /\ stdout = <<>> /\ child # "running"
    /\ pump' = "ended"
    /\ UNCHANGED <<process, pipes, progress, clock, main, error>>

PumpStep == PumpLine \/ PumpObserve \/ PumpEof

----------------------------------------------------------------------------
(* The main thread.                                                         *)

Main(here, there) ==
    /\ main = here /\ main' = there
    /\ UNCHANGED <<progress, clock>>

\* Mutant of Observe: the reader is started before the prompt is written.
ObserveAndRead ==
    /\ Main("observe", "stdin")
    /\ pump' = "read"
    /\ UNCHANGED <<process, pipes, error>>

\* observer.on_spawn; an exception leaves the function, and the child alone.
Observe ==
    /\ \/ Main("observe", "stdin")
       \/ MayFail /\ Main("observe", "raised")
    /\ UNCHANGED <<process, pipes, pump, error>>

\* process.stdin.write blocks while the pipe is full.
WriteStdin ==
    /\ main = "stdin" /\ unsent > 0
    /\ child = "running" /\ stdin < PipeCapacity
    /\ unsent' = unsent - 1 /\ stdin' = stdin + 1
    /\ UNCHANGED <<stdout, process, pump, progress, clock, main, error>>

\* The prompt is written; the clock and the pump start.
CloseStdin ==
    /\ Main("stdin", "wall")
    /\ unsent = 0
    /\ pump' = "read"
    /\ UNCHANGED <<process, pipes, error>>

\* The child closed its stdin or died: BrokenPipeError.
StdinFails ==
    /\ Main("stdin", "stop")
    /\ unsent > 0
    /\ error' = "stdin_error"
    /\ UNCHANGED <<process, pipes, pump>>

\* Mutant of CheckWall: no wall timeout, the idle guard is thought to do.
NoWall ==
    /\ Main("wall", "progress")
    /\ UNCHANGED <<process, pipes, pump, error>>

CheckWall ==
    /\ \/ wallUp /\ Main("wall", "stop") /\ error' = "wall_timeout"
       \/ ~ wallUp /\ Main("wall", "progress") /\ UNCHANGED error
    /\ UNCHANGED <<process, pipes, pump>>

\* Both are read under the lock of the pump.
CheckProgress ==
    /\ \/ idleUp /\ Main("progress", "stop") /\ error' = "idle_timeout"
       \/ /\ ~ idleUp /\ repeats >= RepeatLimit
          /\ Main("progress", "stop") /\ error' = "repeated_progress"
       \/ /\ ~ idleUp /\ repeats < RepeatLimit
          /\ Main("progress", "wait") /\ UNCHANGED error
    /\ UNCHANGED <<process, pipes, pump>>

\* process.wait returns the exit code, or times out after a quarter second.
Wait ==
    /\ \/ child # "running" /\ Main("wait", "judge")
       \/ child = "running" /\ Main("wait", "wall")
    /\ UNCHANGED <<process, pipes, pump, error>>

\* Mutant of Stop: only the reader is waited for.
StopNothing ==
    /\ Main("stop", "returned")
    /\ UNCHANGED <<process, pipes, pump, error>>

\* _terminate_process_tree; the join of the pump gives up after a second.  The
\* kill can fail: the answer of taskkill is ignored, the wait of five seconds
\* ends with one more kill that nobody confirms, and process.kill may raise.
Stop ==
    /\ \/ /\ Main("stop", "returned")
          /\ child' = IF child = "running" THEN "killed" ELSE child
       \/ /\ MayFail /\ child = "running" /\ Main("stop", "unstopped")
          /\ UNCHANGED child
    /\ UNCHANGED <<exitCode, message, pipes, pump, error>>

\* Mutant of Judge: the exit code is not looked at.
JudgeMessage ==
    /\ Main("judge", "returned")
    /\ error' = IF message = "none" THEN "invalid_result" ELSE ""
    /\ UNCHANGED <<process, pipes, pump>>

Judge ==
    /\ Main("judge", "returned")
    /\ error' = IF child = "killed" \/ exitCode # 0 THEN "nonzero_exit"
                ELSE IF message = "none" THEN "invalid_result" ELSE ""
    /\ UNCHANGED <<process, pipes, pump>>

MainRuns ==
    \/ Observe \/ WriteStdin \/ CloseStdin \/ CheckWall \/ CheckProgress
    \/ Wait \/ Stop \/ Judge

Next ==
    \/ ReadStdin \/ WriteLine \/ Exit \/ Cancelled \/ TimeOut \/ IdleTimeOut
    \/ PumpStep \/ MainRuns \/ StdinFails

Spec == Init /\ [][Next]_vars

\* Both threads are scheduled and the wall timeout passes.  The child owes
\* nothing; the pipe of a dead one breaks.
FairSpec ==
    /\ Spec
    /\ WF_vars(MainRuns \/ (StdinFails /\ child # "running"))
    /\ WF_vars(PumpStep) /\ WF_vars(TimeOut)

----------------------------------------------------------------------------
Guards == {"wall_timeout", "idle_timeout", "repeated_progress"}

Answered == main \in {"returned", "unstopped"}

Over == Answered \/ main = "raised"

Status == IF error \in Guards THEN "INTERRUPTED"
          ELSE IF error # "" THEN "FAILED" ELSE message

TypeOK ==
    /\ child \in {"running", "exited", "killed"}
    /\ exitCode \in {0, 1}
    /\ message \in {"none", "SUCCESS", "FAILED", "INTERRUPTED"}
    /\ unsent \in 0 .. Prompt
    /\ stdin \in 0 .. PipeCapacity
    /\ stdout \in BoundedSeq(Progress \cup {Quiet}, PipeCapacity)
    /\ pump \in {"none", "read", "observe", "ended"}
    /\ last \in Progress \cup {Quiet}
    /\ repeats \in 0 .. RepeatLimit
    /\ wallUp \in BOOLEAN /\ idleUp \in BOOLEAN /\ looped \in BOOLEAN
    /\ main \in {"observe", "stdin", "wall", "progress", "wait", "stop",
                 "judge", "returned", "raised", "unstopped"}
    /\ error \in Guards \cup {"", "stdin_error", "nonzero_exit", "invalid_result"}
    /\ trail \in BoundedSeq(Progress, RepeatLimit)
    /\ (pump = "none") <=>
          (main \in {"observe", "stdin", "raised"} \/ error = "stdin_error")

\* The launch leaves a running child only when its observer raised or when a
\* stop failed, and after such a stop the outcome is that of the guard or of the
\* broken pipe: no child that is judged, by its exit code or by its last message,
\* is left running.
ChildGone ==
    /\ main = "returned" => child # "running"
    /\ main = "unstopped" => error \in Guards \cup {"stdin_error"}

\* A SUCCESS is the child's own verdict: it was sent the whole prompt, exited
\* with 0 without being killed, and its last message says so.
SuccessIsWhole ==
    Answered /\ Status = "SUCCESS" =>
        /\ unsent = 0
        /\ child = "exited" /\ exitCode = 0 /\ message = "SUCCESS"

\* A child is interrupted for repeated progress only when the last RepeatLimit
\* lines of progress were the same at some time.
RepeatedMeansLooping == error = "repeated_progress" => looped

\* The wall timeout ends the launch, also when the pump thread has died, the
\* child is stuck on a full pipe or a stop fails, but it counts from the end of
\* the prompt only: a running child that does not read its prompt holds the
\* launch for ever, against docs/executors.md:30.  Nothing else does, in
\* particular no child that died before it read the prompt.
OnlyThePromptHolds ==
    \/ <>Over
    \/ <>[](main = "stdin" /\ stdin = PipeCapacity /\ child = "running")
=============================================================================
