----------------------------- MODULE CodexProofs -----------------------------
(***************************************************************************)
(* Safety of Codex, for any prompt, pipes, progress texts and limit.        *)
(*                                                                          *)
(* The lines that were read, the pipes and the way of the main thread are   *)
(* reasoned about apart.                                                    *)
(***************************************************************************)
EXTENDS Codex, SequenceTheorems, TLAPS

Lines == Progress \cup {Quiet}

\* The pipes.
Piped ==
    /\ unsent \in 0 .. Prompt
    /\ stdin \in 0 .. PipeCapacity
    /\ stdout \in Seq(Lines) /\ Len(stdout) <= PipeCapacity

\* The last "repeats" lines of the trail are the last line.
Trailed ==
    /\ last \in Lines
    /\ repeats \in 0 .. RepeatLimit
    /\ trail \in Seq(Progress) /\ Len(trail) <= RepeatLimit
    /\ repeats <= Len(trail)
    /\ \A i \in 1 .. Len(trail) : i + repeats > Len(trail) => trail[i] = last

AtLimit == repeats >= RepeatLimit

\* A count at the limit was seen, and so was one that a run was ended for.
Looped ==
    /\ AtLimit => looped
    /\ RepeatedMeansLooping

Flags == wallUp \in BOOLEAN /\ idleUp \in BOOLEAN /\ looped \in BOOLEAN

Typed ==
    /\ child \in {"running", "exited", "killed"}
    /\ exitCode \in {0, 1}
    /\ message \in {"none", "SUCCESS", "FAILED", "INTERRUPTED"}
    /\ pump \in {"none", "read", "observe", "ended"}
    /\ main \in {"observe", "stdin", "wall", "progress", "wait", "stop",
                 "judge", "returned", "raised", "unstopped"}
    /\ error \in Guards \cup {"", "stdin_error", "nonzero_exit", "invalid_result"}

\* The way of the main thread: an error is there from "stop" on; the prompt is
\* sent when the pump has started; the child is gone when it is judged.
Decided ==
    /\ main \notin {"stop", "returned", "unstopped"} => error = ""
    /\ main \in {"stop", "unstopped"} =>
          error \in Guards \cup {"stdin_error"}
    /\ main \in {"wall", "progress", "wait", "judge"} => unsent = 0
    /\ main \in {"judge", "returned"} => child # "running"
    /\ main = "returned" /\ error = "" =>
          unsent = 0 /\ child = "exited" /\ exitCode = 0
    /\ (pump = "none") <=>
          (main \in {"observe", "stdin", "raised"} \/ error = "stdin_error")

Launched == Piped /\ Trailed /\ Flags /\ Typed /\ Decided /\ Looped

----------------------------------------------------------------------------
(* The trail.                                                               *)

LEMMA Bounded ==
    ASSUME NEW S, NEW n \in Nat, NEW s
    PROVE  s \in BoundedSeq(S, n) <=> s \in Seq(S) /\ Len(s) <= n
<1>1. ASSUME s \in BoundedSeq(S, n) PROVE s \in Seq(S) /\ Len(s) <= n
  <2>1. PICK m \in 0 .. n : s \in [1 .. m -> S]
    BY <1>1 DEF BoundedSeq, SeqOf
  <2> QED
    BY <2>1
<1>2. ASSUME s \in Seq(S), Len(s) <= n PROVE s \in BoundedSeq(S, n)
  <2>1. s \in [1 .. Len(s) -> S] /\ Len(s) \in 0 .. n
    BY <1>2
  <2> QED
    BY <2>1 DEF BoundedSeq, SeqOf
<1> QED
  BY <1>1, <1>2

LEMMA Shifted ==
    \A i, n, r, s \in Nat :
        /\ s <= r + 1 /\ i + s > n + 1 => i + r > n
        /\ i + s > n => (i + 1) + s > n + 1
        /\ r <= s /\ s <= n /\ r >= n => r = n /\ s = n
OBVIOUS

\* One line more, with the oldest one dropped where there are enough.
Longer(line) ==
    LET long == Append(trail, line) IN
    IF Len(long) > RepeatLimit THEN Tail(long) ELSE long

LEMMA TrailGrows ==
    ASSUME Trailed, NEW line \in Progress, trail' = Longer(line), Count(line)
    PROVE  /\ Trailed'
           /\ AtLimit' => Len(trail') = RepeatLimit /\ AllEqual(trail')
<1> DEFINE long == Append(trail, line)
           n == Len(trail)
<1>1. /\ long \in Seq(Progress) /\ Len(long) = n + 1
      /\ long[n + 1] = line /\ \A i \in 1 .. n : long[i] = trail[i]
  BY DEF Trailed
<1>2. trail' = IF Len(long) > RepeatLimit THEN Tail(long) ELSE long
  BY DEF Longer
<1>3. /\ n \in Nat /\ n <= RepeatLimit
      /\ repeats \in Nat /\ repeats <= n /\ repeats <= RepeatLimit
  BY LimitAssumption DEF Trailed
<1>4. \A i \in 1 .. n : i + repeats > n => trail[i] = last
  BY DEF Trailed
<1>5. RepeatLimit \in Nat /\ RepeatLimit >= 1
  BY LimitAssumption
<1> HIDE DEF long, n
<1>6. /\ last' = line
      /\ repeats' = IF line # last THEN 1
                    ELSE IF repeats < RepeatLimit THEN repeats + 1 ELSE repeats
  BY DEF Count
<1>7. /\ repeats' \in Nat /\ repeats' >= 1 /\ repeats' <= RepeatLimit
      /\ repeats' <= n + 1 /\ repeats' <= repeats + 1
  BY <1>3, <1>5, <1>6
<1>8. line # last => repeats' = 1
  BY <1>6
<1>9. ASSUME NEW i \in Nat, i >= 1, i <= n + 1, i + repeats' > n + 1
      PROVE  long[i] = line
  <2>1. CASE i = n + 1
    BY <1>1, <2>1
  <2>2. CASE i # n + 1
    <3>1. i \in 1 .. n
      BY <1>3, <1>9, <2>2
    <3>2. repeats' # 1
      BY <1>3, <1>9, <2>2
    <3>3. line = last
      BY <1>8, <3>2
    <3>4. i + repeats > n
      BY <1>3, <1>7, <1>9, Shifted
    <3> QED
      BY <1>4, <1>1, <3>1, <3>3, <3>4
  <2> QED
    BY <2>1, <2>2
<1>10. last' \in Lines
  BY <1>6 DEF Lines
<1>11. ASSUME n < RepeatLimit PROVE Trailed'
  <2>1. trail' = long
    BY <1>1, <1>2, <1>3, <1>5, <1>11
  <2>2. trail' \in Seq(Progress) /\ Len(trail') = n + 1
    BY <1>1, <2>1
  <2>3. Len(trail') <= RepeatLimit /\ repeats' <= Len(trail')
    BY <1>3, <1>5, <1>7, <1>11, <2>2
  <2>4. ASSUME NEW i \in 1 .. Len(trail'), i + repeats' > Len(trail')
        PROVE  trail'[i] = last'
    <3>1. i \in Nat /\ i >= 1 /\ i <= n + 1 /\ i + repeats' > n + 1
      BY <1>3, <2>2, <2>4
    <3> QED
      BY <1>6, <1>9, <2>1, <3>1
  <2>5. repeats' \in 0 .. RepeatLimit
    BY <1>5, <1>7
  <2> QED
    BY <1>10, <2>2, <2>3, <2>4, <2>5, Zenon DEF Trailed
<1>12. ASSUME n = RepeatLimit PROVE Trailed'
  <2>1. trail' = Tail(long)
    BY <1>1, <1>2, <1>5, <1>12
  <2>2. /\ trail' \in Seq(Progress) /\ Len(trail') = Len(long) - 1
        /\ \A i \in 1 .. Len(trail') : trail'[i] = long[i + 1]
    <3>1. long # <<>>
      BY <1>1, <1>3
    <3> QED
      BY <1>1, <2>1, <3>1, HeadTailProperties
  <2>3. Len(trail') = n
    BY <1>1, <1>3, <2>2
  <2>4. Len(trail') <= RepeatLimit /\ repeats' <= Len(trail')
    BY <1>3, <1>5, <1>7, <1>12, <2>3
  <2>5. ASSUME NEW i \in 1 .. Len(trail'), i + repeats' > Len(trail')
        PROVE  trail'[i] = last'
    <3>1. i + 1 \in Nat /\ i + 1 >= 1 /\ i + 1 <= n + 1
          /\ (i + 1) + repeats' > n + 1
      <4>1. i \in Nat /\ i >= 1 /\ i <= n /\ i + repeats' > n
        BY <1>3, <2>3, <2>5
      <4>2. (i + 1) + repeats' > n + 1
        BY <1>3, <1>7, <4>1, Shifted
      <4>3. i + 1 \in Nat /\ i + 1 >= 1 /\ i + 1 <= n + 1
        BY <1>3, <4>1
      <4> QED
        BY <4>2, <4>3
    <3>2. long[i + 1] = line
      BY <1>9, <3>1
    <3> QED
      BY <1>6, <2>2, <3>2
  <2>6. repeats' \in 0 .. RepeatLimit
    BY <1>5, <1>7
  <2> QED
    BY <1>10, <2>2, <2>4, <2>5, <2>6, Zenon DEF Trailed
<1>13. Trailed'
  BY <1>3, <1>5, <1>11, <1>12
<1>14. ASSUME AtLimit'
       PROVE  Len(trail') = RepeatLimit /\ AllEqual(trail')
  <2>1. /\ Len(trail') \in Nat /\ Len(trail') <= RepeatLimit
        /\ repeats' <= Len(trail') /\ repeats' >= RepeatLimit
        /\ DOMAIN trail' = 1 .. Len(trail')
    BY <1>13, <1>14 DEF AtLimit, Trailed
  <2>2. Len(trail') = RepeatLimit /\ repeats' = RepeatLimit
    BY <1>5, <1>7, <2>1, Shifted
  <2>3. \A i \in 1 .. RepeatLimit : trail'[i] = last'
    <3>1. \A i \in 1 .. RepeatLimit : i + repeats' > RepeatLimit
      BY <1>5, <2>2
    <3> QED
      BY <1>13, <2>2, <3>1 DEF Trailed
  <2> QED
    BY <1>5, <2>1, <2>2, <2>3 DEF AllEqual
<1> QED
  BY <1>13, <1>14

----------------------------------------------------------------------------
(* The pipes, the trail and the flags, action by action.                    *)

Sending == \/ ReadStdin \/ WriteLine \/ WriteStdin \/ PumpLine

Others ==
    \/ Exit \/ Cancelled \/ TimeOut \/ IdleTimeOut \/ PumpObserve \/ PumpEof
    \/ Observe \/ CloseStdin \/ CheckWall \/ CheckProgress \/ Wait \/ Stop \/ Judge
    \/ StdinFails

LEMMA PipesStep ==
    ASSUME Piped, Next
    PROVE  Piped' /\ (unsent = 0 => unsent' = 0)
<1>1. CASE ReadStdin
  <2>1. stdin > 0 /\ stdin' = stdin - 1 /\ unsent' = unsent /\ stdout' = stdout
    BY <1>1 DEF ReadStdin
  <2> QED
    BY <2>1, PipesAssumption DEF Piped
<1>2. CASE WriteLine
  <2>1. PICK line \in Lines : stdout' = Append(stdout, line)
    BY <1>2 DEF WriteLine, Lines
  <2>2. Len(stdout) < PipeCapacity /\ unsent' = unsent /\ stdin' = stdin
    BY <1>2 DEF WriteLine
  <2> QED
    BY <2>1, <2>2, PipesAssumption DEF Piped
<1>3. CASE WriteStdin
  <2>1. /\ unsent > 0 /\ stdin < PipeCapacity
        /\ unsent' = unsent - 1 /\ stdin' = stdin + 1 /\ stdout' = stdout
    BY <1>3 DEF WriteStdin
  <2> QED
    BY <2>1, PipesAssumption DEF Piped
<1>4. CASE PumpLine
  <2>1. stdout # <<>> /\ stdout' = Tail(stdout) /\ unsent' = unsent /\ stdin' = stdin
    BY <1>4 DEF PumpLine
  <2>2. stdout' \in Seq(Lines) /\ Len(stdout') = Len(stdout) - 1
    BY <2>1, HeadTailProperties DEF Piped
  <2> QED
    BY <2>1, <2>2, PipesAssumption DEF Piped
<1>5. CASE Others
  <2>1. UNCHANGED <<unsent, stdin, stdout>>
    BY <1>5 DEF Others, pipes, Exit, Cancelled, TimeOut, IdleTimeOut, PumpObserve,
          PumpEof, Observe, CloseStdin, CheckWall, CheckProgress, Wait, Stop, Judge,
          StdinFails
  <2> QED
    BY <2>1 DEF Piped
<1> QED
  BY <1>1, <1>2, <1>3, <1>4, <1>5 DEF Next, PumpStep, MainRuns, Others

\* Only a line that is read changes the trail.
LEMMA TrailStays ==
    ASSUME Next, ~ PumpLine
    PROVE  UNCHANGED <<last, repeats, trail, looped>>
BY DEF Next, PumpStep, MainRuns, progress, Main, ReadStdin, WriteLine, WriteStdin,
       Exit, Cancelled, TimeOut, IdleTimeOut, PumpObserve, PumpEof, Observe,
       CloseStdin, CheckWall, CheckProgress, Wait, Stop, Judge, StdinFails

LEMMA LineIsRead ==
    ASSUME Piped, PumpLine
    PROVE  \/ UNCHANGED <<last, repeats, trail, looped>>
           \/ \E line \in Progress : Count(line) /\ Remember(line)
<1>1. Head(stdout) \in Lines
  <2>1. stdout # <<>>
    BY DEF PumpLine
  <2> QED
    BY <2>1, HeadTailProperties DEF Piped
<1>2. CASE Head(stdout) = Quiet
  BY <1>2 DEF PumpLine, progress
<1>3. CASE Head(stdout) # Quiet
  BY <1>1, <1>3 DEF PumpLine, Lines
<1> QED
  BY <1>2, <1>3

LEMMA TrailStep ==
    ASSUME Piped, Trailed, AtLimit => looped, Next
    PROVE  /\ Trailed'
           /\ AtLimit' => looped'
           /\ looped => looped'
           /\ looped \in BOOLEAN => looped' \in BOOLEAN
<1>1. CASE UNCHANGED <<last, repeats, trail, looped>>
  <2>1. Trailed' /\ (AtLimit' <=> AtLimit)
    BY <1>1 DEF Trailed, AtLimit
  <2>2. looped' = looped
    BY <1>1
  <2> QED
    BY <2>1, <2>2
<1>2. ASSUME NEW line \in Progress, Count(line), Remember(line)
      PROVE  /\ Trailed'
             /\ AtLimit' => looped'
             /\ looped => looped'
             /\ looped' \in BOOLEAN
  <2>1. trail' = Longer(line)
    BY <1>2 DEF Remember, Longer
  <2>2. looped' = (looped \/ (Len(trail') = RepeatLimit /\ AllEqual(trail')))
    BY <1>2 DEF Remember
  <2>3. /\ Trailed'
        /\ AtLimit' => Len(trail') = RepeatLimit /\ AllEqual(trail')
    BY <1>2, <2>1, TrailGrows
  <2> QED
    BY <2>2, <2>3, Zenon
<1> QED
  BY <1>1, <1>2, TrailStays, LineIsRead

----------------------------------------------------------------------------
(* The way of the main thread.                                              *)

\* A step of the pipes or of the pump leaves the rest as it was.
LEMMA TypedStays ==
    ASSUME Typed, UNCHANGED <<process, main, error>>,
           pump' \in {"none", "read", "observe", "ended"}
    PROVE  Typed'
BY DEF Typed, process

\* The child is running, or has exited, or was killed; the pump runs on after
\* the launch has returned.
LEMMA WayStep ==
    ASSUME Typed, Decided, unsent = 0 => unsent' = 0, Next
    PROVE  Typed' /\ Decided'
<1>1. CASE ReadStdin
  <2>1. Typed'
    <3>1. UNCHANGED <<process, pump, main, error>>
      BY <1>1 DEF ReadStdin
    <3>2. pump' \in {"none", "read", "observe", "ended"}
      BY <3>1 DEF Typed
    <3> QED
      BY <3>1, <3>2, TypedStays
  <2>2. Decided'
    BY <1>1 DEF ReadStdin, Decided, Typed, process, pipes
  <2> QED
    BY <2>1, <2>2
<1>2. CASE WriteLine
  <2>1. Typed'
    <3>1. UNCHANGED <<process, pump, main, error>>
      BY <1>2 DEF WriteLine
    <3>2. pump' \in {"none", "read", "observe", "ended"}
      BY <3>1 DEF Typed
    <3> QED
      BY <3>1, <3>2, TypedStays
  <2>2. Decided'
    BY <1>2 DEF WriteLine, Decided, Typed, process, pipes
  <2> QED
    BY <2>1, <2>2
<1>3. CASE Exit
  <2>1. Typed'
    BY <1>3 DEF Exit, Typed, process
  <2>2. Decided'
    BY <1>3 DEF Exit, Decided, Typed, process, pipes
  <2> QED
    BY <2>1, <2>2
<1>4. CASE Cancelled
  <2>1. Typed'
    BY <1>4 DEF Cancelled, Typed, process
  <2>2. Decided'
    BY <1>4 DEF Cancelled, Decided, Typed, process, pipes
  <2> QED
    BY <2>1, <2>2
<1>5. CASE TimeOut
  <2>1. Typed'
    BY <1>5 DEF TimeOut, Typed, process, Started
  <2>2. Decided'
    BY <1>5 DEF TimeOut, Decided, Typed, process, pipes, Started
  <2> QED
    BY <2>1, <2>2
<1>6. CASE IdleTimeOut
  <2>1. Typed'
    BY <1>6 DEF IdleTimeOut, Typed, process, Started
  <2>2. Decided'
    BY <1>6 DEF IdleTimeOut, Decided, Typed, process, pipes, Started
  <2> QED
    BY <2>1, <2>2
<1>7. CASE PumpLine
  <2>0. pump' = pump \/ pump' = "observe"
    BY <1>7, Zenon DEF PumpLine
  <2>1. /\ UNCHANGED <<child, exitCode, message, main, error, unsent>>
        /\ pump = "read" /\ pump' \in {"read", "observe"}
    BY <1>7, <2>0 DEF PumpLine, process
  <2>2. Typed'
    <3>1. pump' \in {"none", "read", "observe", "ended"}
      BY <2>1
    <3> QED
      BY <2>1, <3>1, Zenon DEF Typed
  <2>3. (pump = "none") <=> (pump' = "none")
    BY <2>1
  <2>4. Decided'
    BY <2>1, <2>3, Zenon DEF Decided
  <2> QED
    BY <2>2, <2>4
<1>8. CASE PumpObserve
  <2>1. Typed'
    <3>1. UNCHANGED <<process, main, error>>
      BY <1>8 DEF PumpObserve
    <3>2. pump' \in {"none", "read", "observe", "ended"}
      BY <1>8 DEF PumpObserve
    <3> QED
      BY <3>1, <3>2, TypedStays
  <2>2. Decided'
    BY <1>8 DEF PumpObserve, Decided, Typed, process, pipes
  <2> QED
    BY <2>1, <2>2
<1>9. CASE PumpEof
  <2>1. Typed'
    BY <1>9 DEF PumpEof, Typed, process
  <2>2. Decided'
    BY <1>9 DEF PumpEof, Decided, Typed, process, pipes
  <2> QED
    BY <2>1, <2>2
<1>10. CASE Observe
  <2>1. Typed'
    BY <1>10 DEF Observe, Typed, process, Main
  <2>2. Decided'
    BY <1>10 DEF Observe, Decided, Typed, process, pipes, Main
  <2> QED
    BY <2>1, <2>2
<1>11. CASE WriteStdin
  <2>1. Typed'
    BY <1>11 DEF WriteStdin, Typed, process
  <2>2. Decided'
    BY <1>11 DEF WriteStdin, Decided, Typed, process, pipes
  <2> QED
    BY <2>1, <2>2
<1>12. CASE CloseStdin
  <2>1. Typed'
    BY <1>12 DEF CloseStdin, Typed, process, Main
  <2>2. Decided'
    BY <1>12 DEF CloseStdin, Decided, Typed, process, pipes, Main
  <2> QED
    BY <2>1, <2>2
<1>13. CASE CheckWall
  <2>1. Typed'
    BY <1>13 DEF CheckWall, Typed, process, Main, Guards
  <2>2. Decided'
    BY <1>13 DEF CheckWall, Decided, Typed, process, pipes, Main, Guards
  <2> QED
    BY <2>1, <2>2
<1>14. CASE CheckProgress
  <2>1. Typed'
    BY <1>14 DEF CheckProgress, Typed, process, Main, Guards
  <2>2. Decided'
    BY <1>14 DEF CheckProgress, Decided, Typed, process, pipes, Main, Guards
  <2> QED
    BY <2>1, <2>2
<1>15. CASE Wait
  <2>1. Typed'
    BY <1>15 DEF Wait, Typed, process, Main
  <2>2. Decided'
    BY <1>15 DEF Wait, Decided, Typed, process, pipes, Main
  <2> QED
    BY <2>1, <2>2
<1>16. CASE Stop
  <2>1. Typed'
    BY <1>16 DEF Stop, Typed, process, Main
  <2>2. /\ main = "stop" /\ main' \in {"returned", "unstopped"}
        /\ main' = "returned" => child' # "running"
        /\ UNCHANGED <<error, pump, unsent>>
    BY <1>16 DEF Stop, Main, pipes
  <2>3. error \in Guards \cup {"stdin_error"} /\ error # ""
    BY <2>2 DEF Decided, Guards
  <2>4. Decided'
    BY <2>2, <2>3 DEF Decided
  <2> QED
    BY <2>1, <2>4
<1>17. CASE Judge
  <2>1. Typed'
    BY <1>17 DEF Judge, Typed, process, Main
  <2>2. Decided'
    BY <1>17 DEF Judge, Decided, Typed, process, pipes, Main
  <2> QED
    BY <2>1, <2>2
<1>18. CASE StdinFails
  <2>1. Typed'
    BY <1>18 DEF StdinFails, Typed, process, Main
  <2>2. Decided'
    BY <1>18 DEF StdinFails, Decided, Typed, process, pipes, Main, Guards
  <2> QED
    BY <2>1, <2>2
<1> QED
  BY <1>1, <1>2, <1>3, <1>4, <1>5, <1>6, <1>7, <1>8, <1>9,
     <1>10, <1>11, <1>12, <1>13, <1>14, <1>15, <1>16, <1>17, <1>18 DEF Next, PumpStep, MainRuns

LEMMA FlagsStep ==
    ASSUME Flags, looped' \in BOOLEAN, Next
    PROVE  Flags'
<1>1. wallUp' \in BOOLEAN
  BY DEF Flags, Next, PumpStep, MainRuns, progress, clock, Main, ReadStdin, WriteLine,
         WriteStdin, Exit, Cancelled, TimeOut, IdleTimeOut, PumpLine, PumpObserve,
         PumpEof, Observe, CloseStdin, CheckWall, CheckProgress, Wait, Stop, Judge,
         StdinFails
<1>2. idleUp' \in BOOLEAN
  <2>1. CASE PumpLine
    BY <2>1 DEF Flags, PumpLine
  <2>2. CASE ~ PumpLine
    BY <2>2 DEF Flags, Next, PumpStep, MainRuns, progress, clock, Main, ReadStdin,
         WriteLine, WriteStdin, Exit, Cancelled, TimeOut, IdleTimeOut, PumpObserve,
         PumpEof, Observe, CloseStdin, CheckWall, CheckProgress, Wait, Stop, Judge,
         StdinFails
  <2> QED
    BY <2>1, <2>2
<1> QED
  BY <1>1, <1>2 DEF Flags

\* Only a count at the limit ends a run for repeated progress.
LEMMA ErrorStep ==
    ASSUME Next, error' = "repeated_progress"
    PROVE  error = "repeated_progress" \/ AtLimit
BY DEF Next, PumpStep, MainRuns, Main, ReadStdin, WriteLine, WriteStdin, Exit,
       Cancelled, TimeOut, IdleTimeOut, PumpLine, PumpObserve, PumpEof, Observe,
       CloseStdin, CheckWall, CheckProgress, Wait, Stop, Judge, StdinFails, AtLimit

----------------------------------------------------------------------------
LEMMA LaunchedStarts ==
    ASSUME Init
    PROVE  Launched
<1>1. Piped
  <2>1. unsent = Prompt /\ stdin = 0 /\ stdout = <<>>
    BY DEF Init
  <2> QED
    BY <2>1, PipesAssumption DEF Piped
<1>2. Trailed /\ ~ AtLimit
  <2>1. last = Quiet /\ repeats = 0 /\ trail = <<>>
    BY DEF Init
  <2> QED
    BY <2>1, LimitAssumption DEF Trailed, AtLimit, Lines
<1>3. Flags
  BY DEF Init, Flags
<1>4. Typed
  BY DEF Init, Typed
<1>5. Decided
  BY DEF Init, Decided
<1>6. Looped
  BY <1>2 DEF Init, Looped, RepeatedMeansLooping
<1> QED
  BY <1>1, <1>2, <1>3, <1>4, <1>5, <1>6 DEF Launched

LEMMA LaunchedStep ==
    ASSUME Launched, Next
    PROVE  Launched'
<1>1. Piped' /\ (unsent = 0 => unsent' = 0)
  BY PipesStep DEF Launched
<1>2. Trailed' /\ (AtLimit' => looped') /\ (looped => looped') /\ looped' \in BOOLEAN
  BY TrailStep DEF Launched, Looped, Flags
<1>3. Flags'
  BY <1>2, FlagsStep DEF Launched
<1>4. Typed' /\ Decided'
  BY <1>1, WayStep DEF Launched
<1>5. RepeatedMeansLooping'
  <2> SUFFICES ASSUME error' = "repeated_progress"
               PROVE  looped'
    BY DEF RepeatedMeansLooping
  <2>1. error = "repeated_progress" \/ AtLimit
    BY ErrorStep
  <2> QED
    BY <1>2, <2>1 DEF Launched, Looped, RepeatedMeansLooping
<1> QED
  BY <1>1, <1>2, <1>3, <1>4, <1>5 DEF Launched, Looped

LEMMA LaunchedStutters ==
    ASSUME Launched, UNCHANGED vars
    PROVE  Launched'
<1>1. Piped' /\ Trailed'
  BY DEF Launched, Piped, Trailed, vars, pipes, progress
<1>2. Flags'
  BY DEF Launched, Flags, vars, progress, clock
<1>3. Typed' /\ Decided'
  <2>0. /\ child' = child /\ exitCode' = exitCode /\ message' = message
        /\ pump' = pump /\ main' = main /\ error' = error /\ unsent' = unsent
    BY DEF vars, process, pipes
  <2>1. Typed'
    <3>1. Typed
      BY DEF Launched
    <3> QED
      BY <2>0, <3>1, ZenonT(40) DEF Typed
  <2>2. Decided'
    BY <2>0, Zenon DEF Launched, Decided
  <2> QED
    BY <2>1, <2>2
<1>4. Looped'
  <2>1. Looped /\ UNCHANGED <<looped, repeats, error>>
    BY DEF Launched, vars, progress
  <2> QED
    BY <2>1 DEF Looped, AtLimit, RepeatedMeansLooping
<1> QED
  BY <1>1, <1>2, <1>3, <1>4 DEF Launched

THEOREM LaunchedHolds == Spec => []Launched
<1>1. Launched /\ [Next]_vars => Launched'
  BY LaunchedStep, LaunchedStutters
<1> QED
  BY <1>1, LaunchedStarts, PTL DEF Spec

\* The variables of launch_codex_process, of its pump thread and of the child
\* keep their types, and the pump runs from the end of the prompt on.
THEOREM CodexTypes == Spec => []TypeOK
<1>1. Launched => TypeOK
  <2> SUFFICES ASSUME Launched
               PROVE  TypeOK
    OBVIOUS
  <2>1. stdout \in BoundedSeq(Progress \cup {Quiet}, PipeCapacity)
    BY Bounded, PipesAssumption DEF Launched, Piped, Lines
  <2>2. trail \in BoundedSeq(Progress, RepeatLimit)
    BY Bounded, LimitAssumption DEF Launched, Trailed
  <2>3. /\ unsent \in 0 .. Prompt /\ stdin \in 0 .. PipeCapacity
        /\ last \in Progress \cup {Quiet} /\ repeats \in 0 .. RepeatLimit
    BY DEF Launched, Piped, Trailed, Lines
  <2> QED
    BY <2>1, <2>2, <2>3, Zenon DEF Launched, Flags, Typed, Decided, TypeOK
<1> QED
  BY <1>1, LaunchedHolds, PTL

\* launch_codex_process leaves a running child only when its observer raised or
\* a stop failed, and then it reports the guard or the broken pipe, never an
\* exit or a last message; whichever guard fired and whatever a cancel did.
THEOREM CodexLeavesNoChild == Spec => []ChildGone
<1>1. Launched => ChildGone
  BY DEF Launched, Decided, ChildGone
<1> QED
  BY <1>1, LaunchedHolds, PTL

\* A SUCCESS is the verdict of a child that was sent the whole prompt, exited
\* with 0 and was not killed, and whose last message says so.
THEOREM CodexSuccess == Spec => []SuccessIsWhole
<1>1. Launched => SuccessIsWhole
  <2> SUFFICES ASSUME Launched, Answered, Status = "SUCCESS"
               PROVE  /\ unsent = 0
                      /\ child = "exited" /\ exitCode = 0 /\ message = "SUCCESS"
    BY DEF SuccessIsWhole
  <2>1. error = "" /\ message = "SUCCESS"
    BY DEF Status, Launched, Typed
  <2>2. main = "returned"
    BY <2>1 DEF Launched, Decided, Guards, Answered
  <2> QED
    BY <2>1, <2>2 DEF Launched, Decided
<1> QED
  BY <1>1, LaunchedHolds, PTL

\* A run is interrupted for repeated progress only when the last
\* repeated_progress_limit lines with progress were equal, however the lines are
\* interleaved with the polls of the main thread.
THEOREM CodexRepeats == Spec => []RepeatedMeansLooping
<1>1. Launched => RepeatedMeansLooping
  BY DEF Launched, Looped
<1> QED
  BY <1>1, LaunchedHolds, PTL
=============================================================================
