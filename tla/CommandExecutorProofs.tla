------------------------ MODULE CommandExecutorProofs ------------------------
(***************************************************************************)
(* Safety of CommandExecutor, for any output limit and any amount of output. *)
(*                                                                          *)
(* The counts are reasoned about in lemmas of their own; the steps of the   *)
(* two threads use only whether the count is over the limit, and whether it *)
(* is all that was written.                                                 *)
(***************************************************************************)
EXTENDS CommandExecutor, TLAPS

Over == count > MaxOutputBytes
AtEnd == count = written

\* The types of the counts; nothing is counted that was not written.
Counted ==
    /\ written \in 0 .. MaxWritten
    /\ count \in 0 .. MaxOutputBytes + 1
    /\ count <= written

\* The other types.
Typed ==
    /\ child \in {"running", "exited", "killed"}
    /\ exitCode \in {0, 1}
    /\ pump \in {"read", "check", "close", "done"}
    /\ main \in {"observe", "limit", "finished", "time", "stop", "wait",
                 "cleanup", "returned"}
    /\ error \in {"", "output_limit", "wall_timeout", "observer_error",
                  "process_error", "nonzero_exit", "cleanup_error"}

Flags ==
    /\ held \in BOOLEAN /\ timeUp \in BOOLEAN
    /\ exceeded \in BOOLEAN /\ drained \in BOOLEAN /\ readFailed \in BOOLEAN

\* The pump reads on only below the limit, and ends past it, at a failed read,
\* or at the end of all that can be written.
Pumped ==
    /\ pump = "read" => ~ Over
    /\ exceeded => Over
    /\ drained => pump = "done"
    /\ readFailed => pump \in {"close", "done"}
    /\ pump \in {"close", "done"} =>
          readFailed \/ Over \/ (child # "running" /\ AtEnd)

\* How the main loop is left: with an error, or with the child gone and its
\* output drained; from then on a SUCCESS has its reasons.
Decided ==
    /\ main \in {"observe", "limit", "finished", "time"} => error = ""
    /\ main = "stop" => error # ""
    /\ main = "wait" /\ error = "" => child # "running" /\ drained
    /\ main \in {"cleanup", "returned"} /\ error = "" =>
          child = "exited" /\ exitCode = 0 /\ ~ readFailed /\ drained
    /\ error = "output_limit" => Over

Executing == Counted /\ Typed /\ Flags /\ Pumped /\ Decided /\ ChildGone

----------------------------------------------------------------------------
(* The counts.                                                              *)

LEMMA CountsStay ==
    ASSUME UNCHANGED <<written, count>>
    PROVE  (Counted' <=> Counted) /\ (Over' <=> Over) /\ (AtEnd' <=> AtEnd)
BY DEF Counted, Over, AtEnd

LEMMA WriteCounts ==
    ASSUME Counted, written < MaxWritten, written' = written + 1, count' = count
    PROVE  Counted' /\ (Over' <=> Over)
BY OutputAssumption DEF Counted, Over

LEMMA ReadCounts ==
    ASSUME Counted, written' = written,
           \E n \in 1 .. MaxOutputBytes + 1 :
              /\ n <= MaxOutputBytes + 1 - count /\ n <= written - count
              /\ count' = count + n
    PROVE  Counted' /\ (Over => Over')
BY OutputAssumption DEF Counted, Over

----------------------------------------------------------------------------
LEMMA ExecutingStarts ==
    ASSUME Init
    PROVE  Executing
<1>1. written = 0 /\ count = 0
  BY DEF Init
<1>2. Counted /\ ~ Over
  BY <1>1, OutputAssumption DEF Counted, Over
<1>3. Typed /\ Flags
  BY DEF Init, Typed, Flags
<1>4. Pumped /\ Decided /\ ChildGone
  BY <1>2 DEF Init, Pumped, Decided, ChildGone
<1> QED
  BY <1>2, <1>3, <1>4 DEF Executing

\* The child, its descendant and the clock decide nothing.
LEMMA ChildStep ==
    ASSUME Executing, Write \/ Exit \/ LetGo \/ TimeOut
    PROVE  Executing'
<1> USE DEF Executing
<1>1. CASE Write
  <2>1. Counted' /\ (Over' <=> Over)
    BY <1>1, WriteCounts DEF Write
  <2>2. Typed'
    BY <1>1 DEF Write, Typed, events
  <2>3. Flags'
    BY <1>1 DEF Write, Flags, events
  <2>4. Pumped'
    BY <1>1, <2>1 DEF Write, Pumped, events
  <2>5. Decided' /\ ChildGone'
    BY <1>1, <2>1 DEF Write, Decided, ChildGone, events
  <2> QED
    BY <2>1, <2>2, <2>3, <2>4, <2>5
<1>2. CASE Exit
  <2>1. Counted' /\ (Over' <=> Over) /\ (AtEnd' <=> AtEnd)
    BY <1>2, CountsStay DEF Exit
  <2>2. Typed'
    BY <1>2 DEF Exit, Typed, events
  <2>3. Flags'
    BY <1>2 DEF Exit, Flags, events
  <2>4. Pumped'
    BY <1>2, <2>1 DEF Exit, Pumped, Over, events
  <2>5. Decided'
    BY <1>2, <2>1 DEF Exit, Decided, Pumped, Typed, events
  <2>6. ChildGone'
    BY <1>2 DEF Exit, ChildGone, Typed, events
  <2> QED
    BY <2>1, <2>2, <2>3, <2>4, <2>5, <2>6
<1>3. CASE LetGo
  <2>1. Counted' /\ (Over' <=> Over) /\ (AtEnd' <=> AtEnd)
    BY <1>3, CountsStay DEF LetGo
  <2>2. Typed'
    BY <1>3 DEF LetGo, Typed, events
  <2>3. Flags'
    BY <1>3 DEF LetGo, Flags, events
  <2>4. Pumped'
    BY <1>3, <2>1 DEF LetGo, Pumped, Over, events
  <2>5. Decided'
    BY <1>3, <2>1 DEF LetGo, Decided, Pumped, Typed, events
  <2>6. ChildGone'
    BY <1>3 DEF LetGo, ChildGone, Typed, events
  <2> QED
    BY <2>1, <2>2, <2>3, <2>4, <2>5, <2>6
<1>4. CASE TimeOut
  <2>1. Counted' /\ (Over' <=> Over) /\ (AtEnd' <=> AtEnd)
    BY <1>4, CountsStay DEF TimeOut
  <2>2. Typed'
    BY <1>4 DEF TimeOut, Typed, events
  <2>3. Flags'
    BY <1>4 DEF TimeOut, Flags, events
  <2>4. Pumped'
    BY <1>4, <2>1 DEF TimeOut, Pumped, Over, events
  <2>5. Decided'
    BY <1>4, <2>1 DEF TimeOut, Decided, Pumped, Typed, events
  <2>6. ChildGone'
    BY <1>4 DEF TimeOut, ChildGone, Typed, events
  <2> QED
    BY <2>1, <2>2, <2>3, <2>4, <2>5, <2>6
<1> QED
  BY <1>1, <1>2, <1>3, <1>4

LEMMA PumpKeeps ==
    ASSUME Executing, PumpStep
    PROVE  Executing'
<1> USE DEF Executing
<1>1. CASE PumpRead
  <2>1. Counted' /\ (Over => Over')
    BY <1>1, ReadCounts DEF PumpRead
  <2>2. Typed'
    BY <1>1 DEF PumpRead, Typed, events
  <2>3. Flags'
    BY <1>1 DEF PumpRead, Flags, events
  <2>4. Pumped'
    BY <1>1, <2>1 DEF PumpRead, Pumped, events
  <2>5. Decided' /\ ChildGone'
    BY <1>1, <2>1 DEF PumpRead, Decided, ChildGone, events
  <2> QED
    BY <2>1, <2>2, <2>3, <2>4, <2>5
<1>2. CASE PumpCheck
  <2>1. Counted' /\ (Over' <=> Over) /\ (AtEnd' <=> AtEnd)
    BY <1>2, CountsStay DEF PumpCheck
  <2>2. Typed'
    BY <1>2 DEF PumpCheck, Typed, events
  <2>3. Flags'
    BY <1>2 DEF PumpCheck, Flags, events
  <2>4. Pumped'
    BY <1>2, <2>1 DEF PumpCheck, Pumped, Over, events
  <2>5. Decided'
    BY <1>2, <2>1 DEF PumpCheck, Decided, Pumped, Typed, events
  <2>6. ChildGone'
    BY <1>2 DEF PumpCheck, ChildGone, Typed, events
  <2> QED
    BY <2>1, <2>2, <2>3, <2>4, <2>5, <2>6
<1>3. CASE PumpEof
  <2>1. Counted' /\ (Over' <=> Over) /\ (AtEnd' <=> AtEnd)
    BY <1>3, CountsStay DEF PumpEof
  <2>2. Typed'
    BY <1>3 DEF PumpEof, Typed, events
  <2>3. Flags'
    BY <1>3 DEF PumpEof, Flags, events
  <2>4. Pumped'
    BY <1>3, <2>1 DEF PumpEof, Pumped, AtEnd, events
  <2>5. Decided'
    BY <1>3, <2>1 DEF PumpEof, Decided, Pumped, Typed, events
  <2>6. ChildGone'
    BY <1>3 DEF PumpEof, ChildGone, Typed, events
  <2> QED
    BY <2>1, <2>2, <2>3, <2>4, <2>5, <2>6
<1>4. CASE PumpFails
  <2>1. Counted' /\ (Over' <=> Over) /\ (AtEnd' <=> AtEnd)
    BY <1>4, CountsStay DEF PumpFails
  <2>2. Typed'
    BY <1>4 DEF PumpFails, Typed, events
  <2>3. Flags'
    BY <1>4 DEF PumpFails, Flags, events
  <2>4. Pumped'
    BY <1>4, <2>1 DEF PumpFails, Pumped, Over, events
  <2>5. Decided'
    BY <1>4, <2>1 DEF PumpFails, Decided, Pumped, Typed, events
  <2>6. ChildGone'
    BY <1>4 DEF PumpFails, ChildGone, Typed, events
  <2> QED
    BY <2>1, <2>2, <2>3, <2>4, <2>5, <2>6
<1>5. CASE PumpClose
  <2>1. Counted' /\ (Over' <=> Over) /\ (AtEnd' <=> AtEnd)
    BY <1>5, CountsStay DEF PumpClose
  <2>2. Typed'
    BY <1>5 DEF PumpClose, Typed, events
  <2>3. Flags'
    BY <1>5 DEF PumpClose, Flags, events
  <2>4. Pumped'
    BY <1>5, <2>1 DEF PumpClose, Pumped, Over, events
  <2>5. Decided'
    BY <1>5, <2>1 DEF PumpClose, Decided, Pumped, Typed, events
  <2>6. ChildGone'
    BY <1>5 DEF PumpClose, ChildGone, Typed, events
  <2> QED
    BY <2>1, <2>2, <2>3, <2>4, <2>5, <2>6
<1> QED
  BY <1>1, <1>2, <1>3, <1>4, <1>5 DEF PumpStep

LEMMA MainKeeps ==
    ASSUME Executing, MainStep
    PROVE  Executing'
<1> USE DEF Executing
<1>1. CASE Observe
  <2>1. Counted' /\ (Over' <=> Over) /\ (AtEnd' <=> AtEnd)
    BY <1>1, CountsStay DEF Observe, Main
  <2>2. Typed'
    BY <1>1 DEF Observe, Typed, Main, events
  <2>3. Flags'
    BY <1>1 DEF Observe, Flags, Main, events
  <2>4. Pumped'
    BY <1>1, <2>1 DEF Observe, Pumped, Over, Main, events
  <2>5. Decided'
    BY <1>1, <2>1 DEF Observe, Decided, Pumped, Typed, Main, events
  <2>6. ChildGone'
    BY <1>1 DEF Observe, ChildGone, Typed, Main, events
  <2> QED
    BY <2>1, <2>2, <2>3, <2>4, <2>5, <2>6
<1>2. CASE CheckLimit
  <2>1. Counted' /\ (Over' <=> Over) /\ (AtEnd' <=> AtEnd)
    BY <1>2, CountsStay DEF CheckLimit, Main
  <2>2. Typed'
    BY <1>2 DEF CheckLimit, Typed, Main, events
  <2>3. Flags'
    BY <1>2 DEF CheckLimit, Flags, Main, events
  <2>4. Pumped'
    BY <1>2, <2>1 DEF CheckLimit, Pumped, Over, Main, events
  <2>5. Decided'
    BY <1>2, <2>1 DEF CheckLimit, Decided, Pumped, Typed, Main, events
  <2>6. ChildGone'
    BY <1>2 DEF CheckLimit, ChildGone, Typed, Main, events
  <2> QED
    BY <2>1, <2>2, <2>3, <2>4, <2>5, <2>6
<1>3. CASE CheckFinished
  <2>1. Counted' /\ (Over' <=> Over) /\ (AtEnd' <=> AtEnd)
    BY <1>3, CountsStay DEF CheckFinished, Main
  <2>2. Typed'
    BY <1>3 DEF CheckFinished, Typed, Main, events
  <2>3. Flags'
    BY <1>3 DEF CheckFinished, Flags, Main, events
  <2>4. Pumped'
    BY <1>3, <2>1 DEF CheckFinished, Pumped, Over, Main, events
  <2>5. Decided'
    BY <1>3, <2>1 DEF CheckFinished, Decided, Pumped, Typed, Main, events
  <2>6. ChildGone'
    BY <1>3 DEF CheckFinished, ChildGone, Typed, Main, events
  <2> QED
    BY <2>1, <2>2, <2>3, <2>4, <2>5, <2>6
<1>4. CASE CheckTime
  <2>1. Counted' /\ (Over' <=> Over) /\ (AtEnd' <=> AtEnd)
    BY <1>4, CountsStay DEF CheckTime, Main
  <2>2. Typed'
    BY <1>4 DEF CheckTime, Typed, Main, events
  <2>3. Flags'
    BY <1>4 DEF CheckTime, Flags, Main, events
  <2>4. Pumped'
    BY <1>4, <2>1 DEF CheckTime, Pumped, Over, Main, events
  <2>5. Decided'
    BY <1>4, <2>1 DEF CheckTime, Decided, Pumped, Typed, Main, events
  <2>6. ChildGone'
    BY <1>4 DEF CheckTime, ChildGone, Typed, Main, events
  <2> QED
    BY <2>1, <2>2, <2>3, <2>4, <2>5, <2>6
<1>5. CASE Stop
  <2>1. Counted' /\ (Over' <=> Over) /\ (AtEnd' <=> AtEnd)
    BY <1>5, CountsStay DEF Stop, Main, Kill, KillFails
  <2>2. Typed'
    BY <1>5 DEF Stop, Typed, Main, Kill, KillFails, events
  <2>3. Flags'
    BY <1>5 DEF Stop, Flags, Main, Kill, KillFails, events
  <2>4. Pumped'
    <3>1. child # "running" => child' # "running"
      BY <1>5 DEF Stop, Kill, KillFails
    <3>2. UNCHANGED <<pump, exceeded, drained, readFailed>>
      BY <1>5 DEF Stop, Main, events
    <3> QED
      BY <2>1, <3>1, <3>2 DEF Pumped
  <2>5. Decided'
    BY <1>5, <2>1 DEF Stop, Decided, Pumped, Typed, Main, Kill, KillFails, events
  <2>6. ChildGone'
    BY <1>5 DEF Stop, ChildGone, Typed, Main, Kill, KillFails, events
  <2> QED
    BY <2>1, <2>2, <2>3, <2>4, <2>5, <2>6
<1>6. CASE Wait
  <2>1. Counted' /\ (Over' <=> Over) /\ (AtEnd' <=> AtEnd)
    BY <1>6, CountsStay DEF Wait, Main
  <2>2. Typed'
    BY <1>6 DEF Wait, Typed, Main, events
  <2>3. Flags'
    BY <1>6 DEF Wait, Flags, Main, events
  <2>4. Pumped'
    BY <1>6, <2>1 DEF Wait, Pumped, Over, Main, events
  <2>5. Decided'
    BY <1>6, <2>1 DEF Wait, Decided, Pumped, Typed, Main, events
  <2>6. ChildGone'
    BY <1>6 DEF Wait, ChildGone, Typed, Main, events
  <2> QED
    BY <2>1, <2>2, <2>3, <2>4, <2>5, <2>6
<1>7. CASE Cleanup
  <2>1. Counted' /\ (Over' <=> Over) /\ (AtEnd' <=> AtEnd)
    BY <1>7, CountsStay DEF Cleanup, Main, Kill, KillFails
  <2>2. Typed'
    BY <1>7 DEF Cleanup, Typed, Main, Kill, KillFails, events
  <2>3. Flags'
    BY <1>7 DEF Cleanup, Flags, Main, Kill, KillFails, events
  <2>4. Pumped'
    BY <1>7, <2>1 DEF Cleanup, Pumped, Over, Main, Kill, KillFails, events
  <2>5. Decided'
    BY <1>7, <2>1 DEF Cleanup, Decided, Pumped, Typed, Main, Kill, KillFails, events
  <2>6. ChildGone'
    BY <1>7 DEF Cleanup, ChildGone, Typed, Main, Kill, KillFails, events
  <2> QED
    BY <2>1, <2>2, <2>3, <2>4, <2>5, <2>6
<1> QED
  BY <1>1, <1>2, <1>3, <1>4, <1>5, <1>6, <1>7 DEF MainStep

LEMMA ExecutingStutters ==
    ASSUME Executing, UNCHANGED vars
    PROVE  Executing'
<1>1. UNCHANGED <<written, count>>
  BY DEF vars
<1>2. Counted' /\ (Over' <=> Over) /\ (AtEnd' <=> AtEnd)
  BY <1>1, CountsStay DEF Executing
<1>3. Typed' /\ ChildGone'
  BY DEF Executing, Typed, ChildGone, vars, events
<1>4. Flags'
  BY DEF Executing, Flags, vars, events
<1>5. Pumped' /\ Decided'
  BY <1>2 DEF Executing, Pumped, Decided, vars, events
<1> QED
  BY <1>2, <1>3, <1>4, <1>5 DEF Executing

THEOREM ExecutingHolds == Spec => []Executing
<1>1. Executing /\ [Next]_vars => Executing'
  BY ChildStep, PumpKeeps, MainKeeps, ExecutingStutters DEF Next
<1> QED
  BY <1>1, ExecutingStarts, PTL DEF Spec

\* The variables of execute, of its pump thread and of the child keep their
\* types; the count never passes the limit by more than the one byte that shows
\* the excess.
THEOREM CommandTypes == Spec => []TypeOK
<1>1. Executing => TypeOK
  BY DEF Executing, Counted, Typed, Flags, TypeOK
<1> QED
  BY <1>1, ExecutingHolds, PTL

\* CommandExecutor.execute returns cleanup_error or the child is gone, on every
\* path through its two stops.
THEOREM CommandLeavesNoChild == Spec => []ChildGone
<1>1. Executing => ChildGone
  BY DEF Executing
<1> QED
  BY <1>1, ExecutingHolds, PTL

\* A SUCCESS is the verdict on a child that exited with 0 and whose output was
\* read to its end or past the limit, however execute and _pump interleave.
THEOREM CommandSuccess == Spec => []SuccessIsWhole
<1>1. Executing => SuccessIsWhole
  BY DEF Executing, Pumped, Decided, Over, AtEnd, SuccessIsWhole, Succeeded, Status
<1> QED
  BY <1>1, ExecutingHolds, PTL

\* A run that is failed for its output did write more than max_output_bytes.
THEOREM CommandLimit == Spec => []LimitIsInclusive
<1>1. Counted /\ Over => written > MaxOutputBytes
  BY OutputAssumption DEF Counted, Over
<1>2. Executing => LimitIsInclusive
  BY <1>1 DEF Executing, Decided, LimitIsInclusive
<1> QED
  BY <1>2, ExecutingHolds, PTL
=============================================================================
