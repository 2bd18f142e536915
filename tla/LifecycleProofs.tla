--------------------------- MODULE LifecycleProofs ---------------------------
(***************************************************************************)
(* Safety of Lifecycle, for any number of operators, worker identities and  *)
(* faults.                                                                  *)
(***************************************************************************)
EXTENDS Lifecycle, FiniteSetTheorems, TLAPS

Typed ==
    /\ alive \subseteq Workers /\ foreground \subseteq Workers
    /\ identity \in Workers \cup {NoWorker} /\ temp \in Workers \cup {NoWorker}
    /\ pc \in [Operators -> Steps]
    /\ command \in [Operators -> Commands]
    /\ known \in [Operators -> Workers \cup {NoWorker}]
    /\ mine \in [Operators -> Workers \cup {NoWorker}]
    /\ \A o \in Operators :
          mine[o] # NoWorker <=> pc[o] \in {"token", "write", "replace"}

\* The workers of run and once are no others: nothing that start and stop look at
\* or remember names one.
Apart ==
    /\ foreground \cap alive = {}
    /\ identity \notin foreground /\ temp \notin foreground
    /\ \A o \in Operators : known[o] \notin foreground /\ mine[o] \notin foreground

Flags == autostart \in BOOLEAN /\ raced \in BOOLEAN

Counted == faults \in 0 .. MaxFaults

Unlinking(o) == pc[o] \in {"unlink", "stopUnlink"}

\* The running workers that nobody keeps track of, or that are about to be
\* forgotten: no operator is recording them, and the identity file does not name
\* them, or is being unlinked.
Loose ==
    {w \in alive :
        /\ \A o \in Operators : mine[o] # w
        /\ identity = w => \E o \in Operators : Unlinking(o)}

\* Operator o alone is in a call.
Alone(o) == \A q \in Operators \ {o} : pc[q] = "idle"

\* What the operator in a call knows: what the file says; that it is gone, when it
\* spawns a worker; and that the temporary file is its own.
Knows(o) ==
    /\ pc[o] \in {"probe", "unlink", "stopProbe", "kill"} => known[o] = identity
    /\ pc[o] \in {"spawn", "token", "write", "replace"} => identity = NoWorker
    /\ pc[o] = "replace" => temp = mine[o]

\* What holds while no two calls overlap: the operator in a call is alone and
\* knows what the files say, and each worker that is lost is due to a fault.
Sequential ==
    /\ \A o \in Operators : Knows(o) /\ (pc[o] # "idle" => Alone(o))
    /\ Cardinality(Loose) <= faults

Managed == Typed /\ Apart /\ Flags /\ Counted /\ (~ raced => Sequential)

----------------------------------------------------------------------------
(* Lemmas.                                                                  *)

LEMMA LooseIsFinite ==
    ASSUME Typed
    PROVE  /\ IsFiniteSet(alive) /\ Cardinality(alive) \in Nat
           /\ IsFiniteSet(Loose) /\ Cardinality(Loose) \in Nat
<1>1. alive \in SUBSET Workers /\ Loose \in SUBSET Workers
  BY DEF Typed, Loose
<1> QED
  BY <1>1, WorkersAssumption, FS_Subset, FS_CardinalityType

\* Where operator o alone is in a call, the workers of the others do not count.
LooseOf(o) ==
    {w \in alive : mine[o] # w /\ (identity = w => Unlinking(o))}

LEMMA OneOperator ==
    ASSUME Typed, NEW o \in Operators, Alone(o)
    PROVE  Loose = LooseOf(o)
<1>1. \A q \in Operators \ {o} : mine[q] = NoWorker /\ ~ Unlinking(q)
  BY DEF Typed, Alone, Unlinking
<1>2. NoWorker \notin alive
  BY WorkersAssumption DEF Typed
<1> QED
  BY <1>1, <1>2 DEF Loose, LooseOf

\* Fewer loose workers, or one more and a fault.
LEMMA LooseCounts ==
    ASSUME Typed, Counted, Cardinality(Loose) <= faults, NEW L,
           \/ L \subseteq Loose /\ faults' \in Nat /\ faults' >= faults
           \/ \E w : L \subseteq Loose \cup {w} /\ faults' = faults + 1
    PROVE  Cardinality(L) <= faults'
<1>1. IsFiniteSet(Loose) /\ Cardinality(Loose) \in Nat /\ faults \in Nat
  BY LooseIsFinite, FaultsAssumption DEF Counted
<1>2. CASE L \subseteq Loose /\ faults' \in Nat /\ faults' >= faults
  <2>1. Cardinality(L) <= Cardinality(Loose) /\ Cardinality(L) \in Nat
    BY <1>1, <1>2, FS_Subset, FS_CardinalityType
  <2> QED
    BY <1>1, <1>2, <2>1
<1>3. ASSUME NEW w, L \subseteq Loose \cup {w}, faults' = faults + 1
      PROVE  Cardinality(L) <= faults'
  <2>1. /\ IsFiniteSet(Loose \cup {w})
        /\ Cardinality(Loose \cup {w}) <= Cardinality(Loose) + 1
        /\ Cardinality(Loose \cup {w}) \in Nat
    <3>1. /\ IsFiniteSet(Loose \cup {w})
          /\ \/ Cardinality(Loose \cup {w}) = Cardinality(Loose)
             \/ Cardinality(Loose \cup {w}) = Cardinality(Loose) + 1
      BY <1>1, FS_AddElement
    <3> QED
      BY <3>1, <1>1
  <2>2. Cardinality(L) <= Cardinality(Loose \cup {w}) /\ Cardinality(L) \in Nat
    BY <1>3, <2>1, FS_Subset, FS_CardinalityType
  <2> QED
    BY <1>1, <1>3, <2>1, <2>2
<1> QED
  BY <1>2, <1>3

----------------------------------------------------------------------------
(* A step of the operators keeps the types.                                 *)

LEMMA TypedSteps ==
    ASSUME Typed, [Next]_vars
    PROVE  Typed'
<1> USE DEF Typed, Steps, Commands
<1>1. ASSUME NEW o \in Operators, NEW c \in Commands, Call(o, c)
      PROVE  Typed'
  BY <1>1 DEF Call, Starting, files, workers
<1>2. ASSUME NEW o \in Operators, Load(o) \/ UnlinkStale(o)
      PROVE  Typed'
  BY <1>2 DEF Load, UnlinkStale, NotRunning, Return, Goto, files, workers
<1>3. ASSUME NEW o \in Operators, ProbeAlive(o) \/ ProbeDead(o)
      PROVE  Typed'
  BY <1>3 DEF ProbeAlive, ProbeDead, Return, Goto, files, workers
<1>4. ASSUME NEW o \in Operators, Spawn(o) \/ ReadToken(o) \/ NoToken(o)
      PROVE  Typed'
  BY <1>4, WorkersAssumption DEF Spawn, Free, ReadToken, NoToken, Return, Goto, files, workers
<1>5. ASSUME NEW o \in Operators, WriteTemp(o) \/ Replace(o)
      PROVE  Typed'
  BY <1>5 DEF WriteTemp, Replace, Return, Goto, files, workers
<1>6. ASSUME NEW o \in Operators, StopLoad(o) \/ StopProbe(o) \/ StopUnlink(o)
      PROVE  Typed'
  BY <1>6 DEF StopLoad, StopProbe, StopUnlink, Return, Goto, files, workers
<1>7. ASSUME NEW o \in Operators, Kill(o) \/ KillFails(o) \/ OperatorDies(o)
      PROVE  Typed'
  BY <1>7 DEF Kill, KillFails, OperatorDies, Return, Goto, files, workers
<1>8. CASE Reboot
  BY <1>8 DEF Reboot, files
<1>9. CASE \/ SetAutostart \/ RunForeground \/ (\E w \in Workers : WorkerDies(w))
          \/ UNCHANGED vars
  BY <1>9 DEF SetAutostart, RunForeground, Free, WorkerDies, vars, files, workers, operators
<1> QED
  BY <1>1, <1>2, <1>3, <1>4, <1>5, <1>6, <1>7, <1>8, <1>9 DEF Next, OperatorStep

----------------------------------------------------------------------------
(* While no two calls overlap, the counting of the loose workers.           *)

\* A step of operator o, in a call alone: what is loose after it.
LEMMA LooseAfter ==
    ASSUME Typed, Typed', NEW o \in Operators, Alone(o),
           \A q \in Operators \ {o} : pc'[q] = pc[q]
    PROVE  /\ Loose = LooseOf(o)
           /\ \A w \in Loose' :
                 w \in alive' /\ mine'[o] # w /\ (identity' = w => Unlinking(o)')
           /\ \A q \in Operators : pc'[q] # "idle" => Alone(q)'
<1>1. Loose = LooseOf(o)
  BY OneOperator
<1>2. \A q \in Operators \ {o} : ~ Unlinking(q)'
  BY DEF Alone, Unlinking
<1>3. \A w \in Loose' :
         w \in alive' /\ mine'[o] # w /\ (identity' = w => Unlinking(o)')
  BY <1>2 DEF Loose
<1>4. \A q \in Operators : pc'[q] # "idle" => Alone(q)'
  BY DEF Alone
<1> QED
  BY <1>1, <1>3, <1>4

LEMMA AloneSteps ==
    ASSUME Typed, Typed', Counted, NEW o \in Operators, Alone(o), Knows(o),
           Cardinality(Loose) <= faults,
           \/ \E c \in Commands : Call(o, c)
           \/ OperatorStep(o) \/ OperatorDies(o)
    PROVE  /\ \A q \in Operators \ {o} : pc'[q] = pc[q]
           /\ Knows(o)'
           /\ Cardinality(Loose') <= faults'
<1> DEFINE Others == \A q \in Operators \ {o} : pc'[q] = pc[q]
           Fewer == Loose' \subseteq Loose /\ faults' \in Nat /\ faults' >= faults
           Lost == \E w : Loose' \subseteq Loose \cup {w} /\ faults' = faults + 1
<1>1. faults \in Nat
  BY FaultsAssumption DEF Counted
<1>2. ASSUME NEW c \in Commands, Call(o, c)
      PROVE  Others /\ Knows(o)' /\ Fewer
  <2>1. Others /\ Knows(o)' /\ faults' = faults
    BY <1>2 DEF Call, Starting, Knows, Typed, files, workers
  <2>2. Loose' \subseteq Loose
    BY <1>2, <2>1, LooseAfter, WorkersAssumption
    DEF Call, Starting, Knows, Typed, files, workers, LooseOf, Unlinking
  <2> QED
    BY <2>1, <2>2, <1>1
<1>3. ASSUME Load(o)
      PROVE  Others /\ Knows(o)' /\ Fewer
  <2>1. Others /\ Knows(o)' /\ faults' = faults
    BY <1>3 DEF Load, NotRunning, Return, Goto, Knows, Typed, files, workers
  <2>2. Loose' \subseteq Loose
    BY <1>3, <2>1, LooseAfter, WorkersAssumption
    DEF Load, NotRunning, Return, Goto, Knows, Typed, files, workers, LooseOf, Unlinking
  <2> QED
    BY <2>1, <2>2, <1>1
<1>4. ASSUME ProbeAlive(o)
      PROVE  Others /\ Knows(o)' /\ Fewer
  <2>1. Others /\ Knows(o)' /\ faults' = faults
    BY <1>4 DEF ProbeAlive, Return, Knows, Typed, files, workers
  <2>2. Loose' \subseteq Loose
    BY <1>4, <2>1, LooseAfter, WorkersAssumption
    DEF ProbeAlive, Return, Knows, Typed, files, workers, LooseOf, Unlinking
  <2> QED
    BY <2>1, <2>2, <1>1
<1>5. ASSUME ProbeDead(o)
      PROVE  Others /\ Knows(o)' /\ (Fewer \/ Lost)
  <2>1. Others /\ Knows(o)' /\ (faults' = faults \/ faults' = faults + 1)
    BY <1>5 DEF ProbeDead, Goto, Fault, Knows, Typed, files, workers
  <2>2. CASE known[o] \notin alive /\ faults' = faults
    <3>1. Loose' \subseteq Loose
      BY <1>5, <2>1, <2>2, LooseAfter, WorkersAssumption
      DEF ProbeDead, Goto, Knows, Typed, files, workers, LooseOf, Unlinking
    <3> QED
      BY <2>1, <3>1, <1>1
  <2>3. CASE ~ (known[o] \notin alive /\ faults' = faults)
    <3>1. Loose' \subseteq Loose \cup {identity}
      BY <1>5, <2>1, LooseAfter, WorkersAssumption
      DEF ProbeDead, Goto, Knows, Typed, files, workers, LooseOf, Unlinking
    <3>2. faults' = faults + 1
      BY <1>5, <2>3 DEF ProbeDead, Goto, Fault, Typed
    <3> QED
      BY <2>1, <3>1, <3>2
  <2> QED
    BY <2>2, <2>3
<1>6. ASSUME UnlinkStale(o)
      PROVE  Others /\ Knows(o)' /\ Fewer
  <2>1. Others /\ Knows(o)' /\ faults' = faults
    BY <1>6 DEF UnlinkStale, NotRunning, Return, Goto, Knows, Typed, files, workers
  <2>2. Loose' \subseteq Loose
    BY <1>6, <2>1, LooseAfter, WorkersAssumption
    DEF UnlinkStale, NotRunning, Return, Goto, Knows, Typed, files, workers, LooseOf, Unlinking
  <2> QED
    BY <2>1, <2>2, <1>1
<1>7. ASSUME Spawn(o)
      PROVE  Others /\ Knows(o)' /\ Fewer
  <2>1. Others /\ Knows(o)' /\ faults' = faults
    BY <1>7 DEF Spawn, Free, Knows, Typed, files, workers
  <2>2. Loose' \subseteq Loose
    BY <1>7, <2>1, LooseAfter, WorkersAssumption
    DEF Spawn, Free, Knows, Typed, files, workers, LooseOf, Unlinking
  <2> QED
    BY <2>1, <2>2, <1>1
<1>8. ASSUME ReadToken(o)
      PROVE  Others /\ Knows(o)' /\ Fewer
  <2>1. Others /\ Knows(o)' /\ faults' = faults
    BY <1>8 DEF ReadToken, Goto, Knows, Typed, files, workers
  <2>2. Loose' \subseteq Loose
    BY <1>8, <2>1, LooseAfter, WorkersAssumption
    DEF ReadToken, Goto, Knows, Typed, files, workers, LooseOf, Unlinking
  <2> QED
    BY <2>1, <2>2, <1>1
<1>9. ASSUME NoToken(o)
      PROVE  Others /\ Knows(o)' /\ (Fewer \/ Lost)
  <2>1. Others /\ Knows(o)' /\ (faults' = faults \/ faults' = faults + 1)
    BY <1>9 DEF NoToken, Return, Fault, Knows, Typed, files
  <2>2. CASE mine[o] \notin alive
    <3>1. alive' = alive /\ faults' = faults
      BY <1>9, <2>2 DEF NoToken
    <3>2. Loose' \subseteq Loose
      BY <1>9, <2>1, <2>2, <3>1, LooseAfter, WorkersAssumption
      DEF NoToken, Return, Knows, Typed, files, LooseOf, Unlinking
    <3> QED
      BY <2>1, <3>1, <3>2, <1>1
  <2>3. CASE mine[o] \in alive
    <3>1. faults' = faults + 1 /\ alive' \subseteq alive
      BY <1>9, <2>3 DEF NoToken, Fault
    <3>2. Loose' \subseteq Loose \cup {mine[o]}
      BY <1>9, <2>1, <3>1, LooseAfter, WorkersAssumption
      DEF NoToken, Return, Knows, Typed, files, LooseOf, Unlinking
    <3> QED
      BY <2>1, <3>1, <3>2
  <2> QED
    BY <2>2, <2>3
<1>10. ASSUME WriteTemp(o)
      PROVE  Others /\ Knows(o)' /\ Fewer
  <2>1. Others /\ Knows(o)' /\ faults' = faults
    BY <1>10 DEF WriteTemp, Goto, Knows, Typed, files, workers
  <2>2. Loose' \subseteq Loose
    BY <1>10, <2>1, LooseAfter, WorkersAssumption
    DEF WriteTemp, Goto, Knows, Typed, files, workers, LooseOf, Unlinking
  <2> QED
    BY <2>1, <2>2, <1>1
<1>11. ASSUME Replace(o)
      PROVE  Others /\ Knows(o)' /\ Fewer
  <2>1. Others /\ Knows(o)' /\ faults' = faults
    BY <1>11 DEF Replace, Return, Knows, Typed, files, workers
  <2>2. Loose' \subseteq Loose
    BY <1>11, <2>1, LooseAfter, WorkersAssumption
    DEF Replace, Return, Knows, Typed, files, workers, LooseOf, Unlinking
  <2> QED
    BY <2>1, <2>2, <1>1
<1>12. ASSUME StopLoad(o)
      PROVE  Others /\ Knows(o)' /\ Fewer
  <2>1. Others /\ Knows(o)' /\ faults' = faults
    BY <1>12 DEF StopLoad, Knows, Typed, files, workers
  <2>2. Loose' \subseteq Loose
    BY <1>12, <2>1, LooseAfter, WorkersAssumption
    DEF StopLoad, Knows, Typed, files, workers, LooseOf, Unlinking
  <2> QED
    BY <2>1, <2>2, <1>1
<1>13. ASSUME StopProbe(o)
      PROVE  Others /\ Knows(o)' /\ (Fewer \/ Lost)
  <2>1. Others /\ Knows(o)' /\ (faults' = faults \/ faults' = faults + 1)
    BY <1>13 DEF StopProbe, Goto, Fault, Knows, Typed, files, workers
  <2>2. CASE faults' = faults
    <3>0. ~ Fault
      BY <2>2, <1>1 DEF Fault
    <3>1. Loose' \subseteq Loose
      BY <1>13, <2>1, <3>0, LooseAfter, WorkersAssumption
      DEF StopProbe, Goto, Knows, Typed, files, workers, LooseOf, Unlinking
    <3> QED
      BY <2>1, <3>1, <1>1
  <2>3. CASE ~ (faults' = faults)
    <3>1. Loose' \subseteq Loose \cup {identity}
      BY <1>13, <2>1, LooseAfter, WorkersAssumption
      DEF StopProbe, Goto, Knows, Typed, files, workers, LooseOf, Unlinking
    <3>2. faults' = faults + 1
      BY <1>13, <2>3 DEF StopProbe, Goto, Fault, Typed
    <3> QED
      BY <2>1, <3>1, <3>2
  <2> QED
    BY <2>2, <2>3
<1>14. ASSUME Kill(o)
      PROVE  Others /\ Knows(o)' /\ Fewer
  <2>1. Others /\ Knows(o)' /\ faults' = faults
    BY <1>14 DEF Kill, Goto, Knows, Typed, files, workers
  <2>2. Loose' \subseteq Loose
    BY <1>14, <2>1, LooseAfter, WorkersAssumption
    DEF Kill, Goto, Knows, Typed, files, workers, LooseOf, Unlinking
  <2> QED
    BY <2>1, <2>2, <1>1
<1>15. ASSUME KillFails(o)
      PROVE  Others /\ Knows(o)' /\ Fewer
  <2>1. Others /\ Knows(o)' /\ faults' = faults
    BY <1>15 DEF KillFails, Return, Knows, Typed, files, workers
  <2>2. Loose' \subseteq Loose
    BY <1>15, <2>1, LooseAfter, WorkersAssumption
    DEF KillFails, Return, Knows, Typed, files, workers, LooseOf, Unlinking
  <2> QED
    BY <2>1, <2>2, <1>1
<1>16. ASSUME StopUnlink(o)
      PROVE  Others /\ Knows(o)' /\ Fewer
  <2>1. Others /\ Knows(o)' /\ faults' = faults
    BY <1>16 DEF StopUnlink, Return, Knows, Typed, files, workers
  <2>2. Loose' \subseteq Loose
    BY <1>16, <2>1, LooseAfter, WorkersAssumption
    DEF StopUnlink, Return, Knows, Typed, files, workers, LooseOf, Unlinking
  <2> QED
    BY <2>1, <2>2, <1>1
<1>17. ASSUME OperatorDies(o)
      PROVE  Others /\ Knows(o)' /\ (Fewer \/ Lost)
  <2>1. Others /\ Knows(o)' /\ (faults' = faults \/ faults' = faults + 1)
    BY <1>17 DEF OperatorDies, Return, Fault, Knows, Typed, files, workers
  <2>2. Loose' \subseteq Loose \cup {mine[o]}
    BY <1>17, <2>1, LooseAfter, WorkersAssumption
    DEF OperatorDies, Return, Knows, Typed, files, workers, LooseOf, Unlinking
  <2>3. faults' = faults + 1
    BY <1>17 DEF OperatorDies, Return, Fault
  <2> QED
    BY <2>1, <2>2, <2>3
<1>18. Others /\ Knows(o)' /\ (Fewer \/ Lost)
  BY <1>2, <1>3, <1>4, <1>5, <1>6, <1>7, <1>8, <1>9, <1>10, <1>11, <1>12, <1>13,
     <1>14, <1>15, <1>16, <1>17 DEF OperatorStep
<1>19. Cardinality(Loose') <= faults'
  BY <1>18, LooseCounts
<1> QED
  BY <1>18, <1>19

LEMMA ManagedInit == Init => Managed
<1> SUFFICES ASSUME Init
             PROVE  Managed
  OBVIOUS
<1>1. Typed
  BY DEF Init, Typed, Steps, Commands
<1>2. Flags
  BY DEF Init, Flags
<1>3. Counted
  <2>1. faults = 0
    BY DEF Init
  <2> QED
    BY <2>1, FaultsAssumption DEF Counted
<1>4. Loose = {}
  BY DEF Init, Loose
<1>5. Cardinality(Loose) <= faults
  BY <1>4, FS_EmptySet DEF Init
<1>6. Sequential
  BY <1>5 DEF Init, Sequential, Knows, Alone
<1>7. Apart
  BY WorkersAssumption DEF Init, Apart
<1> QED
  BY <1>1, <1>2, <1>3, <1>6, <1>7 DEF Managed

LEMMA ApartSteps ==
    ASSUME Typed, Apart, [Next]_vars
    PROVE  Apart'
<1> USE DEF Typed, Apart
<1>1. ASSUME NEW o \in Operators, NEW c \in Commands, Call(o, c)
      PROVE  Apart'
  BY <1>1 DEF Call, files, workers
<1>2. ASSUME NEW o \in Operators, Load(o) \/ UnlinkStale(o)
      PROVE  Apart'
  BY <1>2, WorkersAssumption DEF Load, UnlinkStale, NotRunning, Return, Goto, files,
     workers
<1>3. ASSUME NEW o \in Operators, ProbeAlive(o) \/ ProbeDead(o)
      PROVE  Apart'
  BY <1>3, WorkersAssumption DEF ProbeAlive, ProbeDead, Return, Goto, files, workers
<1>4. ASSUME NEW o \in Operators, Spawn(o)
      PROVE  Apart'
  <2>1. PICK w \in Free : alive' = alive \cup {w} /\ mine' = [mine EXCEPT ![o] = w]
    BY <1>4 DEF Spawn
  <2>2. UNCHANGED <<foreground, identity, temp, known>>
    BY <1>4 DEF Spawn, files
  <2> QED
    BY <2>1, <2>2 DEF Free
<1>5. ASSUME NEW o \in Operators, ReadToken(o) \/ NoToken(o)
      PROVE  Apart'
  BY <1>5, WorkersAssumption DEF ReadToken, NoToken, Return, Goto, files, workers
<1>6. ASSUME NEW o \in Operators, WriteTemp(o) \/ Replace(o)
      PROVE  Apart'
  BY <1>6, WorkersAssumption DEF WriteTemp, Replace, Return, Goto, files, workers
<1>7. ASSUME NEW o \in Operators, StopLoad(o) \/ StopProbe(o) \/ StopUnlink(o)
      PROVE  Apart'
  BY <1>7, WorkersAssumption DEF StopLoad, StopProbe, StopUnlink, Return, Goto, files,
     workers
<1>8. ASSUME NEW o \in Operators, Kill(o) \/ KillFails(o) \/ OperatorDies(o)
      PROVE  Apart'
  BY <1>8, WorkersAssumption DEF Kill, KillFails, OperatorDies, Return, Goto, files,
     workers
<1>9. CASE RunForeground
  BY <1>9 DEF RunForeground, Free, Mentioned, files, operators
<1>10. CASE Reboot
  BY <1>10, WorkersAssumption DEF Reboot, files
<1>11. CASE SetAutostart \/ (\E w \in Workers : WorkerDies(w)) \/ UNCHANGED vars
  BY <1>11 DEF SetAutostart, WorkerDies, vars, files, workers, operators
<1> QED
  BY <1>1, <1>2, <1>3, <1>4, <1>5, <1>6, <1>7, <1>8, <1>9, <1>10, <1>11
  DEF Next, OperatorStep

LEMMA FlagSteps ==
    ASSUME Flags, [Next]_vars
    PROVE  Flags'
<1> USE DEF Flags
<1>1. ASSUME NEW o \in Operators, NEW c \in Commands, Call(o, c)
      PROVE  Flags'
  BY <1>1 DEF Call, files, workers
<1>2. ASSUME NEW o \in Operators, OperatorStep(o) \/ OperatorDies(o)
      PROVE  Flags'
  BY <1>2 DEF OperatorStep, OperatorDies, Load, ProbeAlive, ProbeDead, UnlinkStale,
       Spawn, ReadToken, NoToken, WriteTemp, Replace, StopLoad, StopProbe, Kill,
       KillFails, StopUnlink, files, workers
<1>3. CASE \/ Reboot \/ SetAutostart \/ RunForeground \/ \E w \in Workers : WorkerDies(w)
           \/ UNCHANGED vars
  BY <1>3 DEF Reboot, SetAutostart, RunForeground, WorkerDies, vars, files, workers
<1> QED
  BY <1>1, <1>2, <1>3 DEF Next

LEMMA CountSteps ==
    ASSUME Counted, [Next]_vars
    PROVE  Counted'
<1>1. faults' = faults \/ Fault
  <2>1. ASSUME NEW o \in Operators, NEW c \in Commands, Call(o, c)
        PROVE  faults' = faults
    BY <2>1 DEF Call
  <2>2. ASSUME NEW o \in Operators, OperatorStep(o) \/ OperatorDies(o)
        PROVE  faults' = faults \/ Fault
    BY <2>2 DEF OperatorStep, OperatorDies, Load, ProbeAlive, ProbeDead, UnlinkStale,
         Spawn, ReadToken, NoToken, WriteTemp, Replace, StopLoad, StopProbe, Kill,
         KillFails, StopUnlink
  <2>3. CASE \/ Reboot \/ SetAutostart \/ RunForeground \/ \E w \in Workers : WorkerDies(w)
             \/ UNCHANGED vars
    BY <2>3 DEF Reboot, SetAutostart, RunForeground, WorkerDies, vars
  <2> QED
    BY <2>1, <2>2, <2>3 DEF Next
<1> QED
  BY <1>1, FaultsAssumption DEF Counted, Fault

LEMMA SequentialSteps ==
    ASSUME Managed, Typed', [Next]_vars, ~ raced'
    PROVE  Sequential'
<1>1. Typed /\ Counted /\ faults \in Nat
  BY FaultsAssumption DEF Managed, Counted
<1>2. ASSUME NEW o \in Operators, Alone(o), ~ raced,
             \/ \E c \in Commands : Call(o, c)
             \/ OperatorStep(o) \/ OperatorDies(o)
      PROVE  Sequential'
  <2>1. Sequential
    BY <1>2 DEF Managed
  <2>2. Knows(o) /\ Cardinality(Loose) <= faults
    BY <2>1 DEF Sequential
  <2>3. /\ \A q \in Operators \ {o} : pc'[q] = pc[q]
        /\ Knows(o)' /\ Cardinality(Loose') <= faults'
    BY <1>1, <1>2, <2>2, AloneSteps
  <2>4. \A q \in Operators : pc'[q] # "idle" => Alone(q)'
    BY <1>1, <1>2, <2>3, LooseAfter
  <2>5. \A q \in Operators \ {o} : pc'[q] = "idle"
    BY <1>2, <2>3 DEF Alone
  <2> QED
    BY <2>3, <2>4, <2>5 DEF Sequential, Knows
<1>3. ASSUME NEW o \in Operators, NEW c \in Commands, Call(o, c)
      PROVE  Sequential'
  <2>1. ~ raced /\ Alone(o)
    BY <1>3 DEF Call, Alone
  <2> QED
    BY <1>2, <1>3, <2>1
<1>4. ASSUME NEW o \in Operators, OperatorStep(o) \/ OperatorDies(o)
      PROVE  Sequential'
  <2>1. raced' = raced /\ pc[o] # "idle"
    BY <1>4 DEF OperatorStep, OperatorDies, Load, ProbeAlive, ProbeDead, UnlinkStale,
         Spawn, ReadToken, NoToken, WriteTemp, Replace, StopLoad, StopProbe, Kill,
         KillFails, StopUnlink
  <2>2. ~ raced /\ Alone(o)
    BY <2>1 DEF Managed, Sequential
  <2> QED
    BY <1>2, <1>4, <2>2
<1>5. CASE Reboot
  <2>1. Sequential /\ Cardinality(Loose) <= faults /\ faults' = faults
    BY <1>5 DEF Reboot, Managed, Sequential
  <2>2. Loose' = {}
    BY <1>5 DEF Reboot, Loose
  <2>3. Cardinality(Loose') <= faults'
    BY <2>1, <2>2, <1>1, LooseCounts
  <2>4. \A o \in Operators :
           /\ pc'[o] # "idle" => Alone(o)'
           /\ pc'[o] \in {"idle", "load"}
    BY <1>5 DEF Reboot, Alone
  <2> QED
    BY <2>3, <2>4 DEF Sequential, Knows
<1>6. CASE \/ SetAutostart \/ RunForeground \/ (\E w \in Workers : WorkerDies(w))
          \/ UNCHANGED vars
  <2>1. /\ alive' \subseteq alive
        /\ UNCHANGED <<identity, temp, pc, known, mine, raced, faults>>
    BY <1>6 DEF SetAutostart, RunForeground, Free, WorkerDies, vars, files, workers, operators
  <2>2. Sequential /\ Cardinality(Loose) <= faults
    BY <2>1 DEF Managed, Sequential
  <2>3. Loose' \subseteq Loose
    BY <2>1 DEF Loose, Unlinking
  <2>4. Cardinality(Loose') <= faults'
    BY <2>1, <2>2, <2>3, <1>1, LooseCounts
  <2> QED
    BY <2>1, <2>2, <2>4 DEF Sequential, Knows, Alone
<1> QED
  BY <1>3, <1>4, <1>5, <1>6 DEF Next

\* Managed is an invariant: the calls of the CLI, one at a time, lose track of a
\* worker only by a fault.
THEOREM ManagedHolds == Spec => []Managed
<1>1. Managed /\ [Next]_vars => Managed'
  <2> SUFFICES ASSUME Managed, [Next]_vars
               PROVE  Managed'
    OBVIOUS
  <2>1. Typed' /\ Apart' /\ Flags' /\ Counted'
    BY TypedSteps, ApartSteps, FlagSteps, CountSteps DEF Managed
  <2>2. ~ raced' => Sequential'
    BY <2>1, SequentialSteps
  <2> QED
    BY <2>1, <2>2 DEF Managed
<1> QED
  BY ManagedInit, <1>1, PTL DEF Spec

----------------------------------------------------------------------------
(* What follows.                                                            *)

LEMMA TypesOfManaged ==
    ASSUME Managed
    PROVE  TypeOK
<1>1. /\ alive \subseteq Workers /\ foreground \subseteq Workers \ alive
      /\ {identity, temp} \subseteq Workers \cup {NoWorker}
      /\ pc \in [Operators -> Steps]
      /\ command \in [Operators -> Commands]
      /\ known \in [Operators -> Workers \cup {NoWorker}]
      /\ mine \in [Operators -> Workers \cup {NoWorker}]
      /\ \A o \in Operators :
            mine[o] # NoWorker <=> pc[o] \in {"token", "write", "replace"}
  BY DEF Managed, Typed, Apart
<1>2. autostart \in BOOLEAN /\ raced \in BOOLEAN
  BY DEF Managed, Flags
<1>3. faults \in 0 .. MaxFaults
  BY DEF Managed, Counted
<1> QED
  BY <1>1, <1>2, <1>3, Zenon DEF TypeOK

\* Every variable keeps its type, and a spawned worker is remembered by the call
\* that spawned it exactly until start_worker records it or gives it up.
THEOREM LifecycleTypes == Spec => []TypeOK
<1>1. Managed => TypeOK
  BY TypesOfManaged
<1> QED
  BY ManagedHolds, <1>1, PTL

\* Of the workers that somebody keeps track of only one runs.
LEMMA OneIsTracked ==
    ASSUME Typed, Sequential, NEW u \in alive \ Loose, NEW v \in alive \ Loose
    PROVE  u = v
<1>1. u # NoWorker /\ v # NoWorker
  BY WorkersAssumption DEF Typed
<1>2. \A w \in alive \ Loose : identity = w \/ \E o \in Operators : mine[o] = w
  BY DEF Loose
<1>3. ASSUME NEW o \in Operators, mine[o] # NoWorker
      PROVE  /\ identity = NoWorker
             /\ \A q \in Operators \ {o} : mine[q] = NoWorker
  BY <1>3 DEF Typed, Sequential, Knows, Alone
<1>4. CASE \E o \in Operators : mine[o] # NoWorker
  BY <1>1, <1>2, <1>3, <1>4
<1>5. CASE \A o \in Operators : mine[o] = NoWorker
  BY <1>1, <1>2, <1>5
<1> QED
  BY <1>4, <1>5

LEMMA FewRun ==
    ASSUME Typed, Counted, Sequential
    PROVE  Cardinality(alive) <= 1 + faults
<1>1. /\ IsFiniteSet(alive) /\ Cardinality(alive) \in Nat
      /\ IsFiniteSet(Loose) /\ Cardinality(Loose) \in Nat
  BY LooseIsFinite
<1>2. faults \in Nat /\ Cardinality(Loose) <= faults
  BY FaultsAssumption DEF Counted, Sequential
<1>3. \E w : alive \subseteq Loose \cup {w}
  BY OneIsTracked
<1>4. PICK w : alive \subseteq Loose \cup {w}
  BY <1>3
<1>5. /\ IsFiniteSet(Loose \cup {w})
      /\ \/ Cardinality(Loose \cup {w}) = Cardinality(Loose)
         \/ Cardinality(Loose \cup {w}) = Cardinality(Loose) + 1
  BY <1>1, FS_AddElement
<1>6. Cardinality(alive) <= Cardinality(Loose \cup {w})
  BY <1>4, <1>5, FS_Subset
<1> QED
  BY <1>1, <1>2, <1>5, <1>6

\* While no two calls of the CLI overlap, at most one worker runs besides those of
\* run and once, and one more for each failed probe or operator that died:
\* start_worker is single-instance.
THEOREM FewWorkers == Spec => []SingleInstance
<1>1. Managed => SingleInstance
  <2> SUFFICES ASSUME Managed, ~ raced
               PROVE  Cardinality(Running \ foreground) <= 1 + faults
    BY DEF SingleInstance
  <2>1. Running \ foreground = alive
    BY DEF Managed, Apart, Running
  <2> QED
    BY <2>1, FewRun DEF Managed
<1> QED
  BY ManagedHolds, <1>1, PTL

LEMMA NoneLoose ==
    ASSUME Managed, ~ raced, faults = 0
    PROVE  Sequential /\ Loose = {}
<1>1. Sequential /\ Cardinality(Loose) <= 0
  BY DEF Managed, Sequential
<1>2. IsFiniteSet(Loose) /\ Cardinality(Loose) \in Nat
  BY LooseIsFinite DEF Managed
<1>3. Cardinality(Loose) = 0
  BY <1>1, <1>2
<1> QED
  BY <1>1, <1>2, <1>3, FS_EmptySet

\* While no two calls overlap and nothing failed, a running worker is the one
\* worker-lifecycle.json names, or the one its starter is about to record there,
\* exactly if it is not one of run or once.
THEOREM RunningIsKnown == Spec => []WorkerIsKnown
<1>1. Managed => WorkerIsKnown
  <2> SUFFICES ASSUME Managed, ~ raced, faults = 0, NEW w \in Running
               PROVE  w \notin foreground <=>
                         (identity = w \/ \E o \in Operators : mine[o] = w)
    BY DEF WorkerIsKnown
  <2>1. CASE w \in foreground
    BY <2>1 DEF Managed, Apart
  <2>2. CASE w \notin foreground
    BY <2>2, NoneLoose DEF Loose, Running
  <2> QED
    BY <2>1, <2>2
<1> QED
  BY ManagedHolds, <1>1, PTL

LEMMA StoppedLeavesNone ==
    ASSUME Managed, Next, NEW o \in Operators, ~ raced, faults = 0,
           pc[o] = "stopUnlink", pc'[o] # "stopUnlink"
    PROVE  Running' \subseteq foreground
<1>1. Sequential /\ Loose = {} /\ Typed
  BY NoneLoose DEF Managed
<1>2. Alone(o) /\ mine[o] = NoWorker
  BY <1>1 DEF Sequential, Typed
<1>3. alive = {}
  BY <1>1, <1>2, OneOperator, WorkersAssumption DEF LooseOf, Unlinking, Typed
<1>4. ASSUME NEW q \in Operators, Spawn(q)
      PROVE  FALSE
  BY <1>2, <1>4 DEF Spawn, Alone
<1>5. ASSUME NEW q \in Operators, OperatorStep(q) \/ OperatorDies(q)
      PROVE  alive' \subseteq alive /\ foreground' = foreground
  BY <1>4, <1>5 DEF OperatorStep, OperatorDies, Load, ProbeAlive, ProbeDead,
       UnlinkStale, ReadToken, NoToken, WriteTemp, Replace, StopLoad, StopProbe,
       Kill, KillFails, StopUnlink, workers
<1>6. ASSUME NEW q \in Operators, NEW c \in Commands, Call(q, c)
      PROVE  alive' = alive /\ foreground' = foreground
  BY <1>6 DEF Call, workers
<1>7. ASSUME NEW w \in Workers, WorkerDies(w)
      PROVE  alive' \subseteq alive /\ foreground' \subseteq foreground
  BY <1>7 DEF WorkerDies
<1>8. CASE Reboot
  BY <1>8 DEF Reboot, Running
<1>9. ~ SetAutostart /\ ~ RunForeground
  BY DEF SetAutostart, RunForeground, operators
<1> QED
  BY <1>3, <1>5, <1>6, <1>7, <1>8, <1>9 DEF Next, Running

\* Under the same premise stop_worker, when it unlinks the identity and returns,
\* leaves no worker running but those of run and once.
THEOREM StopStops == Spec => StopLeavesForeground
<1>1. Managed /\ [Next]_vars =>
        [\A o \in Operators :
           /\ ~ raced /\ faults = 0
           /\ pc[o] = "stopUnlink" /\ pc'[o] # "stopUnlink"
           => Running' \subseteq foreground]_vars
  BY StoppedLeavesNone
<1> QED
  BY ManagedHolds, <1>1, PTL DEF Spec, StopLeavesForeground
=============================================================================
