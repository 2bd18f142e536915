----------------------------- MODULE Lifecycle -----------------------------
(***************************************************************************)
(* worker_cli.py and lifecycle.py.  The commands start, stop, restart and   *)
(* health are a process each; they share the identity file of the worker    *)
(* and nothing else, and no lock orders them.  A file operation, a probe, a *)
(* spawn and a kill are one step each.  The commands run and once are       *)
(* workers themselves, in the foreground: they look at no file.             *)
(*                                                                          *)
(* An identity is a pid with its birth token; one that no variable mentions *)
(* any more may stand for a new process.                                    *)
(***************************************************************************)
EXTENDS Integers, FiniteSets

CONSTANTS
    Operators,  \* processes of the worker CLI
    Workers,    \* identities of worker processes
    NoWorker,
    MaxFaults   \* bound on failed probes and on deaths of an operator

ASSUME WorkersAssumption == IsFiniteSet(Workers) /\ NoWorker \notin Workers
ASSUME FaultsAssumption == MaxFaults \in Nat

VARIABLES
    alive,      \* the worker processes spawned by start that run
    foreground, \* the worker processes of the commands run and once that run
    identity,   \* worker-lifecycle.json
    temp,       \* worker-lifecycle.json.tmp
    autostart,  \* the script in the Startup directory exists
    pc,         \* where each operator is
    command,    \* the command it runs
    known,      \* the identity it has loaded
    mine,       \* the worker it has spawned and not yet recorded
    raced,      \* history: some call began while another one was under way
    faults

files == <<identity, temp, autostart>>
operators == <<pc, command, known, mine>>
workers == <<alive, foreground>>
vars == <<workers, files, operators, raced, faults>>

Commands == {"health", "start", "stop", "restart"}

Init ==
    /\ alive = {} /\ foreground = {}
    /\ identity = NoWorker /\ temp = NoWorker /\ autostart = FALSE
    /\ pc = [o \in Operators |-> "idle"]
    /\ command = [o \in Operators |-> "health"]
    /\ known = [o \in Operators |-> NoWorker]
    /\ mine = [o \in Operators |-> NoWorker]
    /\ raced = FALSE
    /\ faults = 0

----------------------------------------------------------------------------
Goto(o, there) == pc' = [pc EXCEPT ![o] = there] /\ UNCHANGED <<command, known, mine>>

\* Mutant of Return: the spawned process is still remembered.
ReturnKeeping(o) ==
    /\ pc' = [pc EXCEPT ![o] = "idle"]
    /\ known' = [known EXCEPT ![o] = NoWorker]
    /\ UNCHANGED <<command, mine>>

\* The call of operator o ends, by a return or by an exception.
Return(o) ==
    /\ pc' = [pc EXCEPT ![o] = "idle"]
    /\ command' = [command EXCEPT ![o] = "health"]
    /\ known' = [known EXCEPT ![o] = NoWorker]
    /\ mine' = [mine EXCEPT ![o] = NoWorker]

Fault == faults < MaxFaults /\ faults' = faults + 1

Starting(c) == c \in {"health", "start"}

Call(o, c) ==
    /\ pc[o] = "idle"
    /\ pc' = [pc EXCEPT ![o] = IF Starting(c) THEN "load" ELSE "stopLoad"]
    /\ command' = [command EXCEPT ![o] = c]
    /\ raced' = (raced \/ \E q \in Operators \ {o} : pc[q] # "idle")
    /\ UNCHANGED <<workers, files, known, mine, faults>>

----------------------------------------------------------------------------
(* worker_health, by itself or at the beginning of start_worker.            *)

\* No identity: health reports STOPPED, start goes on to spawn.
NotRunning(o) == IF command[o] = "health" THEN Return(o) ELSE Goto(o, "spawn")

Load(o) ==
    /\ pc[o] = "load"
    /\ IF identity = NoWorker
       THEN NotRunning(o)
       ELSE /\ known' = [known EXCEPT ![o] = identity]
            /\ pc' = [pc EXCEPT ![o] = "probe"]
            /\ UNCHANGED <<command, mine>>
    /\ UNCHANGED <<workers, files, raced, faults>>

ProbeAlive(o) ==
    /\ pc[o] = "probe"
    /\ known[o] \in alive
    /\ Return(o)
    /\ UNCHANGED <<workers, files, raced, faults>>

\* Mutant of ProbeDead: the birth token is not compared.
ProbeUnverified(o) ==
    /\ pc[o] = "probe"
    /\ Goto(o, "unlink")
    /\ UNCHANGED <<workers, files, raced, faults>>

\* Mutant of ProbeDead: a stale identity is reported and kept.
ProbeKeeps(o) ==
    /\ pc[o] = "probe"
    /\ known[o] \notin alive
    /\ Return(o)
    /\ UNCHANGED <<workers, files, raced, faults>>

\* The process is gone, or a probe that failed reads as gone.
ProbeDead(o) ==
    /\ pc[o] = "probe"
    /\ \/ known[o] \notin alive /\ UNCHANGED faults
       \/ known[o] \in alive /\ Fault
    /\ Goto(o, "unlink")
    /\ UNCHANGED <<workers, files, raced>>

\* The path is unlinked, whatever identity it holds by now.
UnlinkStale(o) ==
    /\ pc[o] = "unlink"
    /\ identity' = NoWorker
    /\ NotRunning(o)
    /\ UNCHANGED <<workers, temp, autostart, raced, faults>>

----------------------------------------------------------------------------
(* The rest of start_worker.                                                *)

Mentioned == {identity, temp} \cup {known[o] : o \in Operators}
                \cup {mine[o] : o \in Operators}

Free == Workers \ (alive \cup foreground \cup Mentioned)

Spawn(o) ==
    /\ pc[o] = "spawn"
    /\ \E w \in Free :
        /\ alive' = alive \cup {w}
        /\ mine' = [mine EXCEPT ![o] = w]
    /\ pc' = [pc EXCEPT ![o] = "token"]
    /\ UNCHANGED <<foreground, files, command, known, raced, faults>>

ReadToken(o) ==
    /\ pc[o] = "token"
    /\ mine[o] \in alive
    /\ Goto(o, "write")
    /\ UNCHANGED <<workers, files, raced, faults>>

\* No birth token, because the worker died or the probe failed: terminate, and
\* what terminate raises is ignored.
NoToken(o) ==
    /\ pc[o] = "token"
    /\ \/ mine[o] \notin alive /\ UNCHANGED <<alive, faults>>
       \/ /\ mine[o] \in alive /\ Fault
          /\ \E dead \in SUBSET {mine[o]} : alive' = alive \ dead
    /\ Return(o)
    /\ UNCHANGED <<foreground, files, raced>>

WriteTemp(o) ==
    /\ pc[o] = "write"
    /\ temp' = mine[o]
    /\ Goto(o, "replace")
    /\ UNCHANGED <<workers, identity, autostart, raced, faults>>

\* The temporary file has one name: a rival may have written it since, or
\* moved it, and then os.replace raises.
Replace(o) ==
    /\ pc[o] = "replace"
    /\ \/ temp # NoWorker /\ identity' = temp
       \/ temp = NoWorker /\ UNCHANGED identity
    /\ temp' = NoWorker
    /\ Return(o)
    /\ UNCHANGED <<workers, autostart, raced, faults>>

----------------------------------------------------------------------------
(* stop_worker; restart_worker goes on with start_worker.                   *)

\* An identity that does not load, or is not alive, is unlinked.
StopLoad(o) ==
    /\ pc[o] = "stopLoad"
    /\ known' = [known EXCEPT ![o] = identity]
    /\ pc' = [pc EXCEPT ![o] = IF identity = NoWorker THEN "stopUnlink"
                               ELSE "stopProbe"]
    /\ UNCHANGED <<command, mine, workers, files, raced, faults>>

StopProbe(o) ==
    /\ pc[o] = "stopProbe"
    /\ \/ known[o] \in alive /\ Goto(o, "kill") /\ UNCHANGED faults
       \/ known[o] \notin alive /\ Goto(o, "stopUnlink") /\ UNCHANGED faults
       \/ known[o] \in alive /\ Fault /\ Goto(o, "stopUnlink")
    /\ UNCHANGED <<workers, files, raced>>

Kill(o) ==
    /\ pc[o] = "kill"
    /\ known[o] \in alive
    /\ alive' = alive \ {known[o]}
    /\ Goto(o, "stopUnlink")
    /\ UNCHANGED <<foreground, files, raced, faults>>

\* Mutant of KillFails: the identity is unlinked all the same.
KillFailsUnnoticed(o) ==
    /\ pc[o] = "kill"
    /\ Goto(o, "stopUnlink")
    /\ UNCHANGED <<workers, files, raced, faults>>

\* It is gone by now, taskkill fails or times out (the worker may be dead all
\* the same), or the platform has none: LifecycleError, the identity stays.
KillFails(o) ==
    /\ pc[o] = "kill"
    /\ \E dead \in SUBSET {known[o]} : alive' = alive \ dead
    /\ Return(o)
    /\ UNCHANGED <<foreground, files, raced, faults>>

StopUnlink(o) ==
    /\ pc[o] = "stopUnlink"
    /\ identity' = NoWorker
    /\ IF command[o] = "restart"
       THEN /\ pc' = [pc EXCEPT ![o] = "load"]
            /\ command' = [command EXCEPT ![o] = "start"]
            /\ known' = [known EXCEPT ![o] = NoWorker]
            /\ UNCHANGED mine
       ELSE Return(o)
    /\ UNCHANGED <<workers, temp, autostart, raced, faults>>

----------------------------------------------------------------------------
(* run and once; autostart; and what happens to the processes.              *)

\* worker_cli.main goes straight to run_worker, or to one tick.
RunForeground ==
    /\ \E w \in Free : foreground' = foreground \cup {w}
    /\ UNCHANGED <<alive, files, operators, raced, faults>>

SetAutostart ==
    /\ autostart' = ~ autostart
    /\ UNCHANGED <<workers, identity, temp, operators, raced, faults>>

\* It crashes, is interrupted, or its one tick is over.
WorkerDies(w) ==
    /\ w \in alive \cup foreground
    /\ alive' = alive \ {w} /\ foreground' = foreground \ {w}
    /\ UNCHANGED <<files, operators, raced, faults>>

OperatorDies(o) ==
    /\ pc[o] # "idle"
    /\ Fault
    /\ Return(o)
    /\ UNCHANGED <<workers, files, raced>>

\* Files survive; at the next login the script runs the start command.
Reboot ==
    /\ alive \cup foreground # {}
    /\ alive' = {} /\ foreground' = {}
    /\ known' = [o \in Operators |-> NoWorker]
    /\ mine' = [o \in Operators |-> NoWorker]
    /\ IF autostart
       THEN \E o \in Operators :
              /\ pc' = [q \in Operators |-> IF q = o THEN "load" ELSE "idle"]
              /\ command' = [q \in Operators |-> IF q = o THEN "start" ELSE "health"]
       ELSE /\ pc' = [o \in Operators |-> "idle"]
            /\ command' = [o \in Operators |-> "health"]
    /\ UNCHANGED <<files, raced, faults>>

OperatorStep(o) ==
    \/ Load(o) \/ ProbeAlive(o) \/ ProbeDead(o) \/ UnlinkStale(o) \/ Spawn(o)
    \/ ReadToken(o) \/ NoToken(o) \/ WriteTemp(o) \/ Replace(o)
    \/ StopLoad(o) \/ StopProbe(o) \/ Kill(o) \/ KillFails(o) \/ StopUnlink(o)

Next ==
    \/ \E o \in Operators :
        \/ \E c \in Commands : Call(o, c)
        \/ OperatorStep(o) \/ OperatorDies(o)
    \/ \E w \in Workers : WorkerDies(w)
    \/ RunForeground \/ SetAutostart \/ Reboot

Spec == Init /\ [][Next]_vars

\* A command that was called takes its steps.
FairSpec == Spec /\ \A o \in Operators : WF_vars(OperatorStep(o))

----------------------------------------------------------------------------
Steps ==
    {"idle", "load", "probe", "unlink", "spawn", "token", "write", "replace",
     "stopLoad", "stopProbe", "kill", "stopUnlink"}

\* A spawned worker is remembered until it is recorded, and not longer.
TypeOK ==
    /\ alive \subseteq Workers /\ foreground \subseteq Workers \ alive
    /\ {identity, temp} \subseteq Workers \cup {NoWorker}
    /\ autostart \in BOOLEAN /\ raced \in BOOLEAN
    /\ pc \in [Operators -> Steps]
    /\ command \in [Operators -> Commands]
    /\ known \in [Operators -> Workers \cup {NoWorker}]
    /\ mine \in [Operators -> Workers \cup {NoWorker}]
    /\ \A o \in Operators :
          mine[o] # NoWorker <=> pc[o] \in {"token", "write", "replace"}
    /\ faults \in 0 .. MaxFaults

Running == alive \cup foreground

\* While no two calls overlap, start_worker is single-instance: besides those of
\* run and once at most one worker runs, and one more for each failed probe or
\* operator that died, through any sequence of commands, worker deaths, failed
\* kills and reboots.
SingleInstance ==
    ~ raced => Cardinality(Running \ foreground) <= 1 + faults

\* While no two calls overlap and nothing failed, a running worker is the one the
\* identity file names, or the one its starter is about to record, exactly if it
\* is not one of run or once: start and stop know of no other.
WorkerIsKnown ==
    ~ raced /\ faults = 0 =>
        \A w \in Running :
           w \notin foreground <=>
              (identity = w \/ \E o \in Operators : mine[o] = w)

\* Under the same premise what runs when stop_worker returns are the workers of
\* run and once, which it leaves alone.
StopLeavesForeground ==
    [][\A o \in Operators :
         /\ ~ raced /\ faults = 0
         /\ pc[o] = "stopUnlink" /\ pc'[o] # "stopUnlink"
         => Running' \subseteq foreground]_vars

\* From some time on nobody stops the worker, none dies and the machine does not
\* restart, start is called again and again (by hand, at logins), and there is a
\* free pid to spawn with.
Supervised ==
    /\ <>[](\A o \in Operators : Starting(command[o]))
    /\ <>[][alive \subseteq alive' /\ ~ Reboot]_vars
    /\ []<>(\E o \in Operators : pc[o] = "load" /\ command[o] = "start")
    /\ <>[](Free # {} \/ \A o \in Operators : pc[o] # "spawn")

\* Then a running worker is known in the end, whatever calls overlapped before
\* and still do, and whatever identity or temporary file a crash left behind.
EventuallyKnown == Supervised => <>[](identity \in alive)
=============================================================================
