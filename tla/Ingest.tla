------------------------------- MODULE Ingest -------------------------------
(***************************************************************************)
(* github_transport.ingest_comments: how a comment of a mailbox issue       *)
(* becomes a READY task.  Worker processes poll one issue; its comments are *)
(* posted and edited meanwhile, tasks are executed and cancelled meanwhile, *)
(* and a worker may die between any two of its transactions.                *)
(***************************************************************************)
EXTENDS Integers, Sequences, FiniteSets, TaskState

CONSTANTS
    Ingesters,    \* the processes that poll the issue
    Tasks,        \* task ids
    EventIds,     \* transport event ids
    Bodies,       \* contents of a task envelope, result target included
    Postable,     \* the comments the controller may write
    Revised,      \* what an edit may make of one
    Nothing,
    PageSize,     \* comments that one "gh api" call returns
    MaxComments,  \* bound on the comments posted
    MaxEdits,     \* bound on the comments edited
    MaxCrashes    \* bound on the crashes

\* "task" is a well-formed task comment, "prose" has no marker, "malformed"
\* fails with a GitHubTransportError, "foreign" with an error of another class:
\* a repository that is not allowed, or an invalid envelope.
Kinds == {"task", "prose", "malformed", "foreign"}

Comments == [kind : Kinds, task : Tasks, event : EventIds, body : Bodies]

ASSUME NothingAssumption == Nothing \notin Tasks \cup EventIds \cup Bodies
ASSUME PostableAssumption == Postable \cup Revised \subseteq Comments
ASSUME BoundsAssumption ==
    /\ PageSize \in Nat \ {0}
    /\ MaxComments \in Nat /\ MaxEdits \in Nat /\ MaxCrashes \in Nat

VARIABLES
    mailbox,   \* the comments of the issue; its index is a comment's URL
    status,    \* tasks.status
    row,       \* the goal, repository and branch columns of tasks
    envelope,  \* task.json of the task
    target,    \* transport_deliveries: the event of the task's delivery
    ready,     \* task_events: the task an event's "ready" transition was for
    ingest,    \* transport_ingests
    pc,        \* where each ingester is
    page,      \* the comments it fetched
    at,        \* the index of the comment it is at
    contested, \* history: the tasks two ingesters were creating at a time
    edits, crashes

remote == <<mailbox, edits>>
store == <<status, row, target, ready, ingest>>
vars == <<remote, store, envelope, pc, page, at, contested, crashes>>

Init ==
    /\ mailbox = <<>>
    /\ status = [t \in Tasks |-> Absent]
    /\ row = [t \in Tasks |-> Nothing]
    /\ envelope = [t \in Tasks |-> Nothing]
    /\ target = [t \in Tasks |-> Nothing]
    /\ ready = [e \in EventIds |-> Nothing]
    /\ ingest = [e \in EventIds |-> [task |-> Nothing]]
    /\ pc = [p \in Ingesters |-> "idle"]
    /\ page = [p \in Ingesters |-> <<>>]
    /\ at = [p \in Ingesters |-> 1]
    /\ contested = {}
    /\ edits = 0
    /\ crashes = 0

----------------------------------------------------------------------------
(* Helpers.                                                                 *)

Current(p) == page[p][at[p]]

\* What record_transport_ingest keeps: task, source and payload hash.
Fingerprint(p) ==
    [task |-> Current(p).task, source |-> at[p], body |-> Current(p).body]

NoIngest == [task |-> Nothing]

Goto(p, there) ==
    /\ pc' = [pc EXCEPT ![p] = there]
    /\ UNCHANGED <<page, at>>

NextComment(p) ==
    /\ at' = [at EXCEPT ![p] = @ + 1]
    /\ pc' = [pc EXCEPT ![p] = "comment"]
    /\ UNCHANGED page

\* ingest_comments is left: the tick goes on ("idle", whether it returned or
\* raised a GitHubTransportError), or the exception ends run_worker ("ended").
Leave(p, there) ==
    /\ pc' = [pc EXCEPT ![p] = there]
    /\ page' = [page EXCEPT ![p] = <<>>]
    /\ at' = [at EXCEPT ![p] = 1]

----------------------------------------------------------------------------
(* One poll.                                                                *)

Fetch(p) ==
    /\ pc[p] = "idle"
    /\ page' = [page EXCEPT ![p] =
                   SubSeq(mailbox, 1, IF Len(mailbox) < PageSize
                                      THEN Len(mailbox) ELSE PageSize)]
    /\ pc' = [pc EXCEPT ![p] = "comment"]
    /\ UNCHANGED <<at, remote, store, envelope, contested, crashes>>

\* "gh" fails, times out or answers no list: a GitHubTransportError.
FetchFails(p) ==
    /\ pc[p] = "idle"
    /\ UNCHANGED vars

Exhausted(p) ==
    /\ pc[p] = "comment"
    /\ at[p] > Len(page[p])
    /\ Leave(p, "idle")
    /\ UNCHANGED <<remote, store, envelope, contested, crashes>>

Skip(p) ==
    /\ pc[p] = "comment"
    /\ at[p] <= Len(page[p]) /\ Current(p).kind = "prose"
    /\ NextComment(p)
    /\ UNCHANGED <<remote, store, envelope, contested, crashes>>

Refuse(p) ==
    /\ pc[p] = "comment"
    /\ at[p] <= Len(page[p])
    /\ \/ Current(p).kind = "malformed" /\ Leave(p, "idle")
       \/ Current(p).kind = "foreign" /\ Leave(p, "ended")
    /\ UNCHANGED <<remote, store, envelope, contested, crashes>>

\* Mutant of Lookup: an exact replay ends the poll.
LookupEndsAtReplay(p) ==
    LET known == ingest[Current(p).event] IN
    /\ pc[p] = "comment"
    /\ at[p] <= Len(page[p]) /\ Current(p).kind = "task"
    /\ IF known = NoIngest THEN Goto(p, "exists") ELSE Leave(p, "idle")
    /\ UNCHANGED <<remote, store, envelope, contested, crashes>>

\* The event is new, an exact replay, or a conflicting one.
Lookup(p) ==
    LET known == ingest[Current(p).event] IN
    /\ pc[p] = "comment"
    /\ at[p] <= Len(page[p]) /\ Current(p).kind = "task"
    /\ \/ known = NoIngest /\ Goto(p, "exists")
       \/ known = Fingerprint(p) /\ NextComment(p)
       \/ known \notin {NoIngest, Fingerprint(p)} /\ Leave(p, "idle")
    /\ UNCHANGED <<remote, store, envelope, contested, crashes>>

\* The ingester is between the look at the task and the creation of its row.
Creating(q, t) == pc[q] \in {"write", "create"} /\ Current(q).task = t

\* A task without an ingest record of this event is somebody else's.
CheckTask(p) ==
    LET t == Current(p).task IN
    /\ pc[p] = "exists"
    /\ \/ /\ status[t] = Absent /\ Goto(p, "write")
          /\ contested' = IF \E q \in Ingesters : Creating(q, t)
                          THEN contested \cup {t} ELSE contested
       \/ status[t] # Absent /\ Leave(p, "idle") /\ UNCHANGED contested
    /\ UNCHANGED <<remote, store, envelope, crashes>>

\* Mutant of WriteEnvelope: a file that exists is kept.
WriteEnvelopeOnce(p) ==
    LET t == Current(p).task IN
    /\ pc[p] = "write"
    /\ envelope' = IF envelope[t] # Nothing THEN envelope
                   ELSE [envelope EXCEPT ![t] = Current(p).body]
    /\ Goto(p, "create")
    /\ UNCHANGED <<remote, store, contested, crashes>>

WriteEnvelope(p) ==
    /\ pc[p] = "write"
    /\ envelope' = [envelope EXCEPT ![Current(p).task] = Current(p).body]
    /\ Goto(p, "create")
    /\ UNCHANGED <<remote, store, contested, crashes>>

\* Mutant of Create: INSERT OR IGNORE.
CreateOrIgnore(p) ==
    LET t == Current(p).task IN
    /\ pc[p] = "create"
    /\ IF status[t] = Absent
       THEN /\ status' = [status EXCEPT ![t] = "QUEUED"]
            /\ row' = [row EXCEPT ![t] = Current(p).body]
       ELSE UNCHANGED <<status, row>>
    /\ Goto(p, "target")
    /\ UNCHANGED <<remote, target, ready, ingest, envelope, contested, crashes>>

\* TaskConflict, a StateError, is not caught in the tick.
Create(p) ==
    LET t == Current(p).task IN
    /\ pc[p] = "create"
    /\ \/ /\ status[t] = Absent
          /\ status' = [status EXCEPT ![t] = "QUEUED"]
          /\ row' = [row EXCEPT ![t] = Current(p).body]
          /\ Goto(p, "target")
       \/ status[t] # Absent /\ Leave(p, "ended") /\ UNCHANGED <<status, row>>
    /\ UNCHANGED <<remote, target, ready, ingest, envelope, contested, crashes>>

\* The row of the task exists and is this one, or the event is still unused.
Targetable(t, e) ==
    \/ target[t] = e
    \/ target[t] = Nothing /\ \A u \in Tasks : target[u] # e

SetTarget(p) ==
    LET t == Current(p).task
        e == Current(p).event IN
    /\ pc[p] = "target"
    /\ \/ /\ Targetable(t, e)
          /\ target' = [target EXCEPT ![t] = e]
          /\ Goto(p, "status")
       \/ ~ Targetable(t, e) /\ Leave(p, "ended") /\ UNCHANGED target
    /\ UNCHANGED <<remote, status, row, ready, ingest, envelope, contested, crashes>>

ReadStatus(p) ==
    LET s == status[Current(p).task] IN
    /\ pc[p] = "status"
    /\ \/ s = "QUEUED" /\ Goto(p, "ready")
       \/ s = "READY" /\ Goto(p, "record")
       \/ s \notin {"QUEUED", "READY"} /\ Leave(p, "idle")
    /\ UNCHANGED <<remote, store, envelope, contested, crashes>>

\* state.transition with the event id "<event>:ready".
MakeReady(p) ==
    LET t == Current(p).task
        e == Current(p).event IN
    /\ pc[p] = "ready"
    /\ \/ /\ ready[e] = Nothing /\ Legal(status[t], "READY")
          /\ status' = [status EXCEPT ![t] = "READY"]
          /\ ready' = [ready EXCEPT ![e] = t]
          /\ Goto(p, "record")
       \/ /\ ready[e] # Nothing \/ ~ Legal(status[t], "READY")
          /\ Leave(p, "ended")
          /\ UNCHANGED <<status, ready>>
    /\ UNCHANGED <<remote, row, target, ingest, envelope, contested, crashes>>

\* Mutant of Record: the payload hash is not kept.
RecordUnhashed(p) ==
    LET e == Current(p).event IN
    /\ pc[p] = "record"
    /\ ingest' = [ingest EXCEPT ![e] = [task |-> Current(p).task, source |-> at[p]]]
    /\ Leave(p, "idle")
    /\ UNCHANGED <<remote, status, row, target, ready, envelope, contested, crashes>>

Record(p) ==
    LET e == Current(p).event IN
    /\ pc[p] = "record"
    /\ IF ingest[e] \in {NoIngest, Fingerprint(p)}
       THEN ingest' = [ingest EXCEPT ![e] = Fingerprint(p)] /\ Leave(p, "idle")
       ELSE UNCHANGED ingest /\ Leave(p, "ended")
    /\ UNCHANGED <<remote, status, row, target, ready, envelope, contested, crashes>>

----------------------------------------------------------------------------
(* The worker's death, and everybody else.                                  *)

Crash(p) ==
    /\ pc[p] \notin {"idle", "ended"}
    /\ crashes < MaxCrashes
    /\ crashes' = crashes + 1
    /\ Leave(p, "ended")
    /\ UNCHANGED <<remote, store, envelope, contested>>

\* start_worker, by hand or at the next login.
Restart(p) ==
    /\ pc[p] = "ended"
    /\ Leave(p, "idle")
    /\ UNCHANGED <<remote, store, envelope, contested, crashes>>

Post(c) ==
    /\ Len(mailbox) < MaxComments
    /\ mailbox' = Append(mailbox, c)
    /\ UNCHANGED <<edits, store, envelope, pc, page, at, contested, crashes>>

Edit(i, c) ==
    /\ edits < MaxEdits /\ mailbox[i] # c
    /\ edits' = edits + 1
    /\ mailbox' = [mailbox EXCEPT ![i] = c]
    /\ UNCHANGED <<store, envelope, pc, page, at, contested, crashes>>

\* The execution coordinator takes the task, or a cancel gets to it first.
Proceed(t) ==
    /\ \/ status[t] = "READY" /\ status' = [status EXCEPT ![t] = "RUNNING"]
       \/ /\ Legal(status[t], "CANCELLED")
          /\ status' = [status EXCEPT ![t] = "CANCELLED"]
    /\ UNCHANGED <<remote, row, target, ready, ingest, envelope, pc, page, at,
                   contested, crashes>>

Poll(p) ==
    \/ Fetch(p) \/ FetchFails(p) \/ Exhausted(p) \/ Skip(p) \/ Refuse(p)
    \/ Lookup(p) \/ CheckTask(p) \/ WriteEnvelope(p) \/ Create(p) \/ SetTarget(p)
    \/ ReadStatus(p) \/ MakeReady(p) \/ Record(p)

Next ==
    \/ \E p \in Ingesters : Poll(p) \/ Crash(p) \/ Restart(p)
    \/ \E c \in Postable : Post(c)
    \/ \E c \in Revised, i \in DOMAIN mailbox : Edit(i, c)
    \/ \E t \in Tasks : Proceed(t)

Spec == Init /\ [][Next]_vars

----------------------------------------------------------------------------
Fingerprints ==
    [task : Tasks, source : 1 .. MaxComments, body : Bodies] \cup {NoIngest}

TypeOK ==
    /\ mailbox \in Seq(Comments)
    /\ status \in [Tasks -> Statuses \cup {Absent}]
    /\ row \in [Tasks -> Bodies \cup {Nothing}]
    /\ envelope \in [Tasks -> Bodies \cup {Nothing}]
    /\ target \in [Tasks -> EventIds \cup {Nothing}]
    /\ ready \in [EventIds -> Tasks \cup {Nothing}]
    /\ ingest \in [EventIds -> Fingerprints]
    /\ pc \in [Ingesters ->
                 {"idle", "ended", "comment", "exists", "write", "create",
                  "target", "status", "ready", "record"}]
    /\ page \in [Ingesters -> Seq(Comments)]
    /\ at \in [Ingesters -> 1 .. MaxComments + 1]
    /\ contested \subseteq Tasks
    /\ edits \in 0 .. MaxEdits
    /\ crashes \in 0 .. MaxCrashes

\* An ingest is recorded only for the task this event created and made READY,
\* with the content the record was made from, and whose result it will deliver.
IngestOwnsTask ==
    \A e \in EventIds :
        LET t == ingest[e].task IN
        ingest[e] # NoIngest =>
            /\ status[t] \notin {Absent, "QUEUED"}
            /\ ready[e] = t /\ target[t] = e
            /\ ingest[e].body = row[t]

\* The envelope an executor will read is the one the row was made from: no
\* replay, edit, duplicate or second comment, and no worker that dies after it
\* wrote the file and before it created the row, puts another in its place.  Only
\* a second ingester can, one that looked for the task, too, before it was there:
\* it writes the file first and learns then that the row exists.
EnvelopeIsRow ==
    \A t \in Tasks \ contested : status[t] # Absent => envelope[t] = row[t]

----------------------------------------------------------------------------
(* The worker polls for ever, a crashed one is started again, and "gh" does   *)
(* not fail for ever: a poll that did not happen is no step of Poll.          *)
FairSpec ==
    /\ Spec
    /\ \A p \in Ingesters : WF_vars(Poll(p)) /\ WF_vars(Restart(p))

\* The controller reuses no event or task id, posts nothing ill-formed and edits
\* nothing, and nobody cancels a task before its ingest is recorded.
Orderly ==
    /\ edits = 0
    /\ \A i \in DOMAIN mailbox :
        /\ mailbox[i].kind \in {"task", "prose"}
        /\ \A j \in DOMAIN mailbox \ {i} :
              mailbox[i].kind = "task" /\ mailbox[j].kind = "task" =>
                  /\ mailbox[i].event # mailbox[j].event
                  /\ mailbox[i].task # mailbox[j].task
    /\ \A t \in Tasks :
        status[t] = "CANCELLED" => \E e \in EventIds : ingest[e].task = t

\* Every task comment of an orderly mailbox becomes a task that is ingested,
\* unless a worker dies in the middle of a poll: again and again none is left.
OrderlyIsIngested ==
    [](Orderly /\ crashes = 0) =>
        []<>(\A i \in DOMAIN mailbox :
               mailbox[i].kind = "task" => ingest[mailbox[i].event] # NoIngest)
=============================================================================
