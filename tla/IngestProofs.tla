----------------------------- MODULE IngestProofs -----------------------------
(***************************************************************************)
(* Safety of Ingest, for any number of workers, tasks, events, comments,    *)
(* edits and crashes.                                                       *)
(***************************************************************************)
EXTENDS Ingest, SequenceTheorems, TLAPS

\* Steps of ingest_comments inside one task comment.
Inside == {"exists", "write", "create", "target", "status", "ready", "record"}

\* A poll that "gh" answered, one step of it; and what the controller does.
Polls(p) ==
    \/ Fetch(p) \/ Exhausted(p) \/ Skip(p) \/ Refuse(p) \/ Lookup(p)
    \/ CheckTask(p) \/ WriteEnvelope(p) \/ Create(p) \/ SetTarget(p)
    \/ ReadStatus(p) \/ MakeReady(p) \/ Record(p)

Writes ==
    \/ \E c \in Postable : Post(c)
    \/ \E c \in Revised, i \in DOMAIN mailbox : Edit(i, c)

Steps ==
    \/ \E p \in Ingesters : Polls(p) \/ Crash(p) \/ Restart(p)
    \/ Writes
    \/ \E t \in Tasks : Proceed(t)

LEMMA NextSteps == [Next]_vars => Steps \/ UNCHANGED vars
BY DEF Next, Poll, FetchFails, Polls, Writes, Steps

\* Nothing is longer than the mailbox may grow, and a worker that is inside a
\* comment has one.
PagesOK ==
    /\ Len(mailbox) <= MaxComments
    /\ \A p \in Ingesters :
          /\ Len(page[p]) <= MaxComments
          /\ pc[p] \in Inside => at[p] \in 1 .. Len(page[p])

\* What worker p knows of the task of its comment once it has created it, once
\* it has set its delivery, and once it has made it READY.  The row, the
\* delivery and the event of a task are written once; other workers and the
\* coordinator only move its status on.
Progress(p) ==
    LET t == Current(p).task
        e == Current(p).event IN
    /\ pc[p] \in {"target", "status", "ready", "record"} =>
          status[t] # Absent /\ row[t] = Current(p).body
    /\ pc[p] \in {"status", "ready", "record"} => target[t] = e
    /\ pc[p] = "record" => status[t] # "QUEUED" /\ ready[e] = t

\* A task got past QUEUED, other than by a cancel, by the event of its delivery.
ReadyIsTargeted ==
    \A t \in Tasks :
        status[t] \notin {Absent, "QUEUED", "CANCELLED"} =>
            target[t] # Nothing /\ ready[target[t]] = t

Ingesting ==
    /\ TypeOK
    /\ PagesOK
    /\ \A p \in Ingesters : Progress(p)
    /\ ReadyIsTargeted
    /\ IngestOwnsTask

----------------------------------------------------------------------------
(* Lemmas about the actions' parts.                                         *)

\* A worker inside a comment has a comment.
LEMMA CurrentIsComment ==
    ASSUME TypeOK, NEW p \in Ingesters, at[p] \in 1 .. Len(page[p])
    PROVE  /\ Current(p) \in Comments
           /\ Current(p).task \in Tasks /\ Current(p).event \in EventIds
           /\ Current(p).body \in Bodies
<1>1. Current(p) \in Comments
  BY DEF TypeOK, Current
<1> QED
  BY <1>1 DEF Comments

\* A page is as much of the mailbox as one call returns.
LEMMA PageOfMailbox ==
    ASSUME NEW m \in Seq(Comments), Len(m) <= MaxComments
    PROVE  LET s == SubSeq(m, 1, IF Len(m) < PageSize THEN Len(m) ELSE PageSize)
           IN  s \in Seq(Comments) /\ Len(s) <= MaxComments
<1> DEFINE n == IF Len(m) < PageSize THEN Len(m) ELSE PageSize
<1>1. n \in 0 .. Len(m) /\ Len(m) \in Nat
  BY BoundsAssumption
<1> HIDE DEF n
<1>2. \A i \in 1 .. n : m[i] \in Comments
  BY <1>1
<1>3. SubSeq(m, 1, n) \in Seq(Comments) /\ Len(SubSeq(m, 1, n)) = n
  BY <1>1, <1>2, SubSeqProperties
<1> QED
  BY <1>1, <1>3, BoundsAssumption DEF n

\* Where a worker is after each of the three ways to go on.
LEMMA Moving ==
    ASSUME TypeOK, PagesOK, NEW p \in Ingesters,
           \/ \E there \in Inside : Goto(p, there) /\ at[p] \in 1 .. Len(page[p])
           \/ NextComment(p) /\ at[p] \in 1 .. Len(page[p])
           \/ \E there \in {"idle", "ended"} : Leave(p, there)
    PROVE  /\ pc' \in [Ingesters ->
                 {"idle", "ended", "comment", "exists", "write", "create",
                  "target", "status", "ready", "record"}]
           /\ page' \in [Ingesters -> Seq(Comments)]
           /\ at' \in [Ingesters -> 1 .. MaxComments + 1]
           /\ \A q \in Ingesters :
                 /\ Len(page'[q]) <= MaxComments
                 /\ pc'[q] \in Inside => at'[q] \in 1 .. Len(page'[q])
           /\ \A q \in Ingesters \ {p} : pc'[q] = pc[q] /\ page'[q] = page[q]
                                         /\ at'[q] = at[q]
<1>1. CASE \E there \in Inside : Goto(p, there) /\ at[p] \in 1 .. Len(page[p])
  BY <1>1 DEF Goto, Inside, TypeOK, PagesOK
<1>2. CASE NextComment(p) /\ at[p] \in 1 .. Len(page[p])
  BY <1>2, BoundsAssumption DEF NextComment, Inside, TypeOK, PagesOK
<1>3. CASE \E there \in {"idle", "ended"} : Leave(p, there)
  <2>1. <<>> \in Seq(Comments) /\ Len(<<>>) = 0
    OBVIOUS
  <2> QED
    BY <1>3, <2>1, BoundsAssumption DEF Leave, Inside, TypeOK, PagesOK
<1> QED
  BY <1>1, <1>2, <1>3

----------------------------------------------------------------------------
(* Types.                                                                   *)

\* A worker's step is one of the three ways to go on, but for the fetch.
LEMMA PollMoves ==
    ASSUME TypeOK, PagesOK, NEW p \in Ingesters,
           (Polls(p) /\ ~ Fetch(p)) \/ Crash(p) \/ Restart(p)
    PROVE  /\ \/ \E there \in Inside : Goto(p, there) /\ at[p] \in 1 .. Len(page[p])
              \/ NextComment(p) /\ at[p] \in 1 .. Len(page[p])
              \/ \E there \in {"idle", "ended"} : Leave(p, there)
           /\ UNCHANGED remote
<1>1. at[p] <= Len(page[p]) => at[p] \in 1 .. Len(page[p])
  BY BoundsAssumption DEF TypeOK
<1>2. CASE Skip(p) \/ Lookup(p)
  BY <1>1, <1>2 DEF Skip, Lookup, Inside
<1>3. CASE Exhausted(p) \/ Refuse(p) \/ Crash(p) \/ Restart(p)
  BY <1>3 DEF Exhausted, Refuse, Crash, Restart
<1>4. pc[p] \in Inside => at[p] \in 1 .. Len(page[p])
  BY DEF PagesOK
<1>5. CASE CheckTask(p) \/ WriteEnvelope(p) \/ Create(p) \/ SetTarget(p)
  BY <1>4, <1>5 DEF CheckTask, WriteEnvelope, Create, SetTarget, Inside
<1>6. CASE ReadStatus(p) \/ MakeReady(p) \/ Record(p)
  BY <1>4, <1>6 DEF ReadStatus, MakeReady, Record, Inside
<1> QED
  BY <1>2, <1>3, <1>5, <1>6 DEF Polls

\* The types of what a worker writes.
LEMMA PollWrites ==
    ASSUME TypeOK, PagesOK, NEW p \in Ingesters, Polls(p)
    PROVE  /\ status' \in [Tasks -> Statuses \cup {Absent}]
           /\ row' \in [Tasks -> Bodies \cup {Nothing}]
           /\ envelope' \in [Tasks -> Bodies \cup {Nothing}]
           /\ target' \in [Tasks -> EventIds \cup {Nothing}]
           /\ ready' \in [EventIds -> Tasks \cup {Nothing}]
           /\ ingest' \in [EventIds -> Fingerprints]
           /\ contested' \subseteq Tasks
           /\ crashes' = crashes
<1>1. pc[p] \in Inside => /\ Current(p).task \in Tasks /\ Current(p).event \in EventIds
                          /\ Current(p).body \in Bodies
                          /\ at[p] \in 1 .. MaxComments
  BY CurrentIsComment, BoundsAssumption DEF PagesOK, TypeOK
<1>2. CASE \/ Fetch(p) \/ Exhausted(p) \/ Skip(p) \/ Refuse(p) \/ Lookup(p)
           \/ ReadStatus(p)
  BY <1>2 DEF Fetch, Exhausted, Skip, Refuse, Lookup, ReadStatus, store, TypeOK
<1>8. CASE CheckTask(p)
  BY <1>1, <1>8 DEF CheckTask, store, Inside, TypeOK
<1>3. CASE WriteEnvelope(p)
  BY <1>1, <1>3 DEF WriteEnvelope, Inside, store, TypeOK
<1>4. CASE Create(p)
  BY <1>1, <1>4 DEF Create, Inside, TypeOK, Statuses
<1>5. CASE SetTarget(p)
  BY <1>1, <1>5 DEF SetTarget, Inside, TypeOK
<1>6. CASE MakeReady(p)
  BY <1>1, <1>6 DEF MakeReady, Inside, TypeOK, Statuses
<1>7. CASE Record(p)
  <2>1. Fingerprint(p) \in Fingerprints
    BY <1>1, <1>7 DEF Record, Inside, Fingerprint, Fingerprints
  <2> QED
    BY <1>1, <1>7, <2>1 DEF Record, Inside, TypeOK
<1> QED
  BY <1>2, <1>3, <1>4, <1>5, <1>6, <1>7, <1>8 DEF Polls

LEMMA TypesStep ==
    ASSUME TypeOK, PagesOK, Steps
    PROVE  TypeOK' /\ PagesOK'
<1>1. ASSUME NEW p \in Ingesters, Polls(p) \/ Crash(p) \/ Restart(p)
      PROVE  TypeOK' /\ PagesOK'
  <2>1. CASE Fetch(p)
    <3>1. PagesOK' /\ page' \in [Ingesters -> Seq(Comments)]
      BY <2>1, PageOfMailbox DEF Fetch, remote, TypeOK, PagesOK, Inside
    <3> QED
      BY <2>1, <3>1 DEF Fetch, remote, store, TypeOK
  <2>2. CASE ~ Fetch(p)
    <3>1. UNCHANGED remote
      BY <1>1, <2>2, PollMoves
    <3>2. /\ pc' \in [Ingesters ->
                 {"idle", "ended", "comment", "exists", "write", "create",
                  "target", "status", "ready", "record"}]
          /\ page' \in [Ingesters -> Seq(Comments)]
          /\ at' \in [Ingesters -> 1 .. MaxComments + 1]
          /\ PagesOK'
      BY <1>1, <2>2, <3>1, PollMoves, Moving DEF PagesOK, remote
    <3>3. CASE Polls(p)
      BY <3>1, <3>2, <3>3, PollWrites DEF remote, TypeOK
    <3>4. CASE Crash(p) \/ Restart(p)
      BY <3>1, <3>2, <3>4, BoundsAssumption DEF Crash, Restart, remote, store, TypeOK
    <3> QED
      BY <1>1, <3>3, <3>4
  <2> QED
    BY <2>1, <2>2
<1>2. ASSUME NEW c \in Postable, Post(c)
      PROVE  TypeOK' /\ PagesOK'
  <2>1. mailbox' \in Seq(Comments) /\ Len(mailbox') <= MaxComments
    BY <1>2, PostableAssumption, BoundsAssumption DEF Post, TypeOK
  <2> QED
    BY <1>2, <2>1 DEF Post, store, TypeOK, PagesOK
<1>3. ASSUME NEW c \in Revised, NEW i \in DOMAIN mailbox, Edit(i, c)
      PROVE  TypeOK' /\ PagesOK'
  <2>1. mailbox' \in Seq(Comments) /\ Len(mailbox') = Len(mailbox)
    BY <1>3, PostableAssumption DEF Edit, TypeOK
  <2> QED
    BY <1>3, <2>1, BoundsAssumption DEF Edit, store, TypeOK, PagesOK
<1>4. ASSUME NEW t \in Tasks, Proceed(t)
      PROVE  TypeOK' /\ PagesOK'
  BY <1>4 DEF Proceed, remote, TypeOK, PagesOK, Statuses
<1> QED
  BY <1>1, <1>2, <1>3, <1>4 DEF Steps, Writes

----------------------------------------------------------------------------
(* What is written once.                                                    *)

Kept ==
    /\ \A t \in Tasks :
          /\ status[t] # Absent => status'[t] # Absent /\ row'[t] = row[t]
          /\ status[t] \notin {Absent, "QUEUED"} =>
                status'[t] \notin {Absent, "QUEUED"}
          /\ target[t] # Nothing => target'[t] = target[t]
    /\ \A e \in EventIds : ready[e] # Nothing => ready'[e] = ready[e]

LEMMA KeptStep ==
    ASSUME TypeOK, Steps
    PROVE  Kept
<1>1. ASSUME NEW p \in Ingesters, Polls(p) \/ Crash(p) \/ Restart(p)
      PROVE  Kept
  <2>1. CASE Create(p)
    BY <2>1 DEF Create, TypeOK, Kept, Absent
  <2>2. CASE SetTarget(p)
    BY <2>2 DEF SetTarget, Targetable, TypeOK, Kept
  <2>3. CASE MakeReady(p)
    BY <2>3 DEF MakeReady, TypeOK, Kept, Absent
  <2>4. CASE ~ (Create(p) \/ SetTarget(p) \/ MakeReady(p))
    BY <1>1, <2>4 DEF Polls, Fetch, Exhausted, Skip, Refuse, Lookup, CheckTask,
          WriteEnvelope, ReadStatus, Record, Crash, Restart, store, Kept
  <2> QED
    BY <2>1, <2>2, <2>3, <2>4
<1>2. ASSUME NEW t \in Tasks, Proceed(t)
      PROVE  Kept
  BY <1>2 DEF Proceed, Legal, Statuses, Absent, TypeOK, Kept
<1>3. CASE Writes
  BY <1>3 DEF Writes, Post, Edit, store, Kept
<1> QED
  BY <1>1, <1>2, <1>3 DEF Steps

\* So what another worker knows stays true.
LEMMA ProgressOfOthers ==
    ASSUME TypeOK, PagesOK, Kept, NEW q \in Ingesters, Progress(q),
           pc'[q] = pc[q], page'[q] = page[q], at'[q] = at[q]
    PROVE  Progress(q)'
<1>1. Current(q)' = Current(q)
  BY DEF Current
<1>2. pc[q] \in Inside => Current(q).task \in Tasks /\ Current(q).event \in EventIds
  BY CurrentIsComment DEF PagesOK
<1> QED
  BY <1>1, <1>2, NothingAssumption DEF Progress, Kept, Inside

\* Each step of p to the next of the comment adds what Progress says there.
LEMMA ProgressOfActor ==
    ASSUME TypeOK, PagesOK, ReadyIsTargeted, Kept, NEW p \in Ingesters,
           Progress(p), Polls(p)
    PROVE  Progress(p)'
<1>1. pc[p] \in Inside =>
          Current(p).task \in Tasks /\ Current(p).event \in EventIds
          /\ Current(p).body \in Bodies
  BY CurrentIsComment DEF PagesOK
<1>2. \A there : Goto(p, there) => pc'[p] = there /\ Current(p)' = Current(p)
  BY DEF Goto, TypeOK, Current
<1>3. CASE pc'[p] \notin {"target", "status", "ready", "record"}
  BY <1>3 DEF Progress
<1>4. CASE \/ Fetch(p) \/ Exhausted(p) \/ Skip(p) \/ Refuse(p) \/ Lookup(p)
           \/ CheckTask(p) \/ WriteEnvelope(p) \/ Record(p)
  <2>1. pc'[p] \notin {"target", "status", "ready", "record"}
    BY <1>4 DEF Fetch, Exhausted, Skip, Refuse, Lookup, CheckTask, WriteEnvelope,
                Record, Goto, Leave, NextComment, TypeOK
  <2> QED
    BY <1>3, <2>1
<1>5. CASE Create(p)
  <2>1. CASE Leave(p, "ended")
    BY <1>3, <2>1 DEF Leave, TypeOK
  <2>2. CASE ~ Leave(p, "ended")
    <3>1. /\ pc'[p] = "target" /\ Current(p)' = Current(p)
          /\ status'[Current(p).task] = "QUEUED"
          /\ row'[Current(p).task] = Current(p).body
      BY <1>1, <1>2, <1>5, <2>2 DEF Create, Inside, TypeOK
    <3> QED
      BY <3>1 DEF Progress, Absent
  <2> QED
    BY <2>1, <2>2
<1>6. CASE SetTarget(p)
  <2>1. CASE Leave(p, "ended")
    BY <1>3, <2>1 DEF Leave, TypeOK
  <2>2. CASE ~ Leave(p, "ended")
    <3>1. /\ pc'[p] = "status" /\ Current(p)' = Current(p)
          /\ target'[Current(p).task] = Current(p).event
          /\ status' = status /\ row' = row
      BY <1>1, <1>2, <1>6, <2>2 DEF SetTarget, Inside, TypeOK
    <3> QED
      BY <1>6, <3>1 DEF Progress, SetTarget
  <2> QED
    BY <2>1, <2>2
<1>7. CASE ReadStatus(p)
  <2>1. status' = status /\ row' = row /\ target' = target /\ ready' = ready
    BY <1>7 DEF ReadStatus, store
  <2>2. CASE Goto(p, "ready")
    <3>1. pc'[p] = "ready" /\ Current(p)' = Current(p)
      BY <1>2, <2>2
    <3> QED
      BY <1>7, <2>1, <3>1 DEF Progress, ReadStatus
  <2>3. CASE Goto(p, "record") /\ status[Current(p).task] = "READY"
    <3>1. pc'[p] = "record" /\ Current(p)' = Current(p)
      BY <1>2, <2>3
    <3>2. target[Current(p).task] = Current(p).event
      BY <1>7 DEF Progress, ReadStatus
    <3>3. ready[Current(p).event] = Current(p).task
      BY <1>1, <1>7, <2>3, <3>2 DEF ReadyIsTargeted, ReadStatus, Inside, Absent
    <3> QED
      BY <1>7, <2>1, <2>3, <3>1, <3>2, <3>3 DEF Progress, ReadStatus
  <2>4. CASE Leave(p, "idle")
    BY <1>3, <2>4 DEF Leave, TypeOK
  <2> QED
    BY <1>7, <2>2, <2>3, <2>4 DEF ReadStatus
<1>8. CASE MakeReady(p)
  <2>1. CASE Leave(p, "ended")
    BY <1>3, <2>1 DEF Leave, TypeOK
  <2>2. CASE ~ Leave(p, "ended")
    <3>1. /\ pc'[p] = "record" /\ Current(p)' = Current(p)
          /\ status'[Current(p).task] = "READY"
          /\ ready'[Current(p).event] = Current(p).task
          /\ target' = target /\ row' = row
      BY <1>1, <1>2, <1>8, <2>2 DEF MakeReady, Inside, TypeOK
    <3> QED
      BY <1>8, <3>1 DEF Progress, MakeReady, Absent
  <2> QED
    BY <2>1, <2>2
<1> QED
  BY <1>4, <1>5, <1>6, <1>7, <1>8 DEF Polls

LEMMA ProgressStep ==
    ASSUME TypeOK, PagesOK, ReadyIsTargeted, \A p \in Ingesters : Progress(p), Steps,
           NEW q \in Ingesters
    PROVE  Progress(q)'
<1>1. Kept
  BY KeptStep
<1>2. CASE pc'[q] = pc[q] /\ page'[q] = page[q] /\ at'[q] = at[q]
  BY <1>1, <1>2, ProgressOfOthers
<1>3. ASSUME NEW p \in Ingesters, Polls(p) \/ Crash(p) \/ Restart(p)
      PROVE  Progress(q)'
  <2>1. CASE p = q
    <3>1. CASE Polls(p)
      BY <1>1, <2>1, <3>1, ProgressOfActor
    <3>2. CASE Crash(p) \/ Restart(p)
      BY <2>1, <3>2 DEF Crash, Restart, Leave, TypeOK, Progress
    <3> QED
      BY <1>3, <3>1, <3>2
  <2>2. CASE p # q
    <3>1. CASE Fetch(p)
      BY <1>2, <2>2, <3>1 DEF Fetch, TypeOK
    <3>2. CASE ~ Fetch(p)
      BY <1>2, <1>3, <2>2, <3>2, PollMoves, Moving
    <3> QED
      BY <3>1, <3>2
  <2> QED
    BY <2>1, <2>2
<1>4. CASE \/ Writes
           \/ \E t \in Tasks : Proceed(t)
  BY <1>2, <1>4 DEF Writes, Post, Edit, Proceed
<1> QED
  BY <1>3, <1>4 DEF Steps

----------------------------------------------------------------------------
(* The safety properties.                                                   *)

LEMMA ReadyTargetedStep ==
    ASSUME TypeOK, PagesOK, ReadyIsTargeted, \A p \in Ingesters : Progress(p), Steps
    PROVE  ReadyIsTargeted'
<1> SUFFICES ASSUME NEW t \in Tasks, status'[t] \notin {Absent, "QUEUED", "CANCELLED"}
             PROVE  target'[t] # Nothing /\ ready'[target'[t]] = t
  BY DEF ReadyIsTargeted
<1>1. Kept
  BY KeptStep
<1>2. CASE status[t] \notin {Absent, "QUEUED", "CANCELLED"}
  <2>1. target[t] \in EventIds /\ ready[target[t]] = t /\ t # Nothing
    BY <1>2, NothingAssumption DEF ReadyIsTargeted, TypeOK
  <2> QED
    BY <1>1, <2>1, NothingAssumption DEF Kept
<1>3. CASE status[t] \in {Absent, "QUEUED", "CANCELLED"}
  <2>1. PICK p \in Ingesters : MakeReady(p) /\ Current(p).task = t
                               /\ status' = [status EXCEPT ![t] = "READY"]
    <3>1. status'[t] # status[t]
      BY <1>3
    <3>2. ASSUME NEW p \in Ingesters, Polls(p) \/ Crash(p) \/ Restart(p)
          PROVE  MakeReady(p) /\ Current(p).task = t
                 /\ status' = [status EXCEPT ![t] = "READY"]
      <4>1. Create(p) \/ MakeReady(p)
        BY <3>1, <3>2 DEF Polls, Fetch, Exhausted, Skip, Refuse, Lookup, CheckTask,
              WriteEnvelope, SetTarget, ReadStatus, Record, Crash, Restart, store
      <4>2. ~ Create(p)
        BY <3>1 DEF Create, TypeOK
      <4> QED
        BY <3>1, <4>1, <4>2 DEF MakeReady, TypeOK
    <3>3. ~ \E u \in Tasks : Proceed(u)
      BY <1>3, <3>1 DEF Proceed, Legal, TypeOK, Absent
    <3>4. ~ Writes
      BY <3>1 DEF Writes, Post, Edit, store
    <3> QED
      BY <3>2, <3>3, <3>4 DEF Steps
  <2>2. Current(p).event \in EventIds /\ target[t] = Current(p).event
    BY <2>1, CurrentIsComment DEF MakeReady, PagesOK, Inside, Progress
  <2>3. target' = target /\ ready'[Current(p).event] = t
    <3>1. status'[t] = "READY"
      BY <2>1 DEF TypeOK
    <3> QED
      BY <1>3, <2>1, <2>2, <3>1 DEF MakeReady, TypeOK, Absent
  <2> QED
    BY <2>2, <2>3, NothingAssumption
<1> QED
  BY <1>2, <1>3

LEMMA OwnsStep ==
    ASSUME TypeOK, PagesOK, IngestOwnsTask, \A p \in Ingesters : Progress(p), Steps
    PROVE  IngestOwnsTask'
<1> SUFFICES ASSUME NEW e \in EventIds, ingest'[e] # NoIngest
             PROVE  LET t == ingest'[e].task IN
                    /\ status'[t] \notin {Absent, "QUEUED"}
                    /\ ready'[e] = t /\ target'[t] = e
                    /\ ingest'[e].body = row'[t]
  BY DEF IngestOwnsTask, NoIngest
<1>1. Kept
  BY KeptStep
<1>2. CASE ingest'[e] = ingest[e]
  <2>1. ingest[e].task \in Tasks
    BY <1>2 DEF TypeOK, Fingerprints
  <2>2. /\ status[ingest[e].task] \notin {Absent, "QUEUED"}
        /\ ready[e] = ingest[e].task /\ target[ingest[e].task] = e
        /\ ingest[e].body = row[ingest[e].task]
    BY <1>2 DEF IngestOwnsTask, NoIngest
  <2> QED
    BY <1>1, <1>2, <2>1, <2>2, NothingAssumption DEF Kept
<1>3. CASE ingest'[e] # ingest[e]
  <2>1. PICK p \in Ingesters : Record(p)
    <3>1. ASSUME NEW p \in Ingesters, Polls(p) \/ Crash(p) \/ Restart(p)
          PROVE  Record(p)
      BY <1>3, <3>1 DEF Polls, Fetch, Exhausted, Skip, Refuse, Lookup, CheckTask,
            WriteEnvelope, Create, SetTarget, ReadStatus, MakeReady, Crash, Restart,
            store
    <3> QED
      BY <1>3, <3>1 DEF Steps, Writes, Post, Edit, Proceed, store
  <2>2. /\ Current(p).task \in Tasks /\ Current(p).event \in EventIds
    BY <2>1, CurrentIsComment DEF Record, PagesOK, Inside
  <2>3. e = Current(p).event /\ ingest'[e] = Fingerprint(p)
    BY <1>3, <2>1 DEF Record, TypeOK
  <2>4. ingest'[e].task = Current(p).task /\ ingest'[e].body = Current(p).body
    BY <2>3 DEF Fingerprint
  <2>5. /\ status[Current(p).task] \notin {Absent, "QUEUED"}
        /\ ready[e] = Current(p).task /\ target[Current(p).task] = e
        /\ row[Current(p).task] = Current(p).body
    BY <2>1, <2>3 DEF Record, Progress
  <2>6. status' = status /\ ready' = ready /\ target' = target /\ row' = row
    BY <2>1 DEF Record
  <2> QED
    BY <2>4, <2>5, <2>6
<1> QED
  BY <1>2, <1>3

LEMMA IngestingStarts ==
    ASSUME Init
    PROVE  Ingesting
<1>1. <<>> \in Seq(Comments) /\ Len(<<>>) = 0
  OBVIOUS
<1>2. TypeOK
  BY <1>1, BoundsAssumption DEF Init, TypeOK, Fingerprints, NoIngest
<1>3. PagesOK
  BY <1>1, BoundsAssumption DEF Init, PagesOK, Inside
<1>4. \A p \in Ingesters : Progress(p)
  BY DEF Init, Progress
<1>5. ReadyIsTargeted /\ IngestOwnsTask
  BY DEF Init, ReadyIsTargeted, IngestOwnsTask, NoIngest
<1> QED
  BY <1>2, <1>3, <1>4, <1>5 DEF Ingesting

LEMMA IngestingStep ==
    ASSUME Ingesting, [Next]_vars
    PROVE  Ingesting'
<1>1. CASE Steps
  <2>1. TypeOK' /\ PagesOK'
    BY <1>1, TypesStep DEF Ingesting
  <2>2. \A p \in Ingesters : Progress(p)'
    BY <1>1, ProgressStep DEF Ingesting
  <2>3. ReadyIsTargeted' /\ IngestOwnsTask'
    BY <1>1, ReadyTargetedStep, OwnsStep DEF Ingesting
  <2> QED
    BY <2>1, <2>2, <2>3 DEF Ingesting
<1>2. CASE UNCHANGED vars
  <2>1. TypeOK' /\ PagesOK' /\ \A p \in Ingesters : Progress(p)'
    BY <1>2 DEF Ingesting, vars, remote, store, TypeOK, PagesOK, Progress, Current
  <2>2. ReadyIsTargeted' /\ IngestOwnsTask'
    BY <1>2 DEF Ingesting, vars, remote, store, ReadyIsTargeted, IngestOwnsTask,
                NoIngest
  <2> QED
    BY <2>1, <2>2 DEF Ingesting
<1> QED
  BY <1>1, <1>2, NextSteps

THEOREM IngestingHolds == Spec => []Ingesting
<1> QED
  BY IngestingStarts, IngestingStep, PTL DEF Spec

\* The rows, files and pages have their types, for any number of workers.
THEOREM IngestTypes == Spec => []TypeOK
<1>1. Ingesting => TypeOK
  BY DEF Ingesting
<1> QED
  BY <1>1, IngestingHolds, PTL

\* However workers interleave in ingest_comments, die, or race a cancel: a row
\* of transport_ingests is only ever there for the task which this event has
\* created and made READY, with the content that task has, and whose result
\* will be delivered under this event.
THEOREM IngestIsOfItsTask == Spec => []IngestOwnsTask
<1>1. Ingesting => IngestOwnsTask
  BY DEF Ingesting
<1> QED
  BY <1>1, IngestingHolds, PTL

----------------------------------------------------------------------------
(* The envelope file.                                                       *)

\* While no other ingester is creating the task, too: its row is not there, and
\* its file is what this one wrote.
Written(p) ==
    LET t == Current(p).task IN
    pc[p] \in {"write", "create"} /\ t \notin contested =>
        /\ status[t] = Absent
        /\ \A q \in Ingesters \ {p} : ~ Creating(q, t)
        /\ pc[p] = "create" => envelope[t] = Current(p).body

\* Who is creating what after a step of p.
LEMMA CreatingAfter ==
    ASSUME TypeOK, PagesOK, NEW p \in Ingesters, Polls(p) \/ Crash(p) \/ Restart(p)
    PROVE  /\ contested \subseteq contested'
           /\ \A q \in Ingesters \ {p} :
                 pc'[q] = pc[q] /\ Current(q)' = Current(q)
           /\ pc'[p] \in {"write", "create"} =>
                 /\ Current(p)' = Current(p)
                 /\ \/ CheckTask(p) /\ pc'[p] = "write"
                    \/ WriteEnvelope(p) /\ pc'[p] = "create"
<1>1. contested \subseteq contested'
  BY DEF Polls, Fetch, Exhausted, Skip, Refuse, Lookup, CheckTask, WriteEnvelope,
         Create, SetTarget, ReadStatus, MakeReady, Record, Crash, Restart
<1>2. \A q \in Ingesters \ {p} : pc'[q] = pc[q] /\ Current(q)' = Current(q)
  <2>1. CASE Fetch(p)
    BY <2>1 DEF Fetch, TypeOK, Current
  <2>2. CASE ~ Fetch(p)
    BY <2>2, PollMoves, Moving DEF Current
  <2> QED
    BY <2>1, <2>2
<1>3. ASSUME pc'[p] \in {"write", "create"}
      PROVE  /\ Current(p)' = Current(p)
             /\ \/ CheckTask(p) /\ pc'[p] = "write"
                \/ WriteEnvelope(p) /\ pc'[p] = "create"
  <2>1. CheckTask(p) \/ WriteEnvelope(p)
    BY <1>3 DEF Polls, Fetch, Exhausted, Skip, Refuse, Lookup, Create, SetTarget,
          ReadStatus, MakeReady, Record, Crash, Restart, Goto, Leave, NextComment,
          TypeOK
  <2>2. CASE CheckTask(p)
    BY <1>3, <2>2 DEF CheckTask, Goto, Leave, TypeOK, Current
  <2>3. CASE WriteEnvelope(p)
    BY <2>3 DEF WriteEnvelope, Goto, TypeOK, Current
  <2> QED
    BY <2>1, <2>2, <2>3
<1> QED
  BY <1>1, <1>2, <1>3

\* A step that writes a row or a file is one of these.
LEMMA WritesAfter ==
    ASSUME TypeOK, PagesOK, NEW p \in Ingesters, Polls(p) \/ Crash(p) \/ Restart(p),
           NEW t \in Tasks
    PROVE  /\ \/ envelope'[t] = envelope[t]
              \/ Creating(p, t) /\ pc[p] = "write"
           /\ \/ status'[t] = Absent <=> status[t] = Absent
              \/ Creating(p, t) /\ pc[p] = "create"
           /\ \/ row'[t] = row[t]
              \/ Creating(p, t) /\ pc[p] = "create" /\ row'[t] = Current(p).body
<1>1. pc[p] \in Inside => Current(p).task \in Tasks /\ Current(p).body \in Bodies
  BY CurrentIsComment DEF PagesOK
<1>2. CASE WriteEnvelope(p)
  BY <1>1, <1>2 DEF WriteEnvelope, store, Inside, Creating, TypeOK
<1>3. CASE Create(p)
  BY <1>1, <1>3 DEF Create, Inside, Creating, TypeOK
<1>4. CASE MakeReady(p)
  BY <1>4 DEF MakeReady, Legal, Statuses, Absent, TypeOK
<1>5. CASE ~ (WriteEnvelope(p) \/ Create(p) \/ MakeReady(p))
  BY <1>5 DEF Polls, Fetch, Exhausted, Skip, Refuse, Lookup, CheckTask, SetTarget,
        ReadStatus, Record, Crash, Restart, store
<1> QED
  BY <1>2, <1>3, <1>4, <1>5

LEMMA WrittenStep ==
    ASSUME TypeOK, PagesOK, EnvelopeIsRow, \A p \in Ingesters : Written(p), Steps
    PROVE  EnvelopeIsRow' /\ \A p \in Ingesters : Written(p)'
<1>1. \A p \in Ingesters :
         pc[p] \in Inside => Current(p).task \in Tasks /\ Current(p).body \in Bodies
  BY CurrentIsComment DEF PagesOK
<1>2. ASSUME NEW p \in Ingesters, Polls(p) \/ Crash(p) \/ Restart(p)
      PROVE  EnvelopeIsRow' /\ \A q \in Ingesters : Written(q)'
  <2>1. /\ contested \subseteq contested'
        /\ \A q \in Ingesters \ {p} :
              pc'[q] = pc[q] /\ Current(q)' = Current(q)
        /\ pc'[p] \in {"write", "create"} =>
              /\ Current(p)' = Current(p)
              /\ \/ CheckTask(p) /\ pc'[p] = "write"
                 \/ WriteEnvelope(p) /\ pc'[p] = "create"
    BY <1>2, CreatingAfter
  <2>2. ASSUME NEW t \in Tasks \ contested', status'[t] # Absent
        PROVE  envelope'[t] = row'[t]
    <3>1. t \notin contested /\ (Creating(p, t) => status[t] = Absent)
      BY <2>1, <2>2 DEF Written, Creating
    <3>2. CASE Creating(p, t) /\ pc[p] = "create" /\ row'[t] = Current(p).body
      <4>1. envelope[t] = Current(p).body
        BY <3>1, <3>2 DEF Written, Creating
      <4>2. envelope'[t] = envelope[t]
        BY <1>2, <2>2, <3>2, WritesAfter
      <4> QED
        BY <3>2, <4>1, <4>2
    <3>3. CASE ~ (Creating(p, t) /\ pc[p] = "create" /\ row'[t] = Current(p).body)
      <4>1. row'[t] = row[t]
        BY <1>2, <2>2, <3>3, WritesAfter
      <4>2. CASE Creating(p, t) /\ pc[p] = "create"
        <5>1. Create(p)
          BY <1>2, <4>2, <2>2, <3>1 DEF Polls, Fetch, Exhausted, Skip, Refuse, Lookup,
                CheckTask, WriteEnvelope, SetTarget, ReadStatus, MakeReady, Record,
                Crash, Restart, store
        <5>2. row'[t] = Current(p).body
          BY <1>1, <2>2, <3>1, <4>2, <5>1 DEF Create, Creating, TypeOK
        <5> QED
          BY <3>3, <4>2, <5>2
      <4>3. CASE ~ (Creating(p, t) /\ pc[p] = "create")
        <5>1. status[t] # Absent
          BY <1>2, <2>2, <4>3, WritesAfter
        <5>2. ~ Creating(p, t)
          BY <3>1, <5>1
        <5>3. envelope'[t] = envelope[t]
          BY <1>2, <2>2, <5>2, WritesAfter
        <5> QED
          BY <2>2, <3>1, <4>1, <5>1, <5>3 DEF EnvelopeIsRow
      <4> QED
        BY <4>2, <4>3
    <3> QED
      BY <3>2, <3>3
  <2>3. ASSUME NEW q \in Ingesters \ {p}, pc[q] \in {"write", "create"},
               Current(q).task \notin contested'
        PROVE  /\ status'[Current(q).task] = Absent
               /\ \A o \in Ingesters \ {q} : ~ Creating(o, Current(q).task)'
               /\ pc[q] = "create" => envelope'[Current(q).task] = Current(q).body
    <3> DEFINE t == Current(q).task
    <3>1. t \in Tasks /\ t \notin contested
      BY <1>1, <2>1, <2>3 DEF Inside
    <3>2. /\ status[t] = Absent
          /\ \A o \in Ingesters \ {q} : ~ Creating(o, t)
          /\ pc[q] = "create" => envelope[t] = Current(q).body
      BY <2>3, <3>1 DEF Written
    <3>3. status'[t] = Absent /\ envelope'[t] = envelope[t]
      BY <1>2, <2>3, <3>1, <3>2, WritesAfter
    <3>4. ~ Creating(p, t)'
      <4> SUFFICES ASSUME pc'[p] \in {"write", "create"}, Current(p)'.task = t
                   PROVE  FALSE
        BY <2>1, <2>3 DEF Creating
      <4>1. Current(p).task = t
        BY <2>1
      <4>2. CASE CheckTask(p) /\ pc'[p] = "write"
        <5>1. Creating(q, t)
          BY <2>3 DEF Creating
        <5>2. ~ Leave(p, "idle")
          BY <4>2 DEF Leave, TypeOK
        <5>3. t \in contested'
          BY <4>1, <4>2, <5>1, <5>2 DEF CheckTask
        <5> QED
          BY <2>3, <5>3
      <4>3. CASE WriteEnvelope(p)
        BY <2>3, <3>2, <4>1, <4>3 DEF WriteEnvelope, Creating
      <4> QED
        BY <2>1, <4>2, <4>3
    <3>5. ASSUME NEW o \in Ingesters \ {p, q}
          PROVE  ~ Creating(o, t)'
      BY <2>1, <2>3, <3>2 DEF Creating
    <3> QED
      BY <3>2, <3>3, <3>4, <3>5
  <2>4. ASSUME pc'[p] \in {"write", "create"}, Current(p)'.task \notin contested'
        PROVE  Written(p)'
    <3> DEFINE t == Current(p).task
    <3>1. Current(p)' = Current(p) /\ t \notin contested
      BY <2>1, <2>4
    <3>2. \A q \in Ingesters \ {p} : Creating(q, t)' <=> Creating(q, t)
      BY <2>1, <3>1 DEF Creating
    <3>3. CASE CheckTask(p) /\ pc'[p] = "write"
      <4>1. ~ Leave(p, "idle")
        BY <3>3 DEF Leave, TypeOK
      <4>2. status[t] = Absent /\ status' = status
        BY <3>3, <4>1 DEF CheckTask, store
      <4>3. ~ \E q \in Ingesters : Creating(q, t)
        BY <2>4, <3>1, <3>3, <4>1 DEF CheckTask
      <4> QED
        BY <3>1, <3>2, <3>3, <4>2, <4>3 DEF Written
    <3>4. CASE WriteEnvelope(p) /\ pc'[p] = "create"
      <4>1. /\ status[t] = Absent
            /\ \A q \in Ingesters \ {p} : ~ Creating(q, t)
        BY <3>1, <3>4 DEF Written, WriteEnvelope
      <4>2. status' = status /\ envelope'[t] = Current(p).body
        BY <1>1, <3>4 DEF WriteEnvelope, store, Inside, TypeOK
      <4> QED
        BY <3>1, <3>2, <4>1, <4>2 DEF Written
    <3> QED
      BY <2>1, <2>4, <3>3, <3>4
  <2>5. ASSUME NEW q \in Ingesters
        PROVE  Written(q)'
    <3>1. CASE q = p
      BY <2>4, <3>1 DEF Written
    <3>2. CASE q # p
      BY <2>1, <2>3, <3>2 DEF Written
    <3> QED
      BY <3>1, <3>2
  <2> QED
    BY <2>2, <2>5 DEF EnvelopeIsRow
<1>3. ASSUME NEW t \in Tasks, Proceed(t)
      PROVE  EnvelopeIsRow' /\ \A p \in Ingesters : Written(p)'
  <2>1. \A u \in Tasks : status[u] = Absent <=> status'[u] = Absent
    BY <1>3 DEF Proceed, Legal, Statuses, Absent, TypeOK
  <2>2. row' = row /\ envelope' = envelope /\ contested' = contested
        /\ \A p \in Ingesters : pc'[p] = pc[p] /\ Current(p)' = Current(p)
    BY <1>3 DEF Proceed, Current
  <2>3. \A p \in Ingesters, u \in Tasks : Creating(p, u)' <=> Creating(p, u)
    BY <2>2 DEF Creating
  <2> QED
    BY <1>1, <2>1, <2>2, <2>3 DEF EnvelopeIsRow, Written, Inside
<1>4. CASE Writes
  BY <1>4 DEF Writes, Post, Edit, store, EnvelopeIsRow, Written, Current, Creating
<1> QED
  BY <1>2, <1>3, <1>4 DEF Steps

\* The task.json an executor will read is the one that the row of the task was
\* made from: no replay, edit, duplicate, second comment or death in between
\* changes it.  The exception is a task that two ingesters were creating at a
\* time: each writes the file before it creates the row.
THEOREM EnvelopeStays == Spec => []EnvelopeIsRow
<1> DEFINE W == Ingesting /\ EnvelopeIsRow /\ \A p \in Ingesters : Written(p)
<1>1. Init => W
  <2>1. Init => EnvelopeIsRow /\ \A p \in Ingesters : Written(p)
    BY DEF Init, EnvelopeIsRow, Written
  <2> QED
    BY <2>1, IngestingStarts
<1>2. W /\ [Next]_vars => W'
  <2> SUFFICES ASSUME W, [Next]_vars
               PROVE  W'
    OBVIOUS
  <2>1. CASE Steps
    BY <2>1, IngestingStep, WrittenStep DEF Ingesting
  <2>2. CASE UNCHANGED vars
    <3>1. EnvelopeIsRow' /\ \A p \in Ingesters : Written(p)'
      BY <2>2 DEF vars, store, EnvelopeIsRow, Written, Current, Creating
    <3> QED
      BY <3>1, IngestingStep
  <2> QED
    BY <2>1, <2>2, NextSteps
<1>3. W => EnvelopeIsRow
  OBVIOUS
<1> QED
  BY <1>1, <1>2, <1>3, PTL DEF Spec
=============================================================================
