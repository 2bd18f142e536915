--------------------------- MODULE SchemaMigration ---------------------------
(***************************************************************************)
(* state.ensure_schema, which every call on the task store begins with: the *)
(* ladder from an empty or old database to the current schema.              *)
(*                                                                          *)
(* The ladder begins with BEGIN IMMEDIATE, but sqlite3's executescript      *)
(* commits the open transaction before it runs its statements, and then     *)
(* each CREATE is a transaction of its own.  The version is written in a    *)
(* transaction that the next script, or the end of the block, commits.      *)
(***************************************************************************)
EXTENDS Integers, Sequences, SequencesExt

CONSTANTS
    Callers,    \* processes that use the store
    MaxCrashes  \* bound on the crashes of callers

ASSUME CrashesAssumption == MaxCrashes \in Nat

SchemaVersion == 3
Unset == 0  \* no row in meta, or no meta table

\* The tables and indexes that each version adds, in the order of the script.
Script ==
    << <<"meta", "tasks", "task_events">>,
       <<"transport_ingests", "idx_transport_ingests_task",
         "transport_deliveries">>,
       <<"execution_runs", "idx_execution_runs_task">> >>

AddedUpTo(v) == UNION {ToSet(Script[u]) : u \in 1 .. v}

VARIABLES
    objects,  \* the tables and indexes of the database
    version,  \* meta.schema_version
    pc,       \* where each caller is
    target,   \* the version whose script it runs
    done,     \* how many statements of the script it has run
    crashes

database == <<objects, version>>
vars == <<database, pc, target, done, crashes>>

\* A new home, a database of an older release, or one of a newer release.
Init ==
    /\ version \in {Unset, 1, 2, 3, 4}
    /\ objects = AddedUpTo(IF version > 3 THEN 3 ELSE version)
    /\ pc = [p \in Callers |-> "idle"]
    /\ target = [p \in Callers |-> 1]
    /\ done = [p \in Callers |-> 0]
    /\ crashes = 0

----------------------------------------------------------------------------
Goto(p, there) == pc' = [pc EXCEPT ![p] = there] /\ UNCHANGED <<target, done>>

\* ensure_schema returns ("open") or raises ("failed").
Leave(p, there) ==
    /\ pc' = [pc EXCEPT ![p] = there]
    /\ target' = [target EXCEPT ![p] = 1]
    /\ done' = [done EXCEPT ![p] = 0]

RunScript(p, v) ==
    /\ pc' = [pc EXCEPT ![p] = "create"]
    /\ target' = [target EXCEPT ![p] = v]
    /\ done' = [done EXCEPT ![p] = 0]

\* _preflight_existing_schema, through a read-only connection: tables without
\* a version, and versions of other releases, are refused.
Preflight(p) ==
    /\ pc[p] = "idle"
    /\ IF objects = {} \/ version \in 1 .. SchemaVersion
       THEN Goto(p, "begin") ELSE Leave(p, "failed")
    /\ UNCHANGED <<database, crashes>>

\* BEGIN IMMEDIATE, the version is read again, and the first script commits.
Begin(p) ==
    /\ pc[p] = "begin"
    /\ \/ objects = {} /\ RunScript(p, 1)
       \/ version \in 1 .. SchemaVersion - 1 /\ RunScript(p, version + 1)
       \/ version = SchemaVersion /\ Leave(p, "open")
       \/ objects # {} /\ version \notin 1 .. SchemaVersion /\ Leave(p, "failed")
    /\ UNCHANGED <<database, crashes>>

Statement(p) == Script[target[p]][done[p] + 1]

\* Mutant of Create: CREATE ... IF NOT EXISTS.
CreateIfNotExists(p) ==
    /\ pc[p] = "create"
    /\ done[p] < Len(Script[target[p]])
    /\ objects' = objects \cup {Statement(p)}
    /\ done' = [done EXCEPT ![p] = @ + 1]
    /\ UNCHANGED <<pc, target, version, crashes>>

\* Mutant of Create: the end of the script is off by one.
CreateBeyond(p) ==
    /\ pc[p] = "create"
    /\ done[p] <= Len(Script[target[p]])
    /\ done' = [done EXCEPT ![p] = @ + 1]
    /\ UNCHANGED <<pc, target, database, crashes>>

\* One statement, committed at once; it raises when the object exists.
Create(p) ==
    /\ pc[p] = "create"
    /\ done[p] < Len(Script[target[p]])
    /\ IF Statement(p) \in objects
       THEN Leave(p, "failed") /\ UNCHANGED objects
       ELSE /\ objects' = objects \cup {Statement(p)}
            /\ done' = [done EXCEPT ![p] = @ + 1]
            /\ UNCHANGED <<pc, target>>
    /\ UNCHANGED <<version, crashes>>

\* Mutant of Stamp: the version is written before the last statement.
StampEarly(p) ==
    /\ pc[p] = "create"
    /\ done[p] >= Len(Script[target[p]]) - 1
    /\ version' = target[p]
    /\ IF target[p] < SchemaVersion THEN RunScript(p, target[p] + 1)
       ELSE Leave(p, "open")
    /\ UNCHANGED <<objects, crashes>>

\* Mutant of Stamp: version 1 is an UPDATE too, of a row that is not there.
StampUpdates(p) ==
    /\ pc[p] = "create"
    /\ done[p] = Len(Script[target[p]])
    /\ version' = IF version = Unset THEN Unset ELSE target[p]
    /\ IF target[p] < SchemaVersion THEN RunScript(p, target[p] + 1)
       ELSE Leave(p, "open")
    /\ UNCHANGED <<objects, crashes>>

\* INSERT of version 1 (its key is unique), UPDATE to the later ones.
Stamp(p) ==
    /\ pc[p] = "create"
    /\ done[p] = Len(Script[target[p]])
    /\ IF target[p] = 1 /\ version # Unset
       THEN Leave(p, "failed") /\ UNCHANGED version
       ELSE /\ version' = IF target[p] > 1 /\ version = Unset THEN Unset
                          ELSE target[p]
            /\ IF target[p] < SchemaVersion THEN RunScript(p, target[p] + 1)
               ELSE Leave(p, "open")
    /\ UNCHANGED <<objects, crashes>>

Crash(p) ==
    /\ pc[p] \in {"begin", "create"}
    /\ crashes < MaxCrashes
    /\ crashes' = crashes + 1
    /\ Leave(p, "failed")
    /\ UNCHANGED database

\* The next call, by this process or by the one that takes its place.
CallAgain(p) ==
    /\ pc[p] \in {"open", "failed"}
    /\ Leave(p, "idle")
    /\ UNCHANGED <<database, crashes>>

CallerStep(p) ==
    Preflight(p) \/ Begin(p) \/ Create(p) \/ Stamp(p) \/ CallAgain(p)

Next == \E p \in Callers : CallerStep(p) \/ Crash(p)

Spec == Init /\ [][Next]_vars

\* Workers tick for ever and operators repeat what failed.
FairSpec == Spec /\ \A p \in Callers : WF_vars(CallerStep(p))

----------------------------------------------------------------------------
TypeOK ==
    /\ objects \subseteq AddedUpTo(SchemaVersion)
    /\ version \in Unset .. 4
    /\ pc \in [Callers -> {"idle", "begin", "create", "open", "failed"}]
    /\ target \in [Callers -> 1 .. SchemaVersion]
    /\ done \in [Callers -> Nat]
    /\ \A p \in Callers : done[p] <= Len(Script[target[p]])
    /\ crashes \in 0 .. MaxCrashes

\* A database of version v has every table and index of that version, so that a
\* call that got through ensure_schema finds what it needs; whoever else
\* migrates, and wherever a migration was cut off.
VersionTellsObjects ==
    /\ version \in 1 .. SchemaVersion => AddedUpTo(version) \subseteq objects
    /\ (\E p \in Callers : pc[p] = "open") =>
            AddedUpTo(SchemaVersion) \subseteq objects

\* The first CREATE of a script is its lock: of two callers that read the same
\* version only one gets beyond it.
OneMigrator ==
    \A p, q \in Callers :
        /\ pc[p] = "create" /\ pc[q] = "create" /\ target[p] = target[q]
        /\ done[p] > 0 /\ done[q] > 0
        => p = q

\* A slow migrator never sets the version back.
VersionNeverFalls == [][version' >= version]_version

\* While nobody crashes, every database of this or an older release reaches the
\* current version, however many callers begin to migrate it.  After a crash
\* between a CREATE and its version, Preflight or Create fails for ever.
Migrates == [](crashes = 0) /\ version # 4 => <>(version = SchemaVersion)
=============================================================================
