----------------------- MODULE SchemaMigrationProofs -----------------------
(***************************************************************************)
(* Safety of SchemaMigration, for any number of callers and any number of   *)
(* crashes: state.ensure_schema needs no lock of its own.                   *)
(*                                                                          *)
(* What takes the place of a lock is the first CREATE of each script, which *)
(* succeeds once.  Whoever is beyond it is the only one beyond it, and the  *)
(* version stays below its target until it stamps.                          *)
(***************************************************************************)
EXTENDS SchemaMigration, TLAPS

\* Caller p has created something for the version it migrates to.
Migrating(p) == pc[p] = "create" /\ done[p] > 0

\* A caller runs the script of the next version, or of an earlier one.
TargetReachable ==
    \A p \in Callers : pc[p] = "create" => version >= target[p] - 1

\* Beyond its first statement a caller finds what it created, and nobody has
\* written the version it is about to write.
OwnScript ==
    \A p \in Callers :
        Migrating(p) =>
            /\ version < target[p]
            /\ \A i \in 1 .. done[p] : Script[target[p]][i] \in objects

Complete ==
    /\ version # Unset =>
          AddedUpTo(IF version > SchemaVersion THEN SchemaVersion ELSE version)
              \subseteq objects
    /\ \A p \in Callers :
          pc[p] = "open" => AddedUpTo(SchemaVersion) \subseteq objects

Migration == TypeOK /\ TargetReachable /\ OwnScript /\ Complete /\ OneMigrator

----------------------------------------------------------------------------
(* The scripts.                                                             *)

LEMMA ScriptLengths ==
    ASSUME NEW v \in 1 .. SchemaVersion
    PROVE  /\ Len(Script[v]) \in Nat /\ Len(Script[v]) > 0
           /\ ToSet(Script[v]) = {Script[v][i] : i \in 1 .. Len(Script[v])}
<1>1. v = 1 \/ v = 2 \/ v = 3
  BY DEF SchemaVersion
<1>2. /\ Script[1] = <<"meta", "tasks", "task_events">>
      /\ Script[2] = <<"transport_ingests", "idx_transport_ingests_task",
                       "transport_deliveries">>
      /\ Script[3] = <<"execution_runs", "idx_execution_runs_task">>
  BY DEF Script
<1>3. /\ Len(Script[1]) = 3 /\ DOMAIN Script[1] = 1 .. 3
      /\ Len(Script[2]) = 3 /\ DOMAIN Script[2] = 1 .. 3
      /\ Len(Script[3]) = 2 /\ DOMAIN Script[3] = 1 .. 2
  BY <1>2
<1>4. \A s : ToSet(s) = {s[i] : i \in DOMAIN s}
  BY DEF ToSet
<1>5. DOMAIN Script[v] = 1 .. Len(Script[v])
  BY <1>1, <1>3
<1>6. ToSet(Script[v]) = {Script[v][i] : i \in 1 .. Len(Script[v])}
  BY <1>4, <1>5
<1>7. Len(Script[v]) \in Nat /\ Len(Script[v]) > 0
  <2>1. Len(Script[v]) = 3 \/ Len(Script[v]) = 2
    BY <1>1, <1>3, Zenon
  <2>2. \A n : n = 3 \/ n = 2 => n \in Nat /\ n > 0
    OBVIOUS
  <2> QED
    BY <2>1, <2>2, Zenon
<1> QED
  BY <1>6, <1>7, Zenon

\* Each version has the objects of the one before and those of its script.
LEMMA AddedSteps ==
    /\ AddedUpTo(0) = {}
    /\ \A v \in 1 .. SchemaVersion :
          AddedUpTo(v) = AddedUpTo(v - 1) \cup ToSet(Script[v])
<1>1. AddedUpTo(0) = {}
  BY DEF AddedUpTo
<1>2. ASSUME NEW v \in 1 .. SchemaVersion
      PROVE  AddedUpTo(v) = AddedUpTo(v - 1) \cup ToSet(Script[v])
  <2>1. 1 .. v = (1 .. v - 1) \cup {v}
    BY DEF SchemaVersion
  <2> QED
    BY <2>1 DEF AddedUpTo
<1> QED
  BY <1>1, <1>2

LEMMA AddedGrows ==
    ASSUME NEW v \in 0 .. SchemaVersion, NEW w \in 0 .. SchemaVersion, v <= w
    PROVE  AddedUpTo(v) \subseteq AddedUpTo(w)
<1>1. 1 .. v \subseteq 1 .. w
  BY DEF SchemaVersion
<1> QED
  BY <1>1 DEF AddedUpTo

\* The statement a caller runs next creates an object of its target version.
LEMMA StatementAdds ==
    ASSUME TypeOK, NEW p \in Callers, done[p] < Len(Script[target[p]])
    PROVE  /\ done[p] + 1 \in 1 .. Len(Script[target[p]])
           /\ Statement(p) \in AddedUpTo(target[p])
           /\ Statement(p) \in AddedUpTo(SchemaVersion)
<1>1. target[p] \in 1 .. SchemaVersion /\ target[p] <= SchemaVersion
  BY DEF TypeOK, SchemaVersion
<1>2. done[p] \in Nat /\ done[p] + 1 \in 1 .. Len(Script[target[p]])
  BY <1>1, ScriptLengths DEF TypeOK
<1>3. Statement(p) \in ToSet(Script[target[p]])
  BY <1>1, <1>2, ScriptLengths DEF Statement
<1>4. Statement(p) \in AddedUpTo(target[p])
  BY <1>1, <1>3, AddedSteps
<1>5. AddedUpTo(target[p]) \subseteq AddedUpTo(SchemaVersion)
  BY <1>1, AddedGrows DEF SchemaVersion
<1> QED
  BY <1>2, <1>4, <1>5

----------------------------------------------------------------------------
LEMMA MigrationInit ==
    ASSUME Init
    PROVE  Migration
<1> USE DEF Init
<1>1. version \in {Unset, 1, 2, 3, 4} /\ Unset = 0 /\ SchemaVersion = 3
  BY DEF Unset, SchemaVersion
<1>2. objects \subseteq AddedUpTo(SchemaVersion)
  BY <1>1, AddedGrows
<1>3. \A p \in Callers : Len(Script[target[p]]) \in Nat
  BY <1>1, ScriptLengths
<1>4. TypeOK
  BY <1>1, <1>2, <1>3, CrashesAssumption DEF TypeOK
<1>5. Complete
  BY <1>1 DEF Complete
<1> QED
  BY <1>1, <1>4, <1>5
  DEF Migration, TargetReachable, OwnScript, OneMigrator, Migrating

\* Steps that leave the database alone: a caller gives up, returns, or is about
\* to run a script of which it has run nothing.
LEMMA CallerMoves ==
    ASSUME Migration, NEW p \in Callers, UNCHANGED database, crashes' \in 0 .. MaxCrashes,
           \/ \E there \in {"idle", "begin", "failed"} : Goto(p, there)
           \/ \E there \in {"idle", "failed"} : Leave(p, there)
           \/ Leave(p, "open") /\ version = SchemaVersion
           \/ \E v \in 1 .. SchemaVersion :
                 RunScript(p, v) /\ version >= v - 1
    PROVE  Migration'
<1> USE DEF Migration, Goto, Leave, RunScript, database
<1>0. /\ 1 \in 1 .. SchemaVersion /\ SchemaVersion = 3 /\ Unset = 0
      /\ \A v \in 1 .. SchemaVersion : Len(Script[v]) \in Nat
  BY ScriptLengths DEF SchemaVersion, Unset
<1>1. TypeOK'
  <2>0. pc' \in [Callers -> {"idle", "begin", "create", "open", "failed"}]
    BY DEF TypeOK
  <2>1. target' \in [Callers -> 1 .. SchemaVersion]
    BY <1>0 DEF TypeOK
  <2>2. done' \in [Callers -> Nat]
    BY DEF TypeOK
  <2>3. \A q \in Callers : done'[q] <= Len(Script[target'[q]])
    <3> SUFFICES ASSUME NEW q \in Callers
                 PROVE  done'[q] <= Len(Script[target'[q]])
      OBVIOUS
    <3>1. \/ done'[q] = done[q] /\ target'[q] = target[q]
          \/ done'[q] = 0 /\ target'[q] \in 1 .. SchemaVersion
      BY <2>1 DEF TypeOK
    <3> QED
      BY <1>0, <3>1 DEF TypeOK
  <2> QED
    BY <2>0, <2>1, <2>2, <2>3 DEF TypeOK
<1>2. \A q \in Callers :
          \/ pc'[q] = pc[q] /\ target'[q] = target[q] /\ done'[q] = done[q]
          \/ pc'[q] \in {"idle", "begin", "failed"}
          \/ pc'[q] = "open" /\ version = SchemaVersion
          \/ pc'[q] = "create" /\ done'[q] = 0 /\ version >= target'[q] - 1
  BY DEF TypeOK
<1>3. TargetReachable' /\ OwnScript' /\ OneMigrator'
  BY <1>2 DEF TargetReachable, OwnScript, OneMigrator, Migrating
<1>4. Complete'
  BY <1>0, <1>2 DEF Complete
<1> QED
  BY <1>1, <1>3, <1>4

LEMMA CreateMigrates ==
    ASSUME Migration, NEW p \in Callers, Create(p), Statement(p) \notin objects
    PROVE  Migration'
<1> USE DEF Migration
<1>1. /\ pc[p] = "create" /\ done[p] < Len(Script[target[p]])
      /\ objects' = objects \cup {Statement(p)}
      /\ done' = [done EXCEPT ![p] = done[p] + 1]
      /\ UNCHANGED <<pc, target, version, crashes>>
  BY DEF Create
<1>2. /\ target[p] \in 1 .. 3 /\ version \in 0 .. 4 /\ done[p] \in Nat
      /\ Len(Script[target[p]]) \in Nat
      /\ SchemaVersion = 3 /\ Unset = 0
  BY ScriptLengths DEF TypeOK, SchemaVersion, Unset
<1>3. /\ done[p] + 1 \in 1 .. Len(Script[target[p]])
      /\ Statement(p) \in AddedUpTo(target[p])
      /\ Statement(p) \in AddedUpTo(SchemaVersion)
  BY <1>1, StatementAdds
<1>4. \A q \in Callers :
          done'[q] = IF q = p THEN done[p] + 1 ELSE done[q]
  BY <1>1 DEF TypeOK
<1>5. version < target[p]
  <2>1. ASSUME version >= target[p] PROVE FALSE
    <3> DEFINE v == IF version > SchemaVersion THEN SchemaVersion ELSE version
    <3>1. AddedUpTo(v) \subseteq objects
      BY <1>2, <2>1 DEF Complete
    <3>2. v \in 0 .. SchemaVersion /\ target[p] \in 0 .. SchemaVersion
          /\ target[p] <= v
      BY <1>2, <2>1
    <3>3. AddedUpTo(target[p]) \subseteq AddedUpTo(v)
      BY <3>2, AddedGrows
    <3> QED
      BY <1>3, <3>1, <3>3
  <2> QED
    BY <1>2, <2>1
<1>6. TypeOK'
  BY <1>1, <1>2, <1>3, <1>4 DEF TypeOK
<1>7. TargetReachable'
  BY <1>1 DEF TargetReachable
<1>8. OwnScript'
  <2>1. ASSUME NEW i \in 1 .. done[p] + 1
        PROVE  Script[target[p]][i] \in objects'
    <3>1. CASE i = done[p] + 1
      BY <1>1, <3>1 DEF Statement
    <3>2. CASE i # done[p] + 1
      <4>1. i \in 1 .. done[p] /\ Migrating(p)
        BY <1>1, <1>2, <3>2 DEF Migrating
      <4> QED
        BY <1>1, <4>1 DEF OwnScript
    <3> QED
      BY <3>1, <3>2
  <2>2. ASSUME NEW q \in Callers, q # p, Migrating(q)'
        PROVE  /\ version < target[q]
               /\ \A i \in 1 .. done[q] : Script[target[q]][i] \in objects'
    <3>1. Migrating(q)
      BY <1>1, <1>4, <2>2 DEF Migrating
    <3> QED
      BY <1>1, <3>1 DEF OwnScript
  <2> QED
    BY <1>1, <1>4, <1>5, <2>1, <2>2 DEF OwnScript
<1>9. OneMigrator'
  <2>1. ASSUME NEW q \in Callers, q # p, pc[q] = "create", done[q] > 0,
               target[q] = target[p]
        PROVE  FALSE
    <3>1. CASE done[p] > 0
      BY <1>1, <2>1, <3>1 DEF OneMigrator
    <3>2. CASE done[p] = 0
      <4>1. 1 \in 1 .. done[q]
        BY <2>1, ScriptLengths DEF TypeOK
      <4>2. Script[target[q]][1] \in objects
        BY <2>1, <4>1 DEF OwnScript, Migrating
      <4> QED
        BY <2>1, <3>2, <4>2 DEF Statement
    <3> QED
      BY <1>2, <3>1, <3>2
  <2> QED
    BY <1>1, <1>4, <2>1 DEF OneMigrator
<1>10. Complete'
  BY <1>1 DEF Complete
<1> QED
  BY <1>6, <1>7, <1>8, <1>9, <1>10

\* A caller stamps only the version it migrates to, and the next after it.
LEMMA StampRaises ==
    ASSUME Migration, NEW p \in Callers, Stamp(p)
    PROVE  /\ Migrating(p) /\ version = target[p] - 1
           /\ version' = target[p]
           /\ IF target[p] < SchemaVersion THEN RunScript(p, target[p] + 1)
              ELSE Leave(p, "open")
           /\ UNCHANGED <<objects, crashes>>
           /\ AddedUpTo(target[p]) \subseteq objects
<1> USE DEF Migration
<1>1. /\ target[p] \in 1 .. 3 /\ version \in 0 .. 4
      /\ Len(Script[target[p]]) \in Nat /\ Len(Script[target[p]]) > 0
      /\ SchemaVersion = 3 /\ Unset = 0
  BY ScriptLengths DEF TypeOK, SchemaVersion, Unset
<1>2. Migrating(p) /\ done[p] = Len(Script[target[p]])
  BY <1>1 DEF Stamp, Migrating
<1>3. version = target[p] - 1
  <2>1. version < target[p] /\ version >= target[p] - 1
    BY <1>2 DEF OwnScript, TargetReachable, Migrating
  <2> QED
    BY <1>1, <2>1
<1>4. version' = target[p]
      /\ IF target[p] < SchemaVersion THEN RunScript(p, target[p] + 1)
         ELSE Leave(p, "open")
  BY <1>1, <1>3 DEF Stamp
<1>5. ToSet(Script[target[p]]) \subseteq objects
  <2>1. \A i \in 1 .. Len(Script[target[p]]) : Script[target[p]][i] \in objects
    BY <1>2 DEF OwnScript
  <2>2. ToSet(Script[target[p]])
            = {Script[target[p]][i] : i \in 1 .. Len(Script[target[p]])}
    BY <1>1, ScriptLengths
  <2> QED
    BY <2>1, <2>2
<1>6. AddedUpTo(target[p] - 1) \subseteq objects
  <2>1. CASE target[p] = 1
    BY <2>1, AddedSteps
  <2>2. CASE target[p] # 1
    BY <1>1, <1>3, <2>2 DEF Complete
  <2> QED
    BY <2>1, <2>2
<1> QED
  BY <1>1, <1>2, <1>3, <1>4, <1>5, <1>6, AddedSteps DEF Stamp

LEMMA StampMigrates ==
    ASSUME Migration, NEW p \in Callers, Stamp(p)
    PROVE  Migration'
<1> USE DEF Migration
<1>1. /\ target[p] \in 1 .. 3 /\ version \in 0 .. 4
      /\ SchemaVersion = 3 /\ Unset = 0
  BY DEF TypeOK, SchemaVersion, Unset
<1>2. /\ Migrating(p) /\ version = target[p] - 1 /\ version' = target[p]
      /\ IF target[p] < SchemaVersion THEN RunScript(p, target[p] + 1)
         ELSE Leave(p, "open")
      /\ UNCHANGED <<objects, crashes>>
      /\ AddedUpTo(target[p]) \subseteq objects
  BY StampRaises
<1>3. \A q \in Callers :
          \/ q # p /\ pc'[q] = pc[q] /\ target'[q] = target[q] /\ done'[q] = done[q]
          \/ /\ q = p /\ done'[q] = 0
             /\ \/ pc'[q] = "open" /\ target[p] = 3 /\ target'[q] = 1
                \/ pc'[q] = "create" /\ target'[q] = target[p] + 1
                   /\ target[p] < 3
  BY <1>1, <1>2 DEF RunScript, Leave, TypeOK
<1>4. TypeOK'
  <2>1. /\ pc' \in [Callers -> {"idle", "begin", "create", "open", "failed"}]
        /\ target' \in [Callers -> 1 .. SchemaVersion]
        /\ done' \in [Callers -> Nat]
    <3>1. CASE target[p] < SchemaVersion /\ RunScript(p, target[p] + 1)
      BY <1>1, <3>1 DEF RunScript, TypeOK
    <3>2. CASE Leave(p, "open")
      BY <1>1, <3>2 DEF Leave, TypeOK
    <3> QED
      BY <1>2, <3>1, <3>2
  <2>2. version' \in Unset .. 4
    BY <1>1, <1>2
  <2>4. objects' \subseteq AddedUpTo(SchemaVersion) /\ crashes' \in 0 .. MaxCrashes
    BY <1>2 DEF TypeOK
  <2>3. \A q \in Callers : done'[q] <= Len(Script[target'[q]])
    BY <1>3, <2>1, ScriptLengths DEF TypeOK
  <2> QED
    BY <2>1, <2>2, <2>3, <2>4 DEF TypeOK
<1>5. TargetReachable'
  <2> SUFFICES ASSUME NEW q \in Callers, pc'[q] = "create"
               PROVE  version' >= target'[q] - 1
    BY DEF TargetReachable
  <2>1. target[q] \in 1 .. 3
    BY <1>1 DEF TypeOK
  <2>2. CASE q = p
    BY <1>1, <1>2, <1>3, <2>2
  <2>3. CASE q # p
    <3>1. pc[q] = "create" /\ target'[q] = target[q]
      BY <1>3, <2>3
    <3> QED
      BY <1>1, <1>2, <2>1, <3>1 DEF TargetReachable
  <2> QED
    BY <2>2, <2>3
<1>6. OwnScript'
  <2> SUFFICES ASSUME NEW q \in Callers, Migrating(q)'
               PROVE  /\ version' < target'[q]
                      /\ \A i \in 1 .. done'[q] : Script[target'[q]][i] \in objects'
    BY DEF OwnScript
  <2>1. /\ q # p /\ Migrating(q)
        /\ pc'[q] = pc[q] /\ target'[q] = target[q] /\ done'[q] = done[q]
    BY <1>3 DEF Migrating
  <2>2. version < target[q] /\ target[q] # target[p] /\ target[q] \in 1 .. 3
    BY <1>1, <1>2, <2>1 DEF OwnScript, OneMigrator, Migrating, TypeOK
  <2>3. version' < target'[q]
    BY <1>1, <1>2, <2>1, <2>2
  <2> QED
    BY <1>2, <2>1, <2>3 DEF OwnScript
<1>7. OneMigrator'
  BY <1>3 DEF OneMigrator
<1>8. Complete'
  BY <1>1, <1>2, <1>3 DEF Complete
<1> QED
  BY <1>4, <1>5, <1>6, <1>7, <1>8

LEMMA MigrationStep ==
    ASSUME Migration, [Next]_vars
    PROVE  Migration'
<1>0. version \in 0 .. 4 /\ crashes \in 0 .. MaxCrashes /\ SchemaVersion = 3
      /\ MaxCrashes \in Nat
  BY CrashesAssumption DEF Migration, TypeOK, SchemaVersion, Unset
<1>1. ASSUME NEW p \in Callers, Preflight(p) PROVE Migration'
  BY <1>0, <1>1, CallerMoves DEF Preflight
<1>2. ASSUME NEW p \in Callers, Begin(p) PROVE Migration'
  <2>1. CASE RunScript(p, 1)
    BY <1>0, <1>2, <2>1, CallerMoves DEF Begin
  <2>2. CASE version \in 1 .. SchemaVersion - 1 /\ RunScript(p, version + 1)
    BY <1>0, <1>2, <2>2, CallerMoves DEF Begin
  <2>3. CASE version = SchemaVersion /\ Leave(p, "open")
    BY <1>0, <1>2, <2>3, CallerMoves DEF Begin
  <2>4. CASE Leave(p, "failed")
    BY <1>0, <1>2, <2>4, CallerMoves DEF Begin
  <2> QED
    BY <1>2, <2>1, <2>2, <2>3, <2>4 DEF Begin
<1>3. ASSUME NEW p \in Callers, Create(p) PROVE Migration'
  <2>1. CASE Statement(p) \in objects
    BY <1>0, <1>3, <2>1, CallerMoves DEF Create, database
  <2>2. CASE Statement(p) \notin objects
    BY <1>3, <2>2, CreateMigrates
  <2> QED
    BY <2>1, <2>2
<1>4. ASSUME NEW p \in Callers, Stamp(p) PROVE Migration'
  BY <1>4, StampMigrates
<1>5. ASSUME NEW p \in Callers, CallAgain(p) PROVE Migration'
  BY <1>0, <1>5, CallerMoves DEF CallAgain
<1>6. ASSUME NEW p \in Callers, Crash(p) PROVE Migration'
  BY <1>0, <1>6, CallerMoves DEF Crash
<1>7. CASE UNCHANGED vars
  BY <1>7 DEF vars, database, Migration, TypeOK, TargetReachable, OwnScript,
     Complete, OneMigrator, Migrating
<1> QED
  BY <1>1, <1>2, <1>3, <1>4, <1>5, <1>6, <1>7 DEF Next, CallerStep

THEOREM MigrationHolds == Spec => []Migration
BY MigrationInit, MigrationStep, PTL DEF Spec

\* Every variable keeps its type; in particular no caller runs off the end of
\* its script.
THEOREM TypeInvariant == Spec => []TypeOK
<1>1. Migration => TypeOK
  BY DEF Migration
<1> QED
  BY <1>1, MigrationHolds, PTL

\* Of two callers that migrate to one version only one gets beyond the first
\* CREATE of its script, wherever executescript committed.
THEOREM OneMigratorOnly == Spec => []OneMigrator
<1>1. Migration => OneMigrator
  BY DEF Migration
<1> QED
  BY <1>1, MigrationHolds, PTL

\* A database has all tables and indexes of the version it tells, and whoever
\* got through ensure_schema finds those of the current one, for any number of
\* concurrent callers and crashes between any two statements.
THEOREM VersionIsTrue == Spec => []VersionTellsObjects
<1>1. Migration => VersionTellsObjects
  BY DEF Migration, Complete, VersionTellsObjects, Unset, SchemaVersion
<1> QED
  BY <1>1, MigrationHolds, PTL

\* No caller sets the version back.
THEOREM VersionRises == Spec => VersionNeverFalls
<1>1. ASSUME Migration, [Next]_vars PROVE [version' >= version]_version
  <2>1. ASSUME NEW p \in Callers, Stamp(p) PROVE version' >= version
    <3>1. version = target[p] - 1 /\ version' = target[p]
      BY <1>1, <2>1, StampRaises
    <3>2. target[p] \in 1 .. 3
      BY <1>1 DEF Migration, TypeOK, SchemaVersion
    <3> QED
      BY <3>1, <3>2
  <2> QED
    BY <1>1, <2>1 DEF Next, CallerStep, Preflight, Begin, Create, CallAgain,
       Crash, database, vars
<1> QED
  BY <1>1, MigrationHolds, PTL DEF Spec, VersionNeverFalls
=============================================================================
