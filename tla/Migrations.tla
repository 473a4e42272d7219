----------------------------- MODULE Migrations -----------------------------
(***************************************************************************)
(* Opening a project's store: storage/migrations.py and storage/fts.py.    *)
(*                                                                         *)
(* Every process that opens the database runs run_migrations first: hooks, *)
(* the drainer and the server, at the same time and possibly killed half   *)
(* way.  It seeds the meta table, applies each numbered migration in a     *)
(* transaction of its own, drops projections of an older format, and lays  *)
(* the full-text index beside the events.  Nothing holds a lock over the   *)
(* whole of it: the version read at the start may be old when it is used.  *)
(*                                                                         *)
(* A migration is abstracted to what happens when it is run again: one     *)
(* that only creates what is missing succeeds, one that adds a column      *)
(* (Adds) collides with itself.  One that rebuilds a parent table          *)
(* (Rebuilds) deletes the children's rows if foreign keys are enforced.    *)
(***************************************************************************)
EXTENDS Integers, FiniteSets

CONSTANTS Procs,      \* processes that open the store
          WithoutFts, \* the ones whose SQLite was built without FTS5
          Latest,     \* EXPECTED_SCHEMA_VERSION
          Adds,       \* migrations that add a column
          Rebuilds,   \* migrations that rebuild a parent table
          OldVersions,\* versions a store may be found at
          MaxEvents,  \* bound: events inserted
          MaxStarts   \* bound: times the store is opened

ASSUME MigrationsAssumption ==
    /\ Latest \in Nat \ {0} /\ OldVersions \subseteq 0..Latest
    /\ Adds \subseteq 1..Latest /\ Rebuilds \subseteq 1..Latest
    /\ MaxEvents \in Nat /\ MaxStarts \in Nat /\ WithoutFts \subseteq Procs

VARIABLES version,    \* meta.schema_version; -1 before meta is seeded
          schema,     \* the migrations whose effect is in the schema
          links,      \* the rows that refer to evidence are still there
          projection, \* meta.projection_version and the cached rows
          fts,        \* the index: its table and triggers, and meta.fts_enabled
          events,     \* how many events are stored
          indexed,    \* how many index rows each event has
          pc,         \* where each process is
          todo,       \* the migration a process is about to run
          fkOn,       \* whether a process's connection enforces foreign keys
          starts,     \* times the store was opened
          raised,     \* history: some start raised
          overlap     \* history: two processes had the store open at once

store == <<version, schema, links, projection, fts, events, indexed>>
vars == <<store, pc, todo, fkOn, starts, raised, overlap>>

Migrating == {"bootstrap", "version", "apply", "lost", "projection", "stamp"}
Indexing  == {"fts", "no_fts", "table", "triggers", "backfill"}
Places    == {"idle", "ready"} \cup Migrating \cup Indexing

TypeOK ==
    /\ version \in -1..Latest /\ schema \subseteq 1..Latest /\ links \in BOOLEAN
    /\ projection \in [version : {"old", "current"}, cached : {"none", "old", "current"}]
    /\ fts \in [table : BOOLEAN, triggers : BOOLEAN, enabled : {"unset", "0", "1"}]
    /\ events \in 0..MaxEvents /\ indexed \in [1..MaxEvents -> Nat]
    /\ pc \in [Procs -> Places] /\ todo \in [Procs -> 1..Latest + 1]
    /\ fkOn \in [Procs -> BOOLEAN] /\ starts \in 0..MaxStarts
    /\ raised \in BOOLEAN /\ overlap \in BOOLEAN

\* An empty file, or a store that an earlier release left at some version.
MigrationsInit ==
    /\ \E v \in OldVersions \cup {-1} :
          /\ version = v
          /\ schema = 1..v
          /\ projection = [version |-> IF v = -1 THEN "current" ELSE "old",
                           cached  |-> IF v = -1 THEN "none" ELSE "old"]
    /\ links = TRUE
    /\ fts = [table |-> FALSE, triggers |-> FALSE, enabled |-> "unset"]
    /\ events = 0 /\ indexed = [e \in 1..MaxEvents |-> 0]
    /\ pc = [p \in Procs |-> "idle"] /\ todo = [p \in Procs |-> 1]
    /\ fkOn = [p \in Procs |-> TRUE]
    /\ starts = 0 /\ raised = FALSE /\ overlap = FALSE

Goto(p, place) == pc' = [pc EXCEPT ![p] = place]

\* get_connection: a new connection enforces foreign keys.
Open(p) ==
    /\ pc[p] = "idle" /\ starts < MaxStarts
    /\ Goto(p, "bootstrap")
    /\ starts' = starts + 1
    /\ fkOn' = [fkOn EXCEPT ![p] = TRUE]
    /\ overlap' = (overlap \/ \E q \in Procs : pc[q] # "idle")
    /\ UNCHANGED <<store, todo, raised>>

\* _bootstrap_meta: both seed rows are there, or they are written if missing.
Bootstrap(p) ==
    /\ pc[p] = "bootstrap"
    /\ version' = IF version = -1 THEN 0 ELSE version
    /\ Goto(p, "version")
    /\ UNCHANGED <<schema, links, projection, fts, events, indexed, todo, fkOn, starts,
                   raised, overlap>>

\* Whether foreign keys are enforced while migrations run.
EnforcedAsOpened(p) == fkOn[p]         \* mutated form
EnforcedMeanwhile(p) == FALSE

\* The read of schema_version takes no lock: what was read is acted on later.
ReadVersion(p) ==
    /\ pc[p] = "version"
    /\ IF version >= Latest
       THEN Goto(p, "projection") /\ UNCHANGED <<todo, fkOn>>
       ELSE /\ Goto(p, "apply")
            /\ todo' = [todo EXCEPT ![p] = version + 1]
            /\ fkOn' = [fkOn EXCEPT ![p] = EnforcedMeanwhile(p)]
    /\ UNCHANGED <<store, starts, raised, overlap>>

\* The migration is done with, by this process or by another.
NextFileAlways(p) == Goto(p, "apply") /\ todo' = [todo EXCEPT ![p] = @ + 1] /\ UNCHANGED fkOn  \* mutated form
NextFile(p) ==
    IF todo[p] = Latest
    THEN Goto(p, "projection") /\ fkOn' = [fkOn EXCEPT ![p] = TRUE] /\ UNCHANGED todo
    ELSE Goto(p, "apply") /\ todo' = [todo EXCEPT ![p] = @ + 1] /\ UNCHANGED fkOn

Collides(v) == v \in Adds /\ v \in schema

\* The script and the version it leads to are one transaction.
ScriptOnly(p) == schema' = schema \cup {todo[p]} /\ version' = version  \* mutated form
VersionOnly(p) == version' = todo[p] /\ schema' = schema               \* mutated form
CommitScript(p) ==
    /\ schema' = schema \cup {todo[p]}
    /\ version' = todo[p]

Apply(p) ==
    /\ pc[p] = "apply" /\ ~Collides(todo[p])
    /\ CommitScript(p)
    /\ links' = (links /\ ~(fkOn[p] /\ todo[p] \in Rebuilds))
    /\ NextFile(p)
    /\ UNCHANGED <<projection, fts, events, indexed, starts, raised, overlap>>

\* OperationalError: a column is there already, or the other process keeps the
\* database locked.  The attempt is rolled back.
Lose(p) ==
    /\ pc[p] = "apply"
    /\ Collides(todo[p]) \/ \E q \in Procs \ {p} : pc[q] \in Migrating
    /\ Goto(p, "lost")
    /\ UNCHANGED <<store, todo, fkOn, starts, raised, overlap>>

\* The version is read again: if it has come this far, somebody else did it.
Recheck(p) ==
    /\ pc[p] = "lost"
    /\ IF version >= todo[p]
       THEN NextFile(p) /\ UNCHANGED raised
       ELSE Goto(p, "idle") /\ raised' = TRUE /\ UNCHANGED <<todo, fkOn>>
    /\ UNCHANGED <<store, starts, overlap>>

\* _check_projection_version: the rows go first, the version after them.
KeepProjections == projection.cached    \* mutated form
DropProjections == "none"

CheckProjection(p) ==
    /\ pc[p] = "projection"
    /\ IF projection.version = "current"
       THEN Goto(p, "fts") /\ UNCHANGED projection
       ELSE /\ Goto(p, "stamp")
            /\ projection' = [projection EXCEPT !.cached = DropProjections]
    /\ UNCHANGED <<version, schema, links, fts, events, indexed, todo, fkOn, starts,
                   raised, overlap>>

StampProjection(p) ==
    /\ pc[p] = "stamp"
    /\ projection' = [projection EXCEPT !.version = "current"]
    /\ Goto(p, "fts")
    /\ UNCHANGED <<version, schema, links, fts, events, indexed, todo, fkOn, starts,
                   raised, overlap>>
-----------------------------------------------------------------------------
\* ensure_fts, of a process whose SQLite has FTS5 and of one that has not.
EnsureFts(p) ==
    /\ pc[p] = "fts"
    /\ Goto(p, CASE fts.enabled = "1" -> "ready"
                 [] fts.enabled # "1" /\ p \in WithoutFts -> "no_fts"
                 [] OTHER -> "table")
    /\ UNCHANGED <<store, todo, fkOn, starts, raised, overlap>>

NotAvailable(p) ==
    /\ pc[p] = "no_fts"
    /\ fts' = [fts EXCEPT !.enabled = "0"]
    /\ Goto(p, "ready")
    /\ UNCHANGED <<version, schema, links, projection, events, indexed, todo, fkOn, starts,
                   raised, overlap>>

CreateTable(p) ==
    /\ pc[p] = "table"
    /\ fts' = [fts EXCEPT !.table = TRUE]
    /\ Goto(p, "triggers")
    /\ UNCHANGED <<version, schema, links, projection, events, indexed, todo, fkOn, starts,
                   raised, overlap>>

\* Each CREATE commits by itself; the triggers are there before the backfill.
CreateTriggers(p) ==
    /\ pc[p] = "triggers"
    /\ fts' = [fts EXCEPT !.triggers = TRUE]
    /\ Goto(p, "backfill")
    /\ UNCHANGED <<version, schema, links, projection, events, indexed, todo, fkOn, starts,
                   raised, overlap>>

\* The events no index row exists for, and the flag, in one transaction.
StoredEvent(e) == e <= events          \* mutated form
Unindexed(e)   == e <= events /\ indexed[e] = 0

Backfill(p) ==
    /\ pc[p] = "backfill"
    /\ indexed' = [e \in 1..MaxEvents |-> IF Unindexed(e) THEN indexed[e] + 1 ELSE indexed[e]]
    /\ fts' = [fts EXCEPT !.enabled = "1"]
    /\ Goto(p, "ready")
    /\ UNCHANGED <<version, schema, links, projection, events, todo, fkOn, starts,
                   raised, overlap>>

\* Any failure of ensure_fts leaves the store usable without the index.
FtsFails(p) ==
    /\ pc[p] \in {"no_fts", "table", "triggers", "backfill"}
    /\ \E q \in Procs \ {p} : pc[q] # "idle"
    /\ Goto(p, "ready")
    /\ UNCHANGED <<store, todo, fkOn, starts, raised, overlap>>
-----------------------------------------------------------------------------
\* A merge inserts an event; the trigger indexes it.  Without FTS5 the statement
\* of the trigger cannot be prepared and the insert fails with it.
InsertEvent(p) ==
    /\ pc[p] = "ready" /\ events < MaxEvents
    /\ fts.triggers => p \notin WithoutFts
    /\ events' = events + 1
    /\ indexed' = IF fts.triggers THEN [indexed EXCEPT ![events + 1] = @ + 1] ELSE indexed
    /\ UNCHANGED <<version, schema, links, projection, fts, pc, todo, fkOn, starts, raised, overlap>>

\* A reader saves the projection it built, in this release's format.
SaveProjection(p) ==
    /\ pc[p] = "ready" /\ projection.cached = "none"
    /\ projection' = [projection EXCEPT !.cached = "current"]
    /\ UNCHANGED <<version, schema, links, fts, events, indexed, pc, todo, fkOn, starts,
                   raised, overlap>>

\* The connection is closed, or the process is killed wherever it is.
CloseOrDie(p) ==
    /\ pc[p] # "idle"
    /\ Goto(p, "idle")
    /\ UNCHANGED <<store, todo, fkOn, starts, raised, overlap>>

MigrationsStep(p) ==
    \/ Open(p) \/ Bootstrap(p) \/ ReadVersion(p) \/ Apply(p) \/ Lose(p) \/ Recheck(p)
    \/ CheckProjection(p) \/ StampProjection(p)
    \/ EnsureFts(p) \/ NotAvailable(p) \/ CreateTable(p) \/ CreateTriggers(p) \/ Backfill(p)
    \/ FtsFails(p) \/ InsertEvent(p) \/ SaveProjection(p) \/ CloseOrDie(p)

MigrationsNext == \E p \in Procs : MigrationsStep(p)
MigrationsSpec == MigrationsInit /\ [][MigrationsNext]_vars
-----------------------------------------------------------------------------
\* The version recorded in the store never claims a migration whose effect is
\* missing, whoever was killed and however the processes raced: only a script
\* that commits its effect moves it (migrations.py:104-120).
VersionIsEarned == 1..version \subseteq schema

\* Rebuilding a parent table never deletes the rows that refer to it: the chain
\* runs with foreign keys off, and is back on when it is over (migrations.py:82-95).
LinksSurvive ==
    /\ links
    /\ \A p \in Procs : pc[p] \in {"ready"} \cup Indexing => fkOn[p]

\* A projection of an older format is gone before the store says that its
\* projections are current, a kill between the two commits included.
ProjectionIsCurrent == projection.version = "current" => projection.cached # "old"

\* Once the index is announced it covers every event exactly once, whatever was
\* inserted while it was being laid, and by however many processes.
IndexIsComplete ==
    fts.enabled = "1" => \A e \in 1..events : indexed[e] = 1

\* A start raises only when two processes had the store open at once: a kill in
\* the middle of a migration never keeps the next start from finishing it.
AloneSucceeds == raised => overlap

\* "Safe to call on every startup" (migrations.py:14): when nobody is migrating,
\* the next start does not run into a column that is already there.
StillOpens ==
    (\A p \in Procs : pc[p] \notin Migrating) => \A v \in version + 1..Latest : ~Collides(v)

\* What hangs on the events agrees with them after any start: the type of every
\* variable, the format of the projections, and the index.
StoreIsConsistent == TypeOK /\ ProjectionIsCurrent /\ IndexIsComplete
=============================================================================
