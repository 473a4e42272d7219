------------------------- MODULE Migrations_proofs -------------------------
(***************************************************************************)
(* What opening a store keeps true for any number of processes, any chain  *)
(* of migrations and any set of directories.                               *)
(*                                                                         *)
(* The store itself: the file a process is about to run is preceded by     *)
(* migrations that have run, its connection's foreign keys are off exactly *)
(* while it runs them, the index is announced only when its triggers are   *)
(* there, and a store that was never opened twice at once holds exactly the *)
(* migrations its version names.                                           *)
(*                                                                         *)
(* Which store it is: what the shared index still holds of a store is its  *)
(* place or that the place was not told yet, and of two stores of a place one *)
(* was begun beside an unfinished one.                                     *)
(***************************************************************************)
EXTENDS Migrations, ProjectStores, WellFoundedInduction, NaturalsInduction, TLAPS

InChain(p) == pc[p] \in {"apply", "lost"}

ChainInv ==
    /\ version \in -1..Latest
    /\ schema \subseteq 1..Latest
    /\ todo \in [Procs -> 1..Latest + 1]
    /\ pc \in [Procs -> Places]
    /\ fkOn \in [Procs -> BOOLEAN]
    /\ VersionIsEarned
    /\ \A p \in Procs : pc[p] # "idle" /\ pc[p] # "bootstrap" => version # -1
    /\ \A p \in Procs : InChain(p) => todo[p] \in 1..Latest /\ 1..(todo[p] - 1) \subseteq schema

\* A fresh file and a store of an earlier release are at a version they have earned.
LEMMA ChainInitially == MigrationsInit => ChainInv
<1> SUFFICES ASSUME MigrationsInit PROVE ChainInv
    OBVIOUS
<1> USE MigrationsAssumption DEF MigrationsInit
<1>1. PICK v \in OldVersions \cup {-1} : version = v /\ schema = 1..v
    OBVIOUS
<1>2. v \in -1..Latest
    OBVIOUS
<1>3. schema \subseteq 1..Latest /\ VersionIsEarned
    BY <1>1, <1>2 DEF VersionIsEarned
<1>4. todo \in [Procs -> 1..Latest + 1] /\ pc \in [Procs -> Places] /\ fkOn \in [Procs -> BOOLEAN]
    BY DEF Places
<1> QED
    BY <1>1, <1>2, <1>3, <1>4 DEF ChainInv, InChain

\* A script runs after its predecessors, whoever ran them.
LEMMA ChainStep == ChainInv /\ [MigrationsNext]_vars => ChainInv'
<1> SUFFICES ASSUME ChainInv, [MigrationsNext]_vars PROVE ChainInv'
    OBVIOUS
<1> USE MigrationsAssumption DEF ChainInv, VersionIsEarned, InChain, Goto
<1>1. CASE UNCHANGED vars
    BY <1>1 DEF vars, store
<1>2. ASSUME NEW p \in Procs, MigrationsStep(p) PROVE ChainInv'
  <2>1. CASE Open(p)
      BY <2>1 DEF Open, store, Places, Migrating
  <2>2. CASE Bootstrap(p)
      BY <2>2 DEF Bootstrap, Places, Migrating
  <2>3. CASE ReadVersion(p)
    <3>1. CASE version >= Latest
        BY <2>3, <3>1 DEF ReadVersion, store, Places, Migrating
    <3>2. CASE ~(version >= Latest)
      <4>1. /\ pc' = [pc EXCEPT ![p] = "apply"]
            /\ todo' = [todo EXCEPT ![p] = version + 1]
            /\ fkOn' = [fkOn EXCEPT ![p] = FALSE]
            /\ version' = version /\ schema' = schema
          BY <2>3, <3>2 DEF ReadVersion, EnforcedMeanwhile, store
      <4>2. version \in 0..Latest - 1
          BY <2>3, <3>2 DEF ReadVersion
      <4>3. todo' \in [Procs -> 1..Latest + 1] /\ pc' \in [Procs -> Places]
            /\ fkOn' \in [Procs -> BOOLEAN]
          BY <4>1, <4>2 DEF Places, Migrating
      <4>4. \A q \in Procs : InChain(q)' =>
                todo'[q] \in 1..Latest /\ 1..(todo'[q] - 1) \subseteq schema'
          BY <4>1, <4>2
      <4>5. \A q \in Procs : pc'[q] # "idle" /\ pc'[q] # "bootstrap" => version' # -1
          BY <4>1, <4>2
      <4> QED BY <4>1, <4>3, <4>4, <4>5
    <3> QED BY <3>1, <3>2
  <2>4. CASE Apply(p)
    <3>1. todo[p] \in 1..Latest /\ 1..(todo[p] - 1) \subseteq schema
        BY <2>4 DEF Apply
    <3>2. schema' = schema \cup {todo[p]} /\ version' = todo[p]
        BY <2>4 DEF Apply, CommitScript
    <3>3. version' \in -1..Latest /\ schema' \subseteq 1..Latest /\ 1..version' \subseteq schema'
          /\ version' # -1
      <4>1. \A i \in 1..todo[p] : i \in 1..(todo[p] - 1) \/ i = todo[p]
          BY <3>1
      <4>2. 1..version' \subseteq schema'
          BY <3>1, <3>2, <4>1
      <4>3. schema' \subseteq 1..Latest
          BY <3>1, <3>2
      <4>4. version' \in -1..Latest /\ version' # -1
          BY <3>1, <3>2
      <4> QED BY <4>2, <4>3, <4>4
    <3>4. CASE todo[p] = Latest
      <4>1. pc' = [pc EXCEPT ![p] = "projection"] /\ todo' = todo
            /\ fkOn' = [fkOn EXCEPT ![p] = TRUE]
          BY <2>4, <3>4 DEF Apply, NextFile
      <4>2. \A q \in Procs : InChain(q)' =>
                todo'[q] \in 1..Latest /\ 1..(todo'[q] - 1) \subseteq schema'
          BY <3>2, <4>1
      <4> QED BY <3>3, <4>1, <4>2 DEF Places, Migrating
    <3>5. CASE todo[p] # Latest
      <4>1. pc' = [pc EXCEPT ![p] = "apply"] /\ todo' = [todo EXCEPT ![p] = todo[p] + 1]
            /\ fkOn' = fkOn
          BY <2>4, <3>5 DEF Apply, NextFile
      <4>2. \A q \in Procs : InChain(q)' =>
                todo'[q] \in 1..Latest /\ 1..(todo'[q] - 1) \subseteq schema'
          BY <3>1, <3>2, <3>3, <3>5, <4>1
      <4> QED BY <3>3, <4>1, <4>2, <3>1, <3>5 DEF Places, Migrating
    <3> QED BY <3>4, <3>5
  <2>5. CASE Lose(p)
      BY <2>5 DEF Lose, store, Places, Migrating
  <2>6. CASE Recheck(p)
    <3>1. CASE version >= todo[p] /\ todo[p] = Latest
        BY <2>6, <3>1 DEF Recheck, NextFile, store, Places, Migrating
    <3>2. CASE version >= todo[p] /\ todo[p] # Latest
        BY <2>6, <3>2 DEF Recheck, NextFile, store, Places, Migrating
    <3>3. CASE ~(version >= todo[p])
        BY <2>6, <3>3 DEF Recheck, store, Places, Migrating
    <3> QED BY <3>1, <3>2, <3>3
  <2>7. CASE CheckProjection(p) \/ StampProjection(p)
      BY <2>7 DEF CheckProjection, StampProjection, Places, Migrating, Indexing
  <2>8. CASE EnsureFts(p) \/ NotAvailable(p) \/ CreateTable(p) \/ CreateTriggers(p)
             \/ Backfill(p) \/ FtsFails(p)
      BY <2>8 DEF EnsureFts, NotAvailable, CreateTable, CreateTriggers, Backfill, FtsFails,
                  store, Places, Indexing, Migrating
  <2>9. CASE InsertEvent(p) \/ SaveProjection(p) \/ CloseOrDie(p)
      BY <2>9 DEF InsertEvent, SaveProjection, CloseOrDie, store, Places
  <2> QED
      BY <1>2, <2>1, <2>2, <2>3, <2>4, <2>5, <2>6, <2>7, <2>8, <2>9 DEF MigrationsStep
<1> QED
    BY <1>1, <1>2 DEF MigrationsNext

\* The version a store records never claims a migration that has not run,
\* whatever the chain and however the processes that open it race or die.
THEOREM VersionAlwaysEarned == MigrationsSpec => []VersionIsEarned
<1>1. ChainInv => VersionIsEarned
    BY DEF ChainInv
<1> QED
    BY <1>1, ChainInitially, ChainStep, PTL DEF MigrationsSpec
-----------------------------------------------------------------------------
\* A connection enforces foreign keys except while it runs the chain.
KeysInv ==
    /\ pc \in [Procs -> Places] /\ fkOn \in [Procs -> BOOLEAN]
    /\ links
    /\ \A p \in Procs : pc[p] # "idle" => (fkOn[p] <=> ~InChain(p))

\* Foreign keys are off for exactly as long as a process is in the chain.
LEMMA KeysStep == KeysInv /\ [MigrationsNext]_vars => KeysInv'
<1> SUFFICES ASSUME KeysInv, [MigrationsNext]_vars PROVE KeysInv'
    OBVIOUS
<1> USE DEF KeysInv, InChain, Goto, Places, Migrating
<1>1. CASE UNCHANGED vars
    BY <1>1 DEF vars, store
<1>2. ASSUME NEW p \in Procs, MigrationsStep(p) PROVE KeysInv'
  <2>1. CASE Open(p)
      BY <2>1 DEF Open, store
  <2>2. CASE Bootstrap(p)
      BY <2>2 DEF Bootstrap
  <2>3. CASE ReadVersion(p)
      BY <2>3 DEF ReadVersion, EnforcedMeanwhile, store
  <2>4. CASE Apply(p)
    <3>1. links' = links
        BY <2>4 DEF Apply
    <3>2. CASE todo[p] = Latest
        BY <2>4, <3>1, <3>2 DEF Apply, NextFile
    <3>3. CASE todo[p] # Latest
        BY <2>4, <3>1, <3>3 DEF Apply, NextFile
    <3> QED BY <3>2, <3>3
  <2>5. CASE Lose(p)
      BY <2>5 DEF Lose, store
  <2>6. CASE Recheck(p)
      BY <2>6 DEF Recheck, NextFile, store
  <2>7. CASE CheckProjection(p) \/ StampProjection(p)
      BY <2>7 DEF CheckProjection, StampProjection, Indexing
  <2>8. CASE EnsureFts(p) \/ NotAvailable(p) \/ CreateTable(p) \/ CreateTriggers(p)
             \/ Backfill(p) \/ FtsFails(p)
      BY <2>8 DEF EnsureFts, NotAvailable, CreateTable, CreateTriggers, Backfill, FtsFails,
                  store, Indexing
  <2>9. CASE InsertEvent(p) \/ SaveProjection(p) \/ CloseOrDie(p)
      BY <2>9 DEF InsertEvent, SaveProjection, CloseOrDie, store
  <2> QED
      BY <1>2, <2>1, <2>2, <2>3, <2>4, <2>5, <2>6, <2>7, <2>8, <2>9 DEF MigrationsStep
<1> QED
    BY <1>1, <1>2 DEF MigrationsNext

\* Rebuilding a parent table never deletes the rows that refer to it, for any
\* chain: foreign keys are off for exactly as long as a process is in the chain.
THEOREM LinksAlwaysSurvive == MigrationsSpec => []LinksSurvive
<1>1. MigrationsInit => KeysInv
    BY DEF MigrationsInit, KeysInv, InChain, Places
<1>2. KeysInv => LinksSurvive
    BY DEF KeysInv, LinksSurvive, InChain, Indexing
<1> QED
    BY <1>1, <1>2, KeysStep, PTL DEF MigrationsSpec
-----------------------------------------------------------------------------
\* While nobody opens the store beside somebody else, one process at most is
\* busy, the schema is the chain up to the version, and the next file follows it.
AloneInv ==
    /\ \A p, q \in Procs : pc[p] # "idle" /\ pc[q] # "idle" => p = q
    /\ schema = 1..version
    /\ \A p \in Procs : pc[p] = "apply" => todo[p] = version + 1
    /\ \A p \in Procs : pc[p] # "lost"
    /\ ~raised

\* A process that is alone never loses a race, and runs no migration twice.
LEMMA AloneStep ==
    ChainInv /\ (~overlap => AloneInv) /\ [MigrationsNext]_vars => (~overlap' => AloneInv')
<1> SUFFICES ASSUME ChainInv, ~overlap => AloneInv, [MigrationsNext]_vars, ~overlap'
             PROVE  AloneInv'
    OBVIOUS
<1> DEFINE Typed == /\ pc \in [Procs -> Places] /\ todo \in [Procs -> 1..Latest + 1]
                    /\ version \in -1..Latest
                    /\ \A p \in Procs : pc[p] = "apply" => todo[p] \in 1..Latest
<1>1. Typed
    BY DEF ChainInv, InChain
<1>2. CASE UNCHANGED vars
    BY <1>2 DEF vars, store, AloneInv
<1>3. ASSUME NEW p \in Procs, MigrationsStep(p) PROVE AloneInv'
  <2> USE MigrationsAssumption DEF Goto
  <2>1. CASE Open(p)
      BY <1>1, <2>1 DEF Open, store, AloneInv
  <2>2. AloneInv \/ Open(p)
    <3>1. CASE ~overlap
        BY <3>1
    <3>2. CASE overlap /\ ~Open(p)
      <4>1. overlap' = overlap
          BY <1>3, <3>2 DEF MigrationsStep, Bootstrap, ReadVersion, Apply, Lose, Recheck,
             CheckProjection, StampProjection, EnsureFts, NotAvailable, CreateTable,
             CreateTriggers, Backfill, FtsFails, InsertEvent, SaveProjection, CloseOrDie
      <4> QED BY <3>2, <4>1
    <3> QED BY <3>1, <3>2
  <2>3. ASSUME AloneInv, Bootstrap(p) PROVE AloneInv'
    <3>1. 1..version' = 1..version
        BY <1>1, <2>3 DEF Bootstrap
    <3>2. \A q \in Procs : pc[q] # "apply"
        BY <2>3 DEF Bootstrap, AloneInv
    <3> QED BY <1>1, <2>3, <3>1, <3>2 DEF Bootstrap, AloneInv
  <2>4. ASSUME AloneInv, ReadVersion(p) PROVE AloneInv'
      BY <1>1, <2>4 DEF ReadVersion, store, AloneInv
  <2>5. ASSUME AloneInv, Apply(p) PROVE AloneInv'
    <3>1. todo[p] = version + 1 /\ schema' = schema \cup {todo[p]} /\ version' = todo[p]
          /\ raised' = raised /\ todo[p] \in 1..Latest
        BY <1>1, <2>5 DEF Apply, CommitScript, AloneInv
    <3>2. 1..(version + 1) = (1..version) \cup {version + 1}
        BY <1>1, <3>1
    <3>3. \A q \in Procs : q # p => pc[q] = "idle" /\ pc'[q] = "idle"
        BY <1>1, <2>5 DEF Apply, NextFile, AloneInv
    <3>4. pc'[p] # "lost" /\ (pc'[p] = "apply" => todo'[p] = todo[p] + 1)
        BY <1>1, <2>5 DEF Apply, NextFile
    <3> QED BY <2>5, <3>1, <3>2, <3>3, <3>4 DEF AloneInv
  <2>6. ASSUME AloneInv, Lose(p) PROVE FALSE
    <3>1. ~Collides(todo[p])
        BY <1>1, <2>6 DEF Lose, AloneInv, Collides
    <3> QED BY <2>6, <3>1 DEF Lose, AloneInv, Migrating
  <2>7. ASSUME AloneInv, Recheck(p) PROVE FALSE
      BY <2>7 DEF Recheck, AloneInv
  <2>8. ASSUME AloneInv, CheckProjection(p) \/ StampProjection(p) PROVE AloneInv'
      BY <1>1, <2>8 DEF CheckProjection, StampProjection, AloneInv
  <2>9. ASSUME AloneInv, EnsureFts(p) \/ NotAvailable(p) \/ CreateTable(p)
               \/ CreateTriggers(p) \/ Backfill(p) \/ FtsFails(p)
        PROVE  AloneInv'
      BY <1>1, <2>9 DEF EnsureFts, NotAvailable, CreateTable, CreateTriggers, Backfill,
         FtsFails, store, AloneInv
  <2>10. ASSUME AloneInv, InsertEvent(p) \/ SaveProjection(p) \/ CloseOrDie(p)
         PROVE  AloneInv'
      BY <1>1, <2>10 DEF InsertEvent, SaveProjection, CloseOrDie, store, AloneInv
  <2> QED
      BY <1>3, <2>1, <2>2, <2>3, <2>4, <2>5, <2>6, <2>7, <2>8, <2>9, <2>10
      DEF MigrationsStep
<1> QED
    BY <1>2, <1>3 DEF MigrationsNext

\* A process that was never beside another one finishes its start, however often
\* it or an earlier one was killed half way through the chain.
THEOREM AloneAlwaysSucceeds == MigrationsSpec => []AloneSucceeds
<1> DEFINE Inv == ChainInv /\ (~overlap => AloneInv)
<1>1. MigrationsInit => Inv
  <2>1. MigrationsInit => AloneInv
      BY MigrationsAssumption DEF MigrationsInit, AloneInv
  <2> QED BY <2>1, ChainInitially
<1>2. Inv /\ [MigrationsNext]_vars => Inv'
    BY ChainStep, AloneStep
<1>3. Inv => AloneSucceeds
    BY DEF AloneInv, AloneSucceeds
<1> QED
    BY <1>1, <1>2, <1>3, PTL DEF MigrationsSpec
-----------------------------------------------------------------------------
\* What hangs on the events.  No process stamps the projections while old rows are
\* cached; the index is only backfilled once its triggers are there, from when on
\* every insert indexes itself; an event has no index row before it is inserted.
Covered == \A e \in 1..MaxEvents : /\ indexed[e] \in {0, 1}
                                   /\ e > events => indexed[e] = 0

HangingInv ==
    /\ links \in BOOLEAN
    /\ projection \in [version : {"old", "current"}, cached : {"none", "old", "current"}]
    /\ fts \in [table : BOOLEAN, triggers : BOOLEAN, enabled : {"unset", "0", "1"}]
    /\ events \in 0..MaxEvents /\ indexed \in [1..MaxEvents -> Nat]
    /\ starts \in 0..MaxStarts /\ raised \in BOOLEAN /\ overlap \in BOOLEAN
    /\ ProjectionIsCurrent
    /\ \A p \in Procs : pc[p] = "stamp" => projection.cached # "old"
    /\ \A p \in Procs : pc[p] = "backfill" => fts.triggers
    /\ fts.enabled = "1" => fts.triggers
    /\ Covered
    /\ IndexIsComplete

\* What hangs on the events of a store that is found.
LEMMA HangingInitially == MigrationsInit => HangingInv
<1> SUFFICES ASSUME MigrationsInit PROVE HangingInv
    OBVIOUS
<1> USE MigrationsAssumption DEF MigrationsInit
<1>1. PICK v \in OldVersions \cup {-1} :
          projection = [version |-> IF v = -1 THEN "current" ELSE "old",
                        cached  |-> IF v = -1 THEN "none" ELSE "old"]
    OBVIOUS
<1>2. ProjectionIsCurrent
      /\ projection \in [version : {"old", "current"}, cached : {"none", "old", "current"}]
    BY <1>1 DEF ProjectionIsCurrent
<1>3. fts.enabled # "1"
      /\ fts \in [table : BOOLEAN, triggers : BOOLEAN, enabled : {"unset", "0", "1"}]
    OBVIOUS
<1>4. events \in 0..MaxEvents /\ indexed \in [1..MaxEvents -> Nat]
      /\ starts \in 0..MaxStarts
    OBVIOUS
<1>5. \A p \in Procs : pc[p] = "idle"
    OBVIOUS
<1>6. Covered /\ IndexIsComplete
    BY <1>3 DEF Covered, IndexIsComplete
<1>7. links \in BOOLEAN /\ raised \in BOOLEAN /\ overlap \in BOOLEAN
    OBVIOUS
<1> QED
    BY <1>2, <1>3, <1>4, <1>5, <1>6, <1>7 DEF HangingInv

\* No start, kill or insert leaves an event without its index row once announced.
LEMMA HangingStep == ChainInv /\ HangingInv /\ [MigrationsNext]_vars => HangingInv'
<1> SUFFICES ASSUME ChainInv, HangingInv, [MigrationsNext]_vars PROVE HangingInv'
    OBVIOUS
<1> USE MigrationsAssumption DEF HangingInv, ProjectionIsCurrent, IndexIsComplete, Covered, Goto
<1>0. pc \in [Procs -> Places]
    BY DEF ChainInv
<1>1. CASE UNCHANGED vars
    BY <1>1 DEF vars, store
<1>2. ASSUME NEW p \in Procs, MigrationsStep(p) PROVE HangingInv'
  <2>1. CASE Open(p)
      BY <1>0, <2>1 DEF Open, store
  <2>2. CASE Bootstrap(p)
      BY <1>0, <2>2 DEF Bootstrap
  <2>3. CASE ReadVersion(p)
      BY <1>0, <2>3 DEF ReadVersion, store
  <2>4. CASE Apply(p)
      BY <1>0, <2>4 DEF Apply, NextFile
  <2>5. CASE Lose(p) \/ Recheck(p)
    <3>1. CASE Lose(p)
        BY <1>0, <3>1 DEF Lose, store
    <3>2. CASE Recheck(p)
      <4>1. /\ UNCHANGED <<links, projection, fts, events, indexed, starts, overlap>>
            /\ raised' \in BOOLEAN
          BY <3>2 DEF Recheck, store
      <4>2. \E place \in {"projection", "apply", "idle"} : pc' = [pc EXCEPT ![p] = place]
          BY <3>2 DEF Recheck, NextFile
      <4>3. \A q \in Procs : pc'[q] \in {"stamp", "backfill"} => pc'[q] = pc[q]
          BY <1>0, <4>2
      <4>4. \A q \in Procs : /\ pc'[q] = "stamp" => projection'.cached # "old"
                             /\ pc'[q] = "backfill" => fts'.triggers
          BY <4>1, <4>3
      <4> QED BY <4>1, <4>4
    <3> QED BY <2>5, <3>1, <3>2
  <2>6. CASE CheckProjection(p)
      BY <1>0, <2>6 DEF CheckProjection, DropProjections
  <2>7. CASE StampProjection(p)
      BY <1>0, <2>7 DEF StampProjection
  <2>8. CASE EnsureFts(p) \/ FtsFails(p)
      BY <1>0, <2>8 DEF EnsureFts, FtsFails, store
  <2>9. CASE NotAvailable(p) \/ CreateTable(p) \/ CreateTriggers(p)
    <3>1. CASE NotAvailable(p)
      <4>1. /\ fts' = [fts EXCEPT !.enabled = "0"]
            /\ UNCHANGED <<links, projection, events, indexed, starts, raised, overlap>>
            /\ pc' = [pc EXCEPT ![p] = "ready"]
          BY <3>1 DEF NotAvailable
      <4>2. /\ fts' \in [table : BOOLEAN, triggers : BOOLEAN, enabled : {"unset", "0", "1"}]
            /\ fts'.triggers = fts.triggers
            /\ fts'.enabled = "1" => fts.enabled = "1"
          BY <4>1
      <4>3. \A q \in Procs : /\ pc'[q] = "stamp" => projection'.cached # "old"
                             /\ pc'[q] = "backfill" => fts'.triggers
          BY <1>0, <4>1, <4>2
      <4> QED BY <4>1, <4>2, <4>3
    <3>2. CASE CreateTable(p)
      <4>1. /\ fts' = [fts EXCEPT !.table = TRUE]
            /\ UNCHANGED <<links, projection, events, indexed, starts, raised, overlap>>
            /\ pc' = [pc EXCEPT ![p] = "triggers"]
          BY <3>2 DEF CreateTable
      <4>2. /\ fts' \in [table : BOOLEAN, triggers : BOOLEAN, enabled : {"unset", "0", "1"}]
            /\ fts'.triggers = fts.triggers
            /\ fts'.enabled = "1" => fts.enabled = "1"
          BY <4>1
      <4>3. \A q \in Procs : /\ pc'[q] = "stamp" => projection'.cached # "old"
                             /\ pc'[q] = "backfill" => fts'.triggers
          BY <1>0, <4>1, <4>2
      <4> QED BY <4>1, <4>2, <4>3
    <3>3. CASE CreateTriggers(p)
        BY <1>0, <3>3 DEF CreateTriggers
    <3> QED BY <2>9, <3>1, <3>2, <3>3
  <2>10. CASE Backfill(p)
    <3>1. /\ indexed' = [e \in 1..MaxEvents |-> IF Unindexed(e) THEN indexed[e] + 1 ELSE indexed[e]]
          /\ fts' = [fts EXCEPT !.enabled = "1"] /\ pc' = [pc EXCEPT ![p] = "ready"]
          /\ UNCHANGED <<links, projection, events, starts, raised, overlap>>
        BY <2>10 DEF Backfill
    <3>2. \A e \in 1..MaxEvents : /\ indexed'[e] \in {0, 1} /\ e > events => indexed'[e] = 0
                                  /\ e <= events => indexed'[e] = 1
        BY <3>1 DEF Unindexed
    <3>3. indexed' \in [1..MaxEvents -> Nat]
        BY <3>1 DEF Unindexed
    <3>4. fts.triggers
        BY <2>10 DEF Backfill
    <3> QED BY <1>0, <3>1, <3>2, <3>3, <3>4
  <2>11. CASE InsertEvent(p)
    <3>1. /\ events' = events + 1 /\ events' \in 1..MaxEvents
          /\ indexed' = IF fts.triggers THEN [indexed EXCEPT ![events + 1] = @ + 1] ELSE indexed
          /\ UNCHANGED <<links, projection, fts, pc, starts, raised, overlap>>
        BY <2>11 DEF InsertEvent
    <3>2. indexed[events + 1] = 0
        BY <3>1
    <3>3. CASE fts.triggers
        BY <3>1, <3>2, <3>3
    <3>4. CASE ~fts.triggers
        BY <3>1, <3>2, <3>4
    <3> QED BY <3>3, <3>4
  <2>12. CASE SaveProjection(p) \/ CloseOrDie(p)
      BY <1>0, <2>12 DEF SaveProjection, CloseOrDie, store
  <2> QED
      BY <1>2, <2>1, <2>2, <2>3, <2>4, <2>5, <2>6, <2>7, <2>8, <2>9, <2>10, <2>11, <2>12
      DEF MigrationsStep
<1> QED
    BY <1>1, <1>2 DEF MigrationsNext

\* Whatever was inserted while the index was being laid, and by however many
\* processes, an index that is announced holds every event exactly once; a store
\* whose projections are announced as current caches none of an older format.
THEOREM StoreAlwaysConsistent == MigrationsSpec => []StoreIsConsistent
<1>1. ChainInv /\ HangingInv => StoreIsConsistent
    BY DEF ChainInv, HangingInv, StoreIsConsistent, TypeOK
<1> QED
    BY <1>1, ChainInitially, ChainStep, HangingInitially, HangingStep, PTL DEF MigrationsSpec
-----------------------------------------------------------------------------
\* Which store a directory belongs to.

\* Naturals that are not empty as a set have a least element.
LEMMA LeastExists ==
    ASSUME NEW S \in SUBSET Nat, S # {}
    PROVE  \E m \in S : \A j \in S : m <= j
<1> DEFINE R == OpToRel(<, Nat)
<1>1. PICK m \in S : \A j \in S : ~(<<j, m>> \in R)
  <2>1. IsWellFoundedOn(R, Nat)
      BY NatLessThanWellFounded
  <2> HIDE DEF R
  <2> QED BY <2>1, WFMin
<1>2. \A j \in S : m <= j
  <2> SUFFICES ASSUME NEW j \in S PROVE m <= j
      OBVIOUS
  <2>1. ~(j < m)
      BY <1>1 DEF OpToRel
  <2> QED BY <2>1
<1> QED
    BY <1>1, <1>2

\* Every directory, and the root seen through every mount, may have a store.
LEMMA IdsAreNames == /\ Dirs \subseteq Ids
                     /\ \A d \in Dirs : <<TheRoot, d[2]>> \in Ids
                     /\ \A d \in Dirs : Key(d) # Key(Unknown) /\ d # Unknown
<1>1. Ids = Dirs \cup {<<TheRoot, m>> : m \in Mounts}
    BY StoresAssumption DEF Ids
<1>2. \A d \in Dirs : d[2] \in Mounts
    BY DEF Mounts
<1>3. \A d \in Dirs : Key(d) # Key(Unknown) /\ d # Unknown
    BY StoresAssumption DEF Key, Unknown
<1> QED
    BY <1>1, <1>2, <1>3

\* The first of some stores, by file name, is one of them.
LEMMA FirstOfIsThere ==
    ASSUME NEW S \in SUBSET Ids, S # {}
    PROVE  FirstOf(S) \in S
<1> DEFINE Good(i) == FileNames[i] \in S /\ \A j \in 1..(i - 1) : FileNames[j] \notin S
           D == {i \in DOMAIN FileNames : FileNames[i] \in S}
<1>1. DOMAIN FileNames = 1..Len(FileNames) /\ Len(FileNames) \in Nat
    BY StoresAssumption
<1>2. D \in SUBSET Nat
    BY <1>1
<1>3. D # {}
    BY DEF Ids, ToSet
<1>4. PICK m \in D : \A j \in D : m <= j
    BY <1>2, <1>3, LeastExists
<1>5. \A j \in 1..(m - 1) : FileNames[j] \notin S
    BY <1>1, <1>4
<1>6. m \in DOMAIN FileNames /\ Good(m)
    BY <1>4, <1>5
<1>7. Good(CHOOSE i \in DOMAIN FileNames : Good(i))
  <2> HIDE DEF Good
  <2> QED BY <1>6
<1> QED
    BY <1>7 DEF FirstOf

KnownPaths   == Ids \cup {Unknown}
StoreRecords == [exists : BOOLEAN, path : KnownPaths, version : Nat, closed : BOOLEAN]
UserRecords  == [at : {"idle", "open", "record", "close"},
                 dir : Dirs \cup {Unknown}, store : KnownPaths]

\* What is true of the stores wherever the repository's root is.
StoresInv ==
    /\ stores \in [Ids -> StoreRecords]
    /\ index \in [Ids -> [version : Nat, key : {Key(i) : i \in KnownPaths}]]
    /\ roots \in [Users -> [Dirs -> KnownPaths]]
    /\ users \in [Users -> UserRecords]
    /\ DOMAIN worked = Ids
    /\ opens \in 0..MaxOpens
    /\ \A s \in Ids : index[s].version <= stores[s].version
    /\ \A s \in Ids : ~stores[s].exists => /\ stores[s] = NoStore /\ worked[s] = {}
    /\ \A s \in Ids : stores[s].exists => Key(s) \in worked[s]
    /\ \A u \in Users : users[u].at # "idle" =>
          /\ users[u].dir \in Dirs /\ users[u].store \in Ids
          /\ \/ stores[users[u].store].exists
             \/ users[u].at = "open" /\ users[u].store = users[u].dir

\* While the root holds no .git entry, what is cached of a store is its place, or
\* that the place was not told yet; after it was closed, it is told.
PlacesInv ==
    /\ \A u \in Users, d \in Dirs : roots[u][d] \in {Unknown, d}
    /\ \A s \in Ids : Key(stores[s].path) \in {Key(Unknown), Key(s)}
    /\ \A s \in Ids : Holds(s) => index[s].key \in {Key(Unknown), Key(s)}
    /\ \A s \in Ids : stores[s].closed => /\ Key(stores[s].path) = Key(s)
                                          /\ Holds(s) => index[s].key = Key(s)
    /\ \A u \in Users : users[u].at # "idle" => Key(users[u].store) = Key(users[u].dir)
    /\ \A u \in Users : users[u].at = "close" =>
          Key(stores[users[u].store].path) = Key(users[u].store)

\* About to create a store of its own.
Creating(u) == users[u].at = "open" /\ ~stores[users[u].store].exists

\* A store that is being created without haste is the first of its place, and of
\* two that are being created side by side one was begun in haste.
SeparateInv ==
    /\ \A u \in Users : Creating(u) /\ users[u].store \notin hurried =>
          \A t \in Existing : Key(t) = Key(users[u].store) => t \in hurried
    /\ \A u, v \in Users :
          u # v /\ Creating(u) /\ Creating(v) /\ Key(users[u].store) = Key(users[v].store) =>
              users[u].store \in hurried \/ users[v].store \in hurried
    /\ \A s, t \in Existing :
          s # t /\ Key(s) = Key(t) => s \in hurried \/ t \in hurried

\* Before anybody resolved anything.
LEMMA StoresInitially == StoresInit => StoresInv /\ PlacesInv /\ SeparateInv
<1> SUFFICES ASSUME StoresInit PROVE StoresInv /\ PlacesInv /\ SeparateInv
    OBVIOUS
<1> USE StoresAssumption DEF StoresInit
<1>1. StoresInv
    BY DEF StoresInv, NoStore, Idling, KnownPaths, StoreRecords, UserRecords
<1>2. PlacesInv
    BY DEF PlacesInv, NoStore, Idling, Holds
<1>3. SeparateInv
    BY DEF SeparateInv, Creating, Existing, NoStore, Idling
<1> QED
    BY <1>1, <1>2, <1>3

\* The repository's root is a place that may have a store.
LEMMA RootIsKnown ==
    ASSUME StoresInv, NEW u \in Users, NEW d \in Dirs
    PROVE  RootOf(u, d) \in Ids
<1>1. roots[u][d] \in KnownPaths
    BY DEF StoresInv
<1> QED
    BY <1>1, IdsAreNames DEF RootOf, RootNow, KnownPaths

\* What a directory resolves to is a store that exists, or the directory's own.
LEMMA FoundIsKnown ==
    ASSUME StoresInv, NEW u \in Users, NEW d \in Dirs
    PROVE  /\ Found(u, d) \in Ids
           /\ Found(u, d) = d \/ Found(u, d) \in Existing
<1>1. CASE Anchored(u, d)
    BY <1>1, RootIsKnown DEF Found, Anchored, Existing
<1>2. CASE ~Anchored(u, d) /\ Equivalent(d) # {} /\ ~Own(d)
  <2>1. FirstOf(Equivalent(d)) \in Equivalent(d)
      BY <1>2, FirstOfIsThere DEF Equivalent, Existing
  <2> QED BY <1>2, <2>1 DEF Found, Equivalent, Existing
<1>3. CASE ~Anchored(u, d) /\ (Own(d) \/ Equivalent(d) = {})
    BY <1>3, IdsAreNames DEF Found, NewAtPath
<1> QED
    BY <1>1, <1>2, <1>3

\* Without a .git entry at the root it is of the directory's place; and if it is
\* new, no store of the place was ever closed.
LEMMA FoundIsRight ==
    ASSUME StoresInv, ~git, PlacesInv, NEW u \in Users, NEW d \in Dirs
    PROVE  /\ Key(Found(u, d)) = Key(d)
           /\ Found(u, d) \in Existing \/ \A t \in Existing : Key(t) = Key(d) => ~stores[t].closed
<1>1. RootOf(u, d) = d
    BY DEF RootOf, RootNow, PlacesInv
<1>2. \A s \in Existing : KeyOf(s) \in {Key(Unknown), Key(s)} /\ (stores[s].closed => KeyOf(s) = Key(s))
    BY DEF KeyOf, PlacesInv, Existing
<1>3. CASE Own(d)
    BY <1>1, <1>3 DEF Found, Anchored, Own
<1>4. CASE ~Own(d) /\ Equivalent(d) # {}
  <2>1. FirstOf(Equivalent(d)) \in Equivalent(d)
      BY <1>4, FirstOfIsThere DEF Equivalent, Existing
  <2>2. Found(u, d) = FirstOf(Equivalent(d))
      BY <1>1, <1>4 DEF Found, Anchored, Own
  <2>3. Found(u, d) \in Existing /\ KeyOf(Found(u, d)) = Key(d)
      BY <2>1, <2>2 DEF Equivalent
  <2> QED BY <1>2, <2>3, IdsAreNames
<1>5. CASE ~Own(d) /\ Equivalent(d) = {}
  <2>1. Found(u, d) = d
      BY <1>1, <1>5 DEF Found, Anchored, Own, NewAtPath
  <2>2. \A t \in Existing : Key(t) = Key(d) => ~stores[t].closed
      BY <1>2, <1>5 DEF Equivalent
  <2> QED BY <2>1, <2>2
<1> QED
    BY <1>3, <1>4, <1>5

\* What each step makes of a user's record, and of a store's.
LEMMA UserMoves ==
    ASSUME NEW r \in UserRecords, NEW a \in {"idle", "open", "record", "close"}
    PROVE  /\ [r EXCEPT !.at = a] \in UserRecords
           /\ [r EXCEPT !.at = a].at = a
           /\ [r EXCEPT !.at = a].dir = r.dir /\ [r EXCEPT !.at = a].store = r.store
    BY DEF UserRecords

\* A user who is done or killed.
LEMMA UserRests == Idling \in UserRecords /\ Idling.at = "idle"
    BY DEF Idling, UserRecords, KnownPaths

\* A user who has resolved a directory.
LEMMA UserResolves ==
    ASSUME NEW d \in Dirs, NEW s \in Ids
    PROVE  /\ [at |-> "open", dir |-> d, store |-> s] \in UserRecords
           /\ [at |-> "open", dir |-> d, store |-> s].at = "open"
           /\ [at |-> "open", dir |-> d, store |-> s].dir = d
           /\ [at |-> "open", dir |-> d, store |-> s].store = s
    BY DEF UserRecords, KnownPaths

\* A store before and after a step of the user who has it open.
Grows(old, new) ==
    /\ new \in StoreRecords /\ new.version >= old.version
    /\ old.exists => new.exists
    /\ old.closed => new.closed

\* get_connection: only the user's store changes, and only by coming to exist.
LEMMA StoreOpens ==
    ASSUME StoresInv, NEW u \in Users, OpenStore(u)
    PROVE  \E s \in Ids :
              /\ s = users[u].store
              /\ \A t \in Ids \ {s} : stores'[t] = stores[t] /\ worked'[t] = worked[t]
              /\ Grows(stores[s], stores'[s]) /\ stores'[s].exists
              /\ stores'[s].path = stores[s].path /\ stores'[s].closed = stores[s].closed
              /\ stores'[s].version > 0 \/ stores[s].exists
              /\ ~stores[s].exists => s = users[u].dir /\ stores[s].version = 0
                                      /\ stores[s].closed = FALSE
              /\ stores[s].exists => stores'[s] = stores[s]
              /\ stores' \in [Ids -> StoreRecords] /\ DOMAIN worked' = Ids
              /\ Key(s) \in worked'[s]
<1>1. PICK s \in Ids : s = users[u].store /\ (stores[s].exists \/ s = users[u].dir)
    BY DEF OpenStore, StoresInv
<1>2. PICK r \in StoreRecords : r = stores[s]
    BY DEF StoresInv
<1>3. r.version \in Nat /\ (~r.exists => r.version = 0 /\ r.closed = FALSE)
    BY <1>2 DEF StoreRecords, StoresInv, NoStore
<1> DEFINE new == IF r.exists THEN r ELSE [r EXCEPT !.exists = TRUE, !.version = 1]
<1>4. /\ new \in StoreRecords
      /\ new.exists /\ new.path = r.path /\ new.closed = r.closed
      /\ ~r.exists => new.version = 1
    BY DEF StoreRecords
<1>5. stores' = [stores EXCEPT ![s] = new]
    BY <1>1, <1>2 DEF OpenStore
<1>a. r.exists => new = r
    OBVIOUS
<1> HIDE DEF new
<1>6. stores' \in [Ids -> StoreRecords] /\ stores'[s] = new
      /\ \A t \in Ids \ {s} : stores'[t] = stores[t]
    BY <1>4, <1>5 DEF StoresInv
<1>7. worked' = [worked EXCEPT ![s] = @ \cup {Key(users[u].dir)}]
    BY <1>1 DEF OpenStore
<1>8. DOMAIN worked' = Ids /\ Key(s) \in worked'[s]
      /\ \A t \in Ids \ {s} : worked'[t] = worked[t]
    BY <1>1, <1>7 DEF StoresInv
<1>9. Grows(r, new)
    BY <1>3, <1>4, <1>a DEF Grows
<1>10. ~r.exists => new.version > 0
    BY <1>4
<1> QED
    BY <1>1, <1>2, <1>3, <1>4, <1>6, <1>8, <1>9, <1>10, <1>a

\* init_project: the user's store is told its path.
LEMMA StoreRecorded ==
    ASSUME StoresInv, NEW u \in Users, Record(u)
    PROVE  \E s \in Ids :
              /\ s = users[u].store /\ stores[s].exists
              /\ \A t \in Ids \ {s} : stores'[t] = stores[t]
              /\ Grows(stores[s], stores'[s])
              /\ stores'[s].path = RootOf(u, users[u].dir)
              /\ stores'[s].closed = stores[s].closed /\ stores'[s].version = stores[s].version
              /\ stores' \in [Ids -> StoreRecords]
<1>1. PICK s \in Ids : s = users[u].store /\ stores[s].exists
    BY DEF Record, StoresInv
<1>2. PICK r \in StoreRecords : r = stores[s]
    BY DEF StoresInv
<1>3. PICK root \in KnownPaths : root = RootOf(u, users[u].dir)
    BY RootIsKnown DEF Record, StoresInv, KnownPaths
<1> DEFINE new == [r EXCEPT !.path = root]
<1>4. /\ new \in StoreRecords
      /\ new.exists = r.exists /\ new.path = root /\ new.closed = r.closed
      /\ new.version = r.version
    BY DEF StoreRecords
<1>5. stores' = [stores EXCEPT ![s] = new]
    BY <1>1, <1>2, <1>3 DEF Record, StoresInv
<1> HIDE DEF new
<1>6. stores' \in [Ids -> StoreRecords] /\ stores'[s] = new
      /\ \A t \in Ids \ {s} : stores'[t] = stores[t]
    BY <1>4, <1>5 DEF StoresInv
<1>7. Grows(r, new)
    BY <1>4 DEF Grows, StoreRecords
<1> QED
    BY <1>1, <1>2, <1>3, <1>4, <1>6, <1>7

\* The last to close a store makes its file newer than what was read of it.
LEMMA StoreCloses ==
    ASSUME StoresInv, NEW u \in Users, Close(u), stores' # stores
    PROVE  \E s \in Ids :
              /\ s = users[u].store /\ stores[s].exists
              /\ \A t \in Ids \ {s} : stores'[t] = stores[t]
              /\ Grows(stores[s], stores'[s])
              /\ stores'[s].path = stores[s].path
              /\ stores'[s].version > stores[s].version
              /\ stores' \in [Ids -> StoreRecords]
<1>1. PICK s \in Ids : s = users[u].store /\ stores[s].exists
    BY DEF Close, StoresInv
<1>2. PICK r \in StoreRecords : r = stores[s]
    BY DEF StoresInv
<1>3. r.version \in Nat
    BY DEF StoreRecords
<1> DEFINE new == [r EXCEPT !.version = @ + 1, !.closed = TRUE]
<1>4. /\ new \in StoreRecords
      /\ new.exists = r.exists /\ new.path = r.path /\ new.closed = TRUE
      /\ new.version = r.version + 1
  <2>1. r.version + 1 \in Nat
      BY <1>3
  <2>2. /\ new.exists = r.exists /\ new.path = r.path /\ new.closed = TRUE
        /\ new.version = r.version + 1
      BY DEF StoreRecords
  <2>3. new \in StoreRecords
      BY <2>1 DEF StoreRecords
  <2> QED BY <2>2, <2>3
<1>5. stores' = [stores EXCEPT ![s] = new]
  <2>1. stores' = [stores EXCEPT ![s].version = @ + 1, ![s].closed = TRUE]
      BY <1>1 DEF Close
  <2> QED BY <1>2, <2>1 DEF StoresInv
<1> HIDE DEF new
<1>6. stores' \in [Ids -> StoreRecords] /\ stores'[s] = new
      /\ \A t \in Ids \ {s} : stores'[t] = stores[t]
    BY <1>4, <1>5 DEF StoresInv
<1>7. Grows(r, new)
    BY <1>3, <1>4 DEF Grows
<1> QED
    BY <1>1, <1>2, <1>3, <1>4, <1>6, <1>7

\* What a resolution leaves in the index is what was there or what was just read.
LEMMA IndexRead ==
    ASSUME StoresInv, NEW d \in Dirs, NEW u \in Users,
           index' = IF Anchored(u, d) \/ Own(d) THEN index
                    ELSE [s \in Ids |-> IF s \in Scanned(d) /\ ~Holds(s)
                            THEN [version |-> stores[s].version, key |-> Key(stores[s].path)]
                            ELSE index[s]]
    PROVE  /\ index' \in [Ids -> [version : Nat, key : {Key(i) : i \in KnownPaths}]]
           /\ \A s \in Ids : \/ index'[s] = index[s]
                             \/ /\ index'[s].version = stores[s].version
                                /\ index'[s].key = Key(stores[s].path)
<1> DEFINE read(s) == [version |-> stores[s].version, key |-> Key(stores[s].path)]
           Entries == [version : Nat, key : {Key(i) : i \in KnownPaths}]
<1>1. \A s \in Ids : /\ read(s) \in Entries
                     /\ read(s).version = stores[s].version /\ read(s).key = Key(stores[s].path)
  <2>1. \A s \in Ids : stores[s].version \in Nat /\ stores[s].path \in KnownPaths
      BY DEF StoresInv, StoreRecords
  <2> QED BY <2>1
<1>2. index \in [Ids -> Entries]
    BY DEF StoresInv
<1>3. index' = index \/ index' = [s \in Ids |-> IF s \in Scanned(d) /\ ~Holds(s) THEN read(s)
                                                ELSE index[s]]
    OBVIOUS
<1> HIDE DEF read, Entries
<1>4. index' \in [Ids -> Entries] /\ \A s \in Ids : index'[s] = index[s] \/ index'[s] = read(s)
    BY <1>1, <1>2, <1>3
<1>5. \A s \in Ids : \/ index'[s] = index[s]
                     \/ /\ index'[s].version = stores[s].version
                        /\ index'[s].key = Key(stores[s].path)
    BY <1>1, <1>4
<1> QED
    BY <1>4, <1>5 DEF Entries

\* A step moves one user.
LEMMA UserMoved ==
    ASSUME StoresInv, NEW u \in Users, NEW r \in UserRecords, users' = [users EXCEPT ![u] = r]
    PROVE  /\ users' \in [Users -> UserRecords] /\ users'[u] = r
           /\ \A v \in Users \ {u} : users'[v] = users[v]
    BY DEF StoresInv

\* A step that only moves the user on.
LEMMA UserAdvanced ==
    ASSUME StoresInv, NEW u \in Users, NEW a \in {"idle", "open", "record", "close"},
           users' = [users EXCEPT ![u].at = a]
    PROVE  /\ users' \in [Users -> UserRecords]
           /\ users'[u].at = a /\ users'[u].dir = users[u].dir /\ users'[u].store = users[u].store
           /\ \A v \in Users \ {u} : users'[v] = users[v]
<1>1. PICK r \in UserRecords : r = users[u]
    BY DEF StoresInv
<1>2. users' = [users EXCEPT ![u] = [r EXCEPT !.at = a]]
    BY <1>1 DEF StoresInv
<1>3. [r EXCEPT !.at = a] \in UserRecords
    BY <1>1, UserMoves
<1>4. users' \in [Users -> UserRecords] /\ users'[u] = [r EXCEPT !.at = a]
      /\ \A v \in Users \ {u} : users'[v] = users[v]
    BY <1>2, <1>3, UserMoved
<1> QED
    BY <1>1, <1>4, UserMoves

\* Every step keeps the stores, the index and the users in order.
LEMMA StoresInvStep == StoresInv /\ [StoresNext]_storeVars => StoresInv'
<1> SUFFICES ASSUME StoresInv, [StoresNext]_storeVars PROVE StoresInv'
    OBVIOUS
<1>1. CASE UNCHANGED storeVars \/ GitInit
    BY <1>1 DEF storeVars, GitInit, StoresInv
<1>2. ASSUME NEW u \in Users, UserStep(u) PROVE StoresInv'
  <2> DEFINE Busy(v) == users[v].at # "idle" =>
                /\ users[v].dir \in Dirs /\ users[v].store \in Ids
                /\ \/ stores[users[v].store].exists
                   \/ users[v].at = "open" /\ users[v].store = users[v].dir
  <2>1. CASE Resolve(u)
    <3>1. PICK d \in Dirs :
            /\ roots' = [roots EXCEPT ![u][d] = RootOf(u, d)]
            /\ users' = [users EXCEPT ![u] = [at |-> "open", dir |-> d, store |-> Found(u, d)]]
            /\ index' = IF Anchored(u, d) \/ Own(d) THEN index
                        ELSE [s \in Ids |-> IF s \in Scanned(d) /\ ~Holds(s)
                                THEN [version |-> stores[s].version, key |-> Key(stores[s].path)]
                                ELSE index[s]]
        BY <2>1 DEF Resolve
    <3>2. stores' = stores /\ worked' = worked /\ opens' \in 0..MaxOpens
        BY <2>1, StoresAssumption DEF Resolve, StoresInv
    <3>3. roots' \in [Users -> [Dirs -> KnownPaths]]
        BY <3>1, RootIsKnown DEF KnownPaths, StoresInv
    <3>4. /\ index' \in [Ids -> [version : Nat, key : {Key(i) : i \in KnownPaths}]]
          /\ \A s \in Ids : index'[s] = index[s] \/ index'[s].version = stores[s].version
        BY <3>1, IndexRead
    <3>5. \A s \in Ids : index'[s].version <= stores[s].version
        BY <3>4 DEF StoresInv, StoreRecords
    <3>6. Found(u, d) \in Ids /\ (Found(u, d) = d \/ stores[Found(u, d)].exists)
        BY FoundIsKnown DEF Existing
    <3>7. PICK r \in UserRecords : /\ r = [at |-> "open", dir |-> d, store |-> Found(u, d)]
                                   /\ r.at = "open" /\ r.dir = d /\ r.store = Found(u, d)
        BY <3>6, UserResolves
    <3>8. users' \in [Users -> UserRecords] /\ users'[u] = r
          /\ \A v \in Users \ {u} : users'[v] = users[v]
        BY <3>1, <3>7, UserMoved
    <3>9. \A v \in Users : Busy(v)'
      <4>1. /\ users'[u].at = "open" /\ users'[u].dir = d /\ users'[u].store = Found(u, d)
            /\ stores' = stores
          BY <3>2, <3>7, <3>8
      <4>2. Busy(u)'
        <5>1. PICK f \in Ids : f = Found(u, d) /\ (f = d \/ stores[f].exists)
            BY <3>6
        <5>2. stores'[f] = stores[f] /\ users'[u].store = f
            BY <4>1, <5>1
        <5> QED BY <4>1, <5>1, <5>2
      <4>3. ASSUME NEW v \in Users \ {u} PROVE Busy(v)'
          BY <3>2, <3>8 DEF StoresInv
      <4> QED BY <4>2, <4>3
    <3> QED BY <3>2, <3>3, <3>4, <3>5, <3>8, <3>9 DEF StoresInv
  <2>2. CASE OpenStore(u)
    <3>1. PICK s \in Ids :
              /\ s = users[u].store
              /\ \A t \in Ids \ {s} : stores'[t] = stores[t] /\ worked'[t] = worked[t]
              /\ Grows(stores[s], stores'[s]) /\ stores'[s].exists
              /\ stores' \in [Ids -> StoreRecords] /\ DOMAIN worked' = Ids
              /\ Key(s) \in worked'[s]
        BY <2>2, StoreOpens
    <3>2. users' = [users EXCEPT ![u].at = "record"] /\ UNCHANGED <<index, roots, opens>>
        BY <2>2 DEF OpenStore
    <3>3. /\ users' \in [Users -> UserRecords]
          /\ users'[u].at = "record" /\ users'[u].dir = users[u].dir
          /\ users'[u].store = users[u].store
          /\ \A v \in Users \ {u} : users'[v] = users[v]
        BY <3>2, UserAdvanced
    <3>4. users[u].at = "open"
        BY <2>2 DEF OpenStore
    <3>5. \A t \in Ids : stores[t].exists => stores'[t].exists
        BY <3>1 DEF Grows
    <3>6. \A v \in Users : Busy(v)'
      <4>1. Busy(u)'
          BY <3>1, <3>3, <3>4 DEF StoresInv
      <4>2. ASSUME NEW v \in Users \ {u} PROVE Busy(v)'
          BY <3>3, <3>5 DEF StoresInv
      <4> QED BY <4>1, <4>2
    <3>7. \A t \in Ids : index'[t].version <= stores'[t].version
        BY <3>1, <3>2 DEF StoresInv, Grows, StoreRecords
    <3>8. \A t \in Ids : /\ ~stores'[t].exists => stores'[t] = NoStore /\ worked'[t] = {}
                         /\ stores'[t].exists => Key(t) \in worked'[t]
        BY <3>1 DEF StoresInv
    <3> QED BY <3>1, <3>2, <3>3, <3>6, <3>7, <3>8 DEF StoresInv
  <2>3. CASE Record(u)
    <3>1. PICK s \in Ids :
              /\ s = users[u].store /\ stores[s].exists
              /\ \A t \in Ids \ {s} : stores'[t] = stores[t]
              /\ Grows(stores[s], stores'[s])
              /\ stores' \in [Ids -> StoreRecords]
        BY <2>3, StoreRecorded
    <3>2. users' = [users EXCEPT ![u].at = "close"] /\ UNCHANGED <<index, roots, worked, opens>>
          /\ users[u].at = "record"
        BY <2>3 DEF Record
    <3>3. /\ users' \in [Users -> UserRecords]
          /\ users'[u].at = "close" /\ users'[u].dir = users[u].dir
          /\ users'[u].store = users[u].store
          /\ \A v \in Users \ {u} : users'[v] = users[v]
        BY <3>2, UserAdvanced
    <3>4. \A t \in Ids : stores[t].exists => stores'[t].exists
        BY <3>1 DEF Grows
    <3>5. \A v \in Users : Busy(v)'
        BY <3>1, <3>2, <3>3, <3>4 DEF StoresInv
    <3>6. \A t \in Ids : index'[t].version <= stores'[t].version
        BY <3>1, <3>2 DEF StoresInv, Grows, StoreRecords
    <3>7. \A t \in Ids : /\ ~stores'[t].exists => stores'[t] = NoStore /\ worked'[t] = {}
                         /\ stores'[t].exists => Key(t) \in worked'[t]
        BY <3>1, <3>2, <3>4 DEF StoresInv
    <3> QED BY <3>1, <3>2, <3>3, <3>5, <3>6, <3>7 DEF StoresInv
  <2>4. CASE Close(u) \/ Restart(u)
    <3>1. users' = [users EXCEPT ![u] = Idling] /\ UNCHANGED <<index, worked, opens>>
        BY <2>4 DEF Close, Restart
    <3>2. roots' \in [Users -> [Dirs -> KnownPaths]]
      <4>1. [d \in Dirs |-> Unknown] \in [Dirs -> KnownPaths]
          BY DEF KnownPaths
      <4> QED BY <2>4, <4>1 DEF Close, Restart, StoresInv
    <3>3. /\ users' \in [Users -> UserRecords] /\ users'[u].at = "idle"
          /\ \A v \in Users \ {u} : users'[v] = users[v]
        BY <3>1, UserRests, UserMoved
    <3>4. CASE stores' = stores
      <4>1. \A v \in Users : Busy(v)'
          BY <3>3, <3>4 DEF StoresInv
      <4> QED BY <3>1, <3>2, <3>3, <3>4, <4>1 DEF StoresInv
    <3>5. CASE stores' # stores
      <4>1. PICK s \in Ids :
              /\ stores[s].exists
              /\ \A t \in Ids \ {s} : stores'[t] = stores[t]
              /\ Grows(stores[s], stores'[s])
              /\ stores' \in [Ids -> StoreRecords]
          BY <2>4, <3>5, StoreCloses DEF Restart
      <4>2. \A t \in Ids : stores[t].exists => stores'[t].exists
          BY <4>1 DEF Grows
      <4>3. \A v \in Users : Busy(v)'
          BY <3>3, <4>2 DEF StoresInv
      <4>4. ASSUME NEW t \in Ids PROVE index'[t].version <= stores'[t].version
        <5>1. /\ index'[t] = index[t] /\ index[t].version <= stores[t].version
              /\ index[t].version \in Nat /\ stores[t].version \in Nat
              /\ stores'[t].version \in Nat
            BY <3>1, <4>1 DEF StoresInv, StoreRecords
        <5>2. stores'[t].version >= stores[t].version
          <6>1. CASE t = s
              BY <4>1, <6>1 DEF Grows
          <6>2. CASE t # s
              BY <4>1, <5>1, <6>2
          <6> QED BY <6>1, <6>2
        <5> QED BY <5>1, <5>2
      <4>5. \A t \in Ids : /\ ~stores'[t].exists => stores'[t] = NoStore /\ worked'[t] = {}
                           /\ stores'[t].exists => Key(t) \in worked'[t]
          BY <3>1, <4>1, <4>2 DEF StoresInv
      <4> QED BY <3>1, <3>2, <3>3, <4>1, <4>3, <4>4, <4>5 DEF StoresInv
    <3> QED BY <3>4, <3>5
  <2> QED BY <1>2, <2>1, <2>2, <2>3, <2>4 DEF UserStep
<1> QED
    BY <1>1, <1>2 DEF StoresNext

\* Nothing that is cached of a place is another place's.
LEMMA PlacesStep ==
    StoresInv /\ PlacesInv /\ ~git /\ ~git' /\ [StoresNext]_storeVars => PlacesInv'
<1> SUFFICES ASSUME StoresInv, PlacesInv, ~git, ~git', [StoresNext]_storeVars PROVE PlacesInv'
    OBVIOUS
<1> DEFINE Told(s) == /\ Key(stores[s].path) \in {Key(Unknown), Key(s)}
                      /\ Holds(s) => index[s].key \in {Key(Unknown), Key(s)}
                      /\ stores[s].closed => /\ Key(stores[s].path) = Key(s)
                                             /\ Holds(s) => index[s].key = Key(s)
           There(v) == users[v].at # "idle" => Key(users[v].store) = Key(users[v].dir)
           Recorded(v) == users[v].at = "close" =>
                              Key(stores[users[v].store].path) = Key(users[v].store)
           Rooted(v) == \A d \in Dirs : roots[v][d] \in {Unknown, d}
<1>0. /\ \A s \in Ids : Told(s)
      /\ \A v \in Users : There(v) /\ Recorded(v) /\ Rooted(v)
    BY DEF PlacesInv
<1>1. SUFFICES /\ \A s \in Ids : Told(s)'
               /\ \A v \in Users : There(v)' /\ Recorded(v)' /\ Rooted(v)'
    BY <1>1 DEF PlacesInv
<1>2. CASE UNCHANGED storeVars
    BY <1>0, <1>2 DEF storeVars, Holds
<1>3. ASSUME NEW u \in Users, UserStep(u)
      PROVE  /\ \A s \in Ids : Told(s)'
             /\ \A v \in Users : There(v)' /\ Recorded(v)' /\ Rooted(v)'
  <2>r. \A d \in Dirs : RootOf(u, d) = d
      BY <1>0 DEF RootOf, RootNow
  <2>1. CASE Resolve(u)
    <3>1. PICK d \in Dirs :
            /\ roots' = [roots EXCEPT ![u][d] = RootOf(u, d)]
            /\ users' = [users EXCEPT ![u] = [at |-> "open", dir |-> d, store |-> Found(u, d)]]
            /\ index' = IF Anchored(u, d) \/ Own(d) THEN index
                        ELSE [s \in Ids |-> IF s \in Scanned(d) /\ ~Holds(s)
                                THEN [version |-> stores[s].version, key |-> Key(stores[s].path)]
                                ELSE index[s]]
        BY <2>1 DEF Resolve
    <3>2. stores' = stores
        BY <2>1 DEF Resolve
    <3>3. \A s \in Ids : \/ index'[s] = index[s]
                         \/ index'[s].key = Key(stores[s].path)
        BY <3>1, IndexRead
    <3>4. \A s \in Ids : Told(s)'
        BY <1>0, <3>2, <3>3 DEF Holds
    <3>5. Key(Found(u, d)) = Key(d) /\ Found(u, d) \in Ids
        BY FoundIsRight, FoundIsKnown
    <3>6. PICK r \in UserRecords : /\ r = [at |-> "open", dir |-> d, store |-> Found(u, d)]
                                   /\ r.at = "open" /\ r.dir = d /\ r.store = Found(u, d)
        BY <3>5, UserResolves
    <3>7. users'[u] = r /\ \A v \in Users \ {u} : users'[v] = users[v]
        BY <3>1, <3>6, UserMoved
    <3>8. There(u)' /\ Recorded(u)'
        BY <3>5, <3>6, <3>7
    <3>9. \A v \in Users \ {u} : There(v)' /\ Recorded(v)'
        BY <1>0, <3>2, <3>7
    <3>10. \A v \in Users : Rooted(v)'
        BY <1>0, <2>r, <3>1 DEF StoresInv
    <3> QED BY <3>4, <3>8, <3>9, <3>10
  <2>2. CASE OpenStore(u)
    <3>1. PICK s \in Ids :
              /\ s = users[u].store
              /\ \A t \in Ids \ {s} : stores'[t] = stores[t]
              /\ stores'[s].path = stores[s].path /\ stores'[s].closed = stores[s].closed
              /\ stores'[s].version > 0 \/ stores[s].exists
              /\ ~stores[s].exists => stores[s].version = 0 /\ stores[s].closed = FALSE
              /\ stores[s].exists => stores'[s] = stores[s]
        BY <2>2, StoreOpens
    <3>2. users' = [users EXCEPT ![u].at = "record"] /\ UNCHANGED <<index, roots>>
        BY <2>2 DEF OpenStore
    <3>3. /\ users'[u].at = "record" /\ users'[u].dir = users[u].dir
          /\ users'[u].store = users[u].store /\ users[u].at = "open"
          /\ \A v \in Users \ {u} : users'[v] = users[v]
        BY <2>2, <3>2, UserAdvanced DEF OpenStore
    <3>4. ~stores[s].exists => ~Holds(s)'
        BY <3>1, <3>2 DEF Holds, StoresInv
    <3>5. Told(s)'
        BY <1>0, <3>1, <3>2, <3>4 DEF Holds
    <3>6. \A t \in Ids \ {s} : Told(t)'
        BY <1>0, <3>1, <3>2 DEF Holds
    <3>7. \A t \in Ids : stores'[t].path = stores[t].path
        BY <3>1
    <3>8. \A v \in Users : There(v)' /\ Rooted(v)'
        BY <1>0, <3>2, <3>3
    <3>9. \A v \in Users : Recorded(v)'
        BY <1>0, <3>3, <3>7 DEF StoresInv
    <3> QED BY <3>5, <3>6, <3>8, <3>9
  <2>3. CASE Record(u)
    <3>1. PICK s \in Ids :
              /\ s = users[u].store
              /\ \A t \in Ids \ {s} : stores'[t] = stores[t]
              /\ stores'[s].path = RootOf(u, users[u].dir)
              /\ stores'[s].closed = stores[s].closed /\ stores'[s].version = stores[s].version
        BY <2>3, StoreRecorded
    <3>2. users' = [users EXCEPT ![u].at = "close"] /\ UNCHANGED <<index, roots>>
          /\ users[u].at = "record"
        BY <2>3 DEF Record
    <3>3. /\ users'[u].at = "close" /\ users'[u].dir = users[u].dir
          /\ users'[u].store = users[u].store
          /\ \A v \in Users \ {u} : users'[v] = users[v]
        BY <3>2, UserAdvanced
    <3>4. Key(stores'[s].path) = Key(s)
        BY <1>0, <2>r, <3>1, <3>2 DEF StoresInv
    <3>5. Told(s)'
        BY <1>0, <3>1, <3>2, <3>4 DEF Holds
    <3>6. \A t \in Ids \ {s} : Told(t)'
        BY <1>0, <3>1, <3>2 DEF Holds
    <3>7. \A v \in Users : There(v)' /\ Rooted(v)'
        BY <1>0, <3>2, <3>3
    <3>8. \A v \in Users : Recorded(v)'
      <4>1. Recorded(u)'
          BY <3>1, <3>3, <3>4
      <4>2. ASSUME NEW v \in Users \ {u} PROVE Recorded(v)'
          BY <1>0, <3>1, <3>3, <3>4 DEF StoresInv
      <4> QED BY <4>1, <4>2
    <3> QED BY <3>5, <3>6, <3>7, <3>8
  <2>4. CASE Close(u) \/ Restart(u)
    <3>1. users' = [users EXCEPT ![u] = Idling] /\ index' = index
        BY <2>4 DEF Close, Restart
    <3>2. \A v \in Users : Rooted(v)'
      <4>1. roots' = roots \/ roots' = [roots EXCEPT ![u] = [d \in Dirs |-> Unknown]]
          BY <2>4 DEF Close, Restart
      <4> QED BY <1>0, <4>1 DEF StoresInv
    <3>3. /\ users'[u].at = "idle"
          /\ \A v \in Users \ {u} : users'[v] = users[v]
        BY <3>1, UserRests, UserMoved
    <3>4. \A v \in Users : There(v)'
        BY <1>0, <3>3
    <3>5. CASE stores' = stores
        BY <1>0, <3>1, <3>2, <3>3, <3>4, <3>5 DEF Holds
    <3>6. CASE stores' # stores
      <4>1. PICK s \in Ids :
              /\ s = users[u].store
              /\ \A t \in Ids \ {s} : stores'[t] = stores[t]
              /\ stores'[s].path = stores[s].path
              /\ stores'[s].version > stores[s].version
              /\ stores' \in [Ids -> StoreRecords]
          BY <2>4, <3>6, StoreCloses DEF Restart
      <4>2. ~Holds(s)'
          BY <3>1, <4>1 DEF Holds, StoresInv, StoreRecords
      <4>3. Key(stores[s].path) = Key(s)
          BY <1>0, <2>4, <3>6, <4>1 DEF Close, Restart
      <4>4. Told(s)'
          BY <4>1, <4>2, <4>3
      <4>5. \A t \in Ids \ {s} : Told(t)'
          BY <1>0, <3>1, <4>1 DEF Holds
      <4>6. ASSUME NEW v \in Users PROVE Recorded(v)'
        <5>1. \A t \in Ids : stores'[t].path = stores[t].path
            BY <4>1
        <5>2. CASE v = u
            BY <3>3, <5>2
        <5>3. CASE v # u /\ users[v].at = "close"
          <6>1. users'[v] = users[v] /\ users[v].store \in Ids
              BY <3>3, <5>3 DEF StoresInv
          <6> QED BY <1>0, <5>1, <5>3, <6>1
        <5>4. CASE v # u /\ users[v].at # "close"
            BY <3>3, <5>4
        <5> QED BY <5>2, <5>3, <5>4
      <4> QED BY <3>2, <3>4, <4>4, <4>5, <4>6
    <3> QED BY <3>5, <3>6
  <2> QED BY <1>3, <2>1, <2>2, <2>3, <2>4 DEF UserStep
<1> QED
    BY <1>2, <1>3 DEF StoresNext, GitInit

\* A store that is begun beside another of its place is marked; so of two that
\* exist, one is.
LEMMA SeparateStep ==
    StoresInv /\ PlacesInv /\ SeparateInv /\ ~git /\ ~git' /\ [StoresNext]_storeVars
        => SeparateInv'
<1> SUFFICES ASSUME StoresInv, PlacesInv, SeparateInv, ~git, ~git', [StoresNext]_storeVars
             PROVE  SeparateInv'
    OBVIOUS
<1> DEFINE AtFirst(v) == Creating(v) /\ users[v].store \notin hurried =>
               \A t \in Existing : Key(t) = Key(users[v].store) => t \in hurried
           OneMarked(v, w) ==
               v # w /\ Creating(v) /\ Creating(w) /\ Key(users[v].store) = Key(users[w].store) =>
                   users[v].store \in hurried \/ users[w].store \in hurried
           OnePlain(s, t) == s # t /\ Key(s) = Key(t) => s \in hurried \/ t \in hurried
<1>0. /\ \A v \in Users : AtFirst(v)
      /\ \A v, w \in Users : OneMarked(v, w)
      /\ \A s, t \in Existing : OnePlain(s, t)
    BY DEF SeparateInv
<1>1. SUFFICES /\ \A v \in Users : AtFirst(v)'
               /\ \A v, w \in Users : OneMarked(v, w)'
               /\ \A s, t \in Existing' : OnePlain(s, t)'
    BY <1>1 DEF SeparateInv
<1>2. CASE UNCHANGED storeVars
    BY <1>0, <1>2 DEF storeVars, Creating, Existing
<1>3. ASSUME NEW u \in Users, UserStep(u)
      PROVE  /\ \A v \in Users : AtFirst(v)'
             /\ \A v, w \in Users : OneMarked(v, w)'
             /\ \A s, t \in Existing' : OnePlain(s, t)'
  <2>1. CASE Resolve(u)
    <3>1. PICK d \in Dirs :
            /\ users' = [users EXCEPT ![u] = [at |-> "open", dir |-> d, store |-> Found(u, d)]]
            /\ hurried' = IF Unfinished(u, Key(d)) THEN hurried \cup {Found(u, d)} ELSE hurried
        BY <2>1 DEF Resolve
    <3>2. stores' = stores /\ Existing' = Existing /\ hurried \subseteq hurried'
        BY <2>1, <3>1 DEF Resolve, Existing
    <3>3. PICK f \in Ids : /\ f = Found(u, d) /\ Key(f) = Key(d)
                           /\ f \in Existing \/ \A t \in Existing : Key(t) = Key(d) => ~stores[t].closed
        BY FoundIsRight, FoundIsKnown
    <3>4. PICK r \in UserRecords : /\ r = [at |-> "open", dir |-> d, store |-> f]
                                   /\ r.at = "open" /\ r.dir = d /\ r.store = f
        BY <3>3, UserResolves
    <3>5. users'[u] = r /\ \A v \in Users \ {u} : users'[v] = users[v]
        BY <3>1, <3>3, <3>4, UserMoved
    <3>6. \A v \in Users \ {u} : Creating(v)' => Creating(v)
        BY <3>2, <3>5 DEF Creating
    <3>7. Creating(u)' => f \notin Existing
        BY <3>2, <3>4, <3>5 DEF Creating, Existing
    <3>8. Unfinished(u, Key(d)) => f \in hurried'
        BY <3>1, <3>3
    <3>9. AtFirst(u)'
      <4> SUFFICES ASSUME Creating(u)', f \notin hurried',
                          NEW t \in Existing, Key(t) = Key(f)
                   PROVE  FALSE
          BY <3>2, <3>4, <3>5
      <4>1. ~stores[t].closed
          BY <3>3, <3>7
      <4>2. Unfinished(u, Key(d))
          BY <3>3, <4>1 DEF Unfinished
      <4> QED BY <3>8, <4>2
    <3>10. \A v \in Users \ {u} : AtFirst(v)'
        BY <1>0, <3>2, <3>5, <3>6
    <3>11. ASSUME NEW v \in Users, NEW w \in Users
           PROVE  OneMarked(v, w)'
      <4> SUFFICES ASSUME v # w, Creating(v)', Creating(w)',
                          Key(users[v].store)' = Key(users[w].store)'
                   PROVE  users'[v].store \in hurried' \/ users'[w].store \in hurried'
          BY DEF Key
      <4>1. CASE v # u /\ w # u
          BY <1>0, <3>2, <3>5, <3>6, <4>1 DEF Key
      <4>2. ASSUME NEW x \in Users \ {u}, Creating(x)', Key(users[x].store) = Key(f)
            PROVE  f \in hurried'
        <5>1. users[x].at = "open" /\ Key(users[x].dir) = Key(d)
            BY <3>3, <3>6, <4>2 DEF Creating, PlacesInv
        <5>2. Unfinished(u, Key(d))
            BY <5>1 DEF Unfinished
        <5> QED BY <3>8, <5>2
      <4>3. CASE v = u
          BY <3>4, <3>5, <4>2, <4>3 DEF Key
      <4>4. CASE w = u
          BY <3>4, <3>5, <4>2, <4>4 DEF Key
      <4> QED BY <4>1, <4>3, <4>4
    <3>12. \A s, t \in Existing' : OnePlain(s, t)'
        BY <1>0, <3>2 DEF Key
    <3> QED BY <3>9, <3>10, <3>11, <3>12
  <2>2. CASE OpenStore(u)
    <3>1. PICK s \in Ids :
              /\ s = users[u].store
              /\ \A t \in Ids \ {s} : stores'[t] = stores[t]
              /\ stores'[s].exists
        BY <2>2, StoreOpens
    <3>2. users' = [users EXCEPT ![u].at = "record"] /\ hurried' = hurried
        BY <2>2 DEF OpenStore
    <3>3. /\ users'[u].at = "record" /\ users[u].at = "open"
          /\ \A v \in Users \ {u} : users'[v] = users[v]
        BY <2>2, <3>2, UserAdvanced DEF OpenStore
    <3>4. Existing' = Existing \cup {s}
        BY <3>1 DEF Existing
    <3>5. ~Creating(u)' /\ \A v \in Users \ {u} : Creating(v)' => Creating(v)
      <4>1. \A t \in Ids : stores[t].exists => stores'[t].exists
          BY <3>1
      <4>2. \A v \in Users \ {u} : users[v].at = "open" => users[v].store \in Ids
          BY DEF StoresInv
      <4> QED BY <3>3, <4>1, <4>2 DEF Creating
    <3>6. s \notin Existing => Creating(u)
        BY <3>1, <3>3 DEF Creating, Existing
    <3>7. ASSUME NEW v \in Users PROVE AtFirst(v)'
      <4> SUFFICES ASSUME v # u, Creating(v)', users[v].store \notin hurried,
                          NEW t \in Existing', Key(t) = Key(users[v].store)
                   PROVE  t \in hurried
          BY <3>2, <3>3, <3>5 DEF Key
      <4>1. CASE t \in Existing
          BY <1>0, <3>5, <4>1
      <4>2. CASE t = s /\ s \notin Existing
          BY <1>0, <3>1, <3>5, <3>6, <4>2
      <4> QED BY <3>4, <4>1, <4>2
    <3>8. \A v, w \in Users : OneMarked(v, w)'
        BY <1>0, <3>2, <3>3, <3>5 DEF Key
    <3>9. ASSUME NEW t \in Existing PROVE s \notin Existing => OnePlain(s, t)
        BY <1>0, <3>1, <3>6
    <3>10. \A t, w \in Existing' : OnePlain(t, w)'
        BY <1>0, <3>2, <3>4, <3>9 DEF Key
    <3> QED BY <3>7, <3>8, <3>10
  <2>3. ASSUME hurried' = hurried, \A t \in Ids : (stores'[t].exists <=> stores[t].exists),
               \A v \in Users : users'[v].at = "open" => users'[v] = users[v]
        PROVE  /\ \A v \in Users : AtFirst(v)'
               /\ \A v, w \in Users : OneMarked(v, w)'
               /\ \A s, t \in Existing' : OnePlain(s, t)'
    <3>1. Existing' = Existing
        BY <2>3 DEF Existing
    <3>2. \A v \in Users : Creating(v)' => Creating(v) /\ users'[v] = users[v]
        BY <2>3 DEF Creating, StoresInv
    <3> QED BY <1>0, <2>3, <3>1, <3>2 DEF Key
  <2>4. CASE Record(u)
    <3>1. \A t \in Ids : (stores'[t].exists <=> stores[t].exists)
        BY <2>4, StoreRecorded DEF Grows
    <3>2. users' = [users EXCEPT ![u].at = "close"] /\ hurried' = hurried
        BY <2>4 DEF Record
    <3>3. \A v \in Users : users'[v].at = "open" => users'[v] = users[v]
        BY <3>2, UserAdvanced
    <3> QED BY <2>3, <3>1, <3>2, <3>3
  <2>5. CASE Close(u) \/ Restart(u)
    <3>1. \A t \in Ids : (stores'[t].exists <=> stores[t].exists)
      <4>1. CASE stores' # stores
          BY <2>5, <4>1, StoreCloses DEF Grows, Restart
      <4> QED BY <4>1
    <3>2. users' = [users EXCEPT ![u] = Idling] /\ hurried' = hurried
        BY <2>5 DEF Close, Restart
    <3>3. \A v \in Users : users'[v].at = "open" => users'[v] = users[v]
        BY <3>2, UserRests, UserMoved
    <3> QED BY <2>3, <3>1, <3>2, <3>3
  <2> QED BY <1>3, <2>1, <2>2, <2>4, <2>5 DEF UserStep
<1> QED
    BY <1>2, <1>3 DEF StoresNext, GitInit

\* However many processes resolve directories side by side, through whatever mounts,
\* with whatever the shared index still holds, and killed wherever they are: a store
\* is of a place somebody worked in, and one checkout has one store, but for those
\* that were begun while another of the place was unfinished.
THEOREM StoresAlwaysFound == StoresSpec => []StoresAreFound
<1> DEFINE Inv == StoresInv /\ (~git => PlacesInv /\ SeparateInv)
<1>1. StoresInit => Inv
    BY StoresInitially
<1>2. Inv /\ [StoresNext]_storeVars => Inv'
  <2>1. [StoresNext]_storeVars => (git => git')
      BY DEF StoresNext, storeVars, GitInit, UserStep, Resolve, OpenStore, Record, Close, Restart
  <2> QED BY <2>1, StoresInvStep, PlacesStep, SeparateStep
<1>3. Inv => StoresAreFound
  <2> SUFFICES ASSUME Inv PROVE StoresAreFound
      OBVIOUS
  <2>1. StoresTypeOK
      BY DEF StoresInv, StoresTypeOK, StoreRecords, UserRecords, KnownPaths
  <2>2. StoreHasItsOwn
      BY DEF StoresInv, StoreHasItsOwn
  <2>3. OneStorePerCheckout
      BY DEF SeparateInv, OneStorePerCheckout
  <2> QED BY <2>1, <2>2, <2>3 DEF StoresAreFound
<1> QED
    BY <1>1, <1>2, <1>3, PTL DEF StoresSpec
=============================================================================
