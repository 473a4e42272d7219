-------------------------- MODULE ProjectionCache --------------------------
(***************************************************************************)
(* The cached projection of the event store (storage/projections.py).      *)
(*                                                                         *)
(* A projection is built lazily by whoever reads it, from the live events, *)
(* and saved with the highest event id it saw.  A reader trusts it until   *)
(* the events table holds a higher id, or a merge has set the mark to -1.  *)
(* Readers are separate processes and nothing locks the row: a reader may  *)
(* save what it built long after it read the events.                       *)
(*                                                                         *)
(* What a projection shows is abstracted to which live events it was built *)
(* from, and in which revision (a bump or a decay changes an event and     *)
(* leaves its id).  Decision keys, weights and sections follow from that.  *)
(***************************************************************************)
EXTENDS Integers, Sequences, FiniteSets

CONSTANTS Readers,     \* processes that load the projection
          MaxEvents,   \* bound: ids ever given to an event
          MaxMerges,   \* bound: merges that commit
          MaxResets,   \* bound: calls of `cognikernel reset`
          MaxKills     \* bound: readers killed in the middle of a load

ASSUME ProjectionAssumption ==
    MaxEvents \in Nat /\ MaxMerges \in Nat /\ MaxResets \in Nat /\ MaxKills \in Nat

VARIABLES events,    \* the events table: row i is [status, rev]
          row,       \* the project's row of state_projections
          merges,    \* merges so far
          resets,    \* resets so far
          kills,     \* readers killed so far
          overlap,   \* history: a writer committed during a load, or half way
          pc,        \* where each reader is
          mark,      \* the high-water mark as a reader read it
          read       \* the live events as a reader read them

vars == <<events, row, merges, resets, kills, overlap, pc, mark, read>>

\* A superseded event stays so; an archived one that is stated again is revived
\* under its old id.  "deleted" is a row a reset removed: AUTOINCREMENT does not
\* give its id to another.
Statuses == {"fresh", "revived", "archived", "superseded", "deleted"}
EventRow == [status : Statuses, rev : Nat]
Ids      == 1..Len(events)
Having(statuses) == {i \in Ids : events[i].status \in statuses}
Fresh    == Having({"fresh"})                 \* live, and never archived
Live     == Having({"fresh", "revived"})
Stored   == {i \in Ids : events[i].status # "deleted"}

\* What a projection of the events as they are now would be built from.
View == {<<i, events[i].rev>> : i \in Live}

IdsOf(view) == {seen[1] : seen \in view}
Highest(ids) == IF ids = {} THEN 0 ELSE CHOOSE i \in ids : \A j \in ids : j <= i

NoRow   == [mark |-> -2, view |-> {}]  \* no row for the project
InvalidLower == -3                     \* mutated form
Invalid == -1                          \* the sentinel a merge leaves

Views == SUBSET (Nat \X Nat)

TypeOK ==
    /\ events \in Seq(EventRow)
    /\ row \in [mark : Nat \cup {-1, -2}, view : Views]
    /\ merges \in 0..MaxMerges
    /\ resets \in 0..MaxResets
    /\ kills \in 0..MaxKills
    /\ overlap \in BOOLEAN
    /\ pc \in [Readers -> {"idle", "max", "load", "events", "save"}]
    /\ mark \in [Readers -> Nat \cup {-1, -2}]
    /\ read \in [Readers -> Views]

Init ==
    /\ events = <<>>
    /\ row = NoRow
    /\ merges = 0
    /\ resets = 0
    /\ kills = 0
    /\ overlap = FALSE
    /\ pc = [r \in Readers |-> "idle"]
    /\ mark = [r \in Readers |-> -2]
    /\ read = [r \in Readers |-> {}]

-----------------------------------------------------------------------------
\* The events side.

Before(i) == IF i \in Ids THEN events[i] ELSE [status |-> "fresh", rev |-> 0]

StatusAfter(i, touched, archived, superseded) ==
    IF i \in superseded THEN "superseded"
    ELSE IF i \in archived THEN "archived"
    ELSE IF i \in touched /\ Before(i).status = "archived" THEN "revived"
    ELSE Before(i).status

\* Some events are inserted, some touched (stated again, or decayed), some
\* superseded, some archived.
Change(inserted, touched, archived, superseded) ==
    events' = [i \in 1..Len(events) + inserted |->
                 [status |-> StatusAfter(i, touched, archived, superseded),
                  rev    |-> Before(i).rev + IF i \in touched THEN 1 ELSE 0]]

New(inserted) == Len(events) + 1..Len(events) + inserted

\* What was archived may be stated again, and an event that is inserted may be
\* superseded at once, by a peer of higher priority.
AnyChange ==
    \E inserted \in 0..1 :
    \E touched \in SUBSET (Live \cup Having({"archived"})),
       archived \in SUBSET Live,
       superseded \in SUBSET (Live \cup New(inserted)) :
        /\ Len(events) + inserted <= MaxEvents
        /\ Change(inserted, touched, archived, superseded)

Loading == \E r \in Readers : pc[r] # "idle"

KeepMark == row \* mutated form

\* _invalidate_projection_inner: an UPDATE, which leaves a missing row missing.
Invalidated == IF row = NoRow THEN NoRow ELSE [row EXCEPT !.mark = Invalid]

\* execute_merge commits what it changed together with the invalidation.
MergeCommits ==
    /\ merges < MaxMerges /\ merges' = merges + 1
    /\ AnyChange
    /\ row' = Invalidated
    /\ overlap' = (overlap \/ Loading)
    /\ UNCHANGED <<resets, kills, pc, mark, read>>

\* record_verdict commits in the middle of a merge that never ends.
MergeCutShort ==
    /\ merges < MaxMerges /\ merges' = merges + 1
    /\ AnyChange
    /\ overlap' = TRUE
    /\ UNCHANGED <<row, resets, kills, pc, mark, read>>

\* cognikernel reset: every table in one transaction.
Reset ==
    /\ resets < MaxResets /\ resets' = resets + 1
    /\ overlap' = (overlap \/ Loading)
    /\ events' = [i \in Ids |-> [events[i] EXCEPT !.status = "deleted"]]
    /\ row' = NoRow
    /\ UNCHANGED <<merges, kills, pc, mark, read>>

-----------------------------------------------------------------------------
\* load_or_rebuild.

Goto(r, place) == pc' = [pc EXCEPT ![r] = place]

\* needs_rebuild, its first SELECT.
ReadMark(r) ==
    /\ pc[r] = "idle"
    /\ mark' = [mark EXCEPT ![r] = row.mark]
    /\ Goto(r, IF row = NoRow THEN "events" ELSE "max")
    /\ UNCHANGED <<events, row, merges, resets, kills, overlap, read>>

OutdatedLate(m) == Highest(Stored) > m + 1    \* mutated form

\* SELECT MAX(id) counts every row, live or not.
Outdated(m) == Highest(Stored) > m

\* ... its second.
ReadMax(r) ==
    /\ pc[r] = "max"
    /\ Goto(r, IF Outdated(mark[r]) THEN "events" ELSE "load")
    /\ UNCHANGED <<events, row, merges, resets, kills, overlap, mark, read>>

\* load_projection; a row that is gone by now fails the assertion.
LoadRow(r) ==
    /\ pc[r] = "load"
    /\ Goto(r, "idle")
    /\ mark' = [mark EXCEPT ![r] = -2]
    /\ UNCHANGED <<events, row, merges, resets, kills, overlap, read>>

\* rebuild_projection: get_events_for_projection reads the live events ...
ReadEvents(r) ==
    /\ pc[r] = "events"
    /\ read' = [read EXCEPT ![r] = View]
    /\ mark' = [mark EXCEPT ![r] = -2]
    /\ Goto(r, "save")
    /\ UNCHANGED <<events, row, merges, resets, kills, overlap>>

HighWaterOfAll(view) == Len(events) \* mutated form
HighWater(view) == Highest(IdsOf(view))

\* ... and save_projection overwrites whatever the row holds.
SaveProjection(r) ==
    /\ pc[r] = "save"
    /\ row' = [mark |-> HighWater(read[r]), view |-> read[r]]
    /\ read' = [read EXCEPT ![r] = {}]
    /\ Goto(r, "idle")
    /\ UNCHANGED <<events, merges, resets, kills, overlap, mark>>

\* The reader is killed, or its database is locked.
Abandon(r) ==
    /\ pc[r] # "idle"
    /\ kills < MaxKills /\ kills' = kills + 1
    /\ read' = [read EXCEPT ![r] = {}]
    /\ mark' = [mark EXCEPT ![r] = -2]
    /\ Goto(r, "idle")
    /\ UNCHANGED <<events, row, merges, resets, overlap>>

LoadOrRebuild(r) == ReadMark(r) \/ ReadMax(r) \/ LoadRow(r) \/ ReadEvents(r) \/ SaveProjection(r)

Next ==
    \/ MergeCommits \/ MergeCutShort \/ Reset
    \/ \E r \in Readers : LoadOrRebuild(r) \/ Abandon(r)

Spec == Init /\ [][Next]_vars

\* A reader that is not killed goes on, and somebody keeps reading: every session
\* start and every query loads the projection.
FairSpec == Spec /\ \A r \in Readers : WF_vars(LoadOrRebuild(r))

-----------------------------------------------------------------------------
\* Properties.

\* A reader that asks now is answered from the row.
Trusted == row # NoRow /\ ~Outdated(row.mark)

\* However rebuilds, resets and merges overlap, a trusted projection leaves out no
\* live event that was never archived: what is new is in the next session (the
\* reason for a high-water mark on ids rather than a flag).
NothingMissing == Trusted => Fresh \subseteq IdsOf(row.view)

\* As long as no writer committed during a load or half way, a trusted projection
\* is exact: retired events are gone from it and bumped ones are up to date
\* (load_or_rebuild: "rebuilding from events if stale or missing").
TrustedIsCurrent == Trusted /\ ~overlap => row.view = View

\* When the writers rest and somebody keeps asking, every live event that was
\* never archived is in the row for good, though a slow reader may save an old
\* projection over a newer one.
EventuallyShown == <>[](Fresh \subseteq IdsOf(row.view))

=============================================================================
