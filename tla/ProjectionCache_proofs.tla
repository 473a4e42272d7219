----------------------- MODULE ProjectionCache_proofs -----------------------
(***************************************************************************)
(* For any number of readers, and of merges, resets and kills: a           *)
(* projection that a reader trusts leaves out no live event, but for those *)
(* that were archived and stated again.                                    *)
(*                                                                         *)
(* The argument: ids only grow.  What a reader saves carries the highest   *)
(* id it saw, so a fresh event it has not seen has a higher id than that,  *)
(* and the next reader finds it in MAX(id).                                *)
(***************************************************************************)
EXTENDS ProjectionCache, WellFoundedInduction, TLAPS

-----------------------------------------------------------------------------
\* The greatest id of a set.

\* A set of ids that is bounded and not empty has a greatest element.
LEMMA GreatestExists ==
    ASSUME NEW n \in Nat, NEW S \in SUBSET (0..n), S # {}
    PROVE  \E m \in S : \A j \in S : j <= m
<1> DEFINE T == {n - i : i \in S}
           R == OpToRel(<, Nat)
<1>1. T \subseteq Nat
  <2>1. \A i \in S : n - i \in Nat
    OBVIOUS
  <2> QED
    BY <2>1
<1>2. T # {}
  OBVIOUS
<1>3. PICK t \in T : \A u \in T : ~ (<<u, t>> \in R)
  <2> HIDE DEF T
  <2>1. IsWellFoundedOn(R, Nat)
    BY NatLessThanWellFounded
  <2> HIDE DEF R
  <2> QED
    BY <1>1, <1>2, <2>1, WFMin
<1>4. \A u \in T : t <= u
  <2> SUFFICES ASSUME NEW u \in T PROVE t <= u
    OBVIOUS
  <2>1. ~ (<<u, t>> \in R)
    BY <1>3
  <2>2. u \in Nat /\ t \in Nat
    BY <1>1
  <2>3. ~ (u < t)
    BY <2>1, <2>2 DEF OpToRel
  <2> QED
    BY <2>2, <2>3
<1>5. PICK m \in S : t = n - m
  OBVIOUS
<1>6. ASSUME NEW j \in S PROVE j <= m
  <2>1. n - m <= n - j
    BY <1>4, <1>5
  <2>2. n \in Int /\ m \in Int /\ j \in Int
    OBVIOUS
  <2> HIDE DEF T, R
  <2> QED
    BY <2>1, <2>2
<1> QED
  BY <1>6

\* Sequences as functions, and back.
LEMMA SeqIsFunction ==
    ASSUME NEW E, NEW s \in Seq(E)
    PROVE  Len(s) \in Nat /\ s \in [1..Len(s) -> E]
  OBVIOUS

LEMMA FunctionIsSeq ==
    ASSUME NEW E, NEW n \in Nat, NEW f \in [1..n -> E]
    PROVE  f \in Seq(E) /\ Len(f) = n
  OBVIOUS

\* Highest is that element, and 0 for the empty set.
LEMMA HighestIs ==
    ASSUME NEW n \in Nat, NEW S \in SUBSET (0..n)
    PROVE  /\ Highest(S) \in 0..n
           /\ \A j \in S : j <= Highest(S)
<1>1. CASE S = {}
  BY <1>1 DEF Highest
<1>2. CASE S # {}
  <2>1. \E m \in S : \A j \in S : j <= m
    BY <1>2, GreatestExists
  <2>2. Highest(S) \in S /\ \A j \in S : j <= Highest(S)
    BY <1>2, <2>1 DEF Highest
  <2> QED
    BY <2>2
<1> QED
  BY <1>1, <1>2

-----------------------------------------------------------------------------
\* The inductive invariant.

\* Everyone's copy of the live events is of ids that exist.
ViewOk(view) == view \in Views /\ IdsOf(view) \subseteq Ids

\* What a reader is about to save lacks only events younger than all it has.
ReadCovers(r) ==
    \A i \in Fresh : i \in IdsOf(read[r]) \/ \A j \in IdsOf(read[r]) : j < i

\* What the row lacks lies above its mark, unless the mark is a sentinel.
RowCovers ==
    row.mark >= 0 => \A i \in Fresh : i \in IdsOf(row.view) \/ i > row.mark

CacheInv ==
    /\ TypeOK
    /\ row.mark = -2 => row = NoRow
    /\ row.mark <= Len(events)
    /\ ViewOk(row.view)
    /\ \A r \in Readers : ViewOk(read[r])
    /\ \A r \in Readers : pc[r] = "save" => ReadCovers(r)
    /\ RowCovers

LEMMA CacheInit == Init => CacheInv
<1> SUFFICES ASSUME Init PROVE CacheInv
  OBVIOUS
<1>1. TypeOK
  <2>1. overlap \in BOOLEAN
    BY DEF Init
  <2>2. events \in Seq(EventRow)
    BY DEF Init
  <2>3. row \in [mark : Nat \cup {-1, -2}, view : Views]
    BY DEF Init, NoRow, Views
  <2>4. mark \in [Readers -> Nat \cup {-1, -2}] /\ read \in [Readers -> Views]
    BY DEF Init, Views
  <2>5. pc \in [Readers -> {"idle", "max", "load", "events", "save"}]
    BY DEF Init
  <2>6. merges \in 0..MaxMerges /\ resets \in 0..MaxResets /\ kills \in 0..MaxKills
    BY ProjectionAssumption DEF Init
  <2> QED
    BY <2>1, <2>2, <2>3, <2>4, <2>5, <2>6 DEF TypeOK
<1>2. IdsOf({}) = {}
  BY DEF IdsOf
<1> QED
  BY <1>1, <1>2 DEF Init, CacheInv, NoRow, ViewOk, Views, RowCovers, ReadCovers

\* What the events side may do: ids are never taken back, and an event that is
\* fresh was fresh before or has a new id.
LEMMA EventsGrow ==
    ASSUME TypeOK, AnyChange
    PROVE  /\ events' \in Seq(EventRow)
           /\ Len(events) <= Len(events')
           /\ \A i \in Fresh' : i \in Fresh \/ i > Len(events)
<1>1. PICK inserted, touched, archived, superseded :
          inserted \in 0..1 /\ Change(inserted, touched, archived, superseded)
  BY DEF AnyChange
<1>2. Len(events) \in Nat /\ events \in [1..Len(events) -> EventRow]
  BY SeqIsFunction DEF TypeOK
<1>n. inserted \in 0..1 /\ Len(events) + inserted \in Nat
  BY <1>1, <1>2
<1>3. events' \in [1..(Len(events) + inserted) -> EventRow]
  <2>1. \A i \in 1..(Len(events) + inserted) : Before(i) \in EventRow
    BY <1>2 DEF Before, Ids, EventRow, Statuses
  <2>2. \A i \in 1..(Len(events) + inserted) :
           StatusAfter(i, touched, archived, superseded) \in Statuses
    BY <2>1 DEF StatusAfter, EventRow, Statuses
  <2>3. \A i \in 1..(Len(events) + inserted) :
           Before(i).rev + (IF i \in touched THEN 1 ELSE 0) \in Nat
    BY <2>1 DEF EventRow
  <2> QED
    BY <1>1, <2>2, <2>3 DEF Change, EventRow
<1>4. \A i \in 1..(Len(events) + inserted) :
         events'[i].status = "fresh" => i > Len(events) \/ events[i].status = "fresh"
  <2> SUFFICES ASSUME NEW i \in 1..(Len(events) + inserted), events'[i].status = "fresh"
               PROVE  i > Len(events) \/ events[i].status = "fresh"
    OBVIOUS
  <2>1. StatusAfter(i, touched, archived, superseded) = "fresh"
    BY <1>1 DEF Change
  <2>2. Before(i).status = "fresh"
    BY <2>1 DEF StatusAfter
  <2> QED
    BY <1>2, <2>2 DEF Before, Ids
<1>5. events' \in Seq(EventRow) /\ Len(events') = Len(events) + inserted
  BY <1>3, <1>n, FunctionIsSeq
<1> QED
  BY <1>2, <1>4, <1>5, <1>n DEF Fresh, Having, Ids

\* A step that leaves the copies alone keeps the invariant when ids only grow
\* and what is fresh was fresh or is new.
LEMMA CoversKept ==
    ASSUME CacheInv, UNCHANGED <<pc, read>>, TypeOK',
           row' = row \/ row' = Invalidated \/ row' = NoRow,
           Len(events) <= Len(events'),
           \A i \in Fresh' : i \in Fresh \/ i > Len(events)
    PROVE  CacheInv'
<1> USE DEF CacheInv
<1>1. Len(events) \in Nat /\ Len(events') \in Nat
  BY DEF TypeOK
<1>2. Ids \subseteq Ids'
  BY <1>1 DEF Ids
<1>3. \A r \in Readers : ViewOk(read[r])'
  BY <1>2 DEF ViewOk
<1>4. \A r \in Readers : pc'[r] = "save" => ReadCovers(r)'
  <2> SUFFICES ASSUME NEW r \in Readers, pc'[r] = "save", NEW i \in Fresh'
               PROVE  i \in IdsOf(read[r]) \/ \A j \in IdsOf(read[r]) : j < i
    BY DEF ReadCovers
  <2>1. CASE i \in Fresh
    BY <2>1 DEF ReadCovers
  <2>2. CASE i > Len(events)
    <3>1. IdsOf(read[r]) \subseteq 1..Len(events)
      BY DEF ViewOk, Ids
    <3>2. i \in Int
      BY DEF Fresh, Having, Ids
    <3> QED
      BY <1>1, <2>2, <3>1, <3>2
  <2> QED
    BY <2>1, <2>2
<1>5. row'.mark = -2 => row' = NoRow
  BY DEF Invalidated, Invalid, TypeOK
<1>6. IdsOf({}) = {}
  BY DEF IdsOf
<1>7. row'.view = row.view \/ row'.view = {}
  BY DEF Invalidated, NoRow, TypeOK
<1>8. ViewOk(row.view)'
  BY <1>2, <1>6, <1>7 DEF ViewOk, Views
<1>9. RowCovers'
  <2> SUFFICES ASSUME row'.mark >= 0, NEW i \in Fresh'
               PROVE  i \in IdsOf(row'.view) \/ i > row'.mark
    BY DEF RowCovers
  <2>1. row' = row
    BY DEF Invalidated, Invalid, NoRow, TypeOK
  <2>2. CASE i \in Fresh
    BY <2>1, <2>2 DEF RowCovers
  <2>3. CASE i > Len(events)
    <3>1. i \in Int /\ row.mark \in Int
      BY DEF Fresh, Having, Ids, TypeOK
    <3> QED
      BY <1>1, <2>1, <2>3, <3>1
  <2> QED
    BY <2>2, <2>3
<1>10. row'.mark <= Len(events')
  BY <1>1 DEF Invalidated, Invalid, NoRow, TypeOK
<1> QED
  BY <1>10, <1>3, <1>4, <1>5, <1>8, <1>9


-----------------------------------------------------------------------------
\* One step per action.

LEMMA CacheStep == CacheInv /\ [Next]_vars => CacheInv'
<1> SUFFICES ASSUME CacheInv, [Next]_vars PROVE CacheInv'
  OBVIOUS
<1>t. TypeOK /\ Len(events) \in Nat
  BY DEF CacheInv, TypeOK
<1>1. CASE MergeCommits
  <2>1. /\ events' \in Seq(EventRow)
        /\ Len(events) <= Len(events')
        /\ \A i \in Fresh' : i \in Fresh \/ i > Len(events)
    BY <1>1, <1>t, EventsGrow DEF MergeCommits
  <2>2. Invalidated \in [mark : Nat \cup {-1, -2}, view : Views]
    BY <1>t DEF Invalidated, Invalid, NoRow, TypeOK, Views
  <2>3. TypeOK'
    BY <1>1, <1>t, <2>1, <2>2, ProjectionAssumption DEF MergeCommits, TypeOK
  <2> QED
    BY <1>1, <2>1, <2>3, CoversKept DEF MergeCommits
<1>2. CASE MergeCutShort
  <2>1. /\ events' \in Seq(EventRow)
        /\ Len(events) <= Len(events')
        /\ \A i \in Fresh' : i \in Fresh \/ i > Len(events)
    BY <1>2, <1>t, EventsGrow DEF MergeCutShort
  <2>2. TypeOK'
    BY <1>2, <1>t, <2>1, ProjectionAssumption DEF MergeCutShort, TypeOK
  <2> QED
    BY <1>2, <2>1, <2>2, CoversKept DEF MergeCutShort
<1>3. CASE Reset
  <2>1. /\ events' \in Seq(EventRow)
        /\ Len(events') = Len(events)
        /\ Fresh' = {}
    <3>1. events \in [1..Len(events) -> EventRow]
      BY <1>t, SeqIsFunction DEF TypeOK
    <3>2. /\ events' \in [1..Len(events) -> EventRow]
          /\ \A i \in 1..Len(events) : events'[i].status = "deleted"
      BY <1>3, <3>1 DEF Reset, Ids, EventRow, Statuses
    <3>4. events' \in Seq(EventRow) /\ Len(events') = Len(events)
      BY <1>t, <3>2, FunctionIsSeq
    <3> QED
      BY <3>2, <3>4 DEF Fresh, Having, Ids
  <2>2. TypeOK'
    <3>1. row' \in [mark : Nat \cup {-1, -2}, view : Views]
      BY <1>3 DEF Reset, NoRow, Views
    <3>2. resets' \in 0..MaxResets
      BY <1>3, <1>t, ProjectionAssumption DEF Reset, TypeOK
    <3> QED
      BY <1>3, <1>t, <2>1, <3>1, <3>2 DEF Reset, TypeOK
  <2> QED
    <3>1. Len(events) <= Len(events')
      BY <1>t, <2>1
    <3>2. \A i \in Fresh' : i \in Fresh \/ i > Len(events)
      BY <2>1
    <3>3. UNCHANGED <<pc, read>> /\ row' = NoRow
      BY <1>3 DEF Reset
    <3> QED
      BY <2>2, <3>1, <3>2, <3>3, CoversKept
<1>4. ASSUME NEW r \in Readers, ReadMark(r) \/ ReadMax(r) \/ LoadRow(r) \/ Abandon(r)
      PROVE  CacheInv'
  <2>1. TypeOK'
    <3>1. CASE ReadMark(r)
      <4>1. row.mark \in Nat \cup {-1, -2}
        BY <1>t DEF TypeOK
      <4> QED
        BY <1>t, <3>1, <4>1 DEF ReadMark, Goto, TypeOK
    <3>2. CASE ReadMax(r)
      BY <1>t, <3>2 DEF ReadMax, Goto, TypeOK
    <3>3. CASE LoadRow(r)
      BY <1>t, <3>3 DEF LoadRow, Goto, TypeOK
    <3>4. CASE Abandon(r)
      BY <1>t, <3>4, ProjectionAssumption DEF Abandon, Goto, TypeOK, Views
    <3> QED
      BY <1>4, <3>1, <3>2, <3>3, <3>4
  <2>2. UNCHANGED <<events, row>>
    BY <1>4 DEF ReadMark, ReadMax, LoadRow, Abandon
  <2>3. \A q \in Readers : read'[q] = read[q] \/ read'[q] = {}
    BY <1>4, <1>t DEF ReadMark, ReadMax, LoadRow, Abandon, TypeOK
  <2>4. \A q \in Readers : pc'[q] = "save" => pc[q] = "save" /\ read'[q] = read[q]
    BY <1>4, <1>t DEF ReadMark, ReadMax, LoadRow, Abandon, Goto, TypeOK
  <2>5. IdsOf({}) = {}
    BY DEF IdsOf
  <2>6. \A q \in Readers : ViewOk(read[q])'
    BY <2>2, <2>3, <2>5 DEF CacheInv, ViewOk, Views, Ids
  <2>7. \A q \in Readers : pc'[q] = "save" => ReadCovers(q)'
    BY <2>2, <2>4 DEF CacheInv, ReadCovers, Fresh, Having, Ids
  <2>8. RowCovers' /\ ViewOk(row.view)'
    BY <2>2 DEF CacheInv, RowCovers, ViewOk, Fresh, Having, Ids
  <2> QED
    BY <2>1, <2>2, <2>6, <2>7, <2>8 DEF CacheInv, NoRow
<1>5. ASSUME NEW r \in Readers, ReadEvents(r) PROVE CacheInv'
  <2>1. View \in Views /\ IdsOf(View) = Live /\ Fresh \subseteq Live /\ Live \subseteq Ids
    <3>1. events \in [1..Len(events) -> EventRow]
      BY <1>t, SeqIsFunction DEF TypeOK
    <3>2. \A i \in Live : i \in Nat /\ events[i].rev \in Nat
      BY <1>t, <3>1 DEF Live, Having, Ids, EventRow
    <3>3. \A i \in Live : <<i, events[i].rev>> \in Nat \X Nat
      BY <3>2
    <3>4. View \in Views
      BY <3>3 DEF View, Views
    <3>5. IdsOf(View) \subseteq Live
      <4> SUFFICES ASSUME NEW seen \in View PROVE seen[1] \in Live
        BY DEF IdsOf
      <4>1. PICK i \in Live : seen = <<i, events[i].rev>>
        BY DEF View
      <4> QED
        BY <4>1
    <3>6. Live \subseteq IdsOf(View)
      <4> SUFFICES ASSUME NEW i \in Live PROVE i \in IdsOf(View)
        OBVIOUS
      <4>1. <<i, events[i].rev>> \in View
        BY DEF View
      <4>2. <<i, events[i].rev>>[1] = i
        OBVIOUS
      <4> QED
        BY <4>1, <4>2 DEF IdsOf
    <3>7. Fresh \subseteq Live /\ Live \subseteq Ids
      BY DEF Live, Fresh, Having
    <3> QED
      BY <3>4, <3>5, <3>6, <3>7
  <2>2. UNCHANGED <<events, row>> /\ read' = [read EXCEPT ![r] = View]
    BY <1>5 DEF ReadEvents
  <2>3. TypeOK'
    BY <1>5, <1>t, <2>1 DEF ReadEvents, Goto, TypeOK
  <2>4. \A q \in Readers : read'[q] = IF q = r THEN View ELSE read[q]
    BY <1>t, <2>2 DEF TypeOK
  <2>5. \A q \in Readers : ViewOk(read[q])'
    BY <2>1, <2>2, <2>4 DEF CacheInv, ViewOk, Ids
  <2>6. \A q \in Readers \ {r} : pc'[q] = pc[q]
    BY <1>5, <1>t DEF ReadEvents, Goto, TypeOK
  <2>7. \A q \in Readers : pc'[q] = "save" => ReadCovers(q)'
    BY <2>1, <2>2, <2>4, <2>6 DEF CacheInv, ReadCovers, Fresh, Having, Ids
  <2>8. RowCovers' /\ ViewOk(row.view)'
    BY <2>2 DEF CacheInv, RowCovers, ViewOk, Fresh, Having, Ids
  <2> QED
    BY <2>2, <2>3, <2>5, <2>7, <2>8 DEF CacheInv, NoRow
<1>6. ASSUME NEW r \in Readers, SaveProjection(r) PROVE CacheInv'
  <2>1. ViewOk(read[r]) /\ ReadCovers(r)
    BY <1>6 DEF CacheInv, SaveProjection
  <2>2. /\ HighWater(read[r]) \in 0..Len(events)
        /\ \A j \in IdsOf(read[r]) : j <= HighWater(read[r])
    <3>1. IdsOf(read[r]) \in SUBSET (0..Len(events))
      BY <1>t, <2>1 DEF ViewOk, Ids
    <3> QED
      BY <1>t, <3>1, HighestIs DEF HighWater
  <2>3. /\ row' = [mark |-> HighWater(read[r]), view |-> read[r]]
        /\ events' = events
    BY <1>6 DEF SaveProjection
  <2>4. TypeOK'
    BY <1>6, <1>t, <2>1, <2>2 DEF SaveProjection, Goto, TypeOK, ViewOk, Views
  <2>5. \A q \in Readers : read'[q] = IF q = r THEN {} ELSE read[q]
    BY <1>6, <1>t DEF SaveProjection, TypeOK
  <2>6. \A q \in Readers : pc'[q] = IF q = r THEN "idle" ELSE pc[q]
    BY <1>6, <1>t DEF SaveProjection, Goto, TypeOK
  <2>7. IdsOf({}) = {}
    BY DEF IdsOf
  <2>8. \A q \in Readers : ViewOk(read[q])'
    BY <2>3, <2>5, <2>7 DEF CacheInv, ViewOk, Views, Ids
  <2>9. \A q \in Readers : pc'[q] = "save" => ReadCovers(q)'
    BY <2>3, <2>5, <2>6 DEF CacheInv, ReadCovers, Fresh, Having, Ids
  <2>10. ViewOk(row.view)'
    BY <2>1, <2>3 DEF ViewOk, Ids
  <2>11. RowCovers'
    <3> SUFFICES ASSUME NEW i \in Fresh
                 PROVE  i \in IdsOf(read[r]) \/ i > HighWater(read[r])
      BY <2>3 DEF RowCovers, Fresh, Having, Ids
    <3>1. CASE i \in IdsOf(read[r])
      BY <3>1
    <3>2. CASE \A j \in IdsOf(read[r]) : j < i
      <4>1. i \in Nat /\ i > 0
        BY <1>t DEF Fresh, Having, Ids
      <4>2. HighWater(read[r]) = 0 \/ HighWater(read[r]) \in IdsOf(read[r])
        <5>1. CASE IdsOf(read[r]) = {}
          BY <5>1 DEF HighWater, Highest
        <5>2. CASE IdsOf(read[r]) # {}
          <6>1. IdsOf(read[r]) \in SUBSET (0..Len(events))
            BY <1>t, <2>1 DEF ViewOk, Ids
          <6>2. \E m \in IdsOf(read[r]) : \A j \in IdsOf(read[r]) : j <= m
            BY <1>t, <5>2, <6>1, GreatestExists
          <6> QED
            BY <5>2, <6>2 DEF HighWater, Highest
        <5> QED
          BY <5>1, <5>2
      <4> QED
        BY <2>2, <3>2, <4>1, <4>2
    <3> QED
      BY <2>1, <3>1, <3>2 DEF ReadCovers
  <2>12. row'.mark # -2 /\ row'.mark <= Len(events')
    BY <1>t, <2>2, <2>3
  <2> QED
    BY <2>4, <2>8, <2>9, <2>10, <2>11, <2>12 DEF CacheInv
<1>7. CASE UNCHANGED vars
  BY <1>7 DEF vars, CacheInv, TypeOK, ViewOk, ReadCovers, RowCovers, Fresh, Having, Ids, NoRow
<1> QED
  BY <1>1, <1>2, <1>3, <1>4, <1>5, <1>6, <1>7 DEF Next, LoadOrRebuild

\* The cache has its types, whoever reads and writes it.
THEOREM ProjectionTypeCorrect == Spec => []TypeOK
<1>1. CacheInv => TypeOK
  BY DEF CacheInv
<1> QED
  BY <1>1, CacheInit, CacheStep, PTL DEF Spec

\* A projection that is trusted leaves out no live event that was never archived,
\* however merges, cut short or not, resets and rebuilds overlap (needs_rebuild,
\* save_projection).
THEOREM NothingMissingCorrect == Spec => []NothingMissing
<1>1. CacheInv => NothingMissing
  <2> SUFFICES ASSUME CacheInv, Trusted, NEW i \in Fresh
               PROVE  i \in IdsOf(row.view)
    BY DEF NothingMissing
  <2>1. Len(events) \in Nat /\ row.mark \in Nat \cup {-1, -2}
    BY DEF CacheInv, TypeOK
  <2>2. Stored \in SUBSET (0..Len(events)) /\ i \in Stored /\ i \in Nat
    BY <2>1 DEF Stored, Fresh, Having, Ids
  <2>3. i <= Highest(Stored) /\ Highest(Stored) \in Nat
    BY <2>1, <2>2, HighestIs
  <2>4. i <= row.mark
    BY <2>1, <2>2, <2>3 DEF Trusted, Outdated
  <2> QED
    BY <2>1, <2>2, <2>4 DEF CacheInv, RowCovers
<1> QED
  BY <1>1, CacheInit, CacheStep, PTL DEF Spec

-----------------------------------------------------------------------------
\* As long as no writer commits during a load.

\* What is in the row, and what a reader is about to put there, is the present.
Current ==
    ~overlap =>
    /\ row.mark >= 0 => row.view = View
    /\ \A r \in Readers : pc[r] = "save" => read[r] = View

LEMMA CurrentStep ==
    ASSUME CacheInv, Current, [Next]_vars
    PROVE  Current'
<1>t. TypeOK
  BY DEF CacheInv
<1>1. CASE MergeCommits \/ MergeCutShort \/ Reset
  <2>1. ~overlap' => \A r \in Readers : pc'[r] # "save"
    BY <1>1 DEF MergeCommits, MergeCutShort, Reset, Loading
  <2>2. ~overlap' => row' = Invalidated \/ row' = NoRow
    BY <1>1 DEF MergeCommits, MergeCutShort, Reset
  <2>3. ~overlap' => ~ (row'.mark >= 0)
    BY <1>t, <2>2 DEF Invalidated, Invalid, NoRow, TypeOK
  <2> QED
    BY <2>1, <2>3 DEF Current
<1>2. ASSUME NEW r \in Readers, ReadMark(r) \/ ReadMax(r) \/ LoadRow(r) \/ Abandon(r)
      PROVE  Current'
  <2>1. UNCHANGED <<events, row, overlap>>
    BY <1>2 DEF ReadMark, ReadMax, LoadRow, Abandon
  <2>2. \A q \in Readers : pc'[q] = "save" => pc[q] = "save" /\ read'[q] = read[q]
    BY <1>2, <1>t DEF ReadMark, ReadMax, LoadRow, Abandon, Goto, TypeOK
  <2> QED
    BY <2>1, <2>2 DEF Current, View, Live, Having, Ids
<1>3. ASSUME NEW r \in Readers, ReadEvents(r) PROVE Current'
  <2>1. UNCHANGED <<events, row, overlap>>
    BY <1>3 DEF ReadEvents
  <2>2. \A q \in Readers : pc'[q] = "save" => q = r \/ pc[q] = "save"
    BY <1>3, <1>t DEF ReadEvents, Goto, TypeOK
  <2>3. \A q \in Readers : read'[q] = IF q = r THEN View ELSE read[q]
    BY <1>3, <1>t DEF ReadEvents, TypeOK
  <2> QED
    BY <2>1, <2>2, <2>3 DEF Current, View, Live, Having, Ids
<1>4. ASSUME NEW r \in Readers, SaveProjection(r) PROVE Current'
  <2>1. /\ UNCHANGED <<events, overlap>>
        /\ row'.view = read[r]
        /\ ~overlap => read[r] = View
    BY <1>4 DEF Current, SaveProjection
  <2>2. \A q \in Readers : pc'[q] = "save" => pc[q] = "save" /\ q # r
    BY <1>4, <1>t DEF SaveProjection, Goto, TypeOK
  <2>3. \A q \in Readers : q # r => read'[q] = read[q]
    BY <1>4, <1>t DEF SaveProjection, TypeOK
  <2> QED
    BY <2>1, <2>2, <2>3 DEF Current, View, Live, Having, Ids
<1>5. CASE UNCHANGED vars
  BY <1>5 DEF vars, Current, View, Live, Having, Ids
<1> QED
  BY <1>1, <1>2, <1>3, <1>4, <1>5 DEF Next, LoadOrRebuild

\* As long as no writer committed during a load or half way, a trusted projection
\* is exactly what the events call for: retired ones gone, bumped ones up to date
\* (execute_merge's invalidation and load_or_rebuild together).
THEOREM QuietIsCurrent == Spec => []TrustedIsCurrent
<1>1. Init => Current
  BY DEF Init, Current, NoRow
<1>2. CacheInv /\ Current => TrustedIsCurrent
  <2> SUFFICES ASSUME CacheInv, Current, Trusted, ~overlap PROVE row.view = View
    BY DEF TrustedIsCurrent
  <2>1. Len(events) \in Nat /\ row.mark \in Nat \cup {-1, -2}
    BY DEF CacheInv, TypeOK
  <2>2. Stored \in SUBSET (0..Len(events))
    BY <2>1 DEF Stored, Ids
  <2>3. Highest(Stored) \in Nat
    BY <2>1, <2>2, HighestIs
  <2>4. row.mark >= 0
    BY <2>1, <2>3 DEF Trusted, Outdated, CacheInv
  <2> QED
    BY <2>4 DEF Current
<1>3. CacheInv /\ Current /\ [Next]_vars => CacheInv' /\ Current'
  BY CacheStep, CurrentStep
<1> QED
  BY <1>1, <1>2, <1>3, CacheInit, PTL DEF Spec

=============================================================================
