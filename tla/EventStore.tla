----------------------------- MODULE EventStore -----------------------------
(***************************************************************************)
(* The event store and the merge that fills it (delta/merge.py,            *)
(* delta/supersede.py, delta/cascade.py, delta/decay.py, quality/gate.py,  *)
(* storage/events.py).                                                     *)
(*                                                                         *)
(* Evidence is stored in the order in which it was captured; extraction    *)
(* stamps its candidates with the clock, and the merge comes later, so two *)
(* processes may merge in another order, fail, and try again.              *)
(*                                                                         *)
(* A merge begins a transaction with its first write, and a gate verdict   *)
(* commits what precedes it.  So the guard, the search for an echo of the  *)
(* first candidate after a commit, and the question whether a decay is due *)
(* when nothing is left to write, read a store that others may change      *)
(* before the write they lead to.                                          *)
(*                                                                         *)
(* A statement stands for an event type with a normalised description: it  *)
(* is what the content hash identifies.  Which descriptions overlap, echo  *)
(* one another, share a subject or hand work over is given by constants.   *)
(* A weight is a number of decays above the archive threshold.             *)
(***************************************************************************)
EXTENDS Integers, FiniteSets, Sequences

CONSTANTS Statements,    \* (event_type, key phrase): one content hash each
          TypeOf,        \* the event type of a statement
          Trait,         \* what the quality gate sees in a statement
          Overlaps,      \* pairs {x, y}: descriptions_overlap, or a model's match
          SameSubject,   \* pairs: subject_supersedes
          Echoes,        \* pairs of one type: Jaccard >= 0.85
          Handoffs,      \* threads that hand work to a later session
          Cascades,      \* [of, dependent, adds]: component statuses
          Sessions,
          Batches,       \* candidate lists an extraction can yield
          Mergers,       \* processes that merge: workers and the foreground
          None,          \* SQL's NULL
          MaxEvidence,   \* bound: rows of raw_evidence
          MaxCalls,      \* bound: merges and calls of the API together
          MaxFails,      \* bound: merges that raise
          MaxLinks,      \* bound: calls of mark_superseded and mark_archived
          InitialWeight, MaxWeight, DedupBump

VARIABLES evidence,    \* raw_evidence: row e is [session, cands]
          clock,
          rows,        \* events: by content hash
          prov,        \* event_provenance: <<statement, evidence>>
          lastDecay,   \* meta: last_decay_session
          merge,       \* what each process is at
          calls, fails, links,
          times,       \* history: merges of each evidence that left provenance
          raced,       \* history: evidence that two had let through the guard at once
          missed       \* history: pairs that a search overtaken by a commit missed

dbVars  == <<rows, prov, lastDecay>>
history == <<times, raced, missed>>
vars    == <<evidence, clock, dbVars, merge, calls, fails, links, history>>

Ranks == [user_stated |-> 3, assistant_decided |-> 2,
          assistant_answer_to_user_question |-> 1, inferred_from_code |-> 0]
Authorities == DOMAIN Ranks

StatementTypes    == {"DECISION", "CONSTRAINT_HARD", "CONSTRAINT_SOFT",
                      "APPROACH_ABANDONED", "APPROACH_ABANDONED_DO_NOT_RETRY"}
SupersessionTypes == StatementTypes \cup {"THREAD_OPEN"}
ChoiceFamily      == {"CONSTRAINT_HARD", "CONSTRAINT_SOFT", "DECISION"}
Protected         == {"CONSTRAINT_HARD", "APPROACH_ABANDONED_DO_NOT_RETRY"}
DedupPriority     == [APPROACH_ABANDONED_DO_NOT_RETRY |-> 1, CONSTRAINT_HARD |-> 2,
                      APPROACH_ABANDONED |-> 3]
DedupGroup        == DOMAIN DedupPriority

ASSUME StoreAssumption ==
    /\ IsFiniteSet(Statements) /\ None \notin Statements \cup Sessions
    /\ Batches \subseteq Seq([stmt : Statements, auth : Authorities])
    /\ Handoffs \subseteq {x \in Statements : TypeOf[x] = "THREAD_OPEN"}
    /\ Cascades \subseteq [of : Statements, dependent : Statements,
                         adds : {x \in Statements : TypeOf[x] = "COMPONENT_STATUS"}]
    /\ \A k \in Cascades, pair \in Echoes : k.adds \notin pair  \* it has no description
    /\ MaxWeight \in Nat /\ InitialWeight \in 1..MaxWeight /\ DedupBump \in Nat

Row == [id : Nat, session : Sessions, created : Nat, auth : Authorities,
        weight : 0..MaxWeight, mention : Nat, archived : BOOLEAN,
        by : Statements \cup {None}, ev : Nat]

Stored(rs) == DOMAIN rs
Active(rs) == {x \in Stored(rs) : ~rs[x].archived /\ rs[x].by = None}
Capped(w)  == IF w > MaxWeight THEN MaxWeight ELSE w

--------------------------------------------------------------------------
(* Supersession: storage/events.py and delta/supersede.py. *)

\* The rows reached from x along superseded_by, x included.
Chain(rs, x) ==
    LET reach[n \in 0..Cardinality(Stored(rs))] ==
            IF n = 0 THEN {x}
            ELSE reach[n - 1] \cup ({rs[y].by : y \in reach[n - 1]} \ {None})
    IN reach[Cardinality(Stored(rs))]

SetSupersededByBlindly(rs, old, new) ==     \* mutated form
    IF old = new THEN rs ELSE [rs EXCEPT ![old].by = new]

\* A self-link, or one that would close a cycle of any length, is refused.
SetSupersededBy(rs, old, new) ==
    IF old \in Chain(rs, new) THEN rs ELSE [rs EXCEPT ![old].by = new]

\* One call for each old row.  A link it sets is not on new's own chain, so the order
\* of the calls makes no difference.
SupersedeAll(rs, olds, new) ==
    [x \in Stored(rs) |-> IF x \in olds THEN SetSupersededBy(rs, x, new)[x] ELSE rs[x]]

CandidateTypes(type) == IF type \in ChoiceFamily THEN ChoiceFamily ELSE {type}

\* Temporal and authority gates, on the row as it was first stored.
Outranked(row, c, now) ==
    \/ row.created > now
    \/ Ranks[c.auth] < Ranks[row.auth]

ShieldedNever(old, new) == FALSE            \* mutated form

\* Narration does not delete a handoff; another handoff does.
Shielded(old, new) == old \in Handoffs /\ new \notin Handoffs

SameTopic(old, new) ==
    \/ {old, new} \in SameSubject
    \/ TypeOf[old] = TypeOf[new] /\ {old, new} \in Overlaps

FindSuperseded(rs, c, e, s, now) ==
    IF TypeOf[c.stmt] \notin SupersessionTypes THEN {}
    ELSE {x \in Active(rs) \ {c.stmt} :
            /\ TypeOf[x] \in CandidateTypes(TypeOf[c.stmt])
            /\ ~Outranked(rs[x], c, now)
            /\ IF TypeOf[c.stmt] = "THREAD_OPEN"
               THEN rs[x].session = s /\ ~Shielded(x, c.stmt)
               ELSE rs[x].ev # e /\ SameTopic(x, c.stmt)}

--------------------------------------------------------------------------
(* The merge's own writes: delta/merge.py, delta/cascade.py, delta/decay.py. *)

\* A restatement counts only when it comes from another session.
Bump(row, s, e) ==
    LET n == IF row.session # s THEN 1 ELSE 0
    IN [row EXCEPT !.mention = @ + n, !.weight = Capped(@ + n * DedupBump),
                   !.ev = IF @ = 0 THEN e ELSE @]

Near(rs, x)  == {y \in Active(rs) : {y, x} \in Echoes /\ y # x}
Pairs(rs, x) == {{y, x} : y \in Near(rs, x)}

EchoOfUnknown(rs, x) ==                      \* mutated form
    IF Near(rs, x) = {} \/ x \in Stored(rs) THEN None ELSE CHOOSE y \in Near(rs, x) : TRUE

\* A near-identical live event of the same type; of several, the last scanned.
EchoOf(rs, x) ==
    LET last == {y \in Near(rs, x) : \A z \in Near(rs, x) : rs[z].id <= rs[y].id}
    IN IF Near(rs, x) = {} THEN None ELSE CHOOSE y \in last : TRUE

NewRow(rs, c, e, s, now) ==
    [id |-> Cardinality(Stored(rs)) + 1, session |-> s, created |-> now,
     auth |-> c.auth, weight |-> c.weight, mention |-> 1, archived |-> FALSE,
     by |-> None, ev |-> e]

LinkProvenance(st, x, e) == st.prov \cup {<<x, e>>}

Insert(rs, x, row) == [y \in Stored(rs) \cup {x} |-> IF y = x THEN row ELSE rs[y]]

\* A known hash: the row keeps its payload, comes out of the archive and stays
\* superseded if it was.
InsertOrUpdate(rs, c, e, s, now) ==
    IF c.stmt \in Stored(rs)
    THEN [rs EXCEPT ![c.stmt] = [Bump(@, s, e) EXCEPT !.archived = FALSE]]
    ELSE Insert(rs, c.stmt, NewRow(rs, c, e, s, now))

\* Whichever has priority supersedes the other, by the query's rule.
Settle(rs, new, x) ==
    IF DedupPriority[TypeOf[new]] < DedupPriority[TypeOf[x]]
    THEN SetSupersededBy(rs, x, new)
    ELSE SetSupersededBy(rs, new, x)

\* The rows the queries below return: they have no ORDER BY, so rows come by id.
WithId(rs, xs, n) == {x \in xs : rs[x].id = n}

CrossTypeDedup(rs, new) ==
    LET peers == {x \in Active(rs) : /\ TypeOf[x] \in DedupGroup \ {TypeOf[new]}
                                      /\ {x, new} \in Overlaps \cup SameSubject}
        settled[n \in 0..Cardinality(Stored(rs))] ==
            IF n = 0 THEN rs
            ELSE IF WithId(rs, peers, n) = {} THEN settled[n - 1]
            ELSE Settle(settled[n - 1], new, CHOOSE x \in WithId(rs, peers, n) : TRUE)
    IN IF TypeOf[new] \notin DedupGroup THEN rs
       ELSE settled[Cardinality(Stored(rs))]

\* A needs_review event, inserted or counted once more.
Review(st, x, e, s, now) ==
    LET c == [stmt |-> x, auth |-> "assistant_decided", weight |-> InitialWeight]
    IN [rows |-> IF x \in Stored(st.rows) THEN [st.rows EXCEPT ![x].mention = @ + 1]
                 ELSE Insert(st.rows, x, NewRow(st.rows, c, e, s, now)),
        prov |-> LinkProvenance(st, x, e)]

\* One level: live dependents of a blocked component get a needs_review event.
CascadeComponentStatus(st, new, e, s, now) ==
    LET hit == {x \in Active(st.rows) : \E k \in Cascades : k.of = new /\ k.dependent = x}
        Adds(x) == (CHOOSE k \in Cascades : k.of = new /\ k.dependent = x).adds
        cascaded[n \in 0..Cardinality(Stored(st.rows))] ==
            IF n = 0 THEN st
            ELSE IF WithId(st.rows, hit, n) = {} THEN cascaded[n - 1]
            ELSE Review(cascaded[n - 1], Adds(CHOOSE x \in WithId(st.rows, hit, n) : TRUE),
                        e, s, now)
    IN cascaded[Cardinality(Stored(st.rows))]

\* quality/gate.py: the first rule that fires.
Verdict(c) ==
    LET trait == Trait[c.stmt]
        type  == TypeOf[c.stmt]
    IN CASE \/ trait = "boilerplate"
            \/ trait = "junk" /\ type \in StatementTypes
            \/ trait = "truncated_path" /\ type = "COMPONENT_STATUS" -> "reject"
         [] \/ trait = "subject_less" /\ type \in StatementTypes
            \/ trait = "narration" /\ type # "COMPONENT_STATUS"
            \/ trait = "unknown_path" /\ type = "COMPONENT_STATUS" -> "downgrade"
         [] /\ trait = "instruction" /\ type = "THREAD_OPEN"
            /\ c.auth = "user_stated"                             -> "demote"
         [] OTHER                                                 -> "admit"

ApplyVerdict(c) ==
    [stmt |-> c.stmt,
     auth   |-> IF Verdict(c) = "demote" THEN "assistant_decided" ELSE c.auth,
     weight |-> IF Verdict(c) = "admit" THEN InitialWeight ELSE InitialWeight - 1]

\* What one turn of the loop does after the search: fold the candidate into the
\* echo that was found, or insert it and see what it supersedes.
FoldInto(st, echo, e, s) ==
    [rows |-> [st.rows EXCEPT ![echo] = Bump(@, s, e)],
     prov |-> LinkProvenance(st, echo, e)]

Mint(st, c, e, s, now) ==
    LET in  == InsertOrUpdate(st.rows, c, e, s, now)
        sup == SupersedeAll(in, FindSuperseded(in, c, e, s, now), c.stmt)
        ded == CrossTypeDedup(sup, c.stmt)
        out == [rows |-> ded, prov |-> LinkProvenance(st, c.stmt, e)]
    IN IF TypeOf[c.stmt] = "COMPONENT_STATUS"
       THEN CascadeComponentStatus(out, c.stmt, e, s, now) ELSE out

MergeWith(st, cand, echo, e, s, now) ==
    IF echo = None THEN Mint(st, ApplyVerdict(cand), e, s, now) ELSE FoldInto(st, echo, e, s)

\* One turn of the loop over the candidates, inside a transaction.
MergeCandidate(st, cand, e, s, now) ==
    IF Verdict(cand) = "reject" THEN st
    ELSE MergeWith(st, cand, EchoOf(st.rows, cand.stmt), e, s, now)

MergeCandidates(st, cands, e, s, now) ==
    LET merged[n \in 0..Len(cands)] ==
            IF n = 0 THEN st ELSE MergeCandidate(merged[n - 1], cands[n], e, s, now)
    IN merged[Len(cands)]

DecayDue(last, s) == last # s

Decayed(row, s) ==
    LET w == IF row.session # s /\ ~row.archived /\ row.weight > 0
             THEN row.weight - 1 ELSE row.weight
    IN [row EXCEPT !.weight = w]

ArchivedUnprotectedToo(x, row) == row.weight = 0                        \* mutated form
ArchiveDue(x, row) == row.weight = 0 /\ TypeOf[x] \notin Protected

DecayAll(rs, s) ==
    [x \in Stored(rs) |->
        LET d == Decayed(rs[x], s)
        IN [d EXCEPT !.archived = @ \/ ArchiveDue(x, d)]]

ApplyDecay(rs, due, s) == IF due THEN DecayAll(rs, s) ELSE rs

AlwaysNew(p, cands, e) == Len(cands) > 0                                \* mutated form
\* The idempotency guard: provenance is the mark that evidence was merged.
ToMerge(p, cands, e) == Len(cands) > 0 /\ ~\E x \in Statements : <<x, e>> \in p

--------------------------------------------------------------------------
(* Actions *)

\* What a process is at: the evidence it merges, when its candidates were created,
\* the next candidate, what the search found or whether a decay was due, and, as
\* history, whether another process committed after the search.
Idle == [at |-> "idle", ev |-> 0, now |-> 0, next |-> 0, echo |-> None,
         due |-> FALSE, late |-> FALSE]

Init ==
    /\ evidence = <<>> /\ clock = 0
    /\ rows = <<>> /\ prov = {} /\ lastDecay = None
    /\ merge = [m \in Mergers |-> Idle]
    /\ calls = 0 /\ fails = 0 /\ links = 0
    /\ times = <<>> /\ raced = {} /\ missed = {}

\* A capture: store_evidence with the content that extraction will yield.
Capture(s, cands) ==
    /\ Len(evidence) < MaxEvidence /\ calls < MaxCalls
    /\ evidence' = Append(evidence, [session |-> s, cands |-> cands])
    /\ times' = Append(times, 0)
    /\ UNCHANGED <<clock, dbVars, merge, calls, fails, links, raced, missed>>

\* A process extracts the evidence, be it for the first time, for a retry or for a
\* replay.  Its candidates are created now, whenever the evidence is from.
Extract(m, e) ==
    /\ calls < MaxCalls /\ calls' = calls + 1
    /\ merge[m] = Idle
    /\ clock' = clock + 1
    /\ merge' = [merge EXCEPT ![m] = [Idle EXCEPT !.at = "guard", !.ev = e, !.now = clock + 1]]
    /\ UNCHANGED <<evidence, dbVars, fails, links, history>>

Session(m) == evidence[merge[m].ev].session
Cands(m)   == evidence[merge[m].ev].cands

InMerge(k) == merge[k].at \in {"look", "write", "finish"}

\* _evidence_already_merged, before any transaction.
Guard(m) ==
    /\ merge[m].at = "guard"
    /\ IF ToMerge(prov, Cands(m), merge[m].ev)
       THEN /\ merge' = [merge EXCEPT ![m].at = "look", ![m].next = 1]
            /\ raced' = IF \E k \in Mergers : InMerge(k) /\ merge[k].ev = merge[m].ev
                        THEN raced \cup {merge[m].ev} ELSE raced
       ELSE merge' = [merge EXCEPT ![m] = Idle] /\ UNCHANGED raced
    /\ UNCHANGED <<evidence, clock, dbVars, calls, fails, links, times, missed>>

\* The first candidate from n on that the gate does not reject, if any.
Kept(cands, n) == {i \in n..Len(cands) : Verdict(cands[i]) # "reject"}
Least(S) == CHOOSE i \in S : \A j \in S : i <= j

\* No transaction is open: rejections are counted, then the echo of the first other
\* candidate is searched, or it is read whether a decay is due.
Look(m) ==
    /\ merge[m].at = "look"
    /\ LET kept == Kept(Cands(m), merge[m].next)
       IN  merge' = [merge EXCEPT ![m] =
               IF kept = {} THEN [@ EXCEPT !.at = "finish", !.due = DecayDue(lastDecay, Session(m))]
               ELSE [@ EXCEPT !.at = "write", !.next = Least(kept), !.late = FALSE,
                              !.echo = EchoOf(rows, Cands(m)[Least(kept)].stmt)]]
    /\ UNCHANGED <<evidence, clock, dbVars, calls, fails, links, history>>

\* Recording any verdict but a plain admission commits: the candidates from n on before
\* the first such one are in one transaction.
Commits(cands, n) == {i \in n + 1..Len(cands) : Verdict(cands[i]) # "admit"}

FirstWrite(m) == \A i \in 1..merge[m].next - 1 : Verdict(Cands(m)[i]) = "reject"

\* What is committed together: the candidate that was looked up, with what was found
\* then, the ones after it up to the next recorded verdict, each with the store as it
\* is, and after the last one the decay.
Written(m) ==
    LET e    == merge[m].ev
        n    == merge[m].next
        more == Commits(Cands(m), n)
        upTo == IF more = {} THEN Len(Cands(m)) ELSE Least(more) - 1
        one  == MergeWith([rows |-> rows, prov |-> prov], Cands(m)[n], merge[m].echo,
                          e, Session(m), merge[m].now)
    IN MergeCandidates(one, SubSeq(Cands(m), n + 1, upTo), e, Session(m), merge[m].now)

Write(m) ==
    /\ merge[m].at = "write"
    /\ LET more == Commits(Cands(m), merge[m].next)
           mine == IF more = {} THEN Idle
                   ELSE [merge[m] EXCEPT !.at = "look", !.next = Least(more), !.echo = None, !.late = FALSE]
       IN  /\ merge' = [k \in Mergers |-> IF k = m THEN mine
                                         ELSE [merge[k] EXCEPT !.late = @ \/ merge[k].at = "write"]]
           /\ rows' = ApplyDecay(Written(m).rows, more = {} /\ DecayDue(lastDecay, Session(m)), Session(m))
           /\ lastDecay' = IF more = {} THEN Session(m) ELSE lastDecay
    /\ prov' = Written(m).prov
    /\ times' = IF FirstWrite(m) THEN [times EXCEPT ![merge[m].ev] = @ + 1] ELSE times
    /\ missed' = IF merge[m].late /\ merge[m].echo = None
                 THEN missed \cup Pairs(rows, Cands(m)[merge[m].next].stmt) ELSE missed
    /\ UNCHANGED <<evidence, clock, calls, fails, links, raced>>

\* Nothing was left to write but the decay, if it was due.
Finish(m) ==
    /\ merge[m].at = "finish"
    /\ rows' = ApplyDecay(rows, merge[m].due, Session(m))
    /\ lastDecay' = IF merge[m].due THEN Session(m) ELSE lastDecay
    /\ merge' = [merge EXCEPT ![m] = Idle]
    /\ UNCHANGED <<evidence, clock, prov, calls, fails, links, history>>

\* The merge raises, or its process is killed: what is not committed is undone.
Abandon(m) ==
    /\ merge[m] # Idle
    /\ fails < MaxFails /\ fails' = fails + 1
    /\ merge' = [merge EXCEPT ![m] = Idle]
    /\ UNCHANGED <<evidence, clock, dbVars, calls, links, history>>

\* The API for one link, and the one for an archival; both commit.
MarkSuperseded(x, y) ==
    /\ links < MaxLinks /\ links' = links + 1
    /\ calls < MaxCalls /\ calls' = calls + 1
    /\ rows' = SetSupersededBy(rows, x, y)
    /\ UNCHANGED <<evidence, clock, prov, lastDecay, merge, fails, history>>

MarkArchived(x) ==
    /\ links < MaxLinks /\ links' = links + 1
    /\ calls < MaxCalls /\ calls' = calls + 1
    /\ rows' = [rows EXCEPT ![x].archived = TRUE]
    /\ UNCHANGED <<evidence, clock, prov, lastDecay, merge, fails, history>>

Merge(m) == Guard(m) \/ Look(m) \/ Write(m) \/ Finish(m)

Next ==
    \/ \E s \in Sessions, cands \in Batches : Capture(s, cands)
    \/ \E m \in Mergers, e \in DOMAIN evidence : Extract(m, e)
    \/ \E m \in Mergers : Merge(m) \/ Abandon(m)
    \/ \E x, y \in Stored(rows) : MarkSuperseded(x, y)
    \/ \E x \in Stored(rows) : MarkArchived(x)

Spec == Init /\ [][Next]_vars

--------------------------------------------------------------------------
(* Properties *)

\* Types, and that a superseded row names a stored one.
TypeOK ==
    /\ Stored(rows) \subseteq Statements
    /\ \A x \in Stored(rows) : rows[x] \in Row /\ rows[x].by \in Stored(rows) \cup {None}
    /\ prov \subseteq Stored(rows) \X DOMAIN evidence
    /\ lastDecay \in Sessions \cup {None}

\* However restatements, lexical matches, cross-type priorities and calls of the
\* API follow one another, no row is its own successor: a cycle would drop every
\* row in it out of every live query (storage/events.py, set_superseded_by).
Acyclic == \A x \in Stored(rows) : rows[x].by = None \/ x \notin Chain(rows, rows[x].by)

\* No retry or replay of evidence inserts or folds it a second time, whether the first
\* merge finished or was cut short after a commit, unless the two had passed the guard
\* together.
SecondMergeNeedsRace == \A e \in DOMAIN evidence : times[e] <= 1 \/ e \in raced

LiveEchoes == UNION {Pairs(rows, x) : x \in Active(rows)}

\* Two near-identical statements are both live only if the second was searched for an
\* echo before the first was committed and written after; decay, archive, revival and
\* supersession between them make none.
LiveEchoNeedsRace == LiveEchoes \subseteq missed

Added == {k.adds : k \in Cascades}
LinkedFrom(x) == {evidence[p[2]].session : p \in {q \in prov : q[1] = x}}

\* A statement heard in its own session only counts once (merge.py, F9).
InSessionNeverInflates ==
    \A x \in Stored(rows) \ Added :
        LinkedFrom(x) \subseteq {rows[x].session} =>
            rows[x].mention = 1 /\ rows[x].weight <= InitialWeight

\* However often it is extracted, retried or replayed, a statement counts once:
\* evidence merges once if no two merge it together, and a session adds one mention.
CountsOnce == SecondMergeNeedsRace /\ InSessionNeverInflates

Ends(x) == {y \in Chain(rows, x) : rows[y].by = None}

\* What ends up in the place of a handoff is a handoff (supersede.py, #25).
HandoffsStand ==
    links = 0 => \A x \in Stored(rows) \cap Handoffs : Ends(x) \subseteq Handoffs

\* A commitment that only commitments have replaced is on show, however many
\* sessions have decayed it (decay.py: "permanent architectural commitments").
CommitmentsStand ==
    links = 0 => \A x \in Stored(rows) :
        (\A y \in Chain(rows, x) : TypeOf[y] \in Protected) =>
            \E y \in Ends(x) : ~rows[y].archived

\* The rows are well formed: links lead from stored rows to stored rows and never in
\* a circle.
WellFormed == TypeOK /\ Acyclic
=============================================================================
