------------------------- MODULE TranscriptCapture -------------------------
(***************************************************************************)
(* How the growing transcript of one session gets into memory.             *)
(*                                                                         *)
(* The agent appends lines to a JSONL file and sometimes rewrites it       *)
(* (compaction).  session_capture stores what is new since the ingest      *)
(* cursor as a chunk of raw_evidence chained to the previous one, and      *)
(* enqueues a job.  A worker rebuilds the transcript from the chain, cuts  *)
(* it at the cursor, merges the rest and advances the cursor.  session_end *)
(* does both in the foreground; replay_job rebuilds the transcript of a    *)
(* dead letter and hands it to session_end.  All of them read the cursor   *)
(* long before they act on it (storage/cursors.py, storage/evidence.py,    *)
(* integration/session.py).                                                *)
(*                                                                         *)
(* A line is a number; no two are alike, as each carries its own uuid and  *)
(* timestamp.  -n is line n, half written.  The rows of the queue are kept *)
(* here as one state per evidence; their life is the subject of JobQueue.  *)
(* A merge is a guard, any number of commits in its middle and a last one; *)
(* which lines it has got to, and which yield candidates, is left open.    *)
(***************************************************************************)
EXTENDS Integers, Sequences, FiniteSets

CONSTANTS Hooks,          \* processes that run session_capture
          Enders,         \* processes that run session_end or replay_job
          Workers,        \* processes that run process_jobs
          AnchorLines,    \* ANCHOR_LINES (5)
          OverlapLines,   \* OVERLAP_LINES (20)
          MaxLines,       \* bound: lines ever written
          MaxCompactions, \* bound: rewrites of the transcript
          MaxTorn,        \* bound: lines seen half written
          MaxFaults,      \* bound: processes killed and jobs failed
          MaxCalls,       \* bound: calls of hooks and enders
          SlowWorkers     \* may a live worker outlast the grace of a recovery?

ASSUME CaptureAssumption ==
    /\ AnchorLines \in Nat \ {0}
    /\ OverlapLines \in Nat /\ AnchorLines <= OverlapLines
    /\ MaxLines \in Nat /\ MaxCompactions \in Nat
    /\ MaxTorn \in Nat /\ MaxFaults \in Nat /\ MaxCalls \in Nat
    /\ SlowWorkers \in BOOLEAN
    /\ Hooks \cap Enders = {} /\ Hooks \cap Workers = {} /\ Enders \cap Workers = {}

Callers == Hooks \cup Enders
Actors  == Callers \cup Workers

VARIABLES transcript,  \* the JSONL file
          written,     \* lines written so far: the next one is written + 1
          compactions, \* rewrites so far
          torn,        \* lines left half written so far
          faults,      \* kills and failures so far
          calls,       \* calls of hooks and enders so far
          evidence,    \* raw_evidence: row i is [lines, prev], prev 0 for NULL
          prov,        \* the evidence event_provenance has rows for
          jobs,        \* extraction_jobs.state of the job of each evidence
          cursor,      \* the session's row of ingest_cursors
          merged,      \* history: the lines that went through a merge
          split,       \* history: the lines of merges that committed in part
          pc,          \* where each actor is
          raw,         \* the transcript an actor works on
          cur,         \* the cursor as an actor read it
          ev,          \* the evidence an actor has in hand, 0 for none
          latest       \* last_line_count as an actor read it after the merge

fileVars  == <<transcript, written, compactions, torn>>
mergeVars == <<prov, merged, split>>
storeVars == <<evidence, jobs, cursor, mergeVars>>
actorVars == <<pc, raw, cur, ev, latest>>
vars == <<fileVars, faults, calls, storeVars, actorVars>>

Line == -MaxLines..MaxLines
JobStates == {"absent", "queued", "running", "completed", "dead_lettered"}
Terminal(state) == state \in {"completed", "dead_lettered"}

\* No row, and a row whose last_line_count is 0, are treated alike everywhere.
NoCursor == [count |-> 0, anchor |-> <<>>, ev |-> 0]
Cursors  == [count : Nat, anchor : Seq(Line), ev : Nat]

Places == {"idle", "cursor", "store", "enqueue", "observe", "pick", "load",
           "merge", "merging", "latest", "save", "finish"}

TypeOK ==
    /\ transcript \in Seq(Line)
    /\ written \in 0..MaxLines
    /\ compactions \in 0..MaxCompactions
    /\ torn \in 0..MaxTorn
    /\ faults \in 0..MaxFaults
    /\ calls \in 0..MaxCalls
    /\ evidence \in Seq([lines : Seq(Line), prev : Nat])
    /\ prov \in SUBSET DOMAIN evidence
    /\ jobs \in [DOMAIN evidence -> JobStates]
    /\ cursor \in Cursors
    /\ merged \in SUBSET Line
    /\ split \in SUBSET Line
    /\ pc \in [Actors -> Places]
    /\ raw \in [Actors -> Seq(Line)]
    /\ cur \in [Actors -> Cursors]
    /\ ev \in [Actors -> 0..Len(evidence)]
    /\ latest \in [Actors -> Nat]

Init ==
    /\ transcript = <<>>
    /\ written = 0
    /\ compactions = 0
    /\ torn = 0
    /\ faults = 0
    /\ calls = 0
    /\ evidence = <<>>
    /\ prov = {}
    /\ jobs = <<>>
    /\ cursor = NoCursor
    /\ merged = {}
    /\ split = {}
    /\ pc = [a \in Actors |-> "idle"]
    /\ raw = [a \in Actors |-> <<>>]
    /\ cur = [a \in Actors |-> NoCursor]
    /\ ev = [a \in Actors |-> 0]
    /\ latest = [a \in Actors |-> 0]

Lines(s) == {s[i] : i \in DOMAIN s}
LastOf(s, n) == SubSeq(s, IF n < Len(s) THEN Len(s) - n + 1 ELSE 1, Len(s))
From(s, n) == SubSeq(s, n + 1, Len(s))

-----------------------------------------------------------------------------
\* storage/cursors.py and storage/evidence.py

\* compute_anchor: the lines hashed, for the hash.
ComputeAnchor(lines, n) == LastOf(SubSeq(lines, 1, n), AnchorLines)

\* Mutated form: the anchor is not compared.
CursorFitsUnanchored(lines, c) == c.count > 0 /\ c.count <= Len(lines)

\* May the cursor's count be used as a position in these lines?
CursorFits(lines, c) ==
    /\ c.count > 0
    /\ c.count <= Len(lines)
    /\ ComputeAnchor(lines, c.count) = c.anchor

\* slice_storage_delta: the delta flag, the new-content flag, and what to store.
IsDelta(lines, c) == CursorFits(lines, c) /\ c.count < Len(lines)
HasNew(lines, c)  == ~CursorFits(lines, c) \/ c.count < Len(lines)

StorageDelta(lines, c) == IF IsDelta(lines, c) THEN From(lines, c.count) ELSE lines

\* slice_jsonl_for_extraction: the overlap window and what follows it, or all.
ExtractionSlice(lines, c) ==
    IF CursorFits(lines, c)
    THEN From(lines, IF c.count > OverlapLines THEN c.count - OverlapLines ELSE 0)
    ELSE lines

\* load_full_transcript: the chunks from the root to row e, joined.  A row's
\* prev is an older row, so the walk neither breaks nor cycles.
Reconstruct(e) ==
    LET upTo[i \in 0..Len(evidence)] ==
            IF i = 0 THEN <<>> ELSE upTo[evidence[i].prev] \o evidence[i].lines
    IN  upTo[e]

-----------------------------------------------------------------------------
\* The agent's side of the file.

HalfWritten == transcript # <<>> /\ transcript[Len(transcript)] < 0

\* A reader may come between the two halves of a line.
AppendLine ==
    /\ written < MaxLines /\ ~HalfWritten
    /\ written' = written + 1
    /\ \/ transcript' = Append(transcript, written + 1) /\ UNCHANGED torn
       \/ /\ torn < MaxTorn
          /\ torn' = torn + 1
          /\ transcript' = Append(transcript, -(written + 1))
    /\ UNCHANGED <<compactions, faults, calls, storeVars, actorVars>>

FinishLine ==
    /\ HalfWritten
    /\ transcript' = [transcript EXCEPT ![Len(transcript)] = -@]
    /\ UNCHANGED <<written, compactions, torn, faults, calls, storeVars, actorVars>>

\* A summary replaces all but the last lines; the file becomes shorter.
Compact ==
    /\ compactions < MaxCompactions /\ written < MaxLines
    /\ compactions' = compactions + 1
    /\ written' = written + 1
    /\ \E kept \in 0..Len(transcript) - 2 :
           transcript' = <<written + 1>> \o LastOf(transcript, kept)
    /\ UNCHANGED <<torn, faults, calls, storeVars, actorVars>>

-----------------------------------------------------------------------------
\* What the actors share.

Goto(a, place) == pc' = [pc EXCEPT ![a] = place]

\* The call, or a worker's work on one job, is over.
Leave(a, place) ==
    /\ Goto(a, place)
    /\ raw' = [raw EXCEPT ![a] = <<>>]
    /\ cur' = [cur EXCEPT ![a] = NoCursor]
    /\ ev' = [ev EXCEPT ![a] = 0]
    /\ latest' = [latest EXCEPT ![a] = 0]

Return(a) == Leave(a, IF a \in Workers THEN "pick" ELSE "idle")

SetJob(e, state) == jobs' = [jobs EXCEPT ![e] = state]

InState(state) == {e \in DOMAIN jobs : jobs[e] = state}

\* Mutated form: what is stuck gets a state that nothing reads.
RecoverFailed(revived, stuck) ==
    jobs' = [e \in DOMAIN jobs |-> IF e \in revived THEN "queued"
                                   ELSE IF e \in stuck THEN "failed"
                                   ELSE jobs[e]]

\* A recovery moves some rows: which are old enough, or orphaned, is left open.
Recover(revived, stuck) ==
    jobs' = [e \in DOMAIN jobs |-> IF e \in revived THEN "queued"
                                   ELSE IF e \in stuck THEN "dead_lettered"
                                   ELSE jobs[e]]

\* Rows a recovery may take for abandoned: which are old enough is left open.
Stuck == {e \in InState("running") : SlowWorkers \/ \A a \in Actors : ev[a] # e}

\* recover_stuck_running_jobs
RecoverStuck == \E stuck \in SUBSET Stuck : Recover({}, stuck)

-----------------------------------------------------------------------------
\* session_capture, and the first half of session_end.

\* The hook reads the file ...
ReadTranscript(a) ==
    /\ a \in Callers /\ pc[a] = "idle"
    /\ transcript # <<>>
    /\ calls < MaxCalls /\ calls' = calls + 1
    /\ raw' = [raw EXCEPT ![a] = transcript]
    /\ Goto(a, "cursor")
    /\ UNCHANGED <<fileVars, faults, storeVars, cur, ev, latest>>

\* ... then the cursor, and returns if nothing follows it.
ReadCursor(a) ==
    /\ pc[a] = "cursor"
    /\ RecoverStuck
    /\ IF HasNew(raw[a], cursor)
       THEN /\ cur' = [cur EXCEPT ![a] = cursor]
            /\ Goto(a, "store")
            /\ UNCHANGED <<raw, ev, latest>>
       ELSE Return(a)
    /\ UNCHANGED <<fileVars, faults, calls, evidence, cursor, mergeVars>>

\* Mutated form: a delta is chained to the newest row.
NewestEvidence(a) == IF IsDelta(raw[a], cur[a]) THEN Len(evidence) ELSE 0
PrevEvidence(a)   == IF IsDelta(raw[a], cur[a]) THEN cur[a].ev ELSE 0

\* store_evidence: INSERT OR IGNORE under UNIQUE (project, content_sha256), so
\* an existing row is returned with the chain it has.
Store(a) ==
    /\ pc[a] = "store"
    /\ LET lines == StorageDelta(raw[a], cur[a])
           same  == {e \in DOMAIN evidence : evidence[e].lines = lines}
       IN  IF same # {}
           THEN /\ \E e \in same : ev' = [ev EXCEPT ![a] = e]
                /\ UNCHANGED <<evidence, jobs>>
           ELSE /\ evidence' = Append(evidence, [lines |-> lines, prev |-> PrevEvidence(a)])
                /\ jobs' = Append(jobs, "absent")
                /\ ev' = [ev EXCEPT ![a] = Len(evidence) + 1]
    /\ Goto(a, "enqueue")
    /\ UNCHANGED <<fileVars, faults, calls, cursor, mergeVars, raw, cur, latest>>

\* enqueue_extraction, in its own transaction.  session_capture returns here.
Enqueue(a) ==
    /\ pc[a] = "enqueue"
    /\ IF jobs[ev[a]] = "absent" THEN SetJob(ev[a], "queued") ELSE UNCHANGED jobs
    /\ IF a \in Hooks
       THEN Return(a)
       ELSE Goto(a, "observe") /\ UNCHANGED <<raw, cur, ev, latest>>
    /\ UNCHANGED <<fileVars, faults, calls, evidence, cursor, mergeVars>>

\* ack_stage(OBSERVED): a terminal job raises, and nothing catches it.
Observe(a) ==
    /\ pc[a] = "observe"
    /\ IF Terminal(jobs[ev[a]])
       THEN Return(a) /\ UNCHANGED jobs
       ELSE /\ SetJob(ev[a], "running")
            /\ Goto(a, "merge")
            /\ UNCHANGED <<raw, cur, ev, latest>>
    /\ UNCHANGED <<fileVars, faults, calls, evidence, cursor, mergeVars>>

\* replay_job: the transcript is rebuilt and the dead letter queued; then
\* session_end is called with it.  One step, for who loses the row to another
\* replay meanwhile raises and leaves nothing; JobQueue has the steps.
ReplayJob(a) ==
    /\ a \in Enders /\ pc[a] = "idle"
    /\ calls < MaxCalls /\ calls' = calls + 1
    /\ \E e \in InState("dead_lettered") :
           /\ SetJob(e, "queued")
           /\ raw' = [raw EXCEPT ![a] = Reconstruct(e)]
           /\ ev' = [ev EXCEPT ![a] = e]
    /\ Goto(a, "cursor")
    /\ UNCHANGED <<fileVars, faults, evidence, cursor, mergeVars, cur, latest>>

-----------------------------------------------------------------------------
\* process_jobs.

\* Orphans and stale claims are queued, stuck rows dead-lettered, and the dead
\* letters of a time-out replayed.
StartDrain(w) ==
    /\ w \in Workers /\ pc[w] = "idle"
    /\ \E revived \in SUBSET (Stuck \cup InState("dead_lettered")), stuck \in SUBSET Stuck :
           Recover(revived, stuck)
    /\ Goto(w, "pick")
    /\ UNCHANGED <<fileVars, faults, calls, evidence, cursor, mergeVars, raw, cur, ev, latest>>

Claim(w) ==
    /\ pc[w] = "pick"
    /\ \E e \in InState("queued") : /\ SetJob(e, "running")
                                    /\ ev' = [ev EXCEPT ![w] = e]
    /\ Goto(w, "load")
    /\ UNCHANGED <<fileVars, faults, calls, evidence, cursor, mergeVars, raw, cur, latest>>

StopDrain(w) ==
    /\ pc[w] = "pick"
    /\ Goto(w, "idle")
    /\ UNCHANGED <<fileVars, faults, calls, storeVars, raw, cur, ev, latest>>

\* The chain is joined and the cursor read; extraction follows.
Load(w) ==
    /\ pc[w] = "load"
    /\ raw' = [raw EXCEPT ![w] = Reconstruct(ev[w])]
    /\ cur' = [cur EXCEPT ![w] = cursor]
    /\ Goto(w, "merge")
    /\ UNCHANGED <<fileVars, faults, calls, storeVars, ev, latest>>

-----------------------------------------------------------------------------
\* The second half of session_end and process_jobs.

\* The EXTRACTED acknowledgement, and the SELECT that merge_candidates begins
\* with: evidence that has provenance is taken for merged.
Merge(a) ==
    /\ pc[a] = "merge"
    /\ ~Terminal(jobs[ev[a]])
    /\ SetJob(ev[a], "running")
    /\ Goto(a, IF ev[a] \in prov THEN "latest" ELSE "merging")
    /\ UNCHANGED <<fileVars, faults, calls, evidence, cursor, mergeVars, raw, cur, ev, latest>>

\* The lines that the merge at hand is about.
Slice(a) == Lines(ExtractionSlice(raw[a], cur[a]))

\* record_verdict commits, and with its counter whatever was merged before it,
\* on which the rows of event_provenance are.
VerdictCommits(a) ==
    /\ pc[a] = "merging"
    /\ \E done \in SUBSET Slice(a) : merged' = merged \cup done
    /\ split' = split \cup Slice(a)
    /\ prov' \in {prov, prov \cup {ev[a]}}
    /\ UNCHANGED <<fileVars, faults, calls, evidence, jobs, cursor, actorVars>>

\* The merge's own commit.  Without a candidate nothing marks the evidence.
MergeCommits(a) ==
    /\ pc[a] = "merging"
    /\ merged' = merged \cup Slice(a)
    /\ prov' \in {prov, prov \cup {ev[a]}}
    /\ Goto(a, "latest")
    /\ UNCHANGED <<fileVars, faults, calls, evidence, jobs, cursor, split, raw, cur, ev, latest>>

\* The monotonic guard's SELECT, after the MERGED acknowledgement.
ReadLatest(a) ==
    /\ pc[a] = "latest"
    /\ ~Terminal(jobs[ev[a]])
    /\ SetJob(ev[a], "running")
    /\ latest' = [latest EXCEPT ![a] = cursor.count]
    /\ Goto(a, "save")
    /\ UNCHANGED <<fileVars, faults, calls, evidence, cursor, mergeVars, raw, cur, ev>>

\* Mutated form: the tail of the chain is not advanced.
NewCursorOldTail(a) == [count |-> Len(raw[a]),
                        anchor |-> ComputeAnchor(raw[a], Len(raw[a])),
                        ev |-> cursor.ev]
NewCursor(a) == [count |-> Len(raw[a]),
                 anchor |-> ComputeAnchor(raw[a], Len(raw[a])),
                 ev |-> ev[a]]

MayAdvance(a) == Len(raw[a]) >= latest[a]

\* ... and its write, with what is committed by the PROJECTED acknowledgement.
SaveCursor(a) ==
    /\ pc[a] = "save"
    /\ cursor' = IF MayAdvance(a) THEN NewCursor(a) ELSE cursor
    /\ Goto(a, "finish")
    /\ UNCHANGED <<fileVars, faults, calls, evidence, jobs, mergeVars, raw, cur, ev, latest>>

Finish(a) ==
    /\ pc[a] = "finish"
    /\ ~Terminal(jobs[ev[a]])
    /\ SetJob(ev[a], "completed")
    /\ Return(a)
    /\ UNCHANGED <<fileVars, faults, calls, evidence, cursor, mergeVars>>

\* Anything raises, an acknowledgement of a terminal job among it: fail_job
\* gives a live row back or dead-letters it, and raises for a terminal one.
Fail(a) ==
    /\ pc[a] \in {"load", "merge", "merging", "latest", "save", "finish"}
    /\ IF Terminal(jobs[ev[a]])
       THEN UNCHANGED <<jobs, faults>>
       ELSE /\ faults < MaxFaults /\ faults' = faults + 1
            /\ \E state \in {"queued", "dead_lettered"} : SetJob(ev[a], state)
    /\ Return(a)
    /\ UNCHANGED <<fileVars, calls, evidence, cursor, mergeVars>>

\* The process is killed; the next one of its kind starts over.
Die(a) ==
    /\ pc[a] # "idle"
    /\ faults < MaxFaults /\ faults' = faults + 1
    /\ Leave(a, "idle")
    /\ UNCHANGED <<fileVars, calls, storeVars>>

-----------------------------------------------------------------------------
Capture(a) == ReadTranscript(a) \/ ReadCursor(a) \/ Store(a) \/ Enqueue(a)
Foreground(a) == Observe(a) \/ ReplayJob(a)
Drain(w) == StartDrain(w) \/ Claim(w) \/ StopDrain(w) \/ Load(w)
Merging(a) == Merge(a) \/ VerdictCommits(a) \/ MergeCommits(a)
Process(a) == Merging(a) \/ ReadLatest(a) \/ SaveCursor(a) \/ Finish(a) \/ Fail(a)

Next ==
    \/ AppendLine \/ FinishLine \/ Compact
    \/ \E a \in Callers : Capture(a)
    \/ \E a \in Enders : Foreground(a)
    \/ \E w \in Workers : Drain(w)
    \/ \E a \in Actors : Process(a) \/ Die(a)

Spec == Init /\ [][Next]_vars

-----------------------------------------------------------------------------
\* Properties.

\* What a caller stored is what it was given: the chain of the row it got back,
\* which may be an older row of the same content, joins to its transcript
\* (load_full_transcript: "byte-exact reconstruction").
StoredIsWhatWasRead ==
    \A a \in Callers : pc[a] \in {"enqueue", "observe", "merge", "merging", "latest", "save", "finish"}
                       => Reconstruct(ev[a]) = raw[a]

\* A completed job means that every line of the transcript it stands for went
\* through a merge, though it merged only what followed the cursor it read and
\* the file was rewritten meanwhile (cursors.py: "never skip memory").  Excepted
\* are the lines of a merge that committed in part (VerdictCommits): after that
\* its evidence is taken for merged, whether or not it got to the end.
NothingSkipped ==
    \A e \in DOMAIN jobs :
        jobs[e] = "completed" => Lines(Reconstruct(e)) \subseteq merged \cup split

\* The lines that the cursor counts are those of the chain it points at, and
\* each went through a merge, with the same exception.
CursorCovers ==
    /\ Len(Reconstruct(cursor.ev)) = cursor.count
    /\ Lines(Reconstruct(cursor.ev)) \subseteq merged \cup split

\* The evidence is well formed, and every chain gives back what was read from the file.
WellStored == TypeOK /\ StoredIsWhatWasRead
=============================================================================
