# CogniKernel in TLA+

CogniKernel gives a coding agent a project memory: hooks capture the session's
transcript, a worker extracts events (decisions, constraints, abandoned
approaches, threads) from it, a merge folds them into a per-project SQLite
database, and a projection of that database is rendered into the next session.
Beside it, a symbol graph of the code answers reads and searches, and claims are
pushed into prompts and edits.  There is no server that owns the state.
Short-lived hook processes, one MCP server per open session with a background
thread, and CLI processes all open the same database file, and each of them may be
killed at any statement.  That is what the state machines here are about; the long
pure derivations (extraction, the injection block, retrieval, telemetry) are
modelled as operators, checked over bounded inputs and proved for all of them.

Source paths below are relative to `src/cognikernel/` of the repository.

## Inventory

| Component | State | Operations | Interacts with | What makes it correct |
|---|---|---|---|---|
| Worker lock (`integration/session.py`) | a lock file with a pid and an mtime | acquire, take over, heartbeat, unlink | every process that runs `process_jobs` | no two workers but through a race for the takeover; a dead worker's lock never blocks the project |
| Extraction queue (`storage/jobs.py`) | `extraction_jobs`, `extraction_job_acks` | enqueue, claim, ack, fail, reclaim, recover, replay | worker, `session_end`, `session_capture`, `replay_job`, the drainer's poll | no job lost, completed only when merged, bounded retries, terminal rows stay terminal, every row settles |
| Transcript capture (`storage/evidence.py`, `storage/cursors.py`) | `raw_evidence` chain, `ingest_cursors` | slice by cursor, store a delta or a full copy, reconstruct, advance the cursor | capture writes evidence, the worker advances the cursor | what is reconstructed is the transcript; no line is skipped |
| Event store and merge (`delta/`, `storage/events.py`) | `events`, `event_provenance`, `meta` (last decayed session) | insert or bump, fold an echo, supersede, cross-type duplicates, cascade, decay, archive, rebuild | called by the worker and `session_end`, side by side | nothing counts twice, nothing vanishes, links stay acyclic |
| Quality gate (`quality/`) and its counters | `quality_telemetry` | admit, demote, reject, record a verdict | inside the merge | must not disturb the merge |
| Projection cache (`storage/projections.py`) | `state_projections` with a high-water mark | load or rebuild, invalidate | merge invalidates, readers rebuild | a reader never keeps an outdated projection |
| Connection and migrations (`storage/connection.py`, `storage/migrations.py`) | the schema version; which file a directory's store is, a path index | resolve a project, migrate on first use | every process | a version is earned, no row is lost, one store per checkout |
| Full-text index (`storage/fts.py`) | an FTS5 table and its triggers | ensure, backfill, degrade without FTS5 | migrations, retrieval | every event is indexed or nothing is |
| Symbol graph (`symbols/`, `storage/symbol_files.py`, `storage/grep_cache.py`) | nodes, edges, per-file rows, cached searches | discover, scan, parse, apply, stamp, prune, invalidate | worker, session start, write hook | no file in scope lost, no stale search served |
| Read, write and search gates (`integration/lookup.py`, `storage/read_cache.py`, `storage/denied_reads.py`) | per-session outcomes, denials | decide, record, grant a retry | one hook process per tool call | a denial is vouched for by the store and granted on retry |
| Pushes (`integration/query.py`, `integration/hooks.py`, `storage/render_ledger.py`) | the render ledger of a session | block, prompt recall, edit prohibitions | hook processes side by side | nothing is shown twice, what is recorded was shown |
| Projection rendering, compression, injection (`storage/consolidate.py`, `compression/`, `injection/`) | none of its own | group, weigh, fill a budget, route, render, cut | session start | whose word a block shows; the budget |
| Queries and explanations (`retrieval/hybrid.py`, `integration/explain_recall.py`) | none | fuse rankings, gate, cap, explain | prompt hook | the explanation is what the hook does |
| Extraction pipeline (`extraction/`) | none | candidates, patterns, co-capture, classify, retype, mention, augment | worker | each reply, fact and file once, with its force |
| Telemetry (`telemetry/`) | `api_telemetry` | ingest, upsert, statistics, bypass report | session end, CLI | cost counts each response once |
| Embeddings, Codex rollouts, command line and configuration | background model; captured files; settings | | | see "Not modelled" |

The hard behaviours: Python's `sqlite3` starts a transaction at the first
INSERT or UPDATE and not at a SELECT (nor at `with conn:`), so every
check-then-write is two steps; processes are killed between statements (hook
time-outs, closed sessions); the only mutual exclusion between workers is a
file; three recoveries with three grace periods compete with live work; work is
retried and replayed, so every effect must be safe to repeat; and what a
process read from the cursor, a cache, the index or the projection is stale by the
time it writes.  `PROJECT.json` lists the hazards at their lines.

## Modules

Composition: `JobQueue` EXTENDS `WorkerLock` and implements `JobLifecycle`;
`ReadGate` EXTENDS `SymbolGraph`; `Push` EXTENDS `Retrieval`; `Block` EXTENDS
`Skeleton`.  The MC modules join components that rest on each other's state, or
that have none, into one run, as suites told apart by the initial state: in each
behaviour one suite works while the variables of the others rest.

Where a definition is followed by a comment "mutated form", that line is a plausible bug of
the code beside it: the property that covers the definition was seen to fail with
the mutated form in its place.  A combined invariant (such as `TheRightVoice`)
has one mutant in `PROJECT.json`; each of its named parts has such a form of its
own beside the definition it guards.

**WorkerLock** models `_acquire_worker_lock`, the heartbeat and the `finally`
of `process_jobs`.  `lockFile` is the file (absent, or whose pid and whether the
pid is in it), `lockOld` its mtime against `stale_after_s`, `lockPc` where each
worker is, `alive` the pids that exist.  `CreateLock`/`WritePid` are the two
system calls of the exclusive creation, `InspectLock`/`TakeOver` the read and
the overwrite of the takeover.  `Kill` and `LockAges` are the environment.  A pid
is never reused.  The history `contested` says that the lock can no longer be
counted on: two workers were about to take it over on what each had read, or a
live holder went fifteen minutes without a heartbeat.

**JobQueue** models the table and everybody who writes it.  Variables of the
row: `jobState`, `attempts`, `failure`, `claimedBy`, `age` (how many of the three
grace periods `updated_at` has outlived).  `prov` is the provenance marker the
merge guard reads, `merges` a history counter, and `shared` the history of the
jobs that were ever in two hands: two attended to one at once, or its row moved
while somebody attended to it.  Each worker and each foreground
call has `pc`, the job in hand, the stage it is about to acknowledge and what it
read (`seen`, `found`).  There is one action per statement or transaction, and a
SELECT that decides a later write is an action of its own (`AckCheck` /
`AckWrite`, `FailRead` / `FailWrite`, `PickJob` / `ClaimJob`, `ScanOrphans` /
`RequeueOrphans`, `ListDeadLetters` / `ReplayTimeout`, `MergeGuard` /
`MergeCommits`).  Left open: which claimable row is oldest and which dead
letters are the most recent (both arbitrary); the candidates of a job are
reduced to its `Shape`, which says where the merge commits.

**JobLifecycle** is the abstract specification: the legal moves of a row that was
never shared.  `JobQueue!MonotoneTransitions` is its refinement.

**TranscriptCapture** models one session's transcript on its way into memory.
`transcript` is the JSONL file, which the environment appends to (`AppendLine`, in
two halves with `FinishLine`) and rewrites (`Compact`); `evidence` is
`raw_evidence`, each row with its lines and its predecessor; `cursor` is the
session's row of `ingest_cursors`, whose anchor hash is modelled by the lines
hashed; `jobs` is the state of each evidence's job, `prov` which evidence has
provenance, `merged` a history of the lines that reached a merge, `split` of the
lines of merges that committed in part.
`ReadTranscript`, `ReadCursor`, `Store`, `Enqueue` are `session_capture` (and the
first half of `session_end`), `Observe` and `ReplayJob` the foreground, `StartDrain`,
`Claim`, `Load` the worker, `Merge` (the guard), `VerdictCommits`, `MergeCommits`,
`ReadLatest`, `SaveCursor`, `Finish` and `Fail` what both end with.  Each actor carries what it read (`raw`, `cur`, `ev`, `latest`).
The queue is coarse here: `JobQueue` has it statement by statement.

**EventStore** models `execute_merge` over the rows of `events`.  A statement is an
event type with a normalised description, which is what the content hash
identifies; constants say which statements overlap, echo each other, share a
subject or hand work over.  `Capture` stores evidence and `Extract` hands its
candidates, stamped by a clock, to one of the `Mergers`, the workers and the
foreground.  A merge is its reads and its transactions: `Guard` (the SELECT of the
provenance), `Look` (the search for an echo of the first candidate of the next
transaction, or whether a decay is due when nothing is left), `Write` (that
candidate with what was found, the ones after it up to the next verdict that
commits, and after the last one the decay) and `Finish`; it may be abandoned at each
of them.  Inside one transaction the store does not change, so the loop over its
candidates is one operator: gate, dedup or resurrection, echo, supersession in both
directions, cross-type duplicates, cascade, provenance.  Histories: `times` each
evidence was merged, `raced` (two were let through by the guard together) and `missed`
(the echoes that a search missed because somebody committed after it).
`MarkSuperseded` and `MarkArchived` are the API.  The loops over the rows of a query
go by id, as SQLite returns them without an ORDER BY (`WithId`), with the body of each
loop as an operator of its own (`Settle`, `Review`, `MergeCandidate`).

**ProjectionCache** models `load_or_rebuild` against merges and `cognikernel
reset`.  `events` is the table, an id being a position; an event is fresh (live,
never archived), revived, archived, superseded or deleted, and has a revision.
`row` is the row of `state_projections`: its mark, and the events and revisions it
was built from, which stand for everything rendered.  A reader's SELECTs and its
save are actions of their own (`ReadMark`, `ReadMax`, `LoadRow`, `ReadEvents`,
`SaveProjection`); a merge is one transaction (`MergeCommits`) or stops at the
commit of a gate verdict (`MergeCutShort`).  What a merge changes is left open.

**Migrations** models `run_migrations` (bootstrap of `meta`, the numbered chain with
its foreign-key switch, the projection format) and `ensure_fts` (availability,
triggers, backfill), statement by statement, in processes that race and may be
killed.  A migration is what happens when it is run again: it succeeds, collides
with its own column (`Adds`), or deletes children when keys are enforced (`Rebuilds`).

**ProjectStores** models which store a directory resolves to: `resolve_project_id`
with the root cache, the store of the repository's root, the directory's own, the
equivalent by recorded path through the path index, and `init_project` recording
the path; the user may run `git init` at any time, a process may be killed with
its store open.

**SymbolGraph** models discovery, the scan, the parse, the update and the stamp of
a pass, the prune of a full scan, the one-file pass of the write hook, and the grep
cache, against files that change meanwhile.  The cache compares filters and paths as
strings; a search says how its filters are written (relative, otherwise, not at all; a
plain name or a pattern) beside the files it covers.  **ReadGate** adds the decision on a
read (`reread`, `gate`, `stat`, `check`, `clear`, `record`: one action per query or
commit), the denials with their retry window, and the PostToolUse record.
**Push** has a session's hooks (block, prompt, edit) reading the ledger, choosing,
recording and printing, with time-outs, kills, a failing ledger write and compaction.
**Retrieval** is rank fusion, the dual-evidence gate of the prompt recall and its
cap, and `explain_recall`.  Hits are sets here, ordered by `Before` (score, then id).

**Skeleton** and **Block** model the way from the live claims to the block:
component collapse, `consolidate_by_key`, composite weights, `greedy_fill`,
routing, section budgets, thread selection, the two rounds of dropping, the
skeleton's degradation, and the ledger rows.  A list of claims is the set of them
here, and each `sort` of the code a relation (`Precedes`, `ThreadPrecedes`, `Outranks`);
the loop of `greedy_fill` over a sorted list is `Admit`, the one set in which a claim is
exactly when it fits after the members ahead of it.  **Extraction** models the pipeline in
every mode, with the head giving no answer from any sentence on, or raising (`HeadRaises`,
which ends the extraction): the actions are the stages of
`_extract_session_impl`, `events` what it holds between them.  A list of events is the set
of them, each with its `place`: the kind of event, the sentence, and where in it.
**Telemetry** models the agent writing a JSONL line by line, ingestion at any moment
and the reports.  A count of the code (responses, denied calls, blind edits) is the
number of the lines or calls that it counts.

**MCJobQueue, MCQueueSuites, MCTranscriptCapture, MCEventStore, MCProjectionCache, MCMigrations,
MCHooks, MCDerive** give TLC its instances.  **JobQueue_proofs** (with WorkerLock),
**ProjectionCache_proofs, Migrations_proofs** (with ProjectStores), **TranscriptCapture_proofs,
EventStore_proofs, ReadGate_proofs** (with SymbolGraph), **Push_proofs** (with
Retrieval) and **Derive_proofs** (Block with Skeleton, Telemetry, Extraction) hold the
theorems.

## Runs

| Run | Instance | What it shows |
|---|---|---|
| `queue` | three suites: a drainer and a CLI worker, 2 jobs; these and a foreground call, 1 job; 3 workers at the lock, 2 kills, slow ones among them; else 1 kill, busy database, 2 attempts, 2 claims | types, no job completed unmerged, claims attributable, bounded retries and one merge per evidence and the refinement of `JobLifecycle` for a row never in two hands, poison stays dead, workers overlap through a race only |
| `settle` | 2 workers, 1 kill, a foreground call that may die, fairness | every row reaches its end |
| `partial_merge` | 2 workers, 1 kill, 2 jobs | `CompletedMeansMerged` fails: half a merge completes |
| `capture` | two suites: a hook and a worker over 4 lines with a half-written one; these and a `session_end` or `replay_job` over 3 lines with a slow worker and a merge that commits in part; 1 compaction, 1 fault each | the chain is exact; no line is skipped and the cursor counts none that was not merged, but for what a merge cut short after a verdict's commit left behind |
| `projection` | 2 fair readers, 2 events, 3 merges, 1 reset, 1 kill | a trusted projection lacks no live event that was never archived, is exact until a commit falls into a load, and in the end shows every such event for good |
| `merge` | 13 statements in three topics, 2 sessions, 2 processes, 3 captures, 3 calls, 1 failure | links acyclic; evidence merges twice, and two echoes are live, through the named races only; handoffs give way to handoffs only, commitments stay on show |
| `open` | two suites: 2 processes (one without FTS5), a chain of 4 with one of each kind, any old version, 2 events, 4 starts; 2 users over a root, a package and a second mount, 4 opens | versions are earned, links survive, only a race makes a start raise, projections and index agree with the events, a checkout keeps its store |
| `open_race` | as `open` | `StillOpens` fails: a start that read an old version sets it back and wedges the store |
| `store_shared` | as `open` | `ProjectsStaySeparate` fails: the root's work goes to a package's store |
| `hooks` | five suites: scans of 2 files with a cap of 1; searches with every kind of filter and writes; 2 racing calls over a file; 2 overlapping passes under a read; 3 pushes over 3 claims | no file in scope pruned, no stale search without a cause, denials vouched for and granted on retry, nothing denied unread, no claim pushed twice, the ledger explained |
| `derive` | four suites: blocks of 1 to 4 claims; all prompts over 3 claims; transcripts of 1 to 4 sentences in every mode; sessions of 2 or 3 responses | whose voice a block has, what fits is not left out, what is shown is shown once; recall gated and truly explained; extraction complete and with its force; cost counted once per response |
| `grouping_evicts` | as `derive` | `GroupingNeverEvicts` fails: grouping pushes a topic out of the budget |

The bounds, and why they are enough.

* Queue.  `MaxCrashes` kills, `MaxAttempts` 2 (one retry and one dead letter; 3 in
  the code), `MaxJobs` 2 claims in one drain (both budgets, exhausted and not; 50 in
  the code).  Two workers are enough for a race on a row; two jobs, one of each shape
  that matters ("plain", "gated"), let one be retried while another is claimed.
  Two takeovers of one lock need a third worker: the suite "lock" has three, two of
  which may be killed, and overlaps are reached in it.  In the suites that drain, the
  third is killed before anything starts and nobody outlasts a grace period; a
  foreground call and a recovery are enough to put a row into two hands.  Deadlock is
  not checked in any run: with every row settled and nobody calling, the system rests.
* Capture.  `AnchorLines` and `OverlapLines` are 1 (5 and 20 in the code): the
  anchor must not be longer than the overlap, and one line of each is enough to
  have files in which the cursor's position lies inside, at the edge of and beyond
  a rewritten part.  Three lines and one compaction give a chain of two chunks, a
  rewrite under a held cursor and growth past it; the fourth line is one more chunk.
  One merge commits in part, with at most the first line of its slice.
* Projection.  An id is only ever given once, so two events suffice: one the row has,
  and one above the mark or retired.
* Merge.  Each topic of `MCEventStore` gathers the statements that can affect each
  other (a decision with an echo and a change; a rule, a dead end and an abandoned approach; a
  thread with its handoffs and a blocked component), so a run keeps to one topic.
  Two processes race, over one piece of evidence or with an echo each.
  Three captures of two sessions are what it takes to restate, supersede, let decay
  and resurrect a statement; a weight decays to the threshold in two steps.
* Open.  A chain of four has a migration of each kind in the order that matters: a
  collision (005) below a rebuild (018).  Two processes race; a third start after
  both finds what they left.
* Hooks.  One file is enough for every race over a row, a second for the cap, the
  prune and a filter that covers both.  Two calls race over one denial.
* Derive.  The claims come from nineteen shapes chosen so that each rule (authority,
  age, key, text, subject, path, budget) tells at least two apart, and small
  budgets make each cut happen.  Three sentences put a reply between two
  statements of the user; the head fails before each of them.

Fairness.  `Drain(w)` and `Process(a)` are weakly fair because a process that is
not killed keeps running and the drainer thread polls every 15 seconds for
ever; a foreground call that was started goes on; rows and files age because
time passes.  Nothing makes a user call `session_end`, a hook capture, or a
process die.  `settle` assumes `BusyDatabase = FALSE`: a database that is locked
for ever lets nothing settle.  In `projection` each reader's
`LoadOrRebuild` is weakly fair: a load that was started goes on, and every session
start and query loads the projection again; nothing makes a merge happen.

## Proofs

For every number of workers, jobs and foreground calls, any number of kills and
any delays:

* `LockTypeCorrect`, `TypeCorrect`: the type invariants.  The queue's includes
  that an actor at a step of a job has a job in hand, without which `FailRead`
  would read a row that does not exist.
* `OverlapAlwaysRaces`, `QueueOverlapRaces`: `OverlapNeedsRace`, of the lock alone and of
  the workers that drain.  `LockInv` says that until the lock is contested whoever is
  past it lives and has its own fresh file, and who takes it over is alone.  Every
  step of the queue is a step of the lock (`QueueStepIsLockStep`).
* `CompletedCorrect`: `CompletedWasMerged`.  The inductive invariant `MergeInv`
  adds why: an actor about to acknowledge a stage after the merge has a job whose
  merge is durable, and a provenance marker is only ever left by a merge.
  `MergedStays` is the lemma that no step undoes a merge.
* `ClaimantCorrect`: `ClaimNamesClaimant`, with "a row that does not exist yet has
  no claimant".
* `RepeatsAlwaysBounded` and `QueueRefinesLifecycle`: `RepeatsAreBounded` and the
  refinement `MonotoneTransitions`.  `HandInv` says what an actor may rely on of a job
  that was never shared: the row is in flight, the attempts it read are the row's,
  what it merges was never merged, and nobody else attends to it.  An actor
  that takes no step keeps it (`HandFrame`), because what moves the row in
  somebody's hands makes the job a shared one.
* `PoisonAlwaysStaysDead`: `PoisonStaysDead`.  `PoisonInv`: until two workers overlap or a
  foreground call is made, the letters on a worker's list have timed out and no
  poisoned job is in anybody's hands.  It needs `OverlapNeedsRace`: the list was read
  before, and only the lock keeps another worker from acting on it meanwhile.

For every number of readers, events, merges, resets and kills:

* `ProjectionTypeCorrect`, and `NothingMissingCorrect`: `NothingMissing`.  The
  inductive invariant `CacheInv` says that a fresh event missing from what a
  reader is about to save is younger than all the reader has (`ReadCovers`), so that
  after the save it lies above the mark (`RowCovers`), where MAX(id) finds it.
  It rests on `GreatestExists` (a bounded set of ids has a greatest element, by
  well-founded minimality, as induction is not available) and on `EventsGrow`
  (no merge makes an event fresh under an old id).
* `QuietIsCurrent`: `TrustedIsCurrent`, as long as no writer commits during a load
  or half way (the history variable `overlap`); without that, a save overwrites an
  invalidation.

For every set of processes and every chain of migrations, killed anywhere and
racing in any way:

* `VersionAlwaysEarned`: `VersionIsEarned`.  `ChainInv` says that whoever is about to
  run a file has a store in which all the files before it have run, whatever
  the version says meanwhile; the version alone is not inductive, because a race
  sets it back.
* `LinksAlwaysSurvive`: `LinksSurvive`, from "keys are off exactly while a process
  is in the chain".
* `AloneAlwaysSucceeds`: `AloneSucceeds`, from "a store never opened twice at once
  holds exactly its version's migrations", so that the next file cannot collide.
* `StoreAlwaysConsistent`: `StoreIsConsistent`, from `HangingInv`: an index
  is announced only by a process that laid its triggers, and what was inserted
  before is what the backfill adds.

For every number of hooks, foreground calls and workers, any appended, half-written
and compacted transcript, and any faults (TranscriptCapture):

* `AlwaysWellStored`, `NothingEverSkipped`, `CursorAlwaysCovers`: `WellStored`,
  `NothingSkipped`, `CursorCovers`.  The argument is about what a file leaves
  behind (`Snapshots`): a new line is new and a compaction only moves lines to the
  front, so two snapshots that have a line at one position agree before it
  (`Agree`).  `StoredInv` says that each chain joins to a snapshot, `MergedInv` that
  whatever the cursor counts or provenance marks was merged, or lay in a merge that
  committed in part, and that a worker's copy of an older cursor still cuts no other
  line off.
For every set of statements, batches and sessions, any number of processes whose guards,
searches and commits interleave, any retries, failures and calls of the API
(EventStore):

* `AlwaysWellFormed`: `WellFormed`.  The chain of a row is the least closed set around
  it (`ChainProperties`: the walk over as many steps as there are rows reaches
  everything, by a pigeonhole on its growth).  A link from x to y is set only if x
  is not on y's chain, so that chain is a closed set that separates them, and so
  it is afterwards for every other link (`AcycBySeparation`).
* `AlwaysCountsOnce`, `LiveEchoAlwaysRaces`, `HandoffsAlwaysStand`,
  `CommitmentsAlwaysStand`: `CountsOnce`, `LiveEchoNeedsRace`, `HandoffsStand`,
  `CommitmentsStand`.  One inductive invariant carries them, `StoreInv`: the table is
  `Sane` (linked, no two live echoes but the missed pairs, what is linked to its own
  session's evidence only was counted once, handoffs linked to handoffs, protected rows
  not archived); what a process found in its search still holds, unless somebody has
  committed since (`Found`); and what was merged twice, or will be, two had let through
  the guard together (`Tally`).  Every write keeps a table sane (`RelinkedSane`,
  `TouchedSane`, `InsertedSane`) and so does every loop (`CrossTypeDedupLinks`,
  `CascadeSane`, `CandidatesSane`, `DecaySane`), by `LoopInduction`.  That a revival makes
  no two echoes live is because a merge looks for an echo before it looks for the
  hash: a row comes out of the archive only when no live row echoes it.
  `StoreAssumption` has what is assumed: handoffs are open threads, what a cascade
  adds is a component's status and echoes nothing because it has no description,
  statements are finitely many.

For every set of files, passes, cached searches, sessions and calls (SymbolGraph and
ReadGate):

* `InScopeAlwaysKept`, `SearchesAlwaysSound`: from `GraphInv`, which says what a pass at
  each of its steps may be doing (`PassIsOrderly`).  A search whose filter is an
  absolute path, or a pattern, no write ends: that is one of the causes the
  property names (`Unmatchable`).
* `ReadsAlwaysSound`, `RetryAlwaysGranted`: from `CallInv`, which says what a call has
  been told so far and that a denial's time is the one its promise was given at.
* `DenialAlwaysVouched`: from `VouchInv`.  A pass that holds a file which nothing
  has stirred since has parsed what the file holds (`KnowsUnstirred`); so a row
  that is later than the file's mtime has the file's version (`FileVouched`).

For every set of claims, prompts, topics and hooks (Push and Retrieval):

* `PushesAlwaysExplained`, `NothingEverRepeated`: from `PushInv`, which tells the hooks
  that hold a claim by whether their write of the ledger went through.
  `FloorGoesFirst` is the lemma about the choice of prohibitions.
* `RecallAlwaysSound`: `RecallIsSound`, for any rankings.  The fused score is a sum of
  fractions; `AxesAdd` and `FractionsOrdered` show that it respects both axes and
  orders the claims, so that a cut keeps what is better (`CutKeepsTheBetter`).

For every set of users, mounts, directories and kills (ProjectStores):

* `StoresAlwaysFound`: `StoresAreFound`.  What the shared index holds of a store is its
  place, or that it was not told yet; of two stores of a place one was begun while
  the other was unfinished.

For every set of claims and files, and any budgets (Block and Skeleton).  A project is
assumed to have finitely many claims and files, each claim with an id of its own and
each file with a path and a place of its own, counts and sizes that are naturals
(`IsProject`), and its spellings of paths to contain their canonical form:

* `BlockSpeaksRight`, `BlockKeepsBudget`, `BlockShowsOnce`: `TheRightVoice`, `WithinBudget`,
  `ShownOnce`.  One inductive invariant, `SessionInv`, says of each stage what the stages
  after it rely on: the projection is made of the claims of the store and one claim
  speaks for a group (`IsProjection`), the fill is of the projection (`SelectedFrom`), the
  block is of the fill (`GoodBlock`).
* The arguments under it are about loops and sums.  `FillOf`: what a zone of
  `greedy_fill` admits is what fits after everything ahead of it in the order, so a claim
  left out did not fit, and one of the user's that was left out is larger than every
  later one taken in its place.  `RenderedOf`: routing, the section budgets and the
  backstop take away and never add, and each loop of the backstop ends with a block
  that fits or with nothing left to drop.  `SumByGroups`: adding up mentions by group
  and then over the groups loses none.
* `Sums`, `SetInduction`, `FirstExists` and `LastExists` are the lemmas these rest on.
  Induction over sets is not available; they come from the least element of a set of
  naturals, applied to the sizes of the sets for which the claim fails.

For every conversation of any length (Telemetry):

* `CostAlwaysSound`: `CostIsSound`.  `TelemetryInv` has two parts: the file holds
  the first blocks of the conversation in order, each response's last line with its
  usage, and results of denied calls only (`FileIsPrefix`); the row is none, a legacy one
  or a report within the conversation's responses, and the report of the whole file when
  nothing was written since (`RowIsReport`).  In a complete file every response has one
  counted line, so that counting lines of a class counts the responses of that class.

For every transcript, mode and behaviour of the head, and any diff (Extraction).  It is
assumed that the roles are the user's and the assistant's, that the marks are those of `Marks` and
that a signal's confidence is between 0 and 1 (`IsTranscript`):

* `ExtractionAlwaysSound`: `ExtractionIsSound`, all seven of its parts.  The inductive
  invariant `ExtractionInv` gives the events of each stage as a function of the transcript, and
  so leaves the parts to lemmas about these functions.  The rules, the head and git
  retype, re-score and mark an event but leave what it `Tells`, so that a list keeps
  its order (`InOrder`), each reply in it once (`RetoldAnswers`) and everything it had
  (`RetoldKeeps`), which is why an outage loses nothing.  Two replies share no
  sentence because the later one's question would lie within the earlier one
  (`RepliesApart`).  A file or a key that is suppressed as a repetition was reported by the
  first that said it (`MentionFound`, `KeyFound`).

Only model-checked: liveness (`EveryJobSettles`, `EventuallyShown`), which the provers
do not reach.  Every other property of a passing run is stated by a theorem.  The
properties of the runs that end in a violation are refuted and have no theorem.

Several properties name the race or the commit that excuses them (`contested`, `shared`,
`split`, `raced`, `missed`, `Unmatchable`, the head's retyping).  Each is a history or a
condition that the code's own steps produce, and TLC reaches each of them: without
the exception the property fails, as the next section tells.

## Seen while modelling

Besides the runs that end in a violation (listed under `findings` in
`PROJECT.json`), the models and the reading of the code showed behaviours that a
reader should know.  Those marked (TLC) are the shortest ways in which a property
fails when its exception is left out; the others were read off the code.

Queue, capture and projection:

* Two workers can take over one orphaned lock: the pid is read (`session.py:378`)
  before the file is overwritten, and `session.py:341` says one worker per project (TLC:
  three workers, one kill).
* `ack_stage` writes by id: when a foreground call and a worker share a row, one
  completes it and the other's acknowledgement sets it running again
  (`jobs.py:173`), a move `jobs.py:25-27` excludes (TLC).
* A foreground call may revive a timed-out letter and fail it on its merits while it is
  still on the list of a worker, which then revives it as timed out (`session.py:452`).
* A verdict's commit (`quality_telemetry.py:37`) in a merge whose process then dies
  leaves provenance; the retry skips the evidence and the cursor passes lines
  that were never merged, though `session.py:167` advances it "only after a
  successful merge" (TLC).
* The cursor's guard reads in one statement and writes in another
  (`session.py:171`); a foreground call can set the cursor back below what a worker
  has committed, against `session.py:168-170` (TLC).  What it then counts is merged.
* Two `session_end` calls after a compaction: the second acknowledges a completed job.
* `replay_job` goes through `session_end`, which cuts the transcript at the present
  cursor; if the cursor moved, the replay works under another evidence and job
  and the revived row stays queued for the drainer.
* Once the newest event is superseded or archived, the mark saved with a
  projection stays below MAX(id), and every load rebuilds.
* A rebuild that read the events before `cognikernel reset` may save them after it;
  MAX(id) of the empty table counts as 0, so the row is trusted.
* A resurrected event has an old id: if a save overwrites the invalidation
  (`projections.py:57`), it stays out of the projection until the next merge.

Event store:

* The guard of a merge reads before its transaction (`merge.py:135`): a worker and a
  foreground call with the same evidence in hand both merge it, though `merge.py:131-132`
  calls provenance a marker "with no crash window" (TLC).
* The search for an echo reads before the write (`merge.py:172`): two processes can each
  leave one of two echoes live, which `merge.py:169-170` means to prevent (TLC).
* `rebuild_from_raw` extracts each row from its own delta, without overlap and git
  diff (`session.py:934-950`), so the events can differ from the original run's,
  which `session.py:838-840` calls identical.
* Evidence whose candidates are all rejected leaves no provenance, so the guard of
  `merge.py:132` does not recognise it and a retry gates it again.
* A restated fact that had been superseded stays hidden; a restatement keeps the
  first statement's authority (`merge.py:316`, against `supersede.py:237`).
* A hard rule superseded by a decision is no longer protected and decays.
* A resurrected row below the threshold is archived again in the same merge.
* Evidence that is retried late may supersede a newer thread, and a row restated in a
  transcript may be superseded within it.
* A cascade whose event exists bumps it within the session and does not un-archive it.
* Only the last decayed session is remembered, so two sessions merged alternately
  decay each time (`merge.py:423`), not once per session (`decay.py:10`).

Opening a store:

* A process without FTS5 cannot insert events once another has laid the triggers,
  although `fts.py:12-15` promises to degrade.
* A long-lived server keeps the root it cached before `git init`; a store of a
  subdirectory is abandoned when one of the root appears; a directory of a git
  repository never matches its own alias, as the recorded path is the root.
* The index may cache a missing key while the new store's path is only in its WAL; a
  kill before the first checkpoint then leads another mount to a second store.

Hooks:

* `refreshed_at` is later than the parse (`store.py:76-92`), so a change between the
  two is vouched for (`lookup.py:149-153`).
* The reread denial says "its content is in your context" after a compaction or an
  edit by another tool too (`lookup.py:119`).
* A ledger row is committed before the prompt hook prints; after a time-out the
  claim was never shown and is not pushed again.
* One axis alone can pass the dual-evidence gate (`query.py:295-296`): with both axes live, a
  claim the other did not rank passes on its terms, which `query.py:260-263` calls
  insufficient evidence (TLC).
* A file that parses to nothing keeps its old nodes and row; a scan never deletes files it
  did not discover; hooks index ignored files; discovery tests the absolute path's parts
  against the skip list and the prune the relative one's.
* Absolute path filters, `.` and globs never match when a search is invalidated
  (`grep_cache.py:97-103`, TLC), and only the agent's own writes invalidate one.
* The block says "Files NOT in the skeleton are allowed" (`template.py:289`); the gate
  denies every scanned file.

Block:

* The greedy fill keeps what the user stated (`greedy.py:17-20`), the section budgets
  drop by weight alone (`template.py:217`): a decision of the user goes before a heavier one
  of the assistant (TLC).  The final cut pops the tail of a list that has what the user
  stated first and then goes by id (`template.py:507`, `541` say lowest weight).
* After a section drop, decisions are rendered lightest first; popping one can bring back
  one that the section budget dropped; duplicates are filtered before the section
  budgets; an answer suppressed by a confirming event disappears with it.
* The skeleton never refills with a smaller file.

Extraction and telemetry:

* When the head drops out in the middle of the filter modes, what it retyped stays
  retyped (`pipeline.py:450`): a hard rule may be gone from what the keyword
  classifier takes over, against `pipeline.py:417-418` (TLC).  What the head raises ends the
  extraction (`pipeline.py:201`), although `config.py:25` says that all head paths fail open
  (TLC).
* On a CREATE line the column pattern matches `create` itself, so a key declared there is
  never decided (`schema_decisions.py:104`, against line 99; TLC).
* A head may retype a co-captured answer as an open thread, which
  `session.py:770-773` calls unreachable.
* `_find_next_assistant_start` finds no reply if the matched user sentence is
  followed by two more of the same turn.
* A file mention has the status of its first mention; the broad modes return
  before the git diff; some patterns fire on questions; only the first money column of a
  table becomes a decision.
* A denied read counts as a prior read in `analyze_bypass`, a call once denied counts
  as retried for ever, and the whole-session rollup includes legacy rows.

## Not modelled

* Text heuristics: the tokenizer, the trie, regular expressions, similarity, the
  tree-sitter and Python extractors, SQLite's tokenizing and ranking.  Their outcome is
  an input of the models: a trait of a statement, a mark of a sentence, a ranking, a
  set of symbols.
* Embeddings: a background model load and nearest neighbours over floats, optional
  and best effort; the dense ranking is an input of Retrieval.
* Codex rollouts (`integration/codex_sync.py`): planned, the sync's scan-and-capture loop.
* The command line, installation and configuration; `why`, `as_of`, resources and
  health checks, which only read; the write-time suggestion and its cache; the
  wording of what is rendered and the CKL format.
* In TranscriptCapture: other sessions of the project (whose evidence could be
  returned for equal content: lines carry a session's own ids), the git diff stored
  beside a transcript, blank lines and line endings, and a reset during capture.
* In ProjectionCache, the lazily derived decision keys; in JobQueue, the
  acknowledgement rows, which nothing reads back, and a `get_connection` that
  raises inside an exception handler of `process_jobs` (the worker leaves, its row
  is found by the ten-minute recovery).
* In EventStore: `rebuild_from_raw`, which is a replay of merges of what it extracts anew, and `insert_event`, `update_weight`, `detect_supersession` and the
  stand-alone `apply_decay_pass`, which the program never calls.
* In ProjectStores: an explicit `project_identity`, pragmas and file permissions.
* In Telemetry: token sums, the whole-session rollup and the render cost.

## Plan

Codex rollouts and the write-time suggestion are what is left to model.
