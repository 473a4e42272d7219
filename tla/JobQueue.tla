------------------------------ MODULE JobQueue ------------------------------
(***************************************************************************)
(* The durable extraction queue and everyone who works on it.              *)
(*                                                                         *)
(* storage/jobs.py keeps one row per captured evidence in the table        *)
(* extraction_jobs.  integration/session.py drives the rows: a worker      *)
(* (process_jobs, in the MCP server's drainer thread or a CLI process)     *)
(* recovers, claims and processes them under the single-flight lock;       *)
(* session_capture only enqueues; session_end enqueues and processes in    *)
(* the foreground, without the lock; replay_job revives a dead letter and  *)
(* runs session_end on it.                                                 *)
(*                                                                         *)
(* Atomicity.  Python's sqlite3 opens a transaction at the first INSERT or *)
(* UPDATE, not at a SELECT, and not at `with conn:`.  A SELECT is a step   *)
(* of its own and what follows it up to the next commit is another, so     *)
(* every check-then-write of the code is two steps here.                   *)
(*                                                                         *)
(* What a job's candidates are is abstracted to the job's shape: what the  *)
(* quality gate says of them decides where a merge commits.  The ingest    *)
(* cursor and the evidence chain are the subject of another module.        *)
(***************************************************************************)
EXTENDS WorkerLock

CONSTANTS Jobs,         \* the rows extraction_jobs may come to hold
          Enders,       \* processes that run one session_end or replay_job
          NoJob,        \* no job in hand
          NoOne,        \* claimed_by IS NULL
          MaxAttempts,  \* max_attempts of a row (3)
          MaxJobs,      \* max_jobs: claims one process_jobs call may try (50)
          TimedWorkers, \* workers started by hand: the CLI's, with a time budget
          BusyDatabase, \* may the database stay locked beyond the busy time-out?
          Shape         \* what the gate makes of each job's candidates:
                        \*   "empty"     there are none
                        \*   "rejected"  it rejects every one
                        \*   "plain"     no rule fires after an admitted one
                        \*   "gated"     a rule fires after an admitted one

ASSUME QueueAssumption ==
    /\ MaxAttempts \in Nat \ {0}
    /\ MaxJobs \in Nat
    /\ BusyDatabase \in BOOLEAN
    /\ Shape \in [Jobs -> {"empty", "rejected", "plain", "gated"}]
    /\ NoJob \notin Jobs
    /\ NoOne \notin Workers
    /\ Enders \cap Workers = {}

Actors == Workers \cup Enders

VARIABLES jobState,   \* extraction_jobs.state; "absent" before the row exists
          attempts,   \* extraction_jobs.attempts
          failure,    \* extraction_jobs.failure_class
          claimedBy,  \* extraction_jobs.claimed_by
          age,        \* how many grace periods updated_at has outlived
          prov,       \* event_provenance has a row for the job's evidence
          merges,     \* history: merges of this evidence that ran to the end
          pc,         \* where each actor is
          job,        \* the job an actor has in hand
          stage,      \* the stage an actor is about to acknowledge
          seen,       \* attempts, as an actor read it in fail_job
          found,      \* the rows a worker's recovery scan returned
          budget,     \* claims a worker's process_jobs call may still try
          shared      \* history: the jobs that were ever in two hands (Shares)

rowVars   == <<jobState, attempts, failure, claimedBy, age>>
mergeVars == <<prov, merges>>
actorVars == <<pc, job, stage, seen, found, budget>>
stepVars == <<lockVars, rowVars, mergeVars, actorVars>>
vars == <<stepVars, shared>>

JobStates == {"absent", "queued", "claimed", "running", "retryable_failure",
              "dead_lettered", "completed"}
TerminalStates == {"completed", "dead_lettered"}
FailureClasses == {"none", "EXTRACTOR_BUG", "TIMEOUT"}
Stages == {"OBSERVED", "PARSED", "CLASSIFIED", "MERGED", "PROJECTED", "COMPLETED"}
Places == {"idle", "orphans", "requeue", "stale", "stuck", "deadlist", "replay",
           "pick", "claim", "recount", "work", "ack", "write", "guard",
           "merging", "failread", "failwrite", "beat", "release",
           "revive", "settle", "enqueue", "done"}

\* The places where an actor has a job in hand.
HandPlaces == {"claim", "work", "ack", "write", "guard", "merging", "failread",
               "failwrite", "revive", "settle", "enqueue"}

\* The places where it has begun to work on it.
WorkPlaces == {"work", "ack", "write", "guard", "merging", "failread", "failwrite"}

\* The three grace periods for a row left running, in the order of their lengths:
\* session_end 5 minutes, process_jobs 10, session_capture 30.
EnderGrace   == 1
WorkerGrace  == 2
CaptureGrace == 3

TypeOK ==
    /\ LockTypeOK
    /\ jobState \in [Jobs -> JobStates]
    /\ attempts \in [Jobs -> Nat]
    /\ failure \in [Jobs -> FailureClasses]
    /\ claimedBy \in [Jobs -> Workers \cup {NoOne}]
    /\ age \in [Jobs -> 0..CaptureGrace]
    /\ prov \in [Jobs -> BOOLEAN]
    /\ merges \in [Jobs -> Nat]
    /\ pc \in [Actors -> Places]
    /\ job \in [Actors -> Jobs \cup {NoJob}]
    /\ stage \in [Actors -> Stages]
    /\ seen \in [Actors -> Nat]
    /\ found \in [Workers -> SUBSET Jobs]
    /\ budget \in [Workers -> Nat]
    /\ \A a \in Actors : pc[a] \in HandPlaces => job[a] \in Jobs
    /\ shared \subseteq Jobs

Init ==
    /\ LockInit
    /\ jobState = [j \in Jobs |-> "absent"]
    /\ attempts = [j \in Jobs |-> 0]
    /\ failure = [j \in Jobs |-> "none"]
    /\ claimedBy = [j \in Jobs |-> NoOne]
    /\ age = [j \in Jobs |-> 0]
    /\ prov = [j \in Jobs |-> FALSE]
    /\ merges = [j \in Jobs |-> 0]
    /\ pc = [a \in Actors |-> "idle"]
    /\ job = [a \in Actors |-> NoJob]
    /\ stage = [a \in Actors |-> "OBSERVED"]
    /\ seen = [a \in Actors |-> 0]
    /\ found = [w \in Workers |-> {}]
    /\ budget = [w \in Workers |-> 0]
    /\ shared = {}

Goto(a, place) == pc' = [pc EXCEPT ![a] = place]

\* An actor of either kind that can still take a step.
Running(a) == a \in Workers => a \in alive

-----------------------------------------------------------------------------
\* The rows.

ClaimableOrDead(j) == jobState[j] \in {"queued", "retryable_failure", "dead_lettered"} \* mutated form
Claimable(j) == jobState[j] \in {"queued", "retryable_failure"}
Inflight(j)  == jobState[j] \in {"claimed", "running"}

\* enqueue_extraction: INSERT OR IGNORE under UNIQUE (project, session,
\* evidence, category), so an existing row is returned as it is.
EnqueueExtraction(j) ==
    /\ jobState' = [jobState EXCEPT ![j] = IF @ = "absent" THEN "queued" ELSE @]
    /\ UNCHANGED <<attempts, failure, claimedBy, age>>

\* Mutated form: the claim of a row that goes back to the queue is not cleared.
RequeueKeepingClaim(js) ==
    /\ jobState' = [j \in Jobs |-> IF j \in js THEN "queued" ELSE jobState[j]]
    /\ age' = [j \in Jobs |-> IF j \in js THEN 0 ELSE age[j]]
    /\ UNCHANGED <<attempts, failure, claimedBy>>

\* UPDATE ... SET state='queued', claimed_by=NULL of a set of rows.
Requeue(js) ==
    /\ jobState' = [j \in Jobs |-> IF j \in js THEN "queued" ELSE jobState[j]]
    /\ claimedBy' = [j \in Jobs |-> IF j \in js THEN NoOne ELSE claimedBy[j]]
    /\ age' = [j \in Jobs |-> IF j \in js THEN 0 ELSE age[j]]
    /\ UNCHANGED <<attempts, failure>>

\* recover_stuck_running_jobs: one UPDATE guarded by state and age, which keeps
\* claimed_by.
StuckRunning(grace) == {j \in Jobs : jobState[j] = "running" /\ age[j] >= grace}

RecoverStuckRunning(grace) ==
    LET stuck == StuckRunning(grace) IN
    /\ jobState' = [j \in Jobs |-> IF j \in stuck THEN "dead_lettered" ELSE jobState[j]]
    /\ failure' = [j \in Jobs |-> IF j \in stuck THEN "TIMEOUT" ELSE failure[j]]
    /\ age' = [j \in Jobs |-> IF j \in stuck THEN 0 ELSE age[j]]
    /\ UNCHANGED <<attempts, claimedBy>>

\* Mutated form: a revived dead letter keeps the claim of its last worker.
ReplayKeepingClaim(j) ==
    IF jobState[j] = "dead_lettered"
    THEN /\ jobState' = [jobState EXCEPT ![j] = "queued"]
         /\ failure' = [failure EXCEPT ![j] = "none"]
         /\ attempts' = [attempts EXCEPT ![j] = 0]
         /\ age' = [age EXCEPT ![j] = 0]
         /\ UNCHANGED claimedBy
    ELSE UNCHANGED rowVars

\* replay_dead_letter: guarded by the state, whatever the failure class is now.
ReplayDeadLetter(j) ==
    IF jobState[j] = "dead_lettered"
    THEN /\ jobState' = [jobState EXCEPT ![j] = "queued"]
         /\ failure' = [failure EXCEPT ![j] = "none"]
         /\ attempts' = [attempts EXCEPT ![j] = 0]
         /\ claimedBy' = [claimedBy EXCEPT ![j] = NoOne]
         /\ age' = [age EXCEPT ![j] = 0]
    ELSE UNCHANGED rowVars

-----------------------------------------------------------------------------
\* process_jobs: the lock and the start-up recovery.

\* Mutated form: the drainer wakes for rows it can claim, not for abandoned ones.
AnyClaimable == \E j \in Jobs : Claimable(j)

\* What the drainer polls for every 15 s, read-only, before it calls
\* process_jobs: _queue_needs_processing.
NeedsProcessing ==
    \E j \in Jobs :
        \/ Claimable(j)
        \/ jobState[j] = "dead_lettered" /\ failure[j] = "TIMEOUT"
        \/ Inflight(j) /\ age[j] >= WorkerGrace
        \/ Inflight(j) /\ claimedBy[j] \in Workers \ alive

BeginDrain(w) ==
    /\ pc[w] = "idle"
    /\ NeedsProcessing \/ w \in TimedWorkers
    /\ CreateLock(w) \/ InspectLock(w)
    /\ UNCHANGED <<rowVars, mergeVars, actorVars>>

EnterDrain(w) ==
    /\ pc[w] = "idle"
    /\ WritePid(w) \/ TakeOver(w)
    /\ Goto(w, "orphans")
    /\ budget' = [budget EXCEPT ![w] = MaxJobs]
    /\ UNCHANGED <<rowVars, mergeVars, job, stage, seen, found>>

\* recover_orphaned_jobs, the SELECT and the probes of the claimants' pids.
OrphanedJobs == {j \in Jobs : Inflight(j) /\ claimedBy[j] \in Workers \ alive}

ScanOrphans(w) ==
    /\ w \in alive /\ pc[w] = "orphans"
    /\ found' = [found EXCEPT ![w] = OrphanedJobs]
    /\ Goto(w, "requeue")
    /\ UNCHANGED <<lockVars, rowVars, mergeVars, job, stage, seen, budget>>

\* ... and its UPDATEs, in one transaction, guarded by the state alone.
RequeueOrphans(w) ==
    /\ w \in alive /\ pc[w] = "requeue"
    /\ Requeue({j \in found[w] : Inflight(j)})
    /\ found' = [found EXCEPT ![w] = {}]
    /\ Goto(w, "stale")
    /\ UNCHANGED <<lockVars, mergeVars, job, stage, seen, budget>>

ReclaimStale(w) ==
    /\ w \in alive /\ pc[w] = "stale"
    /\ Requeue({j \in Jobs : jobState[j] = "claimed" /\ age[j] >= WorkerGrace})
    /\ Goto(w, "stuck")
    /\ UNCHANGED <<lockVars, mergeVars, job, stage, seen, found, budget>>

WorkerRecoverStuck(w) ==
    /\ w \in alive /\ pc[w] = "stuck"
    /\ RecoverStuckRunning(WorkerGrace)
    /\ Goto(w, "deadlist")
    /\ UNCHANGED <<lockVars, mergeVars, job, stage, seen, found, budget>>

DeadLetters == {j \in Jobs : jobState[j] = "dead_lettered"}

\* Which of them are the max_jobs most recent is left open.
RecentDeadLetters ==
    IF Cardinality(DeadLetters) <= MaxJobs
    THEN {DeadLetters}
    ELSE {d \in SUBSET DeadLetters : Cardinality(d) = MaxJobs}

AllOf(letters)     == letters \* mutated form
TimeoutOf(letters) == {j \in letters : failure[j] = "TIMEOUT"}

\* list_jobs(state="dead_lettered", limit=max_jobs), of which only TIMEOUT is
\* replayed.
ListDeadLetters(w) ==
    /\ w \in alive /\ pc[w] = "deadlist"
    /\ \E letters \in RecentDeadLetters :
           found' = [found EXCEPT ![w] = TimeoutOf(letters)]
    /\ Goto(w, "replay")
    /\ UNCHANGED <<lockVars, rowVars, mergeVars, job, stage, seen, budget>>

ReplayTimeout(w) ==
    /\ w \in alive /\ pc[w] = "replay"
    /\ \E j \in found[w] : /\ ReplayDeadLetter(j)
                           /\ found' = [found EXCEPT ![w] = @ \ {j}]
    /\ UNCHANGED <<lockVars, mergeVars, pc, job, stage, seen, budget>>

BeginClaims(w) ==
    /\ w \in alive /\ pc[w] = "replay"
    /\ found[w] = {}
    /\ Goto(w, "pick")
    /\ UNCHANGED <<lockVars, rowVars, mergeVars, job, stage, seen, found, budget>>

\* A start-up attempt raised (the database stayed locked): start over, or give
\* up after the third.
StartupFails(w) ==
    /\ BusyDatabase
    /\ w \in alive /\ pc[w] \in {"orphans", "requeue", "stale", "stuck", "deadlist", "replay"}
    /\ found' = [found EXCEPT ![w] = {}]
    /\ \E place \in {"orphans", "release"} : Goto(w, place)
    /\ UNCHANGED <<lockVars, rowVars, mergeVars, job, stage, seen, budget>>

-----------------------------------------------------------------------------
\* process_jobs: the claim loop.

\* Mutated form: an empty result is processed as if it were a row.
PickNothing(w) ==
    /\ w \in alive /\ pc[w] = "pick"
    /\ budget[w] > 0
    /\ budget' = [budget EXCEPT ![w] = @ - 1]
    /\ \E j \in {i \in Jobs : Claimable(i)} \cup {NoJob} : job' = [job EXCEPT ![w] = j]
    /\ Goto(w, "claim")
    /\ UNCHANGED <<lockVars, rowVars, mergeVars, stage, seen, found>>

\* The SELECT of claim_next_job (which row is oldest is not modelled).
PickJob(w) ==
    /\ w \in alive /\ pc[w] = "pick"
    /\ budget[w] > 0
    /\ budget' = [budget EXCEPT ![w] = @ - 1]
    /\ \/ \E j \in Jobs : /\ Claimable(j)
                          /\ job' = [job EXCEPT ![w] = j]
                          /\ Goto(w, "claim")
       \/ /\ ~\E j \in Jobs : Claimable(j)
          /\ Goto(w, "recount")
          /\ UNCHANGED job
    /\ UNCHANGED <<lockVars, rowVars, mergeVars, stage, seen, found>>

\* Its UPDATE, guarded by the state: rowcount 0 means another worker was faster.
ClaimJob(w) ==
    /\ w \in alive /\ pc[w] = "claim"
    /\ LET j == job[w] IN
       \/ /\ Claimable(j)
          /\ jobState' = [jobState EXCEPT ![j] = "claimed"]
          /\ claimedBy' = [claimedBy EXCEPT ![j] = w]
          /\ age' = [age EXCEPT ![j] = 0]
          /\ Goto(w, "work")
          /\ UNCHANGED <<attempts, failure, job>>
       \/ /\ ~Claimable(j)
          /\ job' = [job EXCEPT ![w] = NoJob]
          /\ Goto(w, "recount")
          /\ UNCHANGED rowVars
    /\ UNCHANGED <<lockVars, mergeVars, stage, seen, found, budget>>

\* The claim raises (the database is locked): sleep and try again.
ClaimRaises(w) ==
    /\ BusyDatabase
    /\ w \in alive /\ pc[w] = "claim"
    /\ job' = [job EXCEPT ![w] = NoJob]
    /\ Goto(w, "pick")
    /\ UNCHANGED <<lockVars, rowVars, mergeVars, stage, seen, found, budget>>

\* No job: the queue is empty, or the claim was lost to another worker.
Recount(w) ==
    /\ w \in alive /\ pc[w] = "recount"
    /\ Goto(w, IF \E j \in Jobs : Claimable(j) THEN "pick" ELSE "release")
    /\ UNCHANGED <<lockVars, rowVars, mergeVars, job, stage, seen, found, budget>>

\* max_jobs or the time budget is used up; what remains stays queued.
StopClaims(w) ==
    /\ w \in alive /\ pc[w] = "pick"
    /\ budget[w] = 0 \/ w \in TimedWorkers
    /\ Goto(w, "release")
    /\ UNCHANGED <<lockVars, rowVars, mergeVars, job, stage, seen, found, budget>>

\* The heartbeat that ends every job, failed or not.
FinishJob(w) ==
    /\ pc[w] = "beat"
    /\ Heartbeat(w)
    /\ Goto(w, "pick")
    /\ UNCHANGED <<rowVars, mergeVars, job, stage, seen, found, budget>>

EndDrain(w) ==
    /\ pc[w] = "release"
    /\ Release(w)
    /\ Goto(w, "idle")
    /\ budget' = [budget EXCEPT ![w] = 0]
    /\ UNCHANGED <<rowVars, mergeVars, job, stage, seen, found>>

-----------------------------------------------------------------------------
\* One job, by whoever has it in hand.

\* Load the chain and the cursor, slice, and extract.
Extract(a) ==
    /\ Running(a) /\ pc[a] = "work"
    /\ stage' = [stage EXCEPT ![a] = "PARSED"]
    /\ Goto(a, "ack")
    /\ UNCHANGED <<lockVars, rowVars, mergeVars, job, seen, found, budget>>

ExtractRaises(a) ==
    /\ Running(a) /\ pc[a] = "work"
    /\ Goto(a, "failread")
    /\ UNCHANGED <<lockVars, rowVars, mergeVars, job, stage, seen, found, budget>>

\* An actor's job is over: a worker goes on to the next one, a foreground call
\* returns to its caller.
LeaveJob(a) ==
    /\ Goto(a, IF a \in Workers THEN "beat" ELSE "done")
    /\ job' = [job EXCEPT ![a] = NoJob]
    /\ stage' = [stage EXCEPT ![a] = "OBSERVED"]
    /\ seen' = [seen EXCEPT ![a] = 0]

\* ack_stage, the SELECT.  A terminal row raises; in the OBSERVED stage of
\* session_end nothing catches it.
AckCheck(a) ==
    /\ Running(a) /\ pc[a] = "ack"
    /\ IF jobState[job[a]] \notin TerminalStates
       THEN Goto(a, "write") /\ UNCHANGED <<job, stage, seen>>
       ELSE IF stage[a] = "OBSERVED"
            THEN LeaveJob(a)
            ELSE Goto(a, "failread") /\ UNCHANGED <<job, stage, seen>>
    /\ UNCHANGED <<lockVars, rowVars, mergeVars, found, budget>>

\* The acknowledgement, or what runs before it (the cursor, the symbol graph),
\* raises.
StageRaises(a) ==
    /\ Running(a) /\ pc[a] \in {"ack", "write"}
    /\ IF stage[a] = "OBSERVED"
       THEN LeaveJob(a)
       ELSE Goto(a, "failread") /\ UNCHANGED <<job, stage, seen>>
    /\ UNCHANGED <<lockVars, rowVars, mergeVars, found, budget>>

AfterAck(st) == CASE st = "OBSERVED"   -> "work"
                  [] st = "CLASSIFIED" -> "guard"
                  [] OTHER             -> "ack"

NextStage(st) == CASE st = "PARSED"    -> "CLASSIFIED"
                   [] st = "MERGED"    -> "PROJECTED"
                   [] st = "PROJECTED" -> "COMPLETED"
                   [] OTHER            -> st

\* ... and its UPDATE, guarded by the id alone.  (The acknowledgement row it
\* also inserts is never read back by this code.)
AckWrite(a) ==
    /\ Running(a) /\ pc[a] = "write"
    /\ LET j == job[a]
           st == stage[a] IN
       /\ jobState' = [jobState EXCEPT ![j] =
                          IF st = "COMPLETED" THEN "completed" ELSE "running"]
       /\ age' = [age EXCEPT ![j] = 0]
       /\ IF st = "COMPLETED"
          THEN LeaveJob(a)
          ELSE /\ Goto(a, AfterAck(st))
               /\ stage' = [stage EXCEPT ![a] = NextStage(st)]
               /\ UNCHANGED <<job, seen>>
    /\ UNCHANGED <<lockVars, attempts, failure, claimedBy, mergeVars, found, budget>>

NoCandidates(j) == Shape[j] = "empty"

NothingToMerge(j) == NoCandidates(j) \/ prov[j]

\* execute_merge: nothing to do, or provenance says the evidence was merged.
\* The SELECT runs before the transaction.
MergeGuard(a) ==
    /\ Running(a) /\ pc[a] = "guard"
    /\ IF NothingToMerge(job[a])
       THEN /\ stage' = [stage EXCEPT ![a] = "MERGED"]
            /\ Goto(a, "ack")
       ELSE /\ Goto(a, "merging")
            /\ UNCHANGED stage
    /\ UNCHANGED <<lockVars, rowVars, mergeVars, job, seen, found, budget>>

\* record_verdict commits: every candidate merged so far becomes durable, with
\* its provenance, in the middle of the loop.
VerdictCommits(a) ==
    /\ Running(a) /\ pc[a] = "merging"
    /\ Shape[job[a]] = "gated"
    /\ ~prov[job[a]]
    /\ prov' = [prov EXCEPT ![job[a]] = TRUE]
    /\ UNCHANGED <<lockVars, rowVars, merges, actorVars>>

\* The loop ends, decay and projection invalidation run, `with conn:` commits.
MergeCommits(a) ==
    /\ Running(a) /\ pc[a] = "merging"
    /\ merges' = [merges EXCEPT ![job[a]] = @ + 1]
    /\ prov' = [prov EXCEPT ![job[a]] = @ \/ Shape[job[a]] \in {"plain", "gated"}]
    /\ stage' = [stage EXCEPT ![a] = "MERGED"]
    /\ Goto(a, "ack")
    /\ UNCHANGED <<lockVars, rowVars, job, seen, found, budget>>

\* Mutated form: the exception is swallowed and the job goes on.
MergeSwallows(a) ==
    /\ Running(a) /\ pc[a] = "merging"
    /\ stage' = [stage EXCEPT ![a] = "MERGED"]
    /\ Goto(a, "ack")
    /\ UNCHANGED <<lockVars, rowVars, mergeVars, job, seen, found, budget>>

\* The merge raises and what is not yet committed is rolled back.
MergeRaises(a) ==
    /\ Running(a) /\ pc[a] = "merging"
    /\ Goto(a, "failread")
    /\ UNCHANGED <<lockVars, rowVars, mergeVars, job, stage, seen, found, budget>>

\* fail_job(EXTRACTOR_BUG), the SELECT.  A terminal row raises, and the caller
\* swallows it.
FailRead(a) ==
    /\ Running(a) /\ pc[a] = "failread"
    /\ IF jobState[job[a]] \in TerminalStates
       THEN LeaveJob(a)
       ELSE /\ Goto(a, "failwrite")
            /\ seen' = [seen EXCEPT ![a] = attempts[job[a]]]
            /\ UNCHANGED <<job, stage>>
    /\ UNCHANGED <<lockVars, rowVars, mergeVars, found, budget>>

OutOfTriesLate(tries) == tries > MaxAttempts \* mutated form
OutOfTries(tries)     == tries >= MaxAttempts

\* ... and its UPDATE, guarded by the id alone, with attempts as they were read.
FailWrite(a) ==
    /\ Running(a) /\ pc[a] = "failwrite"
    /\ LET j == job[a]
           tries == seen[a] + 1 IN
       /\ jobState' = [jobState EXCEPT ![j] =
                          IF OutOfTries(tries) THEN "dead_lettered"
                          ELSE "retryable_failure"]
       /\ failure' = [failure EXCEPT ![j] = "EXTRACTOR_BUG"]
       /\ attempts' = [attempts EXCEPT ![j] = tries]
       /\ claimedBy' = [claimedBy EXCEPT ![j] = NoOne]
       /\ age' = [age EXCEPT ![j] = 0]
    /\ LeaveJob(a)
    /\ UNCHANGED <<lockVars, mergeVars, found, budget>>

\* fail_job itself raises, and the row stays as the failed attempt left it.
FailLost(a) ==
    /\ BusyDatabase
    /\ Running(a) /\ pc[a] \in {"failread", "failwrite"}
    /\ LeaveJob(a)
    /\ UNCHANGED <<lockVars, rowVars, mergeVars, found, budget>>

-----------------------------------------------------------------------------
\* The foreground: session_end and replay_job.  Each ender makes one call.

\* session_end is called with the content of evidence j: its first connection
\* recovers stuck rows with the default grace and reads the cursor.
SessionEnd(e, j) ==
    /\ pc[e] = "idle"
    /\ RecoverStuckRunning(EnderGrace)
    /\ job' = [job EXCEPT ![e] = j]
    /\ Goto(e, "enqueue")
    /\ UNCHANGED <<lockVars, mergeVars, stage, seen, found, budget>>

\* Its second connection stores the evidence, enqueues, and goes on to OBSERVED.
StoreAndEnqueue(e) ==
    /\ pc[e] = "enqueue"
    /\ EnqueueExtraction(job[e])
    /\ Goto(e, "ack")
    /\ UNCHANGED <<lockVars, mergeVars, job, stage, seen, found, budget>>

\* Nothing new since the cursor: return without storing or enqueueing.
NoNewContent(e) ==
    /\ pc[e] = "enqueue"
    /\ LeaveJob(e)
    /\ UNCHANGED <<lockVars, rowVars, mergeVars, found, budget>>

\* replay_job: get_job must return a dead letter ...
ReplayJob(e, j) ==
    /\ pc[e] = "idle"
    /\ jobState[j] = "dead_lettered"
    /\ job' = [job EXCEPT ![e] = j]
    /\ Goto(e, "revive")
    /\ UNCHANGED <<lockVars, rowVars, mergeVars, stage, seen, found, budget>>

\* ... replay_dead_letter queues it, where a worker may claim it ...
Revive(e) ==
    /\ pc[e] = "revive"
    /\ ReplayDeadLetter(job[e])
    /\ Goto(e, "settle")
    /\ UNCHANGED <<lockVars, mergeVars, job, stage, seen, found, budget>>

\* ... and session_end runs on the same content.
ReplaySessionEnd(e) ==
    /\ pc[e] = "settle"
    /\ RecoverStuckRunning(EnderGrace)
    /\ Goto(e, "enqueue")
    /\ UNCHANGED <<lockVars, mergeVars, job, stage, seen, found, budget>>

\* The Stop hook: session_capture recovers stuck rows with the long grace ...
CaptureRecovers ==
    /\ StuckRunning(CaptureGrace) # {}
    /\ RecoverStuckRunning(CaptureGrace)
    /\ UNCHANGED <<lockVars, mergeVars, actorVars>>

\* ... and, in a second connection, stores the evidence and enqueues its job.
SessionCapture(j) ==
    /\ jobState[j] = "absent"
    /\ EnqueueExtraction(j)
    /\ UNCHANGED <<lockVars, mergeVars, actorVars>>

-----------------------------------------------------------------------------
\* Crashes and time.

KillWorker(w) ==
    /\ Kill(w)
    /\ Goto(w, "idle")
    /\ job' = [job EXCEPT ![w] = NoJob]
    /\ stage' = [stage EXCEPT ![w] = "OBSERVED"]
    /\ seen' = [seen EXCEPT ![w] = 0]
    /\ found' = [found EXCEPT ![w] = {}]
    /\ budget' = [budget EXCEPT ![w] = 0]
    /\ UNCHANGED <<rowVars, mergeVars>>

KillEnder(e) ==
    /\ pc[e] \notin {"idle", "done"}
    /\ LeaveJob(e)
    /\ UNCHANGED <<lockVars, rowVars, mergeVars, found, budget>>

\* Somebody who is still running has this job in hand.
InHand(j) == \E a \in Actors : job[a] = j

\* Another grace period passes without an update of an in-flight row.
RowAges(j) ==
    /\ Inflight(j)
    /\ age[j] < CaptureGrace
    /\ InHand(j) => SlowWorkers
    /\ age' = [age EXCEPT ![j] = @ + 1]
    /\ UNCHANGED <<lockVars, jobState, attempts, failure, claimedBy, mergeVars, actorVars>>

FileAges ==
    /\ LockAges
    /\ UNCHANGED <<rowVars, mergeVars, actorVars>>

-----------------------------------------------------------------------------

Drain(w) ==
    \/ BeginDrain(w) \/ EnterDrain(w)
    \/ ScanOrphans(w) \/ RequeueOrphans(w) \/ ReclaimStale(w)
    \/ WorkerRecoverStuck(w) \/ ListDeadLetters(w) \/ ReplayTimeout(w)
    \/ StartupFails(w) \/ BeginClaims(w)
    \/ PickJob(w) \/ ClaimJob(w) \/ ClaimRaises(w) \/ Recount(w) \/ StopClaims(w)
    \/ FinishJob(w) \/ EndDrain(w)

Process(a) ==
    \/ Extract(a) \/ ExtractRaises(a)
    \/ AckCheck(a) \/ AckWrite(a)
    \/ MergeGuard(a) \/ VerdictCommits(a) \/ MergeCommits(a) \/ MergeRaises(a)
    \/ StageRaises(a) \/ FailRead(a) \/ FailWrite(a) \/ FailLost(a)

Foreground(e) ==
    \/ \E j \in Jobs : SessionEnd(e, j) \/ ReplayJob(e, j)
    \/ StoreAndEnqueue(e) \/ NoNewContent(e) \/ Revive(e) \/ ReplaySessionEnd(e)
    \/ KillEnder(e)

Step ==
    \/ \E w \in Workers : Drain(w) \/ KillWorker(w)
    \/ \E a \in Actors : Process(a)
    \/ \E e \in Enders : Foreground(e)
    \/ \E j \in Jobs : SessionCapture(j) \/ RowAges(j)
    \/ CaptureRecovers
    \/ FileAges

\* An actor is between the first read and the last write it makes of a job.
Attends(a, j) == pc[a] \in WorkPlaces /\ job[a] = j

\* A step brings job j into two hands: somebody takes it up while another attends
\* to it, or its row moves while somebody attends to it and takes no step.
Shares(j) ==
    \/ \E a, b \in Actors : a # b /\ Attends(a, j)' /\ Attends(b, j)'
    \/ /\ jobState'[j] # jobState[j]
       /\ \E a \in Actors : Attends(a, j) /\ pc'[a] = pc[a]

\* The history that tells which promises a job's row can be held to.
Next == Step /\ shared' = shared \cup {j \in Jobs : Shares(j)}

Spec == Init /\ [][Next]_vars

\* A process that is not killed keeps running and its drainer polls every 15 s;
\* a foreground call goes on once it was made; time passes.
Fairness ==
    /\ \A w \in Workers : WF_stepVars(Drain(w))
    /\ \A a \in Actors : WF_stepVars(Process(a))
    /\ \A e \in Enders : WF_stepVars(StoreAndEnqueue(e) \/ Revive(e) \/ ReplaySessionEnd(e))
    /\ \A j \in Jobs : WF_stepVars(RowAges(j))
    /\ WF_stepVars(FileAges)

FairSpec == Spec /\ Fairness

-----------------------------------------------------------------------------
\* Properties.

MergedEnough(j) == \/ merges[j] > 0
                   \/ Shape[j] = "empty"
                   \/ Shape[j] = "gated" /\ prov[j]

\* No job is lost silently: a completed job's candidates have been through a
\* merge that ran to its end.  The exceptions are a job with no candidates, and
\* a job whose gate verdict made part of a merge durable (VerdictCommits).
CompletedWasMerged == \A j \in Jobs : jobState[j] = "completed" => MergedEnough(j)

\* Retries end: attempts never exceeds max_attempts, and a row that a worker may
\* claim again has attempts left.
RetriesBounded(j) == /\ attempts[j] <= MaxAttempts
                     /\ Claimable(j) => attempts[j] < MaxAttempts

\* A claimed row names its claimant, which is what the orphan and staleness
\* recoveries look for; a row that may be claimed names none.
ClaimNamesClaimant ==
    \A j \in Jobs : /\ jobState[j] = "claimed" => claimedBy[j] # NoOne
                    /\ Claimable(j) => claimedBy[j] = NoOne

\* "Skip the replay": the bump and the decay of a merge are applied once per
\* evidence.  (A merge that admits nothing leaves no mark and may be repeated.)
MergedAtMostOnce(j) == Shape[j] # "rejected" => merges[j] <= 1

\* Whatever is retried, recovered or replayed, by whomever, and whoever is killed or
\* delayed, a job is tried at most max_attempts times and merged once, as long as
\* it was never in two hands at once.
RepeatsAreBounded == \A j \in Jobs \ shared : RetriesBounded(j) /\ MergedAtMostOnce(j)

\* Nobody has outlasted the lock or raced for it, and no foreground call was made.
Undisturbed == ~contested /\ \A e \in Enders : pc[e] = "idle"

\* "POISON_INPUT / EXTRACTOR_BUG dead-letters need a human": while no two workers
\* overlap and nobody called session_end or replay_job, the recovery of none revives a
\* job that failed on its merits, though it acts on a list read before.  (A letter
\* that a foreground call revives and fails on its merits may still be on that list.)
PoisonStaysDead ==
    [][\A j \in Jobs : Undisturbed /\ jobState[j] = "dead_lettered" /\ failure[j] # "TIMEOUT"
           => jobState'[j] = "dead_lettered"]_vars

\* "Provenance exists iff the full merge committed", so that the guard which
\* skips a merged evidence never completes a job whose merge was cut short.
CompletedMeansMerged ==
    \A j \in Jobs : jobState[j] = "completed" => merges[j] > 0 \/ Shape[j] = "empty"

\* Every row of the queue reaches its end: completed, or dead for a reason that
\* is not a time-out.
Settled(j) == \/ jobState[j] = "completed"
              \/ jobState[j] = "dead_lettered" /\ failure[j] = "EXTRACTOR_BUG"

EveryJobSettles == \A j \in Jobs : jobState[j] # "absent" ~> Settled(j)

\* The transitions the table promises its readers (module JobLifecycle): they hold
\* of every job that was never in two hands, whatever the recoveries, the retries,
\* the replays and the foreground do.
Status == [j \in Jobs |->
    CASE jobState[j] \in {"queued", "retryable_failure"} -> "pending"
      [] jobState[j] \in {"claimed", "running"}          -> "working"
      [] OTHER                                           -> jobState[j]]

Lifecycle == INSTANCE JobLifecycle WITH status <- Status

MonotoneTransitions == Lifecycle!Spec

=============================================================================
