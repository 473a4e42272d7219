---------------------------- MODULE JobLifecycle ----------------------------
(***************************************************************************)
(* What storage/jobs.py promises of a row of extraction_jobs: the legal    *)
(* moves.  A completed job stays completed; a dead letter leaves that      *)
(* state only to be queued again; work starts only on a pending job, and   *)
(* ends by giving the job back, completing it or dead-lettering it.  One   *)
(* step may move several rows: the recoveries are single UPDATE            *)
(* statements.                                                             *)
(*                                                                         *)
(* The promise is kept for a job that was never shared: that two parties   *)
(* never had in hand at once, and whose row nobody else moved meanwhile.   *)
(***************************************************************************)
CONSTANT Jobs

VARIABLES status,   \* where each row is
          shared    \* the jobs that were ever in two hands

Statuses == {"absent", "pending", "working", "completed", "dead_lettered"}

LegalMoves == {<<"absent", "pending">>,          \* enqueue_extraction
               <<"pending", "working">>,         \* claim_next_job, ack_stage
               <<"working", "pending">>,         \* retries and recoveries
               <<"working", "completed">>,       \* ack_stage(COMPLETED)
               <<"working", "dead_lettered">>,   \* fail_job, stuck rows
               <<"dead_lettered", "pending">>}   \* replay_dead_letter

Init ==
    /\ status = [j \in Jobs |-> "absent"]
    /\ shared = {}

Next ==
    /\ status' \in [Jobs -> Statuses]
    /\ shared \subseteq shared' /\ shared' \subseteq Jobs
    /\ \A j \in Jobs \ shared' : \/ status'[j] = status[j]
                                 \/ <<status[j], status'[j]>> \in LegalMoves

Spec == Init /\ [][Next]_<<status, shared>>

=============================================================================
