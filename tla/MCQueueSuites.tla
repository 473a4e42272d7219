--------------------------- MODULE MCQueueSuites ---------------------------
(* Three suites of JobQueue, told apart by the initial state: the drainer and *)
(* a CLI worker over two jobs; these and a foreground call over one; and three *)
(* workers at the lock alone, two of which may be killed and each of which may *)
(* outlast the fifteen minutes.                                               *)
EXTENDS MCJobQueue

CONSTANTS w3

VARIABLE suite

\* Nobody at work outlasts a grace period.
Prompt == /\ lockOld' /\ ~lockOld => ~Held
          /\ \A j \in Jobs : InHand(j) => age'[j] <= age[j]

\* Its own recoveries are in time, and the plain job never fails on its merits.
Background ==
    /\ \A e \in Enders : pc'[e] = "idle"
    /\ \A j \in Jobs : age'[j] <= WorkerGrace
    /\ attempts'[j1] = 0

\* The third worker is killed before anything happens, and the CLI worker is not.
Drains ==
    IF w3 \in alive THEN Next /\ alive' = alive \ {w3}
    ELSE /\ Next /\ Prompt /\ TimedWorkers \subseteq alive'
         /\ IF suite = "drain" THEN Background ELSE jobState'[j1] = "absent"

Locks == LockNext /\ UNCHANGED <<rowVars, mergeVars, actorVars, shared>>

MCInit == Init /\ suite \in {"drain", "foreground", "lock"}
MCNext == UNCHANGED suite /\ IF suite = "lock" THEN Locks ELSE Drains
MCSpec == MCInit /\ [][MCNext]_<<vars, suite>>

=============================================================================
