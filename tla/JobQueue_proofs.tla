--------------------------- MODULE JobQueue_proofs ---------------------------
(***************************************************************************)
(* Theorems about the worker lock and the extraction queue.                *)
(*                                                                         *)
(* The lock, for any number of workers, kills and stalls.  Until two       *)
(* workers have read one abandoned file, or a live holder has let its file *)
(* age, the file belongs to the one worker that is past it.                *)
(*                                                                         *)
(* The queue, for any number of jobs, workers and foreground calls, any    *)
(* number of crashes and any delay.  What can go wrong with a row goes     *)
(* wrong when two parties have the job in hand: a job that was never       *)
(* shared is tried and merged a bounded number of times, and its row keeps *)
(* to its life cycle.                                                      *)
(***************************************************************************)
EXTENDS JobQueue, FiniteSetTheorems, TLAPS

-----------------------------------------------------------------------------
(* The worker lock.                                                        *)

\* The lock variables have their types in every state.
LEMMA LockTypeInit == LockInit => LockTypeOK
  BY DEF LockInit, LockTypeOK, LockFiles

\* One step per action.
LEMMA LockTypeStep == LockTypeOK /\ [LockNext]_lockVars => LockTypeOK'
<1> SUFFICES ASSUME LockTypeOK, [LockNext]_lockVars PROVE LockTypeOK'
  OBVIOUS
<1> USE DEF LockTypeOK, LockFiles
<1>1. ASSUME NEW w \in Workers, CreateLock(w) PROVE LockTypeOK'
  BY <1>1 DEF CreateLock
<1>2. ASSUME NEW w \in Workers, WritePid(w) PROVE LockTypeOK'
  BY <1>2 DEF WritePid
<1>3. ASSUME NEW w \in Workers, InspectLock(w) PROVE LockTypeOK'
  BY <1>3 DEF InspectLock
<1>4. ASSUME NEW w \in Workers, TakeOver(w) PROVE LockTypeOK'
  BY <1>4 DEF TakeOver
<1>5. ASSUME NEW w \in Workers, Heartbeat(w) PROVE LockTypeOK'
  BY <1>5 DEF Heartbeat
<1>6. ASSUME NEW w \in Workers, Release(w) PROVE LockTypeOK'
  BY <1>6 DEF Release
<1>7. ASSUME NEW w \in Workers, Kill(w) PROVE LockTypeOK'
  BY <1>7 DEF Kill
<1>8. CASE LockAges
  BY <1>8 DEF LockAges
<1>9. CASE UNCHANGED lockVars
  BY <1>9 DEF lockVars
<1> QED
  BY <1>1, <1>2, <1>3, <1>4, <1>5, <1>6, <1>7, <1>8, <1>9 DEF LockNext

\* The type invariant of the lock, for any number of workers.
THEOREM LockTypeCorrect == LockSpec => []LockTypeOK
  BY LockTypeInit, LockTypeStep, PTL DEF LockSpec

-----------------------------------------------------------------------------

\* The strengthening, until the lock is contested: whoever is past the lock lives
\* and has its file; such a file is fresh; and a worker that is taking over is
\* alone with an abandoned file.
LockQuiet ==
    /\ \A w \in Workers :
          /\ lockPc[w] # "out" => w \in alive
          /\ lockPc[w] = "creating" => lockFile = [pid |-> w, written |-> FALSE]
          /\ lockPc[w] = "in" => lockFile = [pid |-> w, written |-> TRUE]
          /\ lockPc[w] \in {"creating", "in"} => ~lockOld
          /\ lockPc[w] = "stealing" =>
                /\ lockFile # Absent
                /\ \A v \in Workers \ {w} : lockPc[v] = "out"

LockInv == ~contested => LockQuiet

\* Two files are the same when their owners and their contents are, and no file
\* is the absence of one.
LEMMA FilesDiffer ==
  /\ \A v \in Workers, b \in BOOLEAN : Absent # [pid |-> v, written |-> b]
  /\ \A v, w \in Workers, b, c \in BOOLEAN :
        [pid |-> v, written |-> b] = [pid |-> w, written |-> c] <=> v = w /\ b = c
<1>1. \A v \in Workers, b \in BOOLEAN : [pid |-> v, written |-> b] \in LockFiles
  BY DEF LockFiles
<1>2. Absent \notin LockFiles
  BY LockAssumption DEF LockAssumption, LockFiles
<1>3. \A v, w \in Workers, b, c \in BOOLEAN :
        [pid |-> v, written |-> b] = [pid |-> w, written |-> c] <=> v = w /\ b = c
  OBVIOUS
<1> QED
  BY <1>1, <1>2, <1>3

LEMMA LockInvInit == LockInit => LockInv
  BY FilesDiffer DEF LockInit, LockInv, LockQuiet

\* A worker past the lock is alone past it, and its file is not an abandoned one.
LEMMA HolderIsAlone ==
  ASSUME LockTypeOK, LockQuiet, NEW w \in Workers, lockPc[w] \in {"creating", "in"}
  PROVE  /\ lockFile \in LockFiles /\ lockFile.pid = w /\ w \in alive
         /\ Held /\ ~Abandoned
         /\ \A v \in Workers \ {w} : lockPc[v] = "out"
<1>1. lockFile \in LockFiles /\ lockFile.pid = w /\ w \in alive
  <2>1. PICK b \in BOOLEAN : lockFile = [pid |-> w, written |-> b]
    BY DEF LockQuiet
  <2> QED
    BY <2>1 DEF LockQuiet, LockFiles
<1>2. Held /\ ~Abandoned
  BY <1>1 DEF Held, Abandoned, Orphaned, LockQuiet
<1>3. \A v \in Workers \ {w} : lockPc[v] = "out"
  BY FilesDiffer DEF LockQuiet, LockTypeOK
<1> QED
  BY <1>1, <1>2, <1>3

LEMMA LockInvStep == LockTypeOK /\ LockInv /\ [LockNext]_lockVars => LockInv'
<1> SUFFICES ASSUME LockTypeOK, LockInv, [LockNext]_lockVars, ~contested' PROVE LockQuiet'
  BY DEF LockInv
<1>0. ~contested /\ LockQuiet
  BY DEF LockInv, LockTypeOK, LockNext, lockVars, CreateLock, WritePid, InspectLock, TakeOver, Heartbeat,
     Release, Kill, LockAges
<1> USE DEF LockTypeOK
<1>1. ASSUME NEW w \in Workers, CreateLock(w) PROVE LockQuiet'
  <2>1. \A v \in Workers : lockPc[v] = "out"
    BY <1>0, <1>1, FilesDiffer DEF CreateLock, LockQuiet
  <2> QED
    BY <1>1, <2>1, FilesDiffer DEF CreateLock, LockQuiet
<1>2. ASSUME NEW w \in Workers, WritePid(w) PROVE LockQuiet'
  <2>1. /\ lockFile = [pid |-> w, written |-> FALSE] /\ w \in alive /\ ~lockOld
        /\ \A v \in Workers \ {w} : lockPc[v] = "out"
    BY <1>0, <1>2, HolderIsAlone DEF WritePid, LockQuiet
  <2>2. lockFile' = [pid |-> w, written |-> TRUE] /\ alive' = alive /\ lockOld' = lockOld
    BY <1>2, <2>1 DEF WritePid
  <2>3. lockPc' = [lockPc EXCEPT ![w] = "in"]
    BY <1>2 DEF WritePid
  <2> QED
    BY <2>1, <2>2, <2>3 DEF LockQuiet
<1>3. ASSUME NEW w \in Workers, InspectLock(w) PROVE LockQuiet'
  <2>1. \A v \in Workers : lockPc[v] \notin {"creating", "in"}
    BY <1>0, <1>3, HolderIsAlone DEF InspectLock
  <2>2. \A v \in Workers : lockPc[v] # "stealing"
    BY <1>0, <1>3 DEF InspectLock, LockQuiet
  <2> QED
    BY <1>3, <2>1, <2>2 DEF InspectLock, LockQuiet
<1>4. ASSUME NEW w \in Workers, TakeOver(w) PROVE LockQuiet'
  <2>1. \A v \in Workers \ {w} : lockPc[v] = "out"
    BY <1>0, <1>4 DEF TakeOver, LockQuiet
  <2> QED
    BY <1>4, <2>1 DEF TakeOver, LockQuiet
<1>5. ASSUME NEW w \in Workers, Heartbeat(w) PROVE LockQuiet'
  BY <1>0, <1>5 DEF Heartbeat, LockQuiet
<1>6. ASSUME NEW w \in Workers, Release(w) PROVE LockQuiet'
  <2>1. \A v \in Workers \ {w} : lockPc[v] = "out"
    BY <1>0, <1>6, HolderIsAlone DEF Release
  <2> QED
    BY <1>6, <2>1 DEF Release, LockQuiet
<1>7. ASSUME NEW w \in Workers, Kill(w) PROVE LockQuiet'
  BY <1>0, <1>7 DEF Kill, LockQuiet
<1>8. CASE LockAges
  <2>1. ~Held
    BY <1>8 DEF LockAges
  <2>2. \A v \in Workers : lockPc[v] \notin {"creating", "in"}
    BY <1>0, <2>1, HolderIsAlone
  <2> QED
    BY <1>0, <1>8, <2>2 DEF LockAges, LockQuiet
<1>9. CASE UNCHANGED lockVars
  BY <1>0, <1>9 DEF lockVars, LockQuiet
<1> QED
  BY <1>1, <1>2, <1>3, <1>4, <1>5, <1>6, <1>7, <1>8, <1>9 DEF LockNext

LEMMA QuietMeansSingle == LockTypeOK /\ LockInv => OverlapNeedsRace
<1> SUFFICES ASSUME LockTypeOK, LockQuiet PROVE SingleFlight /\ HolderOwnsFile
  BY DEF OverlapNeedsRace, LockInv
<1>1. HolderOwnsFile
  BY DEF LockQuiet, HolderOwnsFile, Holders, LockTypeOK
<1>2. SingleFlight
  BY <1>1, FilesDiffer DEF SingleFlight, HolderOwnsFile, Holders, LockTypeOK
<1> QED
  BY <1>1, <1>2

\* "Single-flight guard: one worker per project", as far as it goes: any number of
\* workers, killed and stalled at any point, overlap only after a contested
\* takeover.
THEOREM OverlapAlwaysRaces == LockSpec => []OverlapNeedsRace
<1>1. LockInit => LockTypeOK /\ LockInv
  BY LockTypeInit, LockInvInit
<1>2. LockTypeOK /\ LockInv /\ [LockNext]_lockVars => LockTypeOK' /\ LockInv'
  BY LockTypeStep, LockInvStep
<1> QED
  BY <1>1, <1>2, QuietMeansSingle, PTL DEF LockSpec

-----------------------------------------------------------------------------
(* The extraction queue.                                                   *)

\* A queue step leaves the lock alone or is a step of the lock.
LEMMA QueueStepIsLockStep == [Next]_vars => [LockNext]_lockVars
<1> SUFFICES ASSUME Step \/ UNCHANGED vars PROVE [LockNext]_lockVars
  BY DEF Next
<1>1. ASSUME NEW w \in Workers, Drain(w) PROVE [LockNext]_lockVars
  BY <1>1 DEF Drain, LockNext, lockVars, BeginDrain, EnterDrain, ScanOrphans,
     RequeueOrphans, ReclaimStale, WorkerRecoverStuck, ListDeadLetters,
     ReplayTimeout, StartupFails, BeginClaims, PickJob, ClaimJob, ClaimRaises, Recount,
     StopClaims, FinishJob, EndDrain
<1>2. ASSUME NEW w \in Workers, KillWorker(w) PROVE [LockNext]_lockVars
  BY <1>2 DEF KillWorker, LockNext
<1>3. ASSUME NEW a \in Actors, Process(a) PROVE [LockNext]_lockVars
  BY <1>3 DEF Process, lockVars, Extract, ExtractRaises, AckCheck, AckWrite,
     MergeGuard, VerdictCommits, MergeCommits, MergeRaises, StageRaises,
     FailRead, FailWrite, FailLost
<1>4. ASSUME NEW e \in Enders, Foreground(e) PROVE [LockNext]_lockVars
  BY <1>4 DEF Foreground, lockVars, SessionEnd, ReplayJob, StoreAndEnqueue,
     NoNewContent, Revive, ReplaySessionEnd, KillEnder
<1>5. ASSUME NEW j \in Jobs, SessionCapture(j) \/ RowAges(j)
      PROVE  [LockNext]_lockVars
  BY <1>5 DEF SessionCapture, RowAges, lockVars
<1>6. CASE CaptureRecovers
  BY <1>6 DEF CaptureRecovers, lockVars
<1>7. CASE FileAges
  BY <1>7 DEF FileAges, LockNext
<1>8. CASE UNCHANGED vars
  BY <1>8 DEF vars, stepVars, lockVars
<1> QED
  BY <1>1, <1>2, <1>3, <1>4, <1>5, <1>6, <1>7, <1>8 DEF Step

\* So the queue's workers overlap only after a contested takeover.
THEOREM QueueOverlapRaces == Spec => []OverlapNeedsRace
<1>1. Init => LockInit
  BY DEF Init
<1> QED
  BY <1>1, QueueStepIsLockStep, OverlapAlwaysRaces, PTL DEF Spec, LockSpec

-----------------------------------------------------------------------------
\* Types.

LEMMA TypeInit == Init => TypeOK
<1> SUFFICES ASSUME Init PROVE TypeOK
  OBVIOUS
<1>1. LockTypeOK
  BY LockTypeInit DEF Init
<1> QED
  BY <1>1 DEF Init, TypeOK, JobStates, FailureClasses, Stages, Places, HandPlaces, CaptureGrace

\* The parts of TypeOK that one group of variables decides.
RowTypes ==
    /\ jobState \in [Jobs -> JobStates]
    /\ attempts \in [Jobs -> Nat]
    /\ failure \in [Jobs -> FailureClasses]
    /\ claimedBy \in [Jobs -> Workers \cup {NoOne}]
    /\ age \in [Jobs -> 0..CaptureGrace]

MergeTypes ==
    /\ prov \in [Jobs -> BOOLEAN]
    /\ merges \in [Jobs -> Nat]

ActorTypes ==
    /\ pc \in [Actors -> Places]
    /\ job \in [Actors -> Jobs \cup {NoJob}]
    /\ stage \in [Actors -> Stages]
    /\ seen \in [Actors -> Nat]
    /\ found \in [Workers -> SUBSET Jobs]
    /\ budget \in [Workers -> Nat]
    /\ \A a \in Actors : pc[a] \in HandPlaces => job[a] \in Jobs

LEMMA TypeParts == TypeOK <=> LockTypeOK /\ RowTypes /\ MergeTypes /\ ActorTypes /\ shared \subseteq Jobs
  BY DEF TypeOK, RowTypes, MergeTypes, ActorTypes

\* The row operations keep the rows' types.
LEMMA RowOperationTypes ==
  ASSUME RowTypes
  PROVE  /\ \A j : EnqueueExtraction(j) => RowTypes'
         /\ \A js : Requeue(js) => RowTypes'
         /\ \A grace : RecoverStuckRunning(grace) => RowTypes'
         /\ \A j : ReplayDeadLetter(j) => RowTypes'
<1> USE DEF RowTypes, JobStates, FailureClasses, CaptureGrace
<1>1. ASSUME NEW j, EnqueueExtraction(j) PROVE RowTypes'
  BY <1>1 DEF EnqueueExtraction
<1>2. ASSUME NEW js, Requeue(js) PROVE RowTypes'
  BY <1>2 DEF Requeue
<1>3. ASSUME NEW grace, RecoverStuckRunning(grace) PROVE RowTypes'
  BY <1>3 DEF RecoverStuckRunning
<1>4. ASSUME NEW j, ReplayDeadLetter(j) PROVE RowTypes'
  BY <1>4 DEF ReplayDeadLetter, rowVars
<1> QED
  BY <1>1, <1>2, <1>3, <1>4

LEMMA UnchangedTypes ==
  /\ RowTypes /\ UNCHANGED rowVars => RowTypes'
  /\ MergeTypes /\ UNCHANGED mergeVars => MergeTypes'
  /\ ActorTypes /\ UNCHANGED actorVars => ActorTypes'
  BY DEF RowTypes, MergeTypes, ActorTypes, rowVars, mergeVars, actorVars

\* The types of everything but the lock, kept by each action.
Types == RowTypes /\ MergeTypes /\ ActorTypes

LEMMA DrainTypes ==
  ASSUME NEW w \in Workers, Types, Drain(w)
  PROVE  Types'
<1> w \in Actors
  BY DEF Actors
<1> USE DEF Types
<1>a. OrphanedJobs \in SUBSET Jobs
  BY DEF OrphanedJobs
<1>b. \A letters \in RecentDeadLetters : TimeoutOf(letters) \in SUBSET Jobs
  BY DEF RecentDeadLetters, DeadLetters, TimeoutOf
<1>1. CASE BeginDrain(w)
  BY <1>1, UnchangedTypes DEF BeginDrain, ActorTypes, Places, HandPlaces, Goto, actorVars
<1>2. CASE EnterDrain(w)
  BY <1>2, UnchangedTypes, QueueAssumption DEF QueueAssumption, EnterDrain, ActorTypes, Places, HandPlaces, Goto, actorVars
<1>3. CASE ScanOrphans(w)
  BY <1>3, <1>a, UnchangedTypes DEF ScanOrphans, ActorTypes, Places, HandPlaces, Goto, actorVars
<1>4. CASE RequeueOrphans(w)
  BY <1>4, RowOperationTypes, UnchangedTypes
     DEF RequeueOrphans, ActorTypes, Places, HandPlaces, Goto, MergeTypes, mergeVars
<1>5. CASE ReclaimStale(w)
  BY <1>5, RowOperationTypes, UnchangedTypes
     DEF ReclaimStale, ActorTypes, Places, HandPlaces, Goto, MergeTypes, mergeVars
<1>6. CASE WorkerRecoverStuck(w)
  BY <1>6, RowOperationTypes, UnchangedTypes
     DEF WorkerRecoverStuck, ActorTypes, Places, HandPlaces, Goto, MergeTypes, mergeVars
<1>7. CASE ListDeadLetters(w)
  BY <1>7, <1>b, UnchangedTypes DEF ListDeadLetters, ActorTypes, Places, HandPlaces, Goto, actorVars
<1>8. CASE ReplayTimeout(w)
  BY <1>8, RowOperationTypes, UnchangedTypes
     DEF ReplayTimeout, ActorTypes, Places, HandPlaces, Goto, MergeTypes, mergeVars
<1>9. CASE StartupFails(w)
  BY <1>9, UnchangedTypes DEF StartupFails, ActorTypes, Places, HandPlaces, Goto, actorVars
<1>10. CASE BeginClaims(w)
  BY <1>10, UnchangedTypes DEF BeginClaims, ActorTypes, Places, HandPlaces, Goto, actorVars
<1>11. CASE PickJob(w)
  BY <1>11, UnchangedTypes DEF PickJob, ActorTypes, Places, HandPlaces, Goto, actorVars
<1>12. CASE ClaimJob(w)
  BY <1>12 DEF ClaimJob, RowTypes, MergeTypes, ActorTypes, Places, HandPlaces, Goto, JobStates,
     CaptureGrace, rowVars, mergeVars
<1>17. CASE ClaimRaises(w)
  BY <1>17, UnchangedTypes DEF ClaimRaises, ActorTypes, Places, HandPlaces, Goto, actorVars
<1>13. CASE Recount(w)
  BY <1>13, UnchangedTypes DEF Recount, ActorTypes, Places, HandPlaces, Goto, actorVars
<1>14. CASE StopClaims(w)
  BY <1>14, UnchangedTypes DEF StopClaims, ActorTypes, Places, HandPlaces, Goto, actorVars
<1>15. CASE FinishJob(w)
  BY <1>15, UnchangedTypes DEF FinishJob, ActorTypes, Places, HandPlaces, Goto, actorVars
<1>16. CASE EndDrain(w)
  BY <1>16, UnchangedTypes DEF EndDrain, ActorTypes, Places, HandPlaces, Goto, actorVars
<1> QED
  BY <1>1, <1>2, <1>3, <1>4, <1>5, <1>6, <1>7, <1>8, <1>9, <1>10, <1>11, <1>12, <1>13, <1>14, <1>15, <1>16,
     <1>17 DEF Drain

LEMMA ProcessTypes ==
  ASSUME NEW a \in Actors, Types, Process(a)
  PROVE  Types'
<1> USE DEF Types
<1>1. CASE Extract(a)
  BY <1>1, UnchangedTypes DEF Extract, ActorTypes, Places, HandPlaces, Stages, Goto,
     rowVars, mergeVars
<1>2. CASE ExtractRaises(a)
  BY <1>2, UnchangedTypes DEF ExtractRaises, ActorTypes, Places, HandPlaces, Stages, Goto,
     rowVars, mergeVars
<1>3. CASE AckCheck(a)
  BY <1>3, UnchangedTypes DEF AckCheck, ActorTypes, Places, HandPlaces, Stages, Goto,
     LeaveJob, rowVars, mergeVars
<1>4. CASE AckWrite(a)
  BY <1>4, UnchangedTypes DEF AckWrite, ActorTypes, Places, HandPlaces, Stages, Goto,
     RowTypes, JobStates, CaptureGrace, LeaveJob, AfterAck, NextStage, rowVars, mergeVars
<1>5. CASE MergeGuard(a)
  BY <1>5, UnchangedTypes DEF MergeGuard, ActorTypes, Places, HandPlaces, Stages, Goto,
     rowVars, mergeVars
<1>6. CASE VerdictCommits(a)
  BY <1>6, UnchangedTypes DEF VerdictCommits, ActorTypes, Places, HandPlaces, Stages, Goto,
     MergeTypes, actorVars, rowVars, mergeVars
<1>7. CASE MergeCommits(a)
  BY <1>7, UnchangedTypes DEF MergeCommits, ActorTypes, Places, HandPlaces, Stages, Goto,
     MergeTypes, rowVars, mergeVars
<1>8. CASE MergeRaises(a)
  BY <1>8, UnchangedTypes DEF MergeRaises, ActorTypes, Places, HandPlaces, Stages, Goto,
     rowVars, mergeVars
<1>9. CASE FailRead(a)
  BY <1>9, UnchangedTypes DEF FailRead, ActorTypes, Places, HandPlaces, Stages, Goto,
     RowTypes, LeaveJob, rowVars, mergeVars
<1>11. CASE StageRaises(a) \/ FailLost(a)
  BY <1>11, UnchangedTypes DEF StageRaises, FailLost, ActorTypes, Places, HandPlaces,
     Stages, Goto, LeaveJob, rowVars, mergeVars
<1>10. CASE FailWrite(a)
  BY <1>10, UnchangedTypes DEF FailWrite, ActorTypes, Places, HandPlaces, Stages, Goto,
     RowTypes, JobStates, FailureClasses, CaptureGrace, LeaveJob, rowVars, mergeVars
<1> QED
  BY <1>1, <1>2, <1>3, <1>4, <1>5, <1>6, <1>7, <1>8, <1>9, <1>10, <1>11 DEF Process

LEMMA ForegroundTypes ==
  ASSUME NEW e \in Enders, Types, Foreground(e)
  PROVE  Types'
<1> e \in Actors
  BY DEF Actors
<1> USE DEF Types
<1>1. ASSUME NEW j \in Jobs, SessionEnd(e, j) PROVE Types'
  BY <1>1, RowOperationTypes, UnchangedTypes
     DEF SessionEnd, ActorTypes, Places, HandPlaces, Goto
<1>2. ASSUME NEW j \in Jobs, ReplayJob(e, j) PROVE Types'
  BY <1>2, UnchangedTypes DEF ReplayJob, ActorTypes, Places, HandPlaces, Goto
<1>3. CASE StoreAndEnqueue(e)
  BY <1>3, RowOperationTypes, UnchangedTypes
     DEF StoreAndEnqueue, ActorTypes, Places, HandPlaces, Stages, Goto, LeaveJob
<1>4. CASE NoNewContent(e)
  BY <1>4, RowOperationTypes, UnchangedTypes
     DEF NoNewContent, ActorTypes, Places, HandPlaces, Stages, Goto, LeaveJob
<1>5. CASE Revive(e)
  BY <1>5, RowOperationTypes, UnchangedTypes
     DEF Revive, ActorTypes, Places, HandPlaces, Stages, Goto, LeaveJob
<1>6. CASE ReplaySessionEnd(e)
  BY <1>6, RowOperationTypes, UnchangedTypes
     DEF ReplaySessionEnd, ActorTypes, Places, HandPlaces, Stages, Goto, LeaveJob
<1>7. CASE KillEnder(e)
  BY <1>7, RowOperationTypes, UnchangedTypes
     DEF KillEnder, ActorTypes, Places, HandPlaces, Stages, Goto, LeaveJob
<1> QED
  BY <1>1, <1>2, <1>3, <1>4, <1>5, <1>6, <1>7 DEF Foreground

LEMMA TypeStep == TypeOK /\ [Next]_vars => TypeOK'
<1> SUFFICES ASSUME TypeOK, [Next]_vars PROVE TypeOK'
  OBVIOUS
<1> Types
  BY TypeParts DEF Types
<1>1. LockTypeOK'
  BY QueueStepIsLockStep, LockTypeStep, TypeParts
<1>2. Types'
  <2>1. ASSUME NEW w \in Workers, Drain(w) PROVE Types'
    BY <2>1, DrainTypes
  <2>2. ASSUME NEW w \in Workers, KillWorker(w) PROVE Types'
    BY <2>2, UnchangedTypes DEF KillWorker, Types, ActorTypes, Actors, Places, HandPlaces,
       Stages, Goto
  <2>3. ASSUME NEW a \in Actors, Process(a) PROVE Types'
    BY <2>3, ProcessTypes
  <2>4. ASSUME NEW e \in Enders, Foreground(e) PROVE Types'
    BY <2>4, ForegroundTypes
  <2>5. ASSUME NEW j \in Jobs, SessionCapture(j) PROVE Types'
    BY <2>5, RowOperationTypes, UnchangedTypes DEF SessionCapture, Types
  <2>6. ASSUME NEW j \in Jobs, RowAges(j) PROVE Types'
    BY <2>6, UnchangedTypes DEF RowAges, Types, RowTypes, CaptureGrace
  <2>7. CASE CaptureRecovers
    BY <2>7, RowOperationTypes, UnchangedTypes DEF CaptureRecovers, Types
  <2>8. CASE FileAges
    BY <2>8, UnchangedTypes DEF FileAges, Types
  <2>9. CASE UNCHANGED vars
    BY <2>9, UnchangedTypes DEF vars, stepVars, Types
  <2> QED
    BY <2>1, <2>2, <2>3, <2>4, <2>5, <2>6, <2>7, <2>8, <2>9 DEF Next, Step
<1>3. shared' \subseteq Jobs
  BY DEF TypeOK, Next, vars
<1> QED
  BY <1>1, <1>2, <1>3 DEF Types, TypeOK, RowTypes, MergeTypes, ActorTypes

\* The type invariant of the queue, for any constants.
THEOREM TypeCorrect == Spec => []TypeOK
  BY TypeInit, TypeStep, PTL DEF Spec

-----------------------------------------------------------------------------
\* Nothing is completed that was not merged.

LateStages == {"MERGED", "PROJECTED", "COMPLETED"}

\* Why CompletedWasMerged holds: an actor that is about to acknowledge a stage
\* after the merge has a job whose merge is durable, either its own doing or
\* what the guard found.
MergeInv ==
    /\ \A j \in Jobs : prov[j] => MergedEnough(j)
    /\ \A a \in Actors : stage[a] \in LateStages =>
           /\ pc[a] \in {"ack", "write", "failread", "failwrite"}
           /\ MergedEnough(job[a])
    /\ CompletedWasMerged

LEMMA MergeInvInit == Init => MergeInv
  BY DEF Init, MergeInv, LateStages, CompletedWasMerged

\* What was merged stays merged.
LEMMA MergedStays ==
  ASSUME TypeOK, [Next]_vars, NEW j \in Jobs, MergedEnough(j)
  PROVE  MergedEnough(j)'
<1>1. CASE UNCHANGED mergeVars
  BY <1>1 DEF mergeVars, MergedEnough
<1>2. ASSUME NEW a \in Actors, VerdictCommits(a) PROVE MergedEnough(j)'
  BY <1>2 DEF VerdictCommits, MergedEnough, TypeOK
<1>3. ASSUME NEW a \in Actors, MergeCommits(a) PROVE MergedEnough(j)'
  BY <1>3 DEF MergeCommits, MergedEnough, TypeOK
<1>4. ASSUME NEW w \in Workers, Drain(w) \/ KillWorker(w) PROVE UNCHANGED mergeVars
  BY <1>4 DEF Drain, mergeVars, BeginDrain, EnterDrain, ScanOrphans,
     RequeueOrphans, ReclaimStale, WorkerRecoverStuck, ListDeadLetters,
     ReplayTimeout, StartupFails, BeginClaims, PickJob, ClaimJob, ClaimRaises, Recount,
     StopClaims, FinishJob, EndDrain, KillWorker
<1>5. ASSUME NEW e \in Enders, Foreground(e) PROVE UNCHANGED mergeVars
  BY <1>5 DEF Foreground, mergeVars, SessionEnd, ReplayJob, StoreAndEnqueue,
     NoNewContent, Revive, ReplaySessionEnd, KillEnder
<1>6. ASSUME NEW a \in Actors, Process(a) PROVE MergedEnough(j)'
  BY <1>1, <1>2, <1>3, <1>6 DEF Process, mergeVars, Extract, ExtractRaises,
     AckCheck, AckWrite, MergeGuard, MergeRaises, StageRaises, FailRead,
     FailWrite, FailLost
<1> QED
  BY <1>1, <1>4, <1>5, <1>6 DEF Next, Step, SessionCapture, RowAges, CaptureRecovers,
     FileAges, vars, stepVars

\* A step of one actor that is neither an acknowledgement nor the end of a
\* merge completes nothing, and leaves no actor in a late stage that was not in
\* one before, at the same place of the acknowledgement or failure path.
LEMMA MergeInvStep == TypeOK /\ MergeInv /\ [Next]_vars => MergeInv'
<1> SUFFICES ASSUME TypeOK, MergeInv, [Next]_vars PROVE MergeInv'
  OBVIOUS
<1> USE DEF MergeInv, CompletedWasMerged
<1> DEFINE Late(b) == stage[b] \in LateStages
           LateOK(b) == Late(b) => /\ pc[b] \in {"ack", "write", "failread", "failwrite"}
                                   /\ MergedEnough(job[b])
           NewlyDone(j) == jobState'[j] = "completed" /\ jobState[j] # "completed"
\* It suffices that an actor's own part is kept and that only merged jobs complete.
<1>0. ASSUME \A j \in Jobs : prov'[j] /\ ~prov[j] => MergedEnough(j)',
             \A b \in Actors : LateOK(b)',
             \A j \in Jobs : NewlyDone(j) => MergedEnough(j)'
      PROVE  MergeInv'
  BY <1>0, MergedStays
<1>1. ASSUME NEW w \in Workers, Drain(w) PROVE MergeInv'
  <2> w \in Actors
    BY DEF Actors
  <2>1. UNCHANGED <<mergeVars, stage>>
    BY <1>1 DEF Drain, BeginDrain, EnterDrain, ScanOrphans,
       RequeueOrphans, ReclaimStale, WorkerRecoverStuck, ListDeadLetters,
       ReplayTimeout, StartupFails, BeginClaims, PickJob, ClaimJob, ClaimRaises, Recount,
       StopClaims, FinishJob, EndDrain, actorVars
  <2>2. ~Late(w)
    BY <1>1 DEF LateStages, Drain, BeginDrain, EnterDrain, ScanOrphans,
       RequeueOrphans, ReclaimStale, WorkerRecoverStuck, ListDeadLetters,
       ReplayTimeout, StartupFails, BeginClaims, PickJob, ClaimJob, ClaimRaises, Recount,
       StopClaims, FinishJob, EndDrain
  <2>3. \A b \in Actors \ {w} : pc'[b] = pc[b] /\ job'[b] = job[b]
    BY <1>1 DEF TypeOK, Goto, Drain, BeginDrain, EnterDrain, ScanOrphans,
       RequeueOrphans, ReclaimStale, WorkerRecoverStuck, ListDeadLetters,
       ReplayTimeout, StartupFails, BeginClaims, PickJob, ClaimJob, ClaimRaises, Recount,
       StopClaims, FinishJob, EndDrain, actorVars
  <2>4. \A j \in Jobs : ~NewlyDone(j)
    BY <1>1 DEF TypeOK, Requeue, RecoverStuckRunning, ReplayDeadLetter, rowVars,
       Drain, BeginDrain, EnterDrain, ScanOrphans,
       RequeueOrphans, ReclaimStale, WorkerRecoverStuck, ListDeadLetters,
       ReplayTimeout, StartupFails, BeginClaims, PickJob, ClaimJob, ClaimRaises, Recount,
       StopClaims, FinishJob, EndDrain
  <2> QED
    BY <1>0, <2>1, <2>2, <2>3, <2>4, MergedStays DEF mergeVars, MergedEnough
<1>2. ASSUME NEW w \in Workers, KillWorker(w) PROVE MergeInv'
  BY <1>0, <1>2 DEF KillWorker, Goto, TypeOK, LateStages, Actors, MergedEnough,
     mergeVars, rowVars
<1>3. ASSUME NEW e \in Enders, Foreground(e) PROVE MergeInv'
  BY <1>0, <1>3 DEF Foreground, TypeOK, LateStages, Actors, MergedEnough,
     mergeVars, rowVars, SessionEnd, ReplayJob, StoreAndEnqueue,
     NoNewContent, Revive, ReplaySessionEnd, KillEnder, LeaveJob, Goto,
     EnqueueExtraction, RecoverStuckRunning, ReplayDeadLetter
<1>4. ASSUME NEW a \in Actors, Process(a) PROVE MergeInv'
  <2>1. CASE AckWrite(a)
    BY <1>0, <2>1 DEF AckWrite, TypeOK, LateStages, HandPlaces, NextStage, AfterAck,
       LeaveJob, Goto, MergedEnough, mergeVars
  <2>2. CASE MergeGuard(a)
    BY <1>0, <2>2 DEF MergeGuard, NothingToMerge, NoCandidates, TypeOK, LateStages, HandPlaces, Goto, MergedEnough,
       mergeVars, rowVars
  <2>3. CASE VerdictCommits(a)
    BY <1>0, <2>3, MergedStays DEF VerdictCommits, TypeOK, LateStages, HandPlaces, MergedEnough,
       actorVars, rowVars
  <2>4. CASE MergeCommits(a)
    BY <1>0, <2>4, MergedStays DEF MergeCommits, TypeOK, LateStages, HandPlaces, Goto,
       MergedEnough, rowVars
  <2>5. CASE Extract(a) \/ ExtractRaises(a) \/ MergeRaises(a)
    BY <1>0, <2>5 DEF Extract, ExtractRaises, MergeRaises, TypeOK, LateStages, Goto,
       MergedEnough, mergeVars, rowVars
  <2>6. CASE AckCheck(a)
    BY <1>0, <2>6 DEF AckCheck, LeaveJob, TypeOK, LateStages, Goto, MergedEnough,
       mergeVars, rowVars
  <2>7. CASE StageRaises(a) \/ FailRead(a) \/ FailWrite(a) \/ FailLost(a)
    BY <1>0, <2>7 DEF StageRaises, FailRead, FailWrite, FailLost, LeaveJob, TypeOK, LateStages, Goto,
       MergedEnough, mergeVars, rowVars
  <2> QED
    BY <1>4, <2>1, <2>2, <2>3, <2>4, <2>5, <2>6, <2>7 DEF Process
<1>5. ASSUME NEW j \in Jobs, SessionCapture(j) \/ RowAges(j) PROVE MergeInv'
  BY <1>0, <1>5 DEF SessionCapture, RowAges, EnqueueExtraction, TypeOK, MergedEnough,
     mergeVars, actorVars
<1>6. CASE CaptureRecovers \/ FileAges \/ UNCHANGED vars
  BY <1>0, <1>6 DEF CaptureRecovers, FileAges, RecoverStuckRunning, vars, stepVars, TypeOK,
     MergedEnough, mergeVars, actorVars, rowVars
<1> QED
  BY <1>1, <1>2, <1>3, <1>4, <1>5, <1>6 DEF Next, Step

\* No worker, foreground call, crash or delay completes a job whose candidates
\* were not merged.
THEOREM CompletedCorrect == Spec => []CompletedWasMerged
<1>1. Spec => [](TypeOK /\ MergeInv)
  BY TypeInit, TypeStep, MergeInvInit, MergeInvStep, PTL DEF Spec
<1>2. MergeInv => CompletedWasMerged
  BY DEF MergeInv
<1> QED
  BY <1>1, <1>2, PTL

-----------------------------------------------------------------------------
\* Who has claimed what.

ClaimInv ==
    /\ ClaimNamesClaimant
    /\ \A j \in Jobs : jobState[j] = "absent" => claimedBy[j] = NoOne

LEMMA ClaimInvInit == Init => ClaimInv
  BY DEF Init, ClaimInv, ClaimNamesClaimant, Claimable

LEMMA ClaimInvStep == TypeOK /\ ClaimInv /\ [Next]_vars => ClaimInv'
<1> SUFFICES ASSUME TypeOK, ClaimInv, [Next]_vars PROVE ClaimInv'
  OBVIOUS
<1> USE DEF ClaimInv, ClaimNamesClaimant, Claimable
<1>0. CASE UNCHANGED rowVars
  BY <1>0 DEF rowVars
<1>1. ASSUME NEW w \in Workers, ClaimJob(w) PROVE ClaimInv'
  BY <1>0, <1>1, QueueAssumption DEF QueueAssumption, ClaimJob, TypeOK
<1>2. ASSUME NEW js, Requeue(js) PROVE ClaimInv'
  BY <1>2 DEF Requeue, TypeOK
<1>3. ASSUME NEW grace, RecoverStuckRunning(grace) PROVE ClaimInv'
  BY <1>3 DEF RecoverStuckRunning, TypeOK
<1>4. ASSUME NEW j, ReplayDeadLetter(j) PROVE ClaimInv'
  BY <1>0, <1>4 DEF ReplayDeadLetter, TypeOK
<1>5. ASSUME NEW j, EnqueueExtraction(j) PROVE ClaimInv'
  BY <1>5 DEF EnqueueExtraction, TypeOK
<1>6. ASSUME NEW a \in Actors, AckWrite(a) PROVE ClaimInv'
  BY <1>6 DEF AckWrite, TypeOK
<1>7. ASSUME NEW a \in Actors, FailWrite(a) PROVE ClaimInv'
  BY <1>7 DEF FailWrite, TypeOK
<1>8. ASSUME NEW j \in Jobs, RowAges(j) PROVE ClaimInv'
  BY <1>8 DEF RowAges
<1>9. ASSUME NEW w \in Workers, Drain(w) \/ KillWorker(w) PROVE ClaimInv'
  BY <1>0, <1>1, <1>2, <1>3, <1>4, <1>9 DEF Drain, BeginDrain, EnterDrain, ScanOrphans,
     RequeueOrphans, ReclaimStale, WorkerRecoverStuck, ListDeadLetters,
     ReplayTimeout, StartupFails, BeginClaims, PickJob, ClaimRaises, Recount,
     StopClaims, FinishJob, EndDrain, KillWorker
<1>10. ASSUME NEW a \in Actors, Process(a) PROVE ClaimInv'
  BY <1>0, <1>6, <1>7, <1>10 DEF Process, Extract, ExtractRaises, AckCheck,
     MergeGuard, VerdictCommits, MergeCommits, MergeRaises, StageRaises,
     FailRead, FailLost, rowVars
<1>11. ASSUME NEW e \in Enders, Foreground(e) PROVE ClaimInv'
  BY <1>0, <1>3, <1>4, <1>5, <1>11 DEF Foreground, SessionEnd, ReplayJob, StoreAndEnqueue,
     NoNewContent, Revive, ReplaySessionEnd, KillEnder
<1> QED
  BY <1>0, <1>3, <1>5, <1>8, <1>9, <1>10, <1>11 DEF Next, Step, SessionCapture, CaptureRecovers,
     FileAges, vars, stepVars

\* The orphan and staleness recoveries can always find the claimant.
THEOREM ClaimantCorrect == Spec => []ClaimNamesClaimant
<1>1. Spec => [](TypeOK /\ ClaimInv)
  BY TypeInit, TypeStep, ClaimInvInit, ClaimInvStep, PTL DEF Spec
<1>2. ClaimInv => ClaimNamesClaimant
  BY DEF ClaimInv
<1> QED
  BY <1>1, <1>2, PTL

-----------------------------------------------------------------------------
\* What a job that was never in two hands is owed, by any number of workers and
\* foreground calls, whoever is killed or delayed.

\* An actor is past the point where it found the row in flight or put it there:
\* everywhere at work but at the first acknowledgement of a foreground call.
Underway(a) == /\ pc[a] \in WorkPlaces
               /\ pc[a] \in {"ack", "write"} => stage[a] # "OBSERVED"

\* What an actor may rely on of the job in its hands: the row exists and is in
\* flight, or at least not terminal between the two halves of an acknowledgement;
\* the attempts it has read are the row's; and what it merges was never merged.
HandOK(a) ==
    pc[a] \in WorkPlaces /\ job[a] \notin shared =>
        /\ jobState[job[a]] # "absent"
        /\ Underway(a) => Inflight(job[a])
        /\ pc[a] = "write" => jobState[job[a]] \notin TerminalStates
        /\ pc[a] = "failwrite" => seen[a] = attempts[job[a]]
        /\ pc[a] = "merging" => /\ Shape[job[a]] # "empty"
                                /\ Shape[job[a]] # "rejected" => merges[job[a]] = 0

TriesOK(j) ==
    /\ attempts[j] <= MaxAttempts
    /\ jobState[j] \notin TerminalStates => attempts[j] < MaxAttempts

MergesOK(j) ==
    /\ Shape[j] = "empty" => merges[j] = 0
    /\ Shape[j] \in {"plain", "gated"} => merges[j] <= 1 /\ (merges[j] = 1 => prov[j])

HandInv ==
    /\ \A a \in Actors : HandOK(a)
    /\ \A a \in Actors : pc[a] \notin WorkPlaces => stage[a] = "OBSERVED"
    /\ \A a, b \in Actors, j \in Jobs \ shared : Attends(a, j) /\ Attends(b, j) => a = b
    /\ \A j \in Jobs \ shared : TriesOK(j) /\ MergesOK(j)

LEMMA HandInvInit == Init => HandInv
  BY QueueAssumption DEF QueueAssumption, Init, HandInv, HandOK, Attends, TriesOK, MergesOK, WorkPlaces

\* Who has a job at work has a job.
LEMMA AttendsJob ==
  ASSUME TypeOK, NEW a \in Actors, pc[a] \in WorkPlaces
  PROVE  job[a] \in Jobs /\ Attends(a, job[a])
  BY DEF TypeOK, WorkPlaces, HandPlaces, Attends

\* Only the one action writes a row's attempts without moving the row, and only
\* the other counts a merge.
LEMMA WhoCounts ==
  ASSUME TypeOK, Step, NEW j \in Jobs
  PROVE  /\ attempts'[j] # attempts[j] => \/ jobState'[j] # jobState[j]
                                         \/ \E b \in Actors : FailWrite(b) /\ job[b] = j
         /\ merges'[j] # merges[j] => \E b \in Actors : MergeCommits(b) /\ job[b] = j
<1> USE DEF TypeOK
<1>1. ASSUME NEW i, ReplayDeadLetter(i) PROVE attempts'[j] # attempts[j] => jobState'[j] # jobState[j]
  BY <1>1 DEF ReplayDeadLetter, rowVars
<1>2. ASSUME NEW w \in Workers, Drain(w)
      PROVE  (attempts'[j] # attempts[j] => jobState'[j] # jobState[j]) /\ merges' = merges
  BY <1>1, <1>2 DEF Drain, mergeVars, rowVars, BeginDrain, EnterDrain, ScanOrphans, RequeueOrphans, ReclaimStale,
     WorkerRecoverStuck, Requeue, RecoverStuckRunning, ListDeadLetters, ReplayTimeout, StartupFails,
     BeginClaims, PickJob, ClaimJob, ClaimRaises, Recount, StopClaims, FinishJob, EndDrain
<1>3. ASSUME NEW e \in Enders, Foreground(e)
      PROVE  (attempts'[j] # attempts[j] => jobState'[j] # jobState[j]) /\ merges' = merges
  BY <1>1, <1>3 DEF Foreground, mergeVars, rowVars, SessionEnd, ReplayJob, StoreAndEnqueue, NoNewContent, Revive,
     ReplaySessionEnd, KillEnder, RecoverStuckRunning, EnqueueExtraction
<1>4. ASSUME NEW a \in Actors, Process(a)
      PROVE  /\ attempts'[j] # attempts[j] => FailWrite(a) /\ job[a] = j
             /\ merges'[j] # merges[j] => MergeCommits(a) /\ job[a] = j
  BY <1>4 DEF Process, Extract, ExtractRaises, AckCheck, AckWrite, MergeGuard, VerdictCommits, MergeCommits,
     MergeRaises, StageRaises, FailRead, FailWrite, FailLost, rowVars, mergeVars
<1>5. ASSUME \/ \E w \in Workers : KillWorker(w)
             \/ \E i \in Jobs : SessionCapture(i) \/ RowAges(i)
             \/ CaptureRecovers \/ FileAges
      PROVE  attempts' = attempts /\ merges' = merges
  BY <1>5 DEF KillWorker, SessionCapture, RowAges, CaptureRecovers, FileAges, EnqueueExtraction,
     RecoverStuckRunning, rowVars, mergeVars
<1> QED
  BY <1>2, <1>3, <1>4, <1>5 DEF Step

\* An actor that takes no step keeps what it relies on: a step that moves its job's
\* row makes the job a shared one.
LEMMA HandFrame ==
  ASSUME TypeOK, HandInv, Next, NEW a \in Actors,
         pc'[a] = pc[a], job'[a] = job[a], stage'[a] = stage[a], seen'[a] = seen[a]
  PROVE  HandOK(a)'
<1> SUFFICES ASSUME pc[a] \in WorkPlaces, job[a] \notin shared'
             PROVE  /\ jobState'[job[a]] # "absent"
                    /\ Underway(a)' => Inflight(job[a])'
                    /\ pc[a] = "write" => jobState'[job[a]] \notin TerminalStates
                    /\ pc[a] = "failwrite" => seen'[a] = attempts'[job[a]]
                    /\ pc[a] = "merging" => /\ Shape[job[a]] # "empty"
                                            /\ Shape[job[a]] # "rejected" => merges'[job[a]] = 0
  BY DEF HandOK
<1> DEFINE j == job[a]
<1>1. j \in Jobs /\ Attends(a, j)
  BY AttendsJob
<1>2. j \notin shared /\ ~Shares(j)
  BY <1>1 DEF Next
<1>3. jobState'[j] = jobState[j]
  BY <1>1, <1>2 DEF Shares
<1>4. ASSUME NEW b \in Actors, FailWrite(b) \/ MergeCommits(b), job[b] = j PROVE FALSE
  <2>1. Attends(b, j)
    BY <1>4 DEF Attends, FailWrite, MergeCommits, WorkPlaces
  <2>2. b = a
    BY <1>1, <1>2, <2>1 DEF HandInv
  <2> QED
    BY <1>4, <2>2 DEF FailWrite, MergeCommits, LeaveJob, Goto, TypeOK
<1>5. attempts'[j] = attempts[j] /\ merges'[j] = merges[j]
  BY <1>1, <1>3, <1>4, WhoCounts DEF Next
<1>6. HandOK(a)
  BY DEF HandInv
<1> QED
  BY <1>2, <1>3, <1>5, <1>6 DEF HandOK, Underway, Inflight

\* The actors that take no part in another's step.
LEMMA OthersStay ==
  ASSUME TypeOK
  PROVE  /\ \A w \in Workers : Drain(w) \/ KillWorker(w) =>
                \A b \in Actors \ {w} : /\ pc'[b] = pc[b] /\ job'[b] = job[b]
                                        /\ stage'[b] = stage[b] /\ seen'[b] = seen[b]
         /\ \A a \in Actors : Process(a) =>
                \A b \in Actors \ {a} : /\ pc'[b] = pc[b] /\ job'[b] = job[b]
                                        /\ stage'[b] = stage[b] /\ seen'[b] = seen[b]
         /\ \A e \in Enders : Foreground(e) =>
                \A b \in Actors \ {e} : /\ pc'[b] = pc[b] /\ job'[b] = job[b]
                                        /\ stage'[b] = stage[b] /\ seen'[b] = seen[b]
<1> USE DEF TypeOK, Goto, LeaveJob, actorVars
<1>1. ASSUME NEW w \in Workers, Drain(w) \/ KillWorker(w), NEW b \in Actors \ {w}
      PROVE  pc'[b] = pc[b] /\ job'[b] = job[b] /\ stage'[b] = stage[b] /\ seen'[b] = seen[b]
  BY <1>1 DEF Drain, BeginDrain, EnterDrain, ScanOrphans, RequeueOrphans, ReclaimStale, WorkerRecoverStuck,
     ListDeadLetters, ReplayTimeout, StartupFails, BeginClaims, PickJob, ClaimJob, ClaimRaises, Recount,
     StopClaims, FinishJob, EndDrain, KillWorker
<1>2. ASSUME NEW a \in Actors, Process(a), NEW b \in Actors \ {a}
      PROVE  pc'[b] = pc[b] /\ job'[b] = job[b] /\ stage'[b] = stage[b] /\ seen'[b] = seen[b]
  BY <1>2 DEF Process, Extract, ExtractRaises, AckCheck, AckWrite, MergeGuard, VerdictCommits, MergeCommits,
     MergeRaises, StageRaises, FailRead, FailWrite, FailLost
<1>3. ASSUME NEW e \in Enders, Foreground(e), NEW b \in Actors \ {e}
      PROVE  pc'[b] = pc[b] /\ job'[b] = job[b] /\ stage'[b] = stage[b] /\ seen'[b] = seen[b]
  BY <1>3 DEF Foreground, SessionEnd, ReplayJob, StoreAndEnqueue, NoNewContent, Revive, ReplaySessionEnd, KillEnder
<1> QED
  BY <1>1, <1>2, <1>3

\* The actor whose step it is.
LEMMA ProcessKeepsHand ==
  ASSUME TypeOK, HandInv, NEW a \in Actors, Process(a), shared \subseteq shared'
  PROVE  HandOK(a)' /\ (pc'[a] \notin WorkPlaces => stage'[a] = "OBSERVED")
<1> USE DEF Goto
<1> DEFINE j == job[a]
<1>0. /\ pc[a] \in WorkPlaces /\ j \in Jobs /\ HandOK(a)
      /\ j \notin shared => TriesOK(j) /\ MergesOK(j)
      /\ pc \in [Actors -> Places] /\ stage \in [Actors -> Stages] /\ seen \in [Actors -> Nat]
      /\ jobState \in [Jobs -> JobStates]
  <2>1. pc[a] \in WorkPlaces
    BY DEF WorkPlaces, Process, Extract, ExtractRaises, AckCheck, AckWrite, MergeGuard, VerdictCommits,
       MergeCommits, MergeRaises, StageRaises, FailRead, FailWrite, FailLost
  <2> QED BY <2>1, AttendsJob DEF HandInv, TypeOK
\* A job that is left leaves nothing to rely on.
<1>1. ASSUME LeaveJob(a) PROVE pc'[a] \notin WorkPlaces /\ stage'[a] = "OBSERVED"
  BY <1>0, <1>1 DEF LeaveJob, WorkPlaces
\* The steps that only go on to another place under way.
<1>2. CASE /\ jobState'[j] = jobState[j] /\ job' = job
           /\ Underway(a)
           /\ pc'[a] \in {"work", "ack", "guard", "failread"} /\ stage'[a] \in Stages
  BY <1>0, <1>2 DEF HandOK, WorkPlaces, Underway, Inflight
<1>3. CASE Extract(a) \/ ExtractRaises(a) \/ MergeRaises(a)
  <2>1. jobState' = jobState /\ job' = job /\ pc'[a] \in {"ack", "failread"} /\ stage'[a] \in Stages
    BY <1>0, <1>3 DEF Extract, ExtractRaises, MergeRaises, rowVars, Stages
  <2>2. Underway(a)
    BY <1>0, <1>3 DEF Extract, ExtractRaises, MergeRaises, Underway
  <2> QED BY <1>2, <2>1, <2>2
<1>4. CASE AckCheck(a)
  <2>0. UNCHANGED rowVars
    BY <1>4 DEF AckCheck
  <2>1. CASE jobState[j] \notin TerminalStates
    BY <1>0, <1>4, <2>0, <2>1 DEF AckCheck, HandOK, WorkPlaces, Underway, Inflight, rowVars
  <2>2. CASE jobState[j] \in TerminalStates /\ stage[a] = "OBSERVED"
    BY <1>0, <1>1, <1>4, <2>2 DEF AckCheck, HandOK
  <2>3. CASE jobState[j] \in TerminalStates /\ stage[a] # "OBSERVED"
    <3>1. Underway(a) /\ pc'[a] = "failread" /\ job' = job /\ stage' = stage
      BY <1>0, <1>4, <2>3 DEF AckCheck, Underway
    <3> QED BY <1>0, <1>2, <2>0, <3>1 DEF rowVars
  <2> QED BY <2>1, <2>2, <2>3
<1>5. CASE StageRaises(a)
  <2>0. UNCHANGED rowVars
    BY <1>5 DEF StageRaises
  <2>1. CASE stage[a] = "OBSERVED"
    BY <1>0, <1>1, <1>5, <2>1 DEF StageRaises, HandOK
  <2>2. CASE stage[a] # "OBSERVED"
    <3>1. Underway(a) /\ pc'[a] = "failread" /\ job' = job /\ stage' = stage
      BY <1>0, <1>5, <2>2 DEF StageRaises, Underway
    <3> QED BY <1>0, <1>2, <2>0, <3>1 DEF rowVars
  <2> QED BY <2>1, <2>2
<1>6. CASE AckWrite(a)
  <2>1. CASE stage[a] = "COMPLETED"
    BY <1>0, <1>1, <1>6, <2>1 DEF AckWrite, HandOK
  <2>2. CASE stage[a] # "COMPLETED"
    <3>1. /\ jobState'[j] = "running" /\ job' = job /\ pc'[a] = AfterAck(stage[a])
          /\ stage'[a] = NextStage(stage[a])
      BY <1>0, <1>6, <2>2 DEF AckWrite
    <3>2. AfterAck(stage[a]) \in {"work", "guard", "ack"}
      BY DEF AfterAck
    <3> QED BY <1>0, <3>1, <3>2 DEF HandOK, WorkPlaces, Inflight, TerminalStates
  <2> QED BY <2>1, <2>2
<1>7. CASE MergeGuard(a)
  <2>0. UNCHANGED <<rowVars, mergeVars>> /\ job' = job /\ Underway(a)
    BY <1>0, <1>7 DEF MergeGuard, Underway
  <2>1. CASE NothingToMerge(j)
    BY <1>0, <1>2, <1>7, <2>0, <2>1 DEF MergeGuard, rowVars, Stages
  <2>2. CASE ~NothingToMerge(j)
    <3>1. pc'[a] = "merging" /\ stage' = stage
      BY <1>0, <1>7, <2>2 DEF MergeGuard
    <3>2. Shape[j] # "empty" /\ ~prov[j] /\ Shape[j] \in {"empty", "rejected", "plain", "gated"} /\ merges[j] \in Nat
      BY <1>0, <2>2, QueueAssumption DEF QueueAssumption, NothingToMerge, NoCandidates, TypeOK
    <3> QED BY <1>0, <2>0, <3>1, <3>2 DEF HandOK, WorkPlaces, Underway, Inflight, rowVars, mergeVars, MergesOK
  <2> QED BY <2>1, <2>2
<1>8. CASE VerdictCommits(a)
  BY <1>0, <1>8 DEF VerdictCommits, HandOK, WorkPlaces, Underway, Inflight, rowVars, actorVars
<1>9. CASE MergeCommits(a)
  <2>1. UNCHANGED rowVars /\ job' = job /\ Underway(a) /\ pc'[a] = "ack" /\ stage'[a] = "MERGED"
    BY <1>0, <1>9 DEF MergeCommits, Underway
  <2> QED BY <1>0, <1>2, <2>1 DEF rowVars, Stages
<1>10. CASE FailRead(a)
  <2>1. CASE jobState[j] \in TerminalStates
    BY <1>0, <1>1, <1>10, <2>1 DEF FailRead, HandOK
  <2>2. CASE jobState[j] \notin TerminalStates
    <3>1. /\ pc'[a] = "failwrite" /\ seen'[a] = attempts[j] /\ job' = job /\ stage' = stage
          /\ UNCHANGED rowVars /\ Underway(a)
      BY <1>0, <1>10, <2>2 DEF FailRead, Underway
    <3> QED BY <1>0, <3>1 DEF HandOK, WorkPlaces, Underway, Inflight, rowVars
  <2> QED BY <2>1, <2>2
<1>11. CASE FailWrite(a) \/ FailLost(a)
  BY <1>0, <1>1, <1>11 DEF FailWrite, FailLost, HandOK
<1> QED
  BY <1>3, <1>4, <1>5, <1>6, <1>7, <1>8, <1>9, <1>10, <1>11 DEF Process

\* What the operations on rows may do to one row that nobody shares.
RowMove(j) ==
    \/ jobState'[j] = jobState[j]
    \/ jobState[j] = "absent" /\ jobState'[j] = "queued"
    \/ Claimable(j) /\ jobState'[j] \in {"claimed", "running"}
    \/ Inflight(j) /\ jobState'[j] # "absent"
    \/ jobState[j] = "dead_lettered" /\ jobState'[j] = "queued"

LEMMA RowOperationTries ==
  ASSUME TypeOK, NEW i \in Jobs, TriesOK(i)
  PROVE  /\ \A j : EnqueueExtraction(j) => TriesOK(i)' /\ RowMove(i)
         /\ \A js : Requeue(js) /\ (\A j \in js : j \in Jobs => Inflight(j)) => TriesOK(i)' /\ RowMove(i)
         /\ \A grace : RecoverStuckRunning(grace) => TriesOK(i)' /\ RowMove(i)
         /\ \A j : ReplayDeadLetter(j) => TriesOK(i)' /\ RowMove(i)
         /\ UNCHANGED rowVars => TriesOK(i)' /\ RowMove(i)
<1> USE QueueAssumption DEF QueueAssumption, TriesOK, TypeOK, TerminalStates, RowMove
<1>1. ASSUME NEW j, EnqueueExtraction(j) PROVE TriesOK(i)' /\ RowMove(i)
  BY <1>1 DEF EnqueueExtraction
<1>2. ASSUME NEW js, Requeue(js), \A j \in js : j \in Jobs => Inflight(j) PROVE TriesOK(i)' /\ RowMove(i)
  BY <1>2 DEF Requeue, Inflight
<1>3. ASSUME NEW grace, RecoverStuckRunning(grace) PROVE TriesOK(i)' /\ RowMove(i)
  BY <1>3 DEF RecoverStuckRunning, StuckRunning, Inflight
<1>4. ASSUME UNCHANGED rowVars PROVE TriesOK(i)' /\ RowMove(i)
  BY <1>4 DEF rowVars
<1>5. ASSUME NEW j, ReplayDeadLetter(j) PROVE TriesOK(i)' /\ RowMove(i)
  BY <1>4, <1>5 DEF ReplayDeadLetter
<1> QED
  BY <1>1, <1>2, <1>3, <1>4, <1>5

\* A step on the row of a job that nobody shares.
LEMMA RowStep ==
  ASSUME TypeOK, HandInv, Step, NEW i \in Jobs \ shared
  PROVE  TriesOK(i)' /\ RowMove(i)
<1>0. TriesOK(i) /\ jobState \in [Jobs -> JobStates] /\ attempts \in [Jobs -> Nat]
  BY DEF HandInv, TypeOK
<1>1. CASE UNCHANGED <<jobState, attempts>>
  BY <1>0, <1>1 DEF TriesOK, RowMove
<1>2. ASSUME NEW w \in Workers, Drain(w) PROVE TriesOK(i)' /\ RowMove(i)
  <2>1. CASE RequeueOrphans(w) \/ ReclaimStale(w) \/ WorkerRecoverStuck(w) \/ ReplayTimeout(w)
    BY <1>0, <2>1, RowOperationTries DEF RequeueOrphans, ReclaimStale, WorkerRecoverStuck, ReplayTimeout, Inflight
  <2>2. CASE ClaimJob(w)
    BY <1>0, <1>1, <2>2 DEF ClaimJob, rowVars, TriesOK, RowMove, Claimable, TerminalStates
  <2> QED
    BY <1>1, <1>2, <2>1, <2>2 DEF Drain, rowVars, BeginDrain, EnterDrain, ScanOrphans, ListDeadLetters,
       StartupFails, BeginClaims, PickJob, ClaimRaises, Recount, StopClaims, FinishJob, EndDrain
<1>3. ASSUME NEW a \in Actors, Process(a) PROVE TriesOK(i)' /\ RowMove(i)
  <2>1. CASE AckWrite(a)
    <3>1. /\ pc[a] = "write" /\ job[a] \in Jobs /\ HandOK(a)
          /\ jobState' = [jobState EXCEPT ![job[a]] = IF stage[a] = "COMPLETED" THEN "completed" ELSE "running"]
          /\ attempts' = attempts
      BY <2>1, AttendsJob DEF AckWrite, WorkPlaces, HandInv
    <3>2. CASE job[a] = i
      <4>1. /\ jobState[i] # "absent" /\ jobState[i] \notin TerminalStates
            /\ stage[a] = "COMPLETED" => Inflight(i)
        BY <3>1, <3>2 DEF HandOK, WorkPlaces, Underway
      <4>2. Inflight(i) \/ Claimable(i)
        BY <1>0, <4>1 DEF JobStates, TerminalStates, Inflight, Claimable
      <4> QED BY <1>0, <3>1, <3>2, <4>1, <4>2 DEF TriesOK, RowMove, TerminalStates
    <3>3. CASE job[a] # i
      BY <1>0, <3>1, <3>3 DEF TriesOK, RowMove
    <3> QED BY <3>2, <3>3
  <2>2. CASE FailWrite(a)
    <3>1. /\ pc[a] = "failwrite" /\ job[a] \in Jobs /\ HandOK(a)
          /\ jobState' = [jobState EXCEPT ![job[a]] = IF OutOfTries(seen[a] + 1) THEN "dead_lettered" ELSE "retryable_failure"]
          /\ attempts' = [attempts EXCEPT ![job[a]] = seen[a] + 1]
      BY <2>2, AttendsJob DEF FailWrite, WorkPlaces, HandInv
    <3>2. CASE job[a] = i
      <4>1. Inflight(i) /\ seen[a] = attempts[i]
        BY <3>1, <3>2 DEF HandOK, WorkPlaces, Underway
      <4>2. attempts[i] < MaxAttempts
        BY <1>0, <4>1 DEF TriesOK, Inflight, TerminalStates
      <4> QED
        BY <1>0, <3>1, <3>2, <4>1, <4>2, QueueAssumption
           DEF QueueAssumption, TriesOK, RowMove, TerminalStates, OutOfTries
    <3>3. CASE job[a] # i
      BY <1>0, <3>1, <3>3 DEF TriesOK, RowMove
    <3> QED BY <3>2, <3>3
  <2> QED
    BY <1>1, <1>3, <2>1, <2>2 DEF Process, Extract, ExtractRaises, AckCheck, MergeGuard, VerdictCommits,
       MergeCommits, MergeRaises, StageRaises, FailRead, FailLost, rowVars
<1>4. ASSUME NEW e \in Enders, Foreground(e) PROVE TriesOK(i)' /\ RowMove(i)
  BY <1>0, <1>4, RowOperationTries DEF Foreground, SessionEnd, ReplayJob, StoreAndEnqueue, NoNewContent, Revive,
     ReplaySessionEnd, KillEnder
<1>5. ASSUME NEW j \in Jobs, SessionCapture(j) PROVE TriesOK(i)' /\ RowMove(i)
  BY <1>0, <1>5, RowOperationTries DEF SessionCapture
<1>6. CASE CaptureRecovers
  BY <1>0, <1>6, RowOperationTries DEF CaptureRecovers
<1>7. ASSUME (\E w \in Workers : KillWorker(w)) \/ (\E j \in Jobs : RowAges(j)) \/ FileAges
      PROVE  UNCHANGED <<jobState, attempts>>
  BY <1>7 DEF KillWorker, RowAges, FileAges, rowVars
<1> QED
  BY <1>1, <1>2, <1>3, <1>4, <1>5, <1>6, <1>7 DEF Step

\* A step on the merges of a job that nobody shares.
LEMMA MergeStep ==
  ASSUME TypeOK, HandInv, Step, NEW i \in Jobs \ shared
  PROVE  MergesOK(i)'
<1>0. MergesOK(i) /\ prov \in [Jobs -> BOOLEAN] /\ merges \in [Jobs -> Nat]
  BY DEF HandInv, TypeOK
<1>1. CASE UNCHANGED mergeVars
  BY <1>0, <1>1 DEF MergesOK, mergeVars
<1>2. ASSUME NEW a \in Actors, VerdictCommits(a) PROVE MergesOK(i)'
  <2>1. merges' = merges /\ prov' = [prov EXCEPT ![job[a]] = TRUE]
    BY <1>2 DEF VerdictCommits
  <2> QED BY <1>0, <2>1 DEF MergesOK
<1>3. ASSUME NEW a \in Actors, MergeCommits(a) PROVE MergesOK(i)'
  <2>1. /\ pc[a] = "merging" /\ HandOK(a)
        /\ merges' = [merges EXCEPT ![job[a]] = @ + 1]
        /\ prov' = [prov EXCEPT ![job[a]] = @ \/ Shape[job[a]] \in {"plain", "gated"}]
    BY <1>3 DEF MergeCommits, HandInv
  <2>2. CASE job[a] = i
    <3>1. Shape[i] # "empty" /\ (Shape[i] # "rejected" => merges[i] = 0)
      BY <2>1, <2>2 DEF HandOK, WorkPlaces
    <3>2. merges'[i] = merges[i] + 1 /\ (Shape[i] \in {"plain", "gated"} => prov'[i])
      BY <1>0, <2>1, <2>2
    <3> QED BY <3>1, <3>2 DEF MergesOK
  <2>3. CASE job[a] # i
    BY <1>0, <2>1, <2>3 DEF MergesOK
  <2> QED BY <2>2, <2>3
<1>4. ASSUME NEW w \in Workers, Drain(w) \/ KillWorker(w) PROVE UNCHANGED mergeVars
  BY <1>4 DEF Drain, mergeVars, BeginDrain, EnterDrain, ScanOrphans, RequeueOrphans, ReclaimStale,
     WorkerRecoverStuck, ListDeadLetters, ReplayTimeout, StartupFails, BeginClaims, PickJob, ClaimJob,
     ClaimRaises, Recount, StopClaims, FinishJob, EndDrain, KillWorker
<1>5. ASSUME NEW e \in Enders, Foreground(e) PROVE UNCHANGED mergeVars
  BY <1>5 DEF Foreground, mergeVars, SessionEnd, ReplayJob, StoreAndEnqueue, NoNewContent, Revive,
     ReplaySessionEnd, KillEnder
<1>6. ASSUME NEW a \in Actors, Process(a) PROVE MergesOK(i)'
  BY <1>1, <1>2, <1>3, <1>6 DEF Process, mergeVars, Extract, ExtractRaises, AckCheck, AckWrite, MergeGuard,
     MergeRaises, StageRaises, FailRead, FailWrite, FailLost
<1> QED
  BY <1>1, <1>4, <1>5, <1>6 DEF Step, SessionCapture, RowAges, CaptureRecovers, FileAges

LEMMA HandInvStep == TypeOK /\ HandInv /\ [Next]_vars => HandInv'
<1> SUFFICES ASSUME TypeOK, HandInv, [Next]_vars PROVE HandInv'
  OBVIOUS
<1>1. CASE UNCHANGED vars
  BY <1>1 DEF vars, stepVars, rowVars, mergeVars, actorVars, HandInv, HandOK, Underway, Inflight, Attends, TriesOK, MergesOK
<1>2. CASE Next
  <2>0. Step /\ shared \subseteq shared' /\ \A j \in Jobs \ shared' : j \notin shared /\ ~Shares(j)
    BY <1>2 DEF Next
  <2>1. \A j \in Jobs \ shared' : TriesOK(j)' /\ MergesOK(j)'
    BY <2>0, RowStep, MergeStep
  <2>2. \A a, b \in Actors, j \in Jobs \ shared' : Attends(a, j)' /\ Attends(b, j)' => a = b
    BY <2>0 DEF Shares
  <2> DEFINE Kept(b) == HandOK(b)' /\ (pc'[b] \notin WorkPlaces => stage'[b] = "OBSERVED")
             Same(b) == pc'[b] = pc[b] /\ job'[b] = job[b] /\ stage'[b] = stage[b] /\ seen'[b] = seen[b]
  <2>3. ASSUME NEW b \in Actors, Same(b) PROVE Kept(b)
    BY <1>2, <2>3, HandFrame DEF HandInv
  <2>4. ASSUME NEW w \in Workers, Drain(w) PROVE \A b \in Actors : Kept(b)
    <3>1. \A b \in Actors \ {w} : Same(b)
      BY <2>4, OthersStay
    <3>2. w \in Actors /\ stage' = stage /\ pc[w] \notin WorkPlaces /\ stage[w] = "OBSERVED" /\ pc \in [Actors -> Places]
      <4>1. w \in Actors /\ stage' = stage /\ pc[w] \notin WorkPlaces
        BY <2>4 DEF Actors, WorkPlaces, actorVars, Drain, BeginDrain, EnterDrain, ScanOrphans, RequeueOrphans,
           ReclaimStale, WorkerRecoverStuck, ListDeadLetters, ReplayTimeout, StartupFails, BeginClaims,
           PickJob, ClaimJob, ClaimRaises, Recount, StopClaims, FinishJob, EndDrain
      <4> QED BY <4>1 DEF HandInv, TypeOK
    <3>3. CASE pc'[w] \notin WorkPlaces
      BY <2>3, <3>1, <3>2, <3>3 DEF HandOK
    <3>4. CASE pc'[w] \in WorkPlaces
      <4>1. ClaimJob(w) /\ pc'[w] = "work"
        BY <2>4, <3>2, <3>4 DEF WorkPlaces, actorVars, Goto, Drain, BeginDrain, EnterDrain, ScanOrphans, RequeueOrphans,
           ReclaimStale, WorkerRecoverStuck, ListDeadLetters, ReplayTimeout, StartupFails, BeginClaims,
           PickJob, ClaimJob, ClaimRaises, Recount, StopClaims, FinishJob, EndDrain
      <4>2. job[w] \in Jobs /\ job' = job /\ jobState'[job[w]] = "claimed"
        BY <3>2, <4>1 DEF ClaimJob, Goto, TypeOK, HandPlaces
      <4>3. Kept(w)
        BY <3>2, <4>1, <4>2 DEF HandOK, Inflight, TerminalStates, WorkPlaces
      <4> QED BY <2>3, <3>1, <4>3
    <3> QED BY <3>3, <3>4
  <2>5. ASSUME NEW w \in Workers, KillWorker(w) PROVE \A b \in Actors : Kept(b)
    <3>1. \A b \in Actors \ {w} : Same(b)
      BY <2>5, OthersStay
    <3>2. w \in Actors /\ pc'[w] = "idle" /\ stage'[w] = "OBSERVED"
      BY <2>5 DEF KillWorker, Goto, TypeOK, Actors
    <3> QED BY <2>3, <3>1, <3>2 DEF HandOK, WorkPlaces
  <2>6. ASSUME NEW a \in Actors, Process(a) PROVE \A b \in Actors : Kept(b)
    BY <2>0, <2>3, <2>6, OthersStay, ProcessKeepsHand
  <2>7. ASSUME NEW e \in Enders, Foreground(e) PROVE \A b \in Actors : Kept(b)
    <3>1. \A b \in Actors \ {e} : Same(b)
      BY <2>7, OthersStay
    <3>2. e \in Actors /\ pc \in [Actors -> Places]
      BY DEF Actors, TypeOK
    <3>3. CASE StoreAndEnqueue(e)
      <4>1. /\ pc[e] = "enqueue" /\ pc'[e] = "ack" /\ job' = job /\ stage' = stage /\ job[e] \in Jobs
            /\ jobState'[job[e]] # "absent"
        BY <3>2, <3>3 DEF StoreAndEnqueue, EnqueueExtraction, Goto, TypeOK, HandPlaces
      <4>2. stage[e] = "OBSERVED"
        BY <3>2, <4>1 DEF HandInv, WorkPlaces
      <4> QED BY <2>3, <3>1, <4>1, <4>2 DEF HandOK, Underway, WorkPlaces
    <3>4. CASE NoNewContent(e) \/ KillEnder(e)
      BY <2>3, <3>1, <3>2, <3>4 DEF NoNewContent, KillEnder, LeaveJob, Goto, HandOK, WorkPlaces, TypeOK, Actors
    <3>5. CASE (\E j \in Jobs : SessionEnd(e, j) \/ ReplayJob(e, j)) \/ Revive(e) \/ ReplaySessionEnd(e)
      <4>1. pc[e] \in {"idle", "revive", "settle"} /\ pc'[e] \in {"enqueue", "revive", "settle"} /\ stage' = stage
        BY <3>2, <3>5 DEF SessionEnd, ReplayJob, Revive, ReplaySessionEnd, Goto
      <4>2. stage[e] = "OBSERVED"
        BY <3>2, <4>1 DEF HandInv, WorkPlaces
      <4> QED BY <2>3, <3>1, <4>1, <4>2 DEF HandOK, WorkPlaces
    <3> QED BY <2>7, <3>3, <3>4, <3>5 DEF Foreground
  <2>8. ASSUME UNCHANGED actorVars PROVE \A b \in Actors : Kept(b)
    BY <2>3, <2>8 DEF actorVars
  <2>9. \A b \in Actors : Kept(b)
    BY <2>0, <2>4, <2>5, <2>6, <2>7, <2>8 DEF Step, SessionCapture, RowAges, CaptureRecovers, FileAges
  <2> QED BY <2>1, <2>2, <2>9 DEF HandInv
<1> QED
  BY <1>1, <1>2

LEMMA HandInvHolds == Spec => [](TypeOK /\ HandInv)
  BY TypeInit, TypeStep, HandInvInit, HandInvStep, PTL DEF Spec

\* A job that was never in two hands is tried at most max_attempts times and merged
\* once, for any number of jobs, workers and foreground calls, whoever is killed or
\* delayed, and wherever.
THEOREM RepeatsAlwaysBounded == Spec => []RepeatsAreBounded
<1>1. TypeOK /\ HandInv => RepeatsAreBounded
  <2> SUFFICES ASSUME TypeOK, HandInv, NEW j \in Jobs \ shared
               PROVE  RetriesBounded(j) /\ MergedAtMostOnce(j)
    BY DEF RepeatsAreBounded
  <2>1. TriesOK(j) /\ MergesOK(j) /\ Shape[j] \in {"empty", "rejected", "plain", "gated"}
    BY QueueAssumption DEF QueueAssumption, HandInv
  <2> QED
    BY <2>1 DEF TriesOK, MergesOK, RetriesBounded, MergedAtMostOnce, Claimable, TerminalStates
<1> QED
  BY <1>1, HandInvHolds, PTL

\* The queue implements JobLifecycle, with no assumption on who works on it: the
\* rows of the jobs that were never in two hands make the legal moves only.
THEOREM QueueRefinesLifecycle == Spec => MonotoneTransitions
<1>1. Init => Lifecycle!Init
  BY DEF Init, Lifecycle!Init, Status
<1>2. TypeOK /\ TypeOK' /\ HandInv /\ [Next]_vars => [Lifecycle!Next]_<<Status, shared>>
  <2> SUFFICES ASSUME TypeOK, TypeOK', HandInv, Next PROVE Lifecycle!Next
    BY DEF vars, stepVars, rowVars, Status
  <2>1. jobState \in [Jobs -> JobStates] /\ jobState' \in [Jobs -> JobStates]
    BY DEF TypeOK
  <2>2. ASSUME NEW j \in Jobs \ shared'
        PROVE  Status'[j] = Status[j] \/ <<Status[j], Status'[j]>> \in Lifecycle!LegalMoves
    <3>1. RowMove(j)
      BY RowStep DEF Next
    <3> QED
      BY <2>1, <3>1 DEF RowMove, Claimable, Inflight, Status, Lifecycle!LegalMoves, JobStates
  <2>3. Status' \in [Jobs -> Lifecycle!Statuses]
    BY <2>1 DEF Status, Lifecycle!Statuses, JobStates
  <2>4. shared \subseteq shared' /\ shared' \subseteq Jobs
    BY DEF Next, TypeOK
  <2> QED
    BY <2>2, <2>3, <2>4 DEF Lifecycle!Next
<1> QED
  BY <1>1, <1>2, HandInvHolds, TypeInit, TypeStep, PTL DEF Spec, MonotoneTransitions, Lifecycle!Spec
-----------------------------------------------------------------------------
\* What the workers revive, until a foreground call is made (replay_job is the human
\* that a poisoned job needs).

\* A row that failed on its merits.
Poisoned(j) == jobState[j] = "dead_lettered" /\ failure[j] # "TIMEOUT"

\* Whoever drains is past the lock.
DrainInv == \A w \in Workers : pc[w] # "idle" => w \in Holders

\* Until then, or until two workers overlap, the letters a worker is about to revive have timed
\* out, and the job in its hands is not a poisoned one.
PoisonInv ==
    Undisturbed => \A w \in Workers :
        /\ pc[w] = "replay" => \A j \in found[w] : failure[j] = "TIMEOUT"
        /\ pc[w] \in WorkPlaces => ~Poisoned(job[w])

LEMMA DrainInvInit == Init => DrainInv /\ PoisonInv
  BY DEF Init, DrainInv, PoisonInv, Actors, WorkPlaces

LEMMA DrainInvStep == TypeOK /\ DrainInv /\ [Next]_vars => DrainInv'
<1> SUFFICES ASSUME TypeOK, DrainInv, [Next]_vars, NEW v \in Workers, pc'[v] # "idle"
             PROVE  v \in Holders'
  BY DEF DrainInv
<1> USE DEF TypeOK, LockTypeOK, DrainInv, Holders, Goto
<1>0. v \in Actors /\ v \notin Enders
  BY QueueAssumption DEF Actors, QueueAssumption
<1>1. ASSUME NEW w \in Workers, Drain(w) PROVE v \in Holders'
  <2>1. CASE BeginDrain(w)
    BY <1>0, <2>1 DEF BeginDrain, CreateLock, InspectLock, actorVars
  <2>2. CASE EnterDrain(w)
    BY <1>0, <2>2 DEF EnterDrain, WritePid, TakeOver
  <2>3. CASE FinishJob(w) \/ EndDrain(w)
    BY <1>0, <2>3 DEF FinishJob, EndDrain, Heartbeat, Release
  <2>4. ASSUME UNCHANGED lockVars, pc[w] # "idle", pc'[v] = pc[v] \/ v = w PROVE v \in Holders'
    BY <1>0, <2>4 DEF lockVars
  <2> QED
    BY <1>0, <1>1, <2>1, <2>2, <2>3, <2>4 DEF Drain, ScanOrphans, RequeueOrphans, ReclaimStale, WorkerRecoverStuck,
       ListDeadLetters, ReplayTimeout, StartupFails, BeginClaims, PickJob, ClaimJob, ClaimRaises, Recount, StopClaims
<1>2. ASSUME NEW w \in Workers, KillWorker(w) PROVE v \in Holders'
  BY <1>0, <1>2 DEF KillWorker, Kill
<1>3. ASSUME NEW a \in Actors, Process(a) PROVE v \in Holders'
  <2>1. pc[a] # "idle" /\ UNCHANGED lockVars /\ (pc'[v] = pc[v] \/ v = a)
    BY <1>0, <1>3 DEF LeaveJob, actorVars, Process, Extract, ExtractRaises, AckCheck, AckWrite, MergeGuard,
       VerdictCommits, MergeCommits, MergeRaises, StageRaises, FailRead, FailWrite, FailLost
  <2> QED BY <1>0, <2>1 DEF lockVars
<1>5. ASSUME NEW e \in Enders, Foreground(e) PROVE v \in Holders'
  <2>1. pc'[v] = pc[v] /\ UNCHANGED lockVars
    BY <1>0, <1>5 DEF Foreground, SessionEnd, ReplayJob, StoreAndEnqueue, NoNewContent, Revive,
       ReplaySessionEnd, KillEnder, LeaveJob
  <2> QED BY <2>1 DEF lockVars
<1>4. ASSUME UNCHANGED actorVars, lockPc' = lockPc, alive' = alive PROVE v \in Holders'
  BY <1>0, <1>4 DEF actorVars
<1> QED
  BY <1>1, <1>2, <1>3, <1>4, <1>5 DEF Next, Step, SessionCapture, RowAges, CaptureRecovers, FileAges, LockAges,
     vars, stepVars, lockVars

\* Whoever takes a step past the lock is alone there.
LEMMA OneAtWork ==
  ASSUME DrainInv, SingleFlight, NEW v \in Workers, NEW w \in Workers, pc[v] # "idle", pc[w] # "idle"
  PROVE  v = w
  BY DEF DrainInv, SingleFlight

\* What was disturbed stays so.
LEMMA DisturbedForGood == TypeOK /\ [Next]_vars => (Undisturbed' => Undisturbed)
<1> SUFFICES ASSUME TypeOK, [Next]_vars, Undisturbed' PROVE Undisturbed
  OBVIOUS
<1>1. ~contested' => ~contested
  BY DEF TypeOK, LockTypeOK, Next, Step, vars, stepVars, lockVars, Drain, KillWorker, Process, FileAges,
     BeginDrain, EnterDrain, ScanOrphans, RequeueOrphans, ReclaimStale, WorkerRecoverStuck,
     ListDeadLetters, ReplayTimeout, StartupFails, BeginClaims, PickJob, ClaimJob, ClaimRaises, Recount,
     StopClaims, FinishJob, EndDrain, CreateLock, WritePid, InspectLock, TakeOver, Heartbeat, Release, Kill, LockAges,
     Extract, ExtractRaises, AckCheck, AckWrite, MergeGuard, VerdictCommits, MergeCommits, MergeRaises, StageRaises,
     FailRead, FailWrite, FailLost, SessionCapture, RowAges, CaptureRecovers, Foreground, SessionEnd, ReplayJob,
     StoreAndEnqueue, NoNewContent, Revive, ReplaySessionEnd, KillEnder
<1>2. ASSUME NEW e \in Enders PROVE pc[e] = "idle"
  <2>0. e \in Actors /\ e \notin Workers /\ pc'[e] = "idle" /\ pc \in [Actors -> Places]
    BY QueueAssumption DEF Actors, QueueAssumption, Undisturbed, TypeOK
  <2>1. ASSUME NEW w \in Workers, Drain(w) \/ KillWorker(w) PROVE pc'[e] = pc[e]
    BY <2>0, <2>1, OthersStay
  <2>2. ASSUME NEW a \in Actors, Process(a) PROVE pc'[e] = pc[e]
    <3>1. CASE a # e
      BY <2>0, <2>2, <3>1, OthersStay
    <3>2. CASE a = e
      BY <2>0, <2>2, <3>2 DEF Process, Extract, ExtractRaises, AckCheck, AckWrite, MergeGuard, VerdictCommits,
         MergeCommits, MergeRaises, StageRaises, FailRead, FailWrite, FailLost, LeaveJob, Goto, AfterAck, actorVars
    <3> QED BY <3>1, <3>2
  <2>3. ASSUME NEW d \in Enders, Foreground(d) PROVE pc'[e] = pc[e]
    <3>1. CASE d # e
      BY <2>0, <2>3, <3>1, OthersStay
    <3>2. CASE d = e
      BY <2>0, <2>3, <3>2 DEF Foreground, SessionEnd, ReplayJob, StoreAndEnqueue, NoNewContent, Revive,
         ReplaySessionEnd, KillEnder, LeaveJob, Goto
    <3> QED BY <3>1, <3>2
  <2> QED
    BY <2>0, <2>1, <2>2, <2>3 DEF Next, Step, SessionCapture, RowAges, CaptureRecovers, FileAges, vars, stepVars, actorVars
<1> QED
  BY <1>1, <1>2 DEF Undisturbed

LEMMA PoisonInvStep ==
  TypeOK /\ DrainInv /\ OverlapNeedsRace /\ PoisonInv /\ [Next]_vars
     => PoisonInv' /\ [\A j \in Jobs : Undisturbed /\ Poisoned(j) => jobState'[j] = "dead_lettered"]_vars
<1> SUFFICES ASSUME TypeOK, DrainInv, OverlapNeedsRace, PoisonInv, [Next]_vars
             PROVE  PoisonInv' /\ \A j \in Jobs : Undisturbed /\ Poisoned(j) => jobState'[j] = "dead_lettered"
  OBVIOUS
<1> USE DEF TypeOK, Goto
<1> DEFINE Revived == \E j \in Jobs : Undisturbed /\ Poisoned(j) /\ jobState'[j] # "dead_lettered"
           HandsOK(w) == /\ pc[w] = "replay" => \A j \in found[w] : failure[j] = "TIMEOUT"
                         /\ pc[w] \in WorkPlaces => ~Poisoned(job[w])
<1>0. /\ Undisturbed' => Undisturbed
      /\ Workers \subseteq Actors
  BY DisturbedForGood DEF Actors
<1>1. CASE ~Undisturbed
  BY <1>0, <1>1 DEF PoisonInv
<1> HIDE DEF TypeOK
<1>2. CASE Undisturbed
  <2>0. SingleFlight /\ \A w \in Workers : HandsOK(w)
    BY <1>2 DEF OverlapNeedsRace, PoisonInv, Undisturbed
  \* Rows that nobody poisons, and hands that stay as they are.
  <2>1. ASSUME \A w \in Workers : \/ pc'[w] \notin WorkPlaces \cup {"replay"}
                                  \/ /\ pc'[w] = pc[w] /\ job'[w] = job[w] /\ found'[w] = found[w]
                                     /\ pc[w] \in WorkPlaces => job[w] \in Jobs
                                     /\ pc[w] = "replay" => found[w] \subseteq Jobs,
               \A j \in Jobs : failure'[j] \in {failure[j], "TIMEOUT"},
               \A j \in Jobs : jobState'[j] = "dead_lettered" => jobState[j] = "dead_lettered" \/ failure'[j] = "TIMEOUT",
               \A j \in Jobs : Poisoned(j) => jobState'[j] = "dead_lettered"
        PROVE  PoisonInv' /\ ~Revived
    BY <1>0, <1>2, <2>0, <2>1 DEF PoisonInv, Poisoned
  \* The same, of a worker that is alone past the lock.
  <2>2. ASSUME NEW w \in Workers, pc[w] # "idle", \A v \in Workers \ {w} : pc'[v] = pc[v],
               pc'[w] = "replay" => \A j \in found'[w] : failure'[j] = "TIMEOUT",
               pc'[w] \in WorkPlaces => ~Poisoned(job[w])' ,
               \A j \in Jobs : Poisoned(j) => jobState'[j] = "dead_lettered"
        PROVE  PoisonInv' /\ ~Revived
    <3>1. \A v \in Workers \ {w} : pc'[v] = "idle"
      BY <2>0, <2>2, OneAtWork
    <3>2. \A v \in Workers : /\ pc'[v] = "replay" => \A j \in found'[v] : failure'[j] = "TIMEOUT"
                             /\ pc'[v] \in WorkPlaces => ~Poisoned(job[v])'
      BY <2>2, <3>1 DEF WorkPlaces
    <3> QED BY <2>2, <3>2 DEF PoisonInv, Poisoned
  <2>3. ASSUME NEW w \in Workers, Drain(w) PROVE PoisonInv' /\ ~Revived
    <3>0. w \in Actors /\ pc \in [Actors -> Places] /\ \A v \in Workers \ {w} : v \in Actors /\ pc'[v] = pc[v]
      BY <1>0, <2>3, OthersStay DEF TypeOK
    <3>1. CASE BeginDrain(w)
      <4>1. UNCHANGED rowVars /\ UNCHANGED actorVars
        BY <3>1 DEF BeginDrain
      <4> QED BY <1>0, <2>0, <4>1 DEF rowVars, actorVars, PoisonInv, Poisoned
    <3>2. CASE EnterDrain(w)
      <4>1. UNCHANGED rowVars /\ job' = job /\ found' = found /\ pc'[w] = "orphans"
        BY <3>0, <3>2 DEF EnterDrain
      <4> QED BY <1>0, <2>0, <3>0, <4>1 DEF rowVars, PoisonInv, Poisoned, WorkPlaces
    <3>3. CASE ListDeadLetters(w)
      <4>1. pc[w] # "idle" /\ UNCHANGED rowVars /\ pc'[w] = "replay"
        BY <3>0, <3>3 DEF ListDeadLetters
      <4>2. \A j \in found'[w] : failure'[j] = "TIMEOUT"
        BY <3>3, <4>1 DEF ListDeadLetters, TimeoutOf, TypeOK, rowVars
      <4> QED BY <2>2, <3>0, <4>1, <4>2 DEF rowVars, Poisoned, WorkPlaces
    <3>4. CASE ReplayTimeout(w)
      <4>1. pc[w] = "replay" /\ pc' = pc /\ found[w] \subseteq Jobs /\ jobState \in [Jobs -> JobStates]
            /\ failure \in [Jobs -> FailureClasses]
        BY <3>4 DEF ReplayTimeout, TypeOK
      <4>2. PICK j \in found[w] : ReplayDeadLetter(j) /\ found'[w] = found[w] \ {j}
        BY <3>4 DEF ReplayTimeout, TypeOK
      <4>3. failure[j] = "TIMEOUT" /\ \A i \in found[w] : failure[i] = "TIMEOUT"
        BY <2>0, <4>1
      <4>4. \A i \in Jobs \ {j} : failure'[i] = failure[i] /\ jobState'[i] = jobState[i]
        BY <4>1, <4>2 DEF ReplayDeadLetter, rowVars
      <4> QED BY <2>2, <3>0, <4>1, <4>2, <4>3, <4>4 DEF Poisoned, WorkPlaces
    <3>5. CASE ClaimJob(w)
      <4>1. /\ pc[w] # "idle" /\ failure' = failure /\ jobState \in [Jobs -> JobStates] /\ job[w] \in Jobs
            /\ \/ UNCHANGED rowVars /\ pc'[w] = "recount"
               \/ /\ Claimable(job[w]) /\ jobState' = [jobState EXCEPT ![job[w]] = "claimed"]
                  /\ job' = job /\ pc'[w] = "work"
        BY <3>0, <3>5 DEF ClaimJob, rowVars, TypeOK, HandPlaces
      <4> QED BY <2>2, <3>0, <4>1 DEF Poisoned, WorkPlaces, Claimable, rowVars
    <3>6. CASE RequeueOrphans(w) \/ ReclaimStale(w) \/ WorkerRecoverStuck(w)
      <4>1. pc[w] # "idle" /\ pc'[w] \in {"stale", "stuck", "deadlist"}
        BY <3>0, <3>6 DEF RequeueOrphans, ReclaimStale, WorkerRecoverStuck
      <4>2. \A j \in Jobs : Poisoned(j) => jobState'[j] = "dead_lettered"
        BY <3>6 DEF RequeueOrphans, ReclaimStale, WorkerRecoverStuck, Requeue, RecoverStuckRunning, Inflight, Poisoned, TypeOK
      <4> QED BY <2>2, <3>0, <4>1, <4>2 DEF WorkPlaces
    <3>7. ASSUME UNCHANGED rowVars, pc[w] # "idle", pc'[w] \notin WorkPlaces \cup {"replay"} PROVE PoisonInv' /\ ~Revived
      BY <2>2, <3>0, <3>7 DEF rowVars, Poisoned
    <3>8. CASE ScanOrphans(w) \/ StartupFails(w) \/ BeginClaims(w) \/ PickJob(w) \/ ClaimRaises(w) \/ Recount(w)
               \/ StopClaims(w) \/ FinishJob(w) \/ EndDrain(w)
      BY <3>0, <3>7, <3>8 DEF WorkPlaces, ScanOrphans, StartupFails, BeginClaims, PickJob, ClaimRaises, Recount,
         StopClaims, FinishJob, EndDrain
    <3> QED BY <2>3, <3>1, <3>2, <3>3, <3>4, <3>5, <3>6, <3>8 DEF Drain
  <2>4. ASSUME NEW w \in Workers, KillWorker(w) PROVE PoisonInv' /\ ~Revived
    <3>1. /\ pc'[w] = "idle" /\ UNCHANGED rowVars
          /\ \A v \in Workers \ {w} : pc'[v] = pc[v] /\ job'[v] = job[v] /\ found'[v] = found[v]
      BY <1>0, <2>4 DEF KillWorker, TypeOK
    <3>2. \A v \in Workers : /\ pc'[v] = "replay" => \A j \in found'[v] : failure'[j] = "TIMEOUT"
                             /\ pc'[v] \in WorkPlaces => ~Poisoned(job[v])'
      BY <2>0, <3>1 DEF WorkPlaces, Poisoned, rowVars
    <3> QED BY <3>1, <3>2 DEF PoisonInv, Poisoned, rowVars
  <2>5. ASSUME NEW w \in Actors, Process(w) PROVE PoisonInv' /\ ~Revived
    <3>0. /\ w \in Workers /\ pc[w] \in WorkPlaces /\ pc[w] # "idle" /\ job[w] \in Jobs /\ ~Poisoned(job[w])
          /\ \A v \in Workers \ {w} : pc'[v] = pc[v]
          /\ jobState \in [Jobs -> JobStates] /\ failure \in [Jobs -> FailureClasses] /\ pc \in [Actors -> Places]
      <4>1. pc[w] \in WorkPlaces
        BY <2>5 DEF WorkPlaces, Process, Extract, ExtractRaises, AckCheck, AckWrite, MergeGuard, VerdictCommits,
           MergeCommits, MergeRaises, StageRaises, FailRead, FailWrite, FailLost
      <4>2. w \in Workers
        BY <1>2, <4>1 DEF Actors, Undisturbed, WorkPlaces
      <4> QED BY <1>0, <2>0, <2>5, <4>1, <4>2, OthersStay, AttendsJob DEF TypeOK, WorkPlaces
    <3>1. CASE AckWrite(w)
      <4>1. /\ jobState'[job[w]] # "dead_lettered" /\ failure' = failure
            /\ \A j \in Jobs \ {job[w]} : jobState'[j] = jobState[j]
            /\ job' = job \/ pc'[w] = "beat"
        BY <1>0, <3>0, <3>1 DEF AckWrite, LeaveJob, Goto
      <4>2. pc'[w] # "replay"
        BY <1>0, <3>0, <3>1 DEF AckWrite, LeaveJob, Goto, AfterAck
      <4> QED BY <2>2, <3>0, <4>1, <4>2 DEF Poisoned, WorkPlaces
    <3>2. CASE FailWrite(w)
      <4>1. pc'[w] = "beat" /\ \A j \in Jobs \ {job[w]} : jobState'[j] = jobState[j]
        BY <1>0, <3>0, <3>2 DEF FailWrite, LeaveJob, Goto
      <4> QED BY <2>2, <3>0, <4>1 DEF Poisoned, WorkPlaces
    <3>3. ASSUME UNCHANGED rowVars, job' = job \/ pc'[w] = "beat", pc'[w] # "replay" PROVE PoisonInv' /\ ~Revived
      BY <2>2, <3>0, <3>3 DEF rowVars, Poisoned, WorkPlaces
    <3> QED
      BY <1>0, <2>5, <3>0, <3>1, <3>2, <3>3 DEF Process, LeaveJob, actorVars, rowVars, Goto, WorkPlaces,
         Extract, ExtractRaises, AckCheck, MergeGuard, VerdictCommits,
         MergeCommits, MergeRaises, StageRaises, FailRead, FailLost
  <2>6. \A w \in Workers : /\ pc[w] \in WorkPlaces => job[w] \in Jobs
                           /\ pc[w] = "replay" => found[w] \subseteq Jobs
    BY <1>0, AttendsJob DEF TypeOK
  <2>7. ASSUME NEW j \in Jobs, SessionCapture(j) PROVE PoisonInv' /\ ~Revived
    <3>1. \A i \in Jobs : jobState'[i] # jobState[i] => jobState[i] = "absent" /\ jobState'[i] = "queued"
      BY <2>7 DEF SessionCapture, EnqueueExtraction, TypeOK
    <3>2. failure' = failure /\ pc' = pc /\ job' = job /\ found' = found
      BY <2>7 DEF SessionCapture, EnqueueExtraction, actorVars
    <3> QED BY <2>1, <2>6, <3>1, <3>2 DEF Poisoned
  <2>8. CASE CaptureRecovers
    <3>1. /\ pc' = pc /\ job' = job /\ found' = found
          /\ \A i \in Jobs : \/ jobState'[i] = jobState[i] /\ failure'[i] = failure[i]
                             \/ jobState'[i] = "dead_lettered" /\ failure'[i] = "TIMEOUT"
      BY <2>8 DEF CaptureRecovers, RecoverStuckRunning, actorVars
    <3> QED BY <2>1, <2>6, <3>1 DEF Poisoned
  \* The first step of a call: rows that are stuck, or none.
  <2>10. ASSUME NEW e \in Enders, Foreground(e) PROVE PoisonInv' /\ ~Revived
    <3>0. e \in Actors /\ pc[e] = "idle"
      BY <1>2 DEF Undisturbed, Actors
    <3>1. ~Undisturbed'
      BY <2>10, <3>0 DEF Undisturbed, Foreground, SessionEnd, ReplayJob, StoreAndEnqueue, NoNewContent, Revive,
         ReplaySessionEnd, KillEnder, Goto, TypeOK
    <3>2. \A i \in Jobs : jobState'[i] = jobState[i] \/ jobState'[i] = "dead_lettered"
      BY <2>10, <3>0 DEF Foreground, SessionEnd, ReplayJob, StoreAndEnqueue, NoNewContent, Revive,
         ReplaySessionEnd, KillEnder, RecoverStuckRunning, rowVars
    <3> QED BY <3>1, <3>2 DEF PoisonInv, Poisoned
  <2>9. ASSUME UNCHANGED actorVars, UNCHANGED <<jobState, failure>> PROVE PoisonInv' /\ ~Revived
    BY <2>1, <2>6, <2>9 DEF Poisoned, actorVars
  <2> QED
    BY <1>0, <2>3, <2>4, <2>5, <2>7, <2>8, <2>9, <2>10 DEF Next, Step, RowAges, FileAges, vars, stepVars, rowVars
<1> QED
  BY <1>1, <1>2

\* "POISON_INPUT / EXTRACTOR_BUG dead-letters need a human": no worker's recovery
\* revives a job that failed on its merits, for any number of workers, whoever is
\* killed or delayed, until two of them overlap or a foreground call is made.
THEOREM PoisonAlwaysStaysDead == Spec => PoisonStaysDead
<1>1. TypeOK /\ DrainInv /\ [Next]_vars => DrainInv'
  BY DrainInvStep
<1>2. TypeOK /\ DrainInv /\ OverlapNeedsRace /\ PoisonInv /\ [Next]_vars
         => PoisonInv' /\ [\A j \in Jobs : Undisturbed /\ Poisoned(j) => jobState'[j] = "dead_lettered"]_vars
  BY PoisonInvStep
<1>3. [\A j \in Jobs : Undisturbed /\ Poisoned(j) => jobState'[j] = "dead_lettered"]_vars
         => [\A j \in Jobs : Undisturbed /\ jobState[j] = "dead_lettered" /\ failure[j] # "TIMEOUT"
                => jobState'[j] = "dead_lettered"]_vars
  BY DEF Poisoned
<1> QED
  BY <1>1, <1>2, <1>3, DrainInvInit, QueueOverlapRaces, TypeInit, TypeStep, PTL DEF Spec, PoisonStaysDead
=============================================================================
