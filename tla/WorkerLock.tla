----------------------------- MODULE WorkerLock -----------------------------
(***************************************************************************)
(* The single-flight lock of the extraction worker                         *)
(* (integration/session.py, _acquire_worker_lock, and the heartbeat and    *)
(* finally clause of process_jobs).                                        *)
(*                                                                         *)
(* The lock is a file that holds its creator's pid.  A worker creates it   *)
(* exclusively and writes its pid in a second step; a worker that finds    *)
(* the file reads it, and overwrites it when the recorded process is dead  *)
(* or the file's mtime is older than fifteen minutes.  Reading and         *)
(* overwriting are two steps with nothing between them that would notice   *)
(* another worker.  Whoever leaves process_jobs unlinks the path, whatever *)
(* it holds by then.                                                       *)
(*                                                                         *)
(* A worker is identified with its pid: a process that dies never comes    *)
(* back (a restarted server has another pid), and a process runs one       *)
(* process_jobs at a time (the drainer thread is its only caller).         *)
(***************************************************************************)
EXTENDS Naturals, FiniteSets

CONSTANTS Workers,      \* the pids of the processes that may run process_jobs
          Absent,       \* no lock file
          MaxCrashes,   \* bound: how many workers may be killed
          SlowWorkers   \* may a live worker go longer than every grace period
                        \* between two heartbeats or two writes of its job?

ASSUME LockAssumption ==
    /\ MaxCrashes \in Nat
    /\ SlowWorkers \in BOOLEAN
    /\ IsFiniteSet(Workers)
    /\ Absent \notin [pid : Workers, written : BOOLEAN]

VARIABLES lockFile,   \* the file: absent, or who created it and whether the pid is in it
          lockOld,    \* the file's mtime is older than stale_after_s
          lockPc,     \* where each worker is in _acquire_worker_lock
          alive,      \* the pids that exist
          contested   \* history: two workers were about to take the file over at
                      \* once, or it aged in the hands of a worker that lives

lockVars == <<lockFile, lockOld, lockPc, alive, contested>>

LockFiles == [pid : Workers, written : BOOLEAN]

LockTypeOK ==
    /\ lockFile \in LockFiles \cup {Absent}
    /\ lockOld \in BOOLEAN
    /\ lockPc \in [Workers -> {"out", "creating", "stealing", "in"}]
    /\ alive \subseteq Workers
    /\ contested \in BOOLEAN

LockInit ==
    /\ lockFile = Absent
    /\ lockOld = FALSE
    /\ lockPc = [w \in Workers |-> "out"]
    /\ alive = Workers
    /\ contested = FALSE

-----------------------------------------------------------------------------

\* open(lock_path, "x"): exclusive creation.  The file exists, and is empty,
\* before the pid is written.
CreateLock(w) ==
    /\ w \in alive
    /\ lockPc[w] = "out"
    /\ lockFile = Absent
    /\ lockFile' = [pid |-> w, written |-> FALSE]
    /\ lockOld' = FALSE
    /\ lockPc' = [lockPc EXCEPT ![w] = "creating"]
    /\ UNCHANGED <<alive, contested>>

\* f.write(str(os.getpid())).  The write goes to the file this worker opened:
\* it is lost when the path no longer names that file.
WritePid(w) ==
    /\ w \in alive
    /\ lockPc[w] = "creating"
    /\ lockFile' = IF lockFile = [pid |-> w, written |-> FALSE]
                   THEN [pid |-> w, written |-> TRUE] ELSE lockFile
    /\ lockPc' = [lockPc EXCEPT ![w] = "in"]
    /\ UNCHANGED <<lockOld, alive, contested>>

NamesHolder == lockFile.written

\* The holder is known dead; an empty file names no holder.
Orphaned == NamesHolder /\ lockFile.pid \notin alive

\* ... or the file was not touched for stale_after_s.
Abandoned == Orphaned \/ lockOld

\* FileExistsError: read the holder's pid, probe it, stat the file.  When the
\* lock is neither orphaned nor aged out the worker gives up (no step).
InspectLock(w) ==
    /\ w \in alive
    /\ lockPc[w] = "out"
    /\ lockFile # Absent
    /\ Abandoned
    /\ lockPc' = [lockPc EXCEPT ![w] = "stealing"]
    /\ contested' = (contested \/ \E v \in alive : lockPc[v] = "stealing")
    /\ UNCHANGED <<lockFile, lockOld, alive>>

\* lock_path.write_text(...): the takeover, on what was read a moment ago.
\* write_text creates the file when it has been unlinked meanwhile.
TakeOver(w) ==
    /\ w \in alive
    /\ lockPc[w] = "stealing"
    /\ lockFile' = [pid |-> w, written |-> TRUE]
    /\ lockOld' = FALSE
    /\ lockPc' = [lockPc EXCEPT ![w] = "in"]
    /\ UNCHANGED <<alive, contested>>

\* os.utime(lock_path) after each job: it refreshes whatever file is there.
Heartbeat(w) ==
    /\ w \in alive
    /\ lockPc[w] = "in"
    /\ lockOld' = FALSE
    /\ UNCHANGED <<lockFile, lockPc, alive, contested>>

\* finally: lock_path.unlink(missing_ok=True), whoever's file it is by now.
Release(w) ==
    /\ w \in alive
    /\ lockPc[w] = "in"
    /\ lockFile' = Absent
    /\ lockOld' = FALSE
    /\ lockPc' = [lockPc EXCEPT ![w] = "out"]
    /\ UNCHANGED <<alive, contested>>

-----------------------------------------------------------------------------

\* The process is killed: its finally clause does not run.
Kill(w) ==
    /\ w \in alive
    /\ Cardinality(Workers \ alive) < MaxCrashes
    /\ alive' = alive \ {w}
    /\ lockPc' = [lockPc EXCEPT ![w] = "out"]
    /\ UNCHANGED <<lockFile, lockOld, contested>>

\* A live worker is between taking the file and giving it up.
Held == lockFile.pid \in alive /\ lockPc[lockFile.pid] \in {"creating", "in"}

\* Fifteen minutes pass without a heartbeat.
LockAges ==
    /\ lockFile # Absent
    /\ ~lockOld
    /\ Held => SlowWorkers /\ lockPc[lockFile.pid] = "in"
    /\ lockOld' = TRUE
    /\ contested' = (contested \/ Held)
    /\ UNCHANGED <<lockFile, lockPc, alive>>

LockNext ==
    \/ \E w \in Workers : CreateLock(w) \/ WritePid(w) \/ InspectLock(w)
                          \/ TakeOver(w) \/ Heartbeat(w) \/ Release(w) \/ Kill(w)
    \/ LockAges

LockSpec == LockInit /\ [][LockNext]_lockVars

-----------------------------------------------------------------------------

Holders == {w \in alive : lockPc[w] = "in"}

\* "Single-flight guard: one worker per project": no two live processes are
\* inside process_jobs at once.
SingleFlight == \A v, w \in Holders : v = w

\* A worker that is past the lock has its own pid in the file, so that every
\* other worker sees a live holder.
HolderOwnsFile == \A w \in Holders : lockFile = [pid |-> w, written |-> TRUE]

\* What the takeover rules do give, whoever is killed, wherever and however often:
\* two processes are inside process_jobs at once, or one of them without its pid
\* in the file, only after two workers read the same abandoned file before either
\* had overwritten it, or after a live holder went fifteen minutes without a
\* heartbeat.
OverlapNeedsRace == ~contested => SingleFlight /\ HolderOwnsFile

=============================================================================
