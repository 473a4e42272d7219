------------------------------ MODULE ReadGate ------------------------------
(***************************************************************************)
(* The read gate: integration/lookup.py behind the PreToolUse:Read hook,   *)
(* with the read cache, the denials and the symbol files it decides from.  *)
(*                                                                         *)
(* An agent's session issues tool calls, several at once.  Each runs the   *)
(* decision in a process of its own whose statements commit one by one, so *)
(* the calls interleave with each other and with the passes of the symbol  *)
(* graph.  What the agent then sees is a deny, or the tool's body and the  *)
(* PostToolUse hook that records it.                                       *)
(***************************************************************************)
EXTENDS SymbolGraph

CONSTANTS Calls,      \* tool calls in flight
          Sessions,
          Policies,   \* hook_policy
          Margin,     \* _MTIME_STALE_MARGIN_MS
          Window      \* deny_retry_window_seconds

ASSUME ReadGateAssumption == Margin \in Nat /\ Window \in Nat

VARIABLES policy,     \* hook_policy of the project
          calls,      \* the calls and where the decision on each has come
          readCache,  \* read_session_cache: the outcome recorded for each file
          denied,     \* denied_reads: when each file was denied
          got,        \* history: the session was given the whole file
          promised    \* history: when a retry was promised that no call has used

gateOnly == <<policy, calls, readCache, denied, got, promised>>

NoCall == [at |-> "idle", session |-> None, file |-> None, whole |-> TRUE,
           row |-> NoRow]
Deciding == {"reread", "gate", "stat", "check", "clear", "record"}
Outcomes == {"none", "ok", "body_needed_retry"}

GateTypeOK ==
    /\ policy \in Policies
    /\ \A c \in Calls : calls[c].at \in {"idle", "body", "post"} \cup Deciding
    /\ readCache \in [Sessions \X Files -> Outcomes]
    /\ denied \in [Sessions \X Files -> Times] /\ promised \in [Sessions \X Files -> Times]
    /\ got \subseteq Sessions \X Files

GateInit ==
    /\ policy \in Policies
    /\ calls = [c \in Calls |-> NoCall]
    /\ readCache = [k \in Sessions \X Files |-> "none"]
    /\ denied = [k \in Sessions \X Files |-> None]
    /\ promised = [k \in Sessions \X Files |-> None]
    /\ got = {}

Key(c) == <<calls[c].session, calls[c].file>>
Move(c, place) == calls' = [calls EXCEPT ![c].at = place]
End(c) == calls' = [calls EXCEPT ![c] = NoCall]

\* A slice is allowed without asking the gate.
Ask(c, s, f) ==
    /\ calls[c].at = "idle"
    /\ \E whole \in BOOLEAN :
          calls' = [calls EXCEPT ![c] =
              [at |-> IF whole THEN "reread" ELSE "body", session |-> s, file |-> f,
               whole |-> whole, row |-> NoRow]]
    /\ UNCHANGED <<policy, readCache, denied, got, promised>>

WasRead(key) == readCache[key] # "none"

\* Step 1: a file this session has read is denied, under either policy.
CheckReread(c) ==
    /\ calls[c].at = "reread"
    /\ CASE WasRead(Key(c)) -> End(c)
         [] ~WasRead(Key(c)) /\ policy # "strict" -> Move(c, "body")
         [] OTHER -> Move(c, "gate")
    /\ UNCHANGED <<policy, readCache, denied, got, promised>>

\* Step 2: no row, a stale one, or one without symbols denies nothing.
CheckRow(c) ==
    LET row == rows[calls[c].file]
    IN  /\ calls[c].at = "gate"
        /\ IF row = NoRow \/ ~row.fresh \/ ~row.symbols
           THEN Move(c, "body")
           ELSE calls' = [calls EXCEPT ![c].at = "stat", ![c].row = row]
        /\ UNCHANGED <<policy, readCache, denied, got, promised>>

\* _changed_since_scan: a file that cannot be stat'ed leaves the flag as it is.
TrustsFlag(c) == FALSE                 \* mutated form
ChangedSinceScan(c) ==
    LET file == disk[calls[c].file]
    IN  file.holds # "absent" /\ file.mtime > calls[c].row.at + Margin

MarkStale(f) == rows' = [rows EXCEPT ![f].fresh = FALSE]

CheckDisk(c) ==
    /\ calls[c].at = "stat"
    /\ IF ChangedSinceScan(c)
       THEN Move(c, "body") /\ MarkStale(calls[c].file)
       ELSE Move(c, "check") /\ UNCHANGED rows
    /\ UNCHANGED <<policy, readCache, denied, got, promised>>

DeniedWithin(key) == denied[key] # None /\ clock - denied[key] <= Window

CheckDenial(c) ==
    /\ calls[c].at = "check"
    /\ Move(c, IF DeniedWithin(Key(c)) THEN "clear" ELSE "record")
    /\ UNCHANGED <<policy, readCache, denied, got, promised>>

\* The retry is granted, and the next denial starts a timer of its own.
Clear(c) ==
    /\ calls[c].at = "clear"
    /\ denied' = [denied EXCEPT ![Key(c)] = None]
    /\ promised' = [promised EXCEPT ![Key(c)] = None]
    /\ Move(c, "body")
    /\ UNCHANGED <<policy, readCache, got>>

\* denied_reads.record: a denial again bumps the time of the earlier one.
FirstDenialKept(c) == IF denied[Key(c)] = None THEN clock ELSE denied[Key(c)]  \* mutated form
DenialTime(c) == clock

\* The agent is told to use the skeleton, or to retry within the window.
Record(c) ==
    /\ calls[c].at = "record"
    /\ denied' = [denied EXCEPT ![Key(c)] = DenialTime(c)]
    /\ promised' = [promised EXCEPT ![Key(c)] = clock]
    /\ End(c)
    /\ UNCHANGED <<policy, readCache, got>>

\* Any exception in the hook allows the read.
FailOpen(c) ==
    /\ calls[c].at \in Deciding
    /\ Move(c, "body")
    /\ UNCHANGED <<policy, readCache, denied, got, promised>>

\* PostToolUse records whole reads only.
RecordsAny(c)   == TRUE                \* mutated form
RecordsWhole(c) == calls[c].whole

\* The tool reads the file; PostToolUse runs only when it could.
Body(c) ==
    /\ calls[c].at = "body"
    /\ IF disk[calls[c].file].holds # "absent" /\ RecordsWhole(c)
       THEN Move(c, "post") ELSE End(c)
    /\ got' = IF disk[calls[c].file].holds # "absent" /\ calls[c].whole
              THEN got \cup {Key(c)} ELSE got
    /\ UNCHANGED <<policy, readCache, denied, promised>>

\* resolve_post_read_outcome.
Outcome(key) == IF DeniedWithin(key) THEN "body_needed_retry" ELSE "ok"

\* posttool_read_main, or the hook is lost.
RecordRead(c) ==
    /\ calls[c].at = "post"
    /\ \/ readCache' = [readCache EXCEPT ![Key(c)] = Outcome(Key(c))]
       \/ UNCHANGED readCache
    /\ End(c)
    /\ UNCHANGED <<policy, denied, got, promised>>

\* Every step of a call leaves the graph alone, except for the mark on a row.
CallStep(c) ==
    \/ /\ CheckDisk(c)
       /\ UNCHANGED <<clock, disk, edits, ignored, gone, nodes, passes, grep, search, stirred, unhooked, raced>>
    \/ /\ \/ \E s \in Sessions, f \in Files : Ask(c, s, f)
          \/ CheckReread(c) \/ CheckRow(c) \/ CheckDenial(c) \/ Clear(c) \/ Record(c)
          \/ FailOpen(c) \/ Body(c) \/ RecordRead(c)
       /\ UNCHANGED graphVars

GateNext ==
    \/ \E c \in Calls : CallStep(c)
    \/ GraphNext /\ UNCHANGED gateOnly

GateSpec == GraphInit /\ GateInit /\ [][GateNext]_<<graphVars, gateOnly>>
-----------------------------------------------------------------------------
SkeletonIsCurrent(f) == nodes[f] = disk[f].version
WithinMargin(c) == disk[calls[c].file].mtime \in calls[c].row.at..calls[c].row.at + Margin

\* A read is denied on the strength of the skeleton only while the skeleton has
\* what the file holds.  The exceptions are exactly: a change in the margin the
\* gate leaves for clock jitter, a row that changed since the gate read it, a file
\* that is gone, and a file that changed while a pass had read it and not stamped it.
DenialIsVouched ==
    [][\A c \in Calls :
          calls[c].at = "stat" /\ calls'[c].at = "check" =>
              LET f == calls[c].file
              IN  \/ SkeletonIsCurrent(f) \/ disk[f].holds = "absent"
                  \/ rows[f] # calls[c].row \/ WithinMargin(c) \/ f \in stirred]_<<graphVars, gateOnly>>

\* "its content is in your context": a session is told so of a file only after it
\* was given the whole of it, never after a slice or a read that failed.
NeverDeniedUnread == \A k \in Sessions \X Files : readCache[k] # "none" => k \in got

\* "retry this Read once within 60 seconds and it will be allowed": a call made
\* after the denial and decided within the window is not denied on the skeleton
\* again, unless another call of the session has used the grant.
RetryIsGranted ==
    [][\A c \in Calls :
          calls[c].at = "check" /\ calls'[c].at = "record" /\ promised[Key(c)] # None =>
              clock - promised[Key(c)] > Window]_<<graphVars, gateOnly>>

\* The gate's caches are well formed and nobody is refused what was never read.
ReadsAreSound == GateTypeOK /\ NeverDeniedUnread
=============================================================================
