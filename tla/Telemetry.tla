----------------------------- MODULE Telemetry -----------------------------
(***************************************************************************)
(* telemetry/ingest.py and telemetry/bypass.py: what a session cost, and   *)
(* what it changed without reading, from the agent's JSONL file.           *)
(*                                                                         *)
(* The agent writes one line per content block and repeats the response's  *)
(* usage on each; the result of a call may be written before the next      *)
(* block of the same response.  Ingestion may run at any time, also in the *)
(* middle of a response, and again later.                                  *)
(*                                                                         *)
(* A conversation is a sequence of responses, a response its tool calls: a *)
(* tool, what it is called with, and whether the gate denies it.           *)
(***************************************************************************)
EXTENDS Integers, Sequences, FiniteSets

ReadTools  == {"Read"}
EditTools  == {"Edit", "MultiEdit", "NotebookEdit"}
WriteTools == {"Write"}
MemoryTools == {"mcp__cognikernel__recall"}
LegacyBasis == "per_line_legacy"

\* Lines: a block of a response (the n-th call, 0 for text) or a denied result.
\* A truncated line has lost its usage.
BlockLine(r, n, usage) == [kind |-> "assistant", id |-> r, call |-> n, usage |-> usage]
DenialLine(r, n)       == [kind |-> "user", id |-> r, call |-> n, usage |-> FALSE]

VARIABLES conversation,  \* what the agent does, a sequence of responses
          lines,         \* the JSONL file so far
          telemetry,     \* the session's row of api_telemetry
          ingested       \* how many lines it was made of
telemetryVars == <<conversation, lines, telemetry, ingested>>

NoTelemetry == [basis |-> "none", responses |-> 0, denied |-> 0, retried |-> 0, memory |-> 0]
LegacyRow   == [NoTelemetry EXCEPT !.basis = LegacyBasis, !.responses = 9]

CallOf(t)  == conversation[t[1]][t[2]]
CallKey(c) == <<c.tool, c.input>>
-----------------------------------------------------------------------------
\* ingest_session_jsonl: lines are grouped by response.
BlockPlaces == {k \in DOMAIN lines : lines[k].kind = "assistant"}
OfResponse(r) == {k \in BlockPlaces : lines[k].id = r}

\* A response stands where it first appears, and counts if a line has its usage.
EveryLine == {k \in BlockPlaces : lines[k].usage}                  \* mutated form
Counted ==
    {k \in BlockPlaces : /\ \A j \in OfResponse(lines[k].id) : k <= j
                         /\ \E j \in OfResponse(lines[k].id) : lines[j].usage}

DeniedIds == {<<lines[k].id, lines[k].call>> : k \in DOMAIN lines \ BlockPlaces}
Tools(r) == {<<r, lines[k].call>> : k \in {j \in OfResponse(r) : lines[j].call > 0}}
KeysOf(tools) == {CallKey(CallOf(t)) : t \in tools}

\* The calls denied before a response, and the class that gives it.
DeniedCalls(k) == UNION {KeysOf(Tools(lines[j].id) \cap DeniedIds) : j \in {i \in Counted : i < k}}
ClassOf(k) ==
    LET tools == Tools(lines[k].id)
    IN  IF tools \cap DeniedIds # {} THEN "denied"
        ELSE IF KeysOf(tools) \cap DeniedCalls(k) # {} THEN "retried"
        ELSE IF tools # {} /\ \A t \in tools : CallOf(t).tool \in MemoryTools THEN "memory"
        ELSE "own"

Number(class) == Cardinality({k \in Counted : ClassOf(k) = class})
Report == [basis |-> "per_response", responses |-> Cardinality(Counted), denied |-> Number("denied"),
           retried |-> Number("retried"), memory |-> Number("memory")]

\* store_telemetry: one row per session, replaced.
Upserted(row, report) == report

\* get_cache_stats, of the session's row: rows of the old basis only count as such.
CacheStats(row) == IF row.basis = LegacyBasis THEN NoTelemetry ELSE row
-----------------------------------------------------------------------------
\* analyze_bypass: one pass, each call judged by what was known before it.
FileTools == ReadTools \cup EditTools \cup WriteTools
LineCall(k) == CallOf(<<lines[k].id, lines[k].call>>)
FileCalls == {k \in BlockPlaces : lines[k].call > 0 /\ LineCall(k).tool \in FileTools}

ReadsAfter(reads, c) == IF c.tool \in ReadTools THEN reads \cup {c.input} ELSE reads
Judged(b, c) ==
    LET blind == c.tool \notin ReadTools /\ c.input \notin b.reads
    IN  [reads |-> ReadsAfter(b.reads, c),
         written |-> IF c.tool \in ReadTools THEN b.written ELSE b.written \cup {c.input},
         modifications |-> b.modifications + IF c.tool \in ReadTools THEN 0 ELSE 1,
         bypass |-> b.bypass + IF blind THEN 1 ELSE 0,
         edits |-> b.edits + IF blind /\ c.tool \in EditTools THEN 1 ELSE 0,
         firstWrites |-> b.firstWrites
             + IF blind /\ c.tool \in WriteTools /\ c.input \notin b.written THEN 1 ELSE 0]
NothingJudged == [reads |-> {}, written |-> {}, modifications |-> 0, bypass |-> 0,
                  edits |-> 0, firstWrites |-> 0]
JudgedLine(b, k) == IF k \in FileCalls THEN Judged(b, LineCall(k)) ELSE b
Bypass ==
    LET pass[k \in 0..Len(lines)] == IF k = 0 THEN NothingJudged ELSE JudgedLine(pass[k - 1], k)
    IN  pass[Len(lines)]
-----------------------------------------------------------------------------
TelemetryInit(Conversations) ==
    /\ conversation \in Conversations /\ lines = <<>> /\ ingested = 0
    /\ telemetry \in {NoTelemetry, LegacyRow}

\* The blocks of the conversation, and those that are not in the file yet.
BlockNumbers(r) == IF conversation[r] = <<>> THEN {0} ELSE DOMAIN conversation[r]
AllBlocks == UNION {{r} \X BlockNumbers(r) : r \in DOMAIN conversation}
Written == {<<lines[k].id, lines[k].call>> : k \in BlockPlaces}
Missing == AllBlocks \ Written
Earlier(s, t) == s[1] < t[1] \/ (s[1] = t[1] /\ s[2] < t[2])

AllDenied  == {t \in AllBlocks : t[2] > 0 /\ CallOf(t).denied}
Unanswered == (AllDenied \cap Written) \ DeniedIds

\* The agent writes the next block; a line that is not the response's last may be truncated.
WriteBlock ==
    /\ \E t \in Missing, usage \in BOOLEAN :
          /\ \A s \in Missing \ {t} : Earlier(t, s)
          /\ usage \/ t[2] + 1 \in BlockNumbers(t[1])
          /\ \A u \in Unanswered : u[1] = t[1]
          /\ lines' = Append(lines, BlockLine(t[1], t[2], usage))
    /\ UNCHANGED <<conversation, telemetry, ingested>>

\* The result of a denied call comes before the next response.
WriteDenial ==
    /\ \E t \in Unanswered : lines' = Append(lines, DenialLine(t[1], t[2]))
    /\ UNCHANGED <<conversation, telemetry, ingested>>

Ingest ==
    /\ lines # <<>>
    /\ telemetry' = Upserted(telemetry, Report)
    /\ ingested' = Len(lines)
    /\ UNCHANGED <<conversation, lines>>

TelemetryNext == WriteBlock \/ WriteDenial \/ Ingest
-----------------------------------------------------------------------------
Complete == Missing = {} /\ Unanswered = {}

\* What the session really did, read off the conversation.
TrueClass(r) ==
    LET calls  == {t \in AllBlocks : t[1] = r /\ t[2] > 0}
        before == {t \in AllDenied : t[1] < r}
    IN  IF calls \cap AllDenied # {} THEN "denied"
        ELSE IF KeysOf(calls) \cap KeysOf(before) # {} THEN "retried"
        ELSE IF calls # {} /\ \A t \in calls : CallOf(t).tool \in MemoryTools THEN "memory"
        ELSE "own"
TrueNumber(class) == Cardinality({r \in DOMAIN conversation : TrueClass(r) = class})
TrueReport == [basis |-> "per_response", responses |-> Len(conversation), denied |-> TrueNumber("denied"),
               retried |-> TrueNumber("retried"), memory |-> TrueNumber("memory")]

TelemetryTypeOK ==
    /\ ingested \in 0..Len(lines)
    /\ telemetry.denied + telemetry.retried + telemetry.memory \in 0..telemetry.responses

\* However the responses were split into lines and whenever ingestion ran before,
\* ingesting the finished file gives each response's cost and class exactly once.
CountedPerResponse == Complete /\ lines # <<>> /\ ingested = Len(lines) => telemetry = TrueReport

\* The statistics never mix in a row of the inflated basis: they speak of what
\* was ingested per response, or of nothing.
StatsAreSound == CacheStats(telemetry).responses <= Len(conversation)

\* The bypass count is the number of changes of files not read before, and its
\* diagnostics never explain more than it.
Blind ==
    {k \in FileCalls : /\ LineCall(k).tool \notin ReadTools
                       /\ \A j \in FileCalls : j < k /\ LineCall(j).tool \in ReadTools
                                                  => LineCall(j).input # LineCall(k).input}
BypassIsBlind ==
    /\ Bypass.bypass = Cardinality(Blind)
    /\ Bypass.edits + Bypass.firstWrites <= Bypass.bypass

\* The account of a session is right, whenever it was taken.
CostIsSound == TelemetryTypeOK /\ CountedPerResponse /\ StatsAreSound /\ BypassIsBlind
=============================================================================
