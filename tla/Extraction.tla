----------------------------- MODULE Extraction -----------------------------
(***************************************************************************)
(* extraction/pipeline.py: what is made of one transcript.                 *)
(*                                                                         *)
(* The legacy path collects candidates (trie hits, patterns, co-captured   *)
(* answers) and classifies them by rules.  With a salience head the filter *)
(* modes (v1, v2) let the head drop and retype the same candidates, the    *)
(* broad modes let it judge every prose sentence; when the head drops out  *)
(* in the middle, the legacy classifier takes over, and when it raises the *)
(* extraction does.  File mentions, schema decisions and the git diff are  *)
(* added at the end.                                                       *)
(*                                                                         *)
(* A sentence is a record: who speaks, whether it is a code block, what it *)
(* says once normalised, the trie signals and patterns that hit, its marks *)
(* (how it reads: see Marks), the file it names, the verb beside it and    *)
(* the lines of DDL of a code block: what kind each is, its name or type,  *)
(* and the key a CREATE line carries inline.  Confidences are in hundredths.  A    *)
(* list of events is the set of them, each with its place in it.           *)
(***************************************************************************)
EXTENDS Integers, Sequences, FiniteSets, FiniteSetsExt, Functions

Roles == {"user", "assistant"}
HardThreshold == 85
HeadSure == 90   \* how sure the head is of what it labels

\* What the text heuristics can find in a sentence: "noise" in how it begins, "meta"
\* (it speaks of the memory itself) anywhere in it.
Marks == {"label", "noise", "meta", "question", "never", "descriptive", "echo", "thin", "short", "setting",
          "fragment", "closes", "requirement", "domain", "hedge", "deontic", "hard!", "soft!", "illustrative"}

SpokenBy(role) == IF role = "user" THEN "user_stated" ELSE "assistant_decided"
CoAuthority    == "assistant_answer_to_user_question"

\* An event: its place, `from` which sentences, on whose word, how sure, found `by` what.
Ev(place, type, from, who, role, sure, by) ==
    [place |-> place, type |-> type, from |-> from, who |-> who, role |-> role, sure |-> sure,
     by |-> by, what |-> <<>>]
Saying(e, what) == [e EXCEPT !.what = what]
ListedBefore(d, e) ==
    \E n \in DOMAIN d.place : d.place[n] < e.place[n] /\ \A m \in 1..(n - 1) : d.place[m] = e.place[m]

Prose(T)   == {i \in DOMAIN T : ~T[i].code}
Seen(T, e) == UNION {T[i].marks : i \in e.from}
-----------------------------------------------------------------------------
(* Candidates: windowing.py and patterns.py.                               *)

\* A hard rule that asks, or that only describes what the code never does.
Downgraded(s, g) ==
    IF g.type = "CONSTRAINT_HARD" /\ ("question" \in s.marks \/ {"never", "descriptive"} \subseteq s.marks)
    THEN [type |-> "CONSTRAINT_SOFT", sure |-> IF g.sure < 30 THEN g.sure ELSE 30]
    ELSE g

Discarded(s, g) ==
    \/ {"label", "noise", "meta"} \cap s.marks # {}
    \/ g.type = "DECISION" /\ {"echo", "question"} \cap s.marks # {}
    \/ g.type \in {"THREAD_OPEN", "THREAD_CLOSE"} /\ "thin" \in s.marks

TrieEvent(T, i, k) ==
    LET g == Downgraded(T[i], T[i].signals[k])
    IN  Ev(<<1, i, k, 1>>, g.type, {i}, SpokenBy(T[i].role), T[i].role, g.sure, {"trie"})
TrieEvents(T) ==
    LET hits(i) == {k \in DOMAIN T[i].signals : ~Discarded(T[i], T[i].signals[k])}
    IN  UNION {{TrieEvent(T, i, k) : k \in hits(i)} : i \in Prose(T)}

Pat(id, type, sure, roles, asks, subjects) ==
    [id |-> id, type |-> type, sure |-> sure, roles |-> roles, asks |-> asks, subjects |-> subjects]
\* `asks`: whether the shape guard lets a question through.
Patterns == <<
    Pat("USE_X", "DECISION", 60, Roles, TRUE, 1),
    Pat("NO_MULTI", "CONSTRAINT_HARD", 85, {"user"}, FALSE, 2),
    Pat("NO_SINGLE", "CONSTRAINT_HARD", 50, {"user"}, FALSE, 1),
    Pat("PAREN_NOT", "CONSTRAINT_HARD", 70, {"user"}, TRUE, 1),
    Pat("ONLY_X", "CONSTRAINT_HARD", 70, {"user"}, TRUE, 1),
    Pat("URL_PREFIX", "CONSTRAINT_SOFT", 70, Roles, FALSE, 1),
    Pat("URL_PREFIX_REV", "CONSTRAINT_SOFT", 70, Roles, FALSE, 1),
    Pat("CASING", "CONSTRAINT_SOFT", 65, Roles, FALSE, 1),
    Pat("CONFIG_LINE", "DECISION", 60, Roles, FALSE, 1)>>

Fires(s, p) == p.id \in s.patterns /\ s.role \in p.roles /\ (p.asks \/ "question" \notin s.marks)

\* scan_patterns: "no X" is left alone where "no X, no Y" fired.
PatternEvent(T, i, n, subject) ==
    LET p == Patterns[n]
    IN  Ev(<<2, i, n, subject>>, p.type, {i}, SpokenBy(T[i].role), T[i].role, p.sure, {"pattern"})
ScanPatterns(T) ==
    LET fired(i) == {n \in DOMAIN Patterns : Fires(T[i], Patterns[n])}
        told(i)  == {n \in fired(i) : Patterns[n].id = "NO_SINGLE" =>
                                          \A m \in fired(i) : Patterns[m].id # "NO_MULTI"}
        finds    == {w \in Prose(T) \X (DOMAIN Patterns) \X (1..2) :
                        w[2] \in told(w[1]) /\ w[3] <= Patterns[w[2]].subjects}
    IN  {PatternEvent(T, w[1], w[2], w[3]) : w \in finds}

\* _find_next_assistant_start: the reply to sentence i, if one comes before the
\* user speaks again (0: none).  The sentence right after i is not looked at.
NextAssistantStart(T, i) ==
    LET ends == {j \in (i + 1)..Len(T) : \/ T[j].role = "assistant" /\ ~T[j].code
                                         \/ T[j].role = "user" /\ j > i + 1}
    IN  IF ends = {} THEN 0 ELSE IF T[Min(ends)].role = "assistant" THEN Min(ends) ELSE 0

\* _capture_assistant_sentences: at most two prose sentences of that turn.
Reply(T, j) ==
    LET turn  == {k \in j..Len(T) : \A l \in j..k : T[l].role = "assistant"}
        prose == turn \cap Prose(T)
    IN  {k \in prose : Cardinality({l \in prose : l < k}) < 2}

Asked(T) == {i \in Prose(T) : T[i].role = "user" /\ T[i].signals # <<>>}

\* Where an answer stands: a reply is captured once, however many questions precede it.
PerQuestion(question, start) == <<3, question, 1, 1>>              \* mutated form
PerReply(question, start)    == <<3, start, 1, 1>>

\* _is_noise_description of the sentences joined: how they begin, or a word in any.
NoisyReply(T, start) == "noise" \in T[start].marks \/ \E k \in Reply(T, start) : "meta" \in T[k].marks

CoCaptures(T) ==
    LET start(i) == NextAssistantStart(T, i)
        heard    == {i \in Asked(T) : start(i) # 0 /\ ~NoisyReply(T, start(i))}
    IN  {Ev(PerReply(i, start(i)), "CONSTRAINT_SOFT", Reply(T, start(i)), CoAuthority,
            "assistant", 50, {"co_capture"}) : i \in heard}

Candidates0(T) == TrieEvents(T) \cup ScanPatterns(T) \cup CoCaptures(T)
-----------------------------------------------------------------------------
(* Classification by rules: classifier.py.                                 *)

Bonus(T, e) ==
    LET m == Seen(T, e)
    IN  (IF e.role = "user" THEN 20 ELSE -10) + (IF "requirement" \in m THEN 20 ELSE 0)
        + (IF "domain" \in m THEN 15 ELSE 0) - (IF "hedge" \in m THEN 30 ELSE 0)

\* Below full confidence an assistant never lays down a hard rule, and a user
\* only with a word that says so.
Capped80(T, e) == e.sure < 100 /\ (e.role = "assistant" \/ "deontic" \notin Seen(T, e))
Lesser(n, m) == IF n < m THEN n ELSE m

CapThenBonus(T, e) ==                                              \* mutated form
    (IF Capped80(T, e) THEN Lesser(e.sure, 80) ELSE e.sure) + Bonus(T, e)
ForceOf(T, e) == IF Capped80(T, e) THEN Lesser(e.sure + Bonus(T, e), 80) ELSE e.sure + Bonus(T, e)

ClassifyEvent(T, e) ==
    IF e.type \notin {"CONSTRAINT_HARD", "CONSTRAINT_SOFT"} THEN e
    ELSE [e EXCEPT !.type = IF "hard!" \in Seen(T, e) THEN "CONSTRAINT_HARD"
                            ELSE IF "soft!" \in Seen(T, e) THEN "CONSTRAINT_SOFT"
                            ELSE IF ForceOf(T, e) >= HardThreshold THEN "CONSTRAINT_HARD"
                            ELSE "CONSTRAINT_SOFT"]
Classified(T, list) == {ClassifyEvent(T, e) : e \in list}
-----------------------------------------------------------------------------
(* The salience head.  x.labels gives what it says of a text (by its last  *)
(* sentence), x.out the first candidate it has no score for, 0 for none.   *)

Outage(x, n) == x.out \in 1..n

\* THREAD splits by its verb, and an aside never becomes a hard rule.
Typed(label, m) ==
    IF label = "THREAD" THEN IF "closes" \in m THEN "THREAD_CLOSE" ELSE "THREAD_OPEN"
    ELSE IF label = "CONSTRAINT_HARD" /\ "fragment" \in m THEN "CONSTRAINT_SOFT" ELSE label

\* _filter_and_retype_with_head, which retypes in place: what the candidates
\* are after it, whether or not it got to the end.
LabelOf(x, e) == x.labels[Max(e.from)]
Scored(x, list) ==
    LET before(e) == {d \in list : ListedBefore(d, e)}
    IN  IF Outage(x, Cardinality(list)) THEN {e \in list : Cardinality(before(e)) < x.out - 1} ELSE list
Retyped(x, e) ==
    LET typed == [e EXCEPT !.type = Typed(LabelOf(x, e), Seen(x.sentences, e))]
        sure  == [typed EXCEPT !.sure = HeadSure]
    IN  [sure EXCEPT !.by = @ \cup {"head"}]
RetypedInPlace(x, list) ==
    {IF e \in Scored(x, list) /\ LabelOf(x, e) # "NOISE" THEN Retyped(x, e) ELSE e : e \in list}
Kept(x, list) == {e \in RetypedInPlace(x, list) : LabelOf(x, e) # "NOISE"}

\* An outage gives the whole list back; KeptSoFar would lose the session.
KeptSoFar(x, list) == Scored(x, list)                              \* mutated form
GivenBack(x, list) == list

\* _extract_via_head: every prose sentence with enough words.
BroadCandidates(T) == {i \in Prose(T) : {"label", "short"} \cap T[i].marks = {}}

\* An event is known by its type and what it says.
HashUntyped(label, s) == <<label, s.says>>                         \* mutated form
HashTyped(label, s)   == <<Typed(label, s.marks), s.says>>

BroadLabel(x, i) ==
    IF x.labels[i] = "NOISE" /\ "setting" \in x.sentences[i].marks THEN "DECISION" ELSE x.labels[i]
ViaHead(x) ==
    LET T       == x.sentences
        telling == {i \in BroadCandidates(T) : BroadLabel(x, i) # "NOISE"}
        fact(i) == HashTyped(BroadLabel(x, i), T[i])
        first   == {i \in telling : \A j \in telling : j < i => fact(j) # fact(i)}
    IN  {Ev(<<1, i, 1, 1>>, Typed(BroadLabel(x, i), T[i].marks), {i}, SpokenBy(T[i].role),
            T[i].role, HeadSure, {"head"}) : i \in first}
-----------------------------------------------------------------------------
(* What is added whatever the mode.                                        *)

\* extract_file_mention_events: a file an assistant names beside an action verb.
Verbs(T, i) == {T[j].verb : j \in {i - 1, i, i + 1} \cap DOMAIN T} \ {"none"}
Named(T, i) == T[i].role = "assistant" /\ ~T[i].code /\ T[i].path # "none"

MentionedBefore(T, i) == \E j \in 1..(i - 1) : Named(T, j) /\ T[j].path = T[i].path   \* mutated form
ReportedBefore(T, i) ==
    \E j \in 1..(i - 1) : Named(T, j) /\ T[j].path = T[i].path /\ Verbs(T, j) # {}

FileMentions(T) ==
    LET status(i) == IF "write" \in Verbs(T, i) THEN "modified" ELSE "referenced"
        mention(i) == Ev(<<4, i, 1, 1>>, "COMPONENT_STATUS", {i}, "inferred_from_code",
                         "assistant", 0, {"file_mention"})
    IN  {Saying(mention(i), <<T[i].path, status(i)>>) :
            i \in {i \in DOMAIN T : Named(T, i) /\ Verbs(T, i) # {} /\ ~ReportedBefore(T, i)}}

\* extract_schema_decisions: the table line k belongs to (0: none), and the lines
\* that decide something, per table at most one key, money and timestamp type.  To
\* _COL a CREATE line is a column named "create": what it carries inline is skipped.
TableOf(lines, k) == Max({0} \cup {l \in 1..(k - 1) : lines[l].kind = "table"})
DoneKept(lines, k)  == 0                                           \* mutated form
DoneReset(lines, k) == TableOf(lines, k)

Deciding(lines) ==
    {k \in DOMAIN lines : /\ lines[k].kind # "table"
                          /\ \A l \in (DoneReset(lines, k) + 1)..(k - 1) : lines[l].kind # lines[k].kind}
Decided(lines, k) ==
    <<IF TableOf(lines, k) = 0 THEN "table" ELSE lines[TableOf(lines, k)].name, lines[k].kind, lines[k].name>>

SchemaBlocks(T) == {i \in DOMAIN T : T[i].code /\ "illustrative" \notin T[i].marks}
SchemaDecisions(T) ==
    LET lines(w)   == T[w[1]].lines
        places     == UNION {{<<i, k>> : k \in Deciding(T[i].lines)} : i \in SchemaBlocks(T)}
        what(w)    == Decided(lines(w), w[2])
        told(v, w) == (v[1] < w[1] \/ (v[1] = w[1] /\ v[2] < w[2])) /\ what(v) = what(w)
        decision(w) == Ev(<<5, w[1], w[2], 1>>, "DECISION", {w[1]}, SpokenBy(T[w[1]].role), T[w[1]].role, 75,
                          {"schema_ddl"})
    IN  {Saying(decision(w), what(w)) : w \in {w \in places : \A v \in places : ~told(v, w)}}

\* extract_git_events and cross_reference_signals: a changed file corroborates
\* what was abandoned; a diff that cannot be read adds nothing.
Abandoned == {"APPROACH_ABANDONED", "APPROACH_ABANDONED_DO_NOT_RETRY"}
GitEvents(diff) ==
    {Saying(Ev(<<6, k, 1, 1>>, "COMPONENT_STATUS", {}, "", "", 0, {"git"}), <<diff[k], "in_flux">>) :
        k \in DOMAIN diff}
CrossReference(T, list, diff) ==
    {IF e.type \in Abandoned /\ \E i \in e.from : T[i].path \in Range(diff)
     THEN [e EXCEPT !.by = @ \cup {"git"}] ELSE e : e \in list}
-----------------------------------------------------------------------------
VARIABLES extraction,  \* the transcript, the mode, the head's behaviour and the diff
          stage,       \* how far _extract_session_impl is
          events       \* what it holds

extractionVars == <<extraction, stage, events>>
Broad  == extraction.mode = "broad"
Filter == extraction.mode = "filter"

ExtractionInit(Transcripts) == extraction \in Transcripts /\ stage = "start" /\ events = {}

\* Broad modes: judge every sentence, and return before the git diff is looked at.
JudgeSentences ==
    /\ stage = "start" /\ Broad
    /\ IF Outage(extraction, Cardinality(BroadCandidates(extraction.sentences)))
       THEN stage' = "collect" /\ events' = events
       ELSE /\ stage' = "done"
            /\ events' = ViaHead(extraction) \cup FileMentions(extraction.sentences)
                         \cup SchemaDecisions(extraction.sentences)
    /\ UNCHANGED extraction

Collect ==
    /\ stage = "collect" \/ (stage = "start" /\ ~Broad)
    /\ events' = Candidates0(extraction.sentences)
    /\ stage' = IF Filter THEN "judge" ELSE "classify"
    /\ UNCHANGED extraction

JudgeCandidates ==
    /\ stage = "judge"
    /\ IF Outage(extraction, Cardinality(events))
       THEN stage' = "classify" /\ events' = GivenBack(extraction, RetypedInPlace(extraction, events))
       ELSE stage' = "add" /\ events' = Kept(extraction, events)
    /\ UNCHANGED extraction

\* Nothing around the head's inference catches what it raises: the extraction logs
\* it and raises it again, and reports nothing.
HeadRaises ==
    /\ \/ stage = "start" /\ Broad /\ BroadCandidates(extraction.sentences) # {}
       \/ stage = "judge" /\ events # {}
    /\ stage' = "raised" /\ events' = {}
    /\ UNCHANGED extraction

Classify ==
    /\ stage = "classify" /\ stage' = "add"
    /\ events' = Classified(extraction.sentences, events)
    /\ UNCHANGED extraction

AddTheRest ==
    /\ stage = "add" /\ stage' = "done"
    /\ events' = CrossReference(extraction.sentences,
                                events \cup FileMentions(extraction.sentences)
                                       \cup SchemaDecisions(extraction.sentences), extraction.diff)
                 \cup GitEvents(extraction.diff)
    /\ UNCHANGED extraction

ExtractionNext == JudgeSentences \/ Collect \/ JudgeCandidates \/ HeadRaises \/ Classify \/ AddTheRest
-----------------------------------------------------------------------------
Done == stage = "done"
HadOutage ==
    \/ Filter /\ Outage(extraction, Cardinality(Candidates0(extraction.sentences)))
    \/ Broad /\ Outage(extraction, Cardinality(BroadCandidates(extraction.sentences)))

ExtractionTypeOK ==
    /\ stage \in {"start", "collect", "judge", "classify", "add", "done", "raised"}
    /\ \A s \in Range(extraction.sentences) : s.role \in Roles /\ s.marks \subseteq Marks
    /\ \A e \in events : e.from \subseteq DOMAIN extraction.sentences
    /\ \A d, e \in events : d.place = e.place => d = e

\* A reply is captured once, and what is captured is at most two prose sentences
\* of one turn, with nobody else's words between the question and the answer
\* (the comment of extract_co_captures).
OneAnswerPerReply ==
    LET T == extraction.sentences
        answers == {e \in events : e.who = CoAuthority}
    IN  \A e \in answers :
            /\ \A d \in answers \ {e} : d.from \cap e.from = {}
            /\ e.from \subseteq Prose(T) /\ Cardinality(e.from) <= 2
            /\ \A i, j \in e.from : \A k \in i..j : T[k].role = "assistant"
            /\ \E q \in Asked(T) : \A i \in e.from :
                   q < i /\ \A k \in (q + 2)..(i - 1) : T[k].role = "assistant"

\* Without a head no bonus makes a hard rule out of what the assistant says with
\* less than full confidence, or the user without a word of obligation.
RulesCarryForce ==
    Done /\ extraction.mode = "legacy" =>
        \A e \in events : e.type = "CONSTRAINT_HARD" =>
            \/ e.sure = 100
            \/ "hard!" \in Seen(extraction.sentences, e)
            \/ e.role = "user" /\ "deontic" \in Seen(extraction.sentences, e)

\* The head never tells the same fact twice in one broad pass, also when two
\* labels end in one type.
NoFactTwice ==
    Done /\ Broad /\ ~HadOutage =>
        \A d, e \in {e \in events : e.by = {"head"}} :
            d # e /\ d.type = e.type =>
                \A i \in d.from, j \in e.from : extraction.sentences[i].says # extraction.sentences[j].says

\* When the head drops out in the middle, every candidate is reported all the same,
\* at its place and on its word, and with the type the legacy rules give it unless
\* the head had already retyped it.
OutageLosesNothing ==
    Done /\ HadOutage =>
        \A e \in Candidates0(extraction.sentences) :
            \E d \in events :
                /\ d.place = e.place /\ d.from = e.from /\ d.who = e.who /\ e.by \subseteq d.by
                /\ "head" \notin d.by => d.type = ClassifyEvent(extraction.sentences, e).type

\* A file the assistant says it touched is reported, also when it was first
\* named without a verb.
TouchedFilesAreReported ==
    Done => \A i \in DOMAIN extraction.sentences :
        Named(extraction.sentences, i) /\ Verbs(extraction.sentences, i) # {} =>
            \E e \in events : e.by = {"file_mention"} /\ e.what[1] = extraction.sentences[i].path

\* Every table of a schema block keeps its own key: the first key column on a line
\* after a CREATE TABLE is decided for that table.
TablesKeepTheirKeys ==
    Done => \A i \in DOMAIN extraction.sentences :
        LET lines == extraction.sentences[i].lines
        IN  extraction.sentences[i].code /\ "illustrative" \notin extraction.sentences[i].marks =>
            \A t, k \in DOMAIN lines :
                /\ lines[t].kind = "table" /\ lines[k].kind = "pk" /\ t < k
                /\ \A l \in (t + 1)..(k - 1) : lines[l].kind \notin {"table", "pk"}
                => \E e \in events : e.what = <<lines[t].name, "pk", lines[k].name>>

\* What is made of a transcript: each reply, fact, file and key once and in force.
ExtractionIsSound ==
    /\ ExtractionTypeOK /\ OneAnswerPerReply /\ RulesCarryForce /\ NoFactTwice
    /\ OutageLosesNothing /\ TouchedFilesAreReported /\ TablesKeepTheirKeys
=============================================================================
