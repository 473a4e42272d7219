----------------------------- MODULE MCDerive -----------------------------
(* What is derived from the store and from files, with no store of its own: *)
(* the injection block, the retrieval of claims, the events of a transcript *)
(* and the telemetry of a session.  The initial state picks a suite and its *)
(* problem; the other components rest.                                      *)
EXTENDS Block, Retrieval, Extraction, Telemetry, TLC

VARIABLE suite

Shape(type, who, size) ==
    [type |-> type, who |-> who, size |-> size, text |-> <<None, 1>>, key |-> None, subject |-> None,
     path |-> None, status |-> None, mentions |-> 1, quality |-> 100, handoff |-> FALSE,
     merged |-> 1, lineage |-> 0, weight |-> 0]
About(s, text, key) == [s EXCEPT !.text = text, !.key = key]
On(s, path, status, mentions) == [s EXCEPT !.path = path, !.status = status, !.mentions = mentions]

\* Choices on one topic and near it.
ChoiceShapes == <<
    About(Shape("CONSTRAINT_HARD", "user_stated", 20), <<"a", 1>>, "two tokens"),
    About(Shape("CONSTRAINT_HARD", "assistant_decided", 60), <<"a", 2>>, "two tokens"),
    About(Shape("DECISION", "user_stated", 60), <<"a", 1>>, None),
    [About(Shape("DECISION", "assistant_decided", 40), <<"a", 2>>, "two tokens") EXCEPT !.mentions = 3],
    About(Shape("CONSTRAINT_SOFT", "assistant_decided", 150), <<"a", 2>>, "two tokens"),
    About(Shape("DECISION", "llm", 90), <<"b", 1>>, "one token"),
    About(Shape("APPROACH_ABANDONED", "inferred_from_code", 20), <<"b", 2>>, "one token"),
    [About(Shape("DECISION", "assistant_decided", 20), <<"c", 1>>, "one token") EXCEPT !.quality = 40],
    About(Shape("APPROACH_ABANDONED_DO_NOT_RETRY", "assistant_decided", 40), <<"a", 2>>, None)>>

\* What else a block shows.
OtherShapes == <<
    [Shape("CONSTRAINT_SOFT", Answer, 20) EXCEPT !.subject = "x", !.text = <<"d", 1>>],
    [Shape("DECISION", "assistant_decided", 40) EXCEPT !.subject = "x", !.text = <<"e", 1>>],
    On(Shape("COMPONENT_STATUS", "inferred_from_code", 10), "src/a", "in_flux", 2),
    On(Shape("COMPONENT_STATUS", "inferred_from_code", 30), "./src/a", "stable", 1),
    On(Shape("COMPONENT_STATUS", "assistant_decided", 20), "src/b", "stable", 1),
    On(Shape("COMPONENT_STATUS", "assistant_decided", 20), "env", "in_flux", 1),
    Shape("THREAD_OPEN", "user_stated", 20),
    [Shape("THREAD_OPEN", "assistant_decided", 90) EXCEPT !.handoff = TRUE],
    [Shape("THREAD_OPEN", "assistant_decided", 20) EXCEPT !.mentions = 3],
    About(Shape("DECISION", "assistant_decided", 20), Malformed, None)>>

Upto(S, n) == UNION {[1..k -> S] : k \in 1..n}

\* The claims of two sessions, in the order of their ids.
Claims(s) == {s[i] @@ [id |-> i, at |-> i, session |-> (i + 1) \div 2] : i \in DOMAIN s}

File(place, path, classes, methods, public, private, central) ==
    [path |-> path, place |-> place, classes |-> classes, methods |-> methods, routes |-> 0, public |-> public,
     private |-> private, central |-> central, support |-> path = "tests/c"]
MCFiles == {File(1, "src/a", 1, 4, 1, 1, 100), File(2, "src/b", 0, 0, 3, 0, 20), File(3, "tests/c", 6, 1, 0, 0, 0)}

\* The budget of the block and of its skeleton, and the files scanned.
TightSettings == {<<240, 600, {}>>, <<240, 60, MCFiles>>}
Settings == TightSettings \cup {<<600, 600, {}>>, <<240, 600, MCFiles>>, <<600, 100, MCFiles>>}
Project(s, t) == [claims |-> Claims(s), budget |-> t[1], skeletonBudget |-> t[2], files |-> t[3]]

BlockProblem ==
    LET choices == ToSet(ChoiceShapes)
        others == ToSet(OtherShapes)
        under(s, settings) == \E t \in settings : BlockInit({Project(s, t)})
        init(s) == under(s, Settings)
    IN  \/ \E n \in 1..3 : \E s \in [1..n -> choices] \cup [1..n -> others] : init(s)
        \/ \E c, d \in choices, r \in others : init(<<c, d, r>>)
        \/ \E c, d \in choices, r, q \in others : under(<<c, r, d, q>>, TightSettings)
-----------------------------------------------------------------------------
(* Retrieval: what the two rankings, the gate's evidence and the ledger can be. *)
Short(axis) == Len(axis) # 1
Evidence ==
    [dense : {r \in Rankings : Short(r)}, lexical : Rankings,
     shared : {<<0, 0, MinTerms>>, <<MinTerms, MinTerms, 0>>, <<MinTerms, MinTerms, MinTerms>>},
     close : {{}, Facts}, echo : {{}, {1}}, fits : {MaxEvents - 1, MaxEvents}]
Prompts == [e : Evidence, seen : {{}, {1}, {3}}]
-----------------------------------------------------------------------------
(* Extraction: sentences, and the transcripts made of them.                *)
Says(role, says, signals, marks) ==
    [role |-> role, code |-> FALSE, says |-> says, signals |-> signals, marks |-> marks, patterns |-> {},
     path |-> "none", verb |-> "none", lines |-> <<>>]
Hit(type, sure) == [type |-> type, sure |-> sure]
Code(s, ddl) == [s EXCEPT !.code = TRUE, !.lines = ddl]
Names(s, path, verb) == [s EXCEPT !.path = path, !.verb = verb]
Plain(role) == Says(role, "plain", <<>>, {})

Statements == {
    [Says("user", "rule", <<Hit("CONSTRAINT_HARD", 90)>>, {"requirement", "deontic"})
        EXCEPT !.patterns = {"NO_MULTI", "NO_SINGLE"}],
    [Says("user", "aside", <<Hit("CONSTRAINT_HARD", 60)>>, {"domain", "fragment"}) EXCEPT !.patterns = {"ONLY_X"}],
    Says("user", "ask", <<Hit("DECISION", 70), Hit("CONSTRAINT_HARD", 100)>>, {"question", "requirement"}),
    Says("user", "aside", <<Hit("CONSTRAINT_SOFT", 60)>>, {"fragment", "hedge"}),
    Says("assistant", "it never", <<Hit("CONSTRAINT_HARD", 90)>>, {"never", "deontic", "domain", "requirement"}),
    Says("assistant", "must", <<Hit("CONSTRAINT_HARD", 100)>>, {}),
    Names(Says("assistant", "left", <<Hit("APPROACH_ABANDONED", 80), Hit("THREAD_CLOSE", 60)>>, {"closes"}),
          "src/a", "none"),
    Says("assistant", "limit", <<>>, {"setting", "short"}),
    Says("assistant", "limit", <<>>, {"setting", "meta"}),
    Says("assistant", "noise", <<Hit("THREAD_OPEN", 60)>>, {"noise", "thin"}),
    Code(Plain("assistant"), <<>>)}
Exchange == {s \in Statements : s.role = "user" \/ s.says \in {"must", "noise"} \/ s.code}

Extract(T, mode, labels, out, diff) ==
    ExtractionInit({[sentences |-> T, mode |-> mode, labels |-> labels, out |-> out, diff |-> diff]})
Labels == {"NOISE", "DECISION", "CONSTRAINT_HARD", "CONSTRAINT_SOFT", "THREAD"}
Headed(T, labels, outs) ==
    \E m \in {"filter", "broad"}, l \in [DOMAIN T -> labels], o \in outs : Extract(T, m, l, o, <<>>)
AsRules(T) == Extract(T, "legacy", [i \in DOMAIN T |-> "NOISE"], 0, <<"src/a">>)

Touching == {Names(Plain("assistant"), "src/a", "none"), Names(Plain("assistant"), "src/a", "write"),
             Names(Plain("assistant"), "src/b", "read"), Plain("assistant"), Plain("user")}
Line(kind, name) == [kind |-> kind, name |-> name, key |-> "none"]
Inline(name, key) == [kind |-> "table", name |-> name, key |-> key]
Ddl == Upto({Line("table", "users"), Inline("items", "uuid"), Line("pk", "uuid"), Line("pk", "serial"),
             Line("money", "int")}, 4)
Schemas == {<<Code(Plain("assistant"), l)>> : l \in Ddl}
           \cup {<<Code(Plain("user"), l), Code(Says("assistant", "plain", <<>>, {"illustrative"}), l),
                   Code(Plain("assistant"), <<Line("table", "users"), Line("pk", "uuid")>>)>> :
                   l \in Upto({Line("table", "users"), Line("pk", "uuid")}, 2)}

ExtractionProblem ==
    \/ \E n \in 1..2 : \E T \in [1..n -> Statements] : Headed(T, Labels, 0..3)
    \/ \E T \in [1..3 -> Exchange] : Headed(T, {"NOISE", "CONSTRAINT_HARD"}, {0, 2})
    \/ \E n \in 1..3 : \E T \in [1..n -> Statements] : AsRules(T)
    \/ \E n \in 1..4 : \E T \in [1..n -> Touching] : AsRules(T)
    \/ \E T \in [1..4 -> Exchange] : AsRules(T)
    \/ \E T \in Schemas : AsRules(T)
-----------------------------------------------------------------------------
(* Telemetry: what a response can call.                                   *)
Call(tool, input, denied) == [tool |-> tool, input |-> input, denied |-> denied]
Calls == {Call("Read", "a", TRUE), Call("Read", "a", FALSE), Call("Edit", "a", FALSE),
          Call("Write", "b", FALSE), Call("mcp__cognikernel__recall", "q", FALSE)}
Conversations == [1..2 -> {<<>>} \cup Upto(Calls, 2)] \cup [1..3 -> Upto(Calls, 1)]
-----------------------------------------------------------------------------
deriveVars == <<suite, blockVars, problem, extractionVars, telemetryVars>>

MCInit ==
    /\ suite \in {"block", "recall", "extract", "cost"}
    /\ IF suite = "block" THEN BlockProblem ELSE BlockInit({Project(<<>>, <<240, 60, {}>>)})
    /\ IF suite = "recall" THEN RetrievalInit(Prompts)
       ELSE RetrievalInit({[e |-> [dense |-> <<>>, lexical |-> <<>>, shared |-> <<0, 0, 0>>, close |-> {},
                                   echo |-> {}, fits |-> 0], seen |-> {}]})
    /\ IF suite = "extract" THEN ExtractionProblem ELSE AsRules(<<>>)
    /\ TelemetryInit(IF suite = "cost" THEN Conversations ELSE {<<>>})
    /\ suite # "cost" => telemetry = NoTelemetry
MCNext ==
    /\ UNCHANGED <<suite, problem>>
    /\ \/ suite = "block" /\ BlockNext /\ UNCHANGED <<extractionVars, telemetryVars>>
       \/ suite = "extract" /\ ExtractionNext /\ UNCHANGED <<blockVars, telemetryVars>>
       \/ suite = "cost" /\ TelemetryNext /\ UNCHANGED <<blockVars, extractionVars>>
MCSpec == MCInit /\ [][MCNext]_deriveVars
=============================================================================
