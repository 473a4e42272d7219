------------------------------- MODULE Block -------------------------------
(***************************************************************************)
(* From the live claims of a project to the block a session starts with:   *)
(* build_projection and consolidate_by_key choose and weigh, greedy_fill   *)
(* selects, partition_events routes and render_injection shows, with two   *)
(* more rounds of dropping (render_state of integration/session.py).       *)
(*                                                                         *)
(* A claim is a record: its id, type and authority (who), the session and  *)
(* age it comes from, its text (a pair: what it is about, and how it says  *)
(* it), its decision key, subject, raw path and status, how often it was   *)
(* mentioned, how much a quality marker demotes it, and its size in        *)
(* tokens.  Sizes, caps and weights are the code's numbers, the weights in *)
(* thousandths and the factors in percent.  A list of claims is the set of *)
(* them; the order the code has them in is a relation on claims.           *)
(***************************************************************************)
EXTENDS Skeleton

None == "none"

VARIABLES live,        \* the live claims, the scanned files and the budgets
          projection,  \* what the projection holds of them
          selected,    \* what greedy_fill took, zone by zone, and the active thread
          block,       \* what was rendered
          rendered     \* how far render_state is

blockVars == <<live, projection, selected, block, rendered>>

GraveyardType == "APPROACH_ABANDONED_DO_NOT_RETRY"
DecisionTypes == {"DECISION", "CONSTRAINT_SOFT", "APPROACH_ABANDONED"}
ChoiceTypes   == DecisionTypes \cup {"CONSTRAINT_HARD"}
Confirming    == {"user_stated", "assistant_decided", "llm"}
Answer        == "assistant_answer_to_user_question"

\* _AUTHORITY_RANK and _AUTHORITY_PRECEDENCE; what is missing counts as decided.
Authority(c) == CASE c.who = "user_stated" -> 3 [] c.who = Answer -> 1
                  [] c.who = "inferred_from_code" -> 0 [] OTHER -> 2

\* canonicalize_path, for the spellings a path has here.
Canonical(path) == IF path = "./src/a" THEN "src/a" ELSE path
BareBasename(path) == path = "env"

Newest(S)  == CHOOSE c \in S : \A d \in S : d.id <= c.id
MentionsIn(S) == SumFunctionOnSet([c \in S |-> c.mentions], S)
-----------------------------------------------------------------------------
\* The component collapse: one record a path, the latest, with all its mentions.
Components(cs) ==
    LET known == {[c EXCEPT !.path = Canonical(@)] :
                    c \in {d \in cs : /\ d.type = "COMPONENT_STATUS"
                                      /\ d.path # None /\ ~BareBasename(Canonical(d.path))}}
        at(p) == {c \in known : c.path = p}
    IN  {[Newest(at(p)) EXCEPT !.mentions = MentionsIn(at(p))] : p \in {c.path : c \in known}}

\* _canonical_sort_key: authority, then age, then id.
Later(c, d) == c.at > d.at \/ (c.at = d.at /\ c.id > d.id)
LatestOnly(c, d) == Later(c, d)                                         \* mutated form
Outranks(c, d) ==
    \/ Authority(c) > Authority(d)
    \/ Authority(c) = Authority(d) /\ Later(c, d)

Head0(group) == CHOOSE c \in group : \A d \in group \ {c} : Outranks(c, d)

\* A key of one token joins only what is about the same thing as the newest.
OneToken == {"one token"}
Joined(group, key) ==
    IF key \in OneToken THEN {c \in group : c.text[1] = Head0(group).text[1]} ELSE group

\* The golden record: it speaks for the group, with at most two of its older values.
Golden(group) ==
    LET head  == Head0(group)
        older == {c.text : c \in group} \ {head.text}
    IN  IF Cardinality(group) = 1 THEN head
        ELSE [head EXCEPT !.mentions = MentionsIn(group), !.merged = Cardinality(group),
                          !.lineage = Least(Cardinality(older), 2)]

ConsolidateByKey(cs) ==
    LET keys     == {c.key : c \in cs} \ {None}
        keyed(k) == {c \in cs : c.key = k}
    IN  {c \in cs : c.key = None}
        \cup {Golden(Joined(keyed(k), k)) : k \in keys}
        \cup UNION {keyed(k) \ Joined(keyed(k), k) : k \in keys}

\* _apply_composite_weights and compute_weight.
Ordinal(cs, s) ==
    LET first(x) == CHOOSE c \in cs : c.session = x /\ \A d \in cs : d.session = x => c.id <= d.id
    IN  Cardinality({x \in {c.session : c \in cs} : first(x).id <= first(s).id})

BaseTimesType(type) ==
    CASE type = "CONSTRAINT_HARD" -> 1500 [] type = GraveyardType -> 1400 [] type = "DECISION" -> 700
      [] type = "CONSTRAINT_SOFT" -> 450 [] type = "COMPONENT_STATUS" -> 440
      [] type = "APPROACH_ABANDONED" -> 280 [] type = "THREAD_OPEN" -> 720
Repetition(n)  == <<100, 121, 133, 142, 148, 154, 158, 162, 166, 169, 172, 175>>[Least(n, 12)]
Recency(ago)   == 10000 \div (100 + 15 * ago)
Activity(status) == CASE status = "in_flux" -> 200 [] status = "stable" -> 70 [] OTHER -> 100
Central(files, path) ==
    IF path = None \/ files = {} THEN 100
    ELSE 50 + (IF \E f \in files : f.path = path
               THEN (CHOOSE f \in files : f.path = path).central ELSE 0)

Percent(w, p) == (w * p) \div 100

Weigh(c, cs, comps, files) ==
    LET path   == Canonical(c.path)
        status == IF \E d \in comps : d.path = path THEN (CHOOSE d \in comps : d.path = path).status ELSE "unknown"
        ago    == Cardinality({d.session : d \in cs}) - Ordinal(cs, c.session)
        aged   == Percent(Percent(BaseTimesType(c.type), Recency(ago)), Repetition(c.mentions))
    IN  Percent(Percent(Percent(aged, Central(files, path)), IF path = None THEN 100 ELSE Activity(status)),
                c.quality)

\* build_projection and projection_to_events: cs are the live claims.
BuildProjection(cs, files) ==
    LET comps  == Components(cs)
        choice == ConsolidateByKey({c \in cs : c.type \in ChoiceTypes})
        rest   == {c \in cs : c.type \in {GraveyardType, "THREAD_OPEN"}}
    IN  {[c EXCEPT !.weight = Weigh(c, cs, comps, files)] : c \in comps \cup choice \cup rest}
-----------------------------------------------------------------------------
Estimate(c) == c.size + (IF c.path = None THEN 4 ELSE 8)
Tokens(S)   == SumFunctionOnSet([c \in S |-> Estimate(c)], S)

\* Python's sort: equal weights keep the order of the list (here, of ids).
Heavier(c, d)  == c.weight > d.weight \/ (c.weight = d.weight /\ c.id < d.id)
ByWeight(S)    == {p \in S \X S : Heavier(p[1], p[2])}
Precedes(c, d) == Authority(c) > Authority(d) \/ (Authority(c) = Authority(d) /\ Heavier(c, d))
ByTrust(S)     == {p \in S \X S : Precedes(p[1], p[2])}

\* What of S comes before one of its claims.
Ahead(c, S, order) == {d \in S : <<d, c>> \in order}

\* Each in turn that still fits; the ones after it get their chance too.
StopAtFirst(S, order, used, limit) ==                                   \* mutated form
    {c \in S : used + Tokens(Ahead(c, S, order)) + Estimate(c) <= limit}
Admit(S, order, used, limit) ==
    CHOOSE K \in SUBSET S :
        \A c \in S : c \in K <=> used + Tokens(Ahead(c, K, order)) + Estimate(c) <= limit

Mandatory(c) == c.type \in {"CONSTRAINT_HARD", GraveyardType} \/ c.who = "user_stated"

CompressMandatory(S, limit) ==
    LET kept == Admit(S, ByTrust(S), 0, limit)
    IN  IF Tokens(S) <= limit THEN S
        ELSE IF kept = {} THEN {c \in S : Ahead(c, S, ByTrust(S)) = {}} ELSE kept

\* The heaviest component of each path, the best five of them.
GuaranteedComponents(events, limit) ==
    LET comps == {c \in events : c.type = "COMPONENT_STATUS" /\ ~Mandatory(c)}
        best  == {c \in comps : \A d \in comps \ {c} : d.path = c.path => Heavier(c, d)}
        five  == {c \in best : Cardinality(Ahead(c, best, ByWeight(best))) < 5}
    IN  Admit(five, ByWeight(five), 0, limit)

GreedyFill(events, limit, reserve) ==
    LET kept  == CompressMandatory({c \in events : Mandatory(c)}, (500 * limit) \div 1500)
        comps == GuaranteedComponents(events, (150 * limit) \div 1500)
        rest  == {c \in events : ~Mandatory(c) /\ c \notin comps}
    IN  [kept |-> kept, comps |-> comps,
         rest |-> Admit(rest, ByWeight(rest), Tokens(kept \cup comps) + reserve, limit)]
-----------------------------------------------------------------------------
\* partition_events: an answer waits unless something of standing says the same.
Confirmed(events) == {c.subject : c \in {d \in events : d.who \in Confirming}} \ {None}
Pending(events)   == {c \in events : c.who = Answer /\ c.subject \notin Confirmed(events)}
OfTypes(events, types) == {c \in events : c.who # Answer /\ c.type \in types}

ThreadPriority(c) == CASE c.who = "user_stated" -> 0 [] c.who = Answer -> 1 [] c.who = "llm" -> 2
                       [] c.who = "assistant_decided" -> 3 [] c.who = "inferred_from_code" -> 4 [] OTHER -> 5
ThreadPrecedes(c, d) ==
    \/ ThreadPriority(c) < ThreadPriority(d)
    \/ /\ ThreadPriority(c) = ThreadPriority(d)
       /\ \/ c.handoff /\ ~d.handoff
          \/ c.handoff = d.handoff /\ Heavier(c, d)

\* select_active_thread, and what its section will cost.
First(threads) == {c \in threads : \A d \in threads \ {c} : ThreadPrecedes(c, d)}
ActiveThread(events) == First(OfTypes(events, {"THREAD_OPEN"}))
Carried(thread, cs)  == \E c \in thread : Ordinal(cs, c.session) < Cardinality({d.session : d \in cs})
TheSize(thread) == (CHOOSE c \in thread : TRUE).size
ThreadSection(thread, carried) ==
    IF thread = {} THEN 0 ELSE 8 + TheSize(thread) + (IF carried THEN 3 ELSE 0)

\* render_state's candidates: no thread competes with the claims.
AllCompete(events) == events                                            \* mutated form
Contenders(events) == {c \in events : c.type # "THREAD_OPEN"}

\* What was taken, and the order it is listed in.
Taken    == selected.kept \cup selected.comps \cup selected.rest
Selected == Taken \cup selected.thread
Zone(c)  == IF c \in selected.kept THEN 1 ELSE IF c \in selected.comps THEN 2 ELSE 3
Listed(c, d) ==
    \/ Zone(c) < Zone(d)
    \/ /\ Zone(c) = Zone(d)
       /\ CASE Zone(c) > 1 -> Heavier(c, d)
            [] {e \in Contenders(projection) : Mandatory(e)} \subseteq selected.kept -> c.id < d.id
            [] OTHER -> Precedes(c, d)
-----------------------------------------------------------------------------
Malformed == <<"box drawing", 1>>

\* filter_structural_defects over the buckets in turn, with one shared `seen`.
FilterDefects(ctx) ==
    LET all == ctx.hard \cup ctx.grave \cup ctx.comps \cup ctx.decs
        turn(c) == IF c \in ctx.hard THEN 1 ELSE IF c \in ctx.grave THEN 2 ELSE IF c \in ctx.comps THEN 3 ELSE 4
        seen(c) == \E d \in all \ {c} : /\ d.text = c.text
                                        /\ turn(d) < turn(c) \/ (turn(d) = turn(c) /\ Listed(d, c))
        clean(S) == {c \in S : c.text # Malformed /\ (c.text[1] = None \/ ~seen(c))}
    IN  [hard |-> clean(ctx.hard), grave |-> clean(ctx.grave),
         comps |-> clean(ctx.comps), decs |-> clean(ctx.decs)]

\* A heading, and a line each; the values a golden record replaced ride with it.
Section(S) == IF S = {} THEN 0 ELSE 8 + SumFunctionOnSet([c \in S |-> 4 + c.size + 20 * c.lineage], S)

\* _enforce_section_budget: the lightest go, one by one, but never the last.
EnforceSection(S, cap) ==
    LET lighter(c) == {d \in S : d.weight < c.weight \/ (d.weight = c.weight /\ Listed(d, c))}
        without(n) == {c \in S : Cardinality(lighter(c)) >= n}
        last       == Cardinality(S) - 1
    IN  IF Section(S) <= cap THEN S
        ELSE without(Min({n \in 0..last : Section(without(n)) <= cap \/ n = last}))

\* config.section_budgets.scaled.
Scaled(cap, budget) == Atleast(1, (cap * budget) \div 1500)

HotFiles(events) == {c \in events : c.type = "COMPONENT_STATUS" /\ c.mentions >= 2}

\* _compute_hot_weights, in percent of the hottest.
HotWeights(events, files) ==
    LET status == {c \in events : c.type = "COMPONENT_STATUS"}
        ago(c) == Cardinality({d.session : d \in status}) - Ordinal(status, c.session)
        at(p)  == {c \in status : c.path = p}
        raw(p) == SumFunctionOnSet([c \in at(p) |-> Percent(Repetition(c.mentions), Recency(ago(c)))], at(p))
        peak   == Max({1} \cup {raw(c.path) : c \in status})
    IN  [p \in {f.path : f \in files} |-> (100 * raw(p)) \div peak]

\* render_injection, for what the backstop has left of its context.
RenderInjection(ctx) ==
    LET clean == FilterDefects(ctx)
        hard  == EnforceSection(clean.hard, Scaled(150, ctx.budget))
        grave == EnforceSection(clean.grave, Scaled(120, ctx.budget))
        comps == EnforceSection(clean.comps, Scaled(80, ctx.budget))
        decs  == EnforceSection(clean.decs, Scaled(150, ctx.budget))
        shown == First(ctx.threads)
    IN  [hard |-> hard, threads |-> ctx.threads, pending |-> ctx.pending, grave |-> grave,
         comps |-> comps, decs |-> decs, skeleton |-> ctx.skeleton, carried |-> ctx.carried,
         tokens |-> 60 + Section(hard) + ThreadSection(shown, ctx.carried)
                    + Section(ctx.pending) + Section(grave) + Section(comps) + Section(decs)
                    + (IF ctx.skeleton = {} THEN 0 ELSE 8 + TokensOf(ctx.skeleton) + 6 * ctx.hot)
                    + (IF shown = {} THEN 10 ELSE 4 + TheSize(shown))]

Fits(ctx) == RenderInjection(ctx).tokens <= ctx.budget

\* The fewest of `most` that have to go, or all of them.
Fewest(most, enough) == IF enough = {} THEN most ELSE Min(enough)

\* The backstop's three loops: decisions from the tail, stable components, small files.
DropDecisions(ctx) ==
    LET behind(c)  == {d \in ctx.decs : Listed(c, d)}
        without(n) == [ctx EXCEPT !.decs = {c \in @ : Cardinality(behind(c)) >= n}]
        most       == Cardinality(ctx.decs)
    IN  without(Fewest(most, {n \in 0..most : Fits(without(n))}))
DropComponents(ctx) ==
    LET stable     == {c \in ctx.comps : c.status = "stable"}
        ahead(c)   == {d \in stable : Listed(d, c)}
        without(n) == [ctx EXCEPT !.comps = {c \in @ : c \in stable => Cardinality(ahead(c)) >= n}]
        most       == Cardinality(stable)
    IN  without(Fewest(most, {n \in 0..most : Fits(without(n))}))
DropSkeleton(ctx) ==
    LET symbols(e)    == e.classes + e.exported + e.hidden
        smaller(e, f) == symbols(e) < symbols(f) \/ (symbols(e) = symbols(f) /\ e.place < f.place)
        ahead(e)      == {f \in ctx.skeleton : smaller(f, e)}
        without(n)    == [ctx EXCEPT !.skeleton = {e \in @ : Cardinality(ahead(e)) >= n}]
        most          == Cardinality(ctx.skeleton)
    IN  without(Fewest(most, {n \in 0..most : Fits(without(n))}))

RenderWithBudget(ctx) == RenderInjection(DropSkeleton(DropComponents(DropDecisions(ctx))))

\* What is put down as shown: every survivor of the two rounds.
Survivors(b) == b.hard \cup b.threads \cup b.pending \cup b.grave \cup b.comps \cup b.decs
-----------------------------------------------------------------------------
NothingSelected == [kept |-> {}, comps |-> {}, rest |-> {}, thread |-> {}]
NoBlock == [hard |-> {}, threads |-> {}, pending |-> {}, grave |-> {}, comps |-> {},
            decs |-> {}, skeleton |-> {}, carried |-> FALSE, tokens |-> 0]

BlockInit(Projects) ==
    /\ live \in Projects
    /\ projection = {} /\ selected = NothingSelected /\ block = NoBlock /\ rendered = "nothing"

Rebuild ==
    /\ rendered = "nothing"
    /\ projection' = BuildProjection(live.claims, live.files)
    /\ rendered' = "projected"
    /\ UNCHANGED <<live, selected, block>>

Reserve == ThreadSection(ActiveThread(projection), Carried(ActiveThread(projection), live.claims))

Fill ==
    /\ rendered = "projected"
    /\ LET fill == GreedyFill(Contenders(projection), live.budget, Reserve)
       IN  selected' = [kept |-> fill.kept, comps |-> fill.comps, rest |-> fill.rest,
                        thread |-> ActiveThread(projection)]
    /\ rendered' = "filled"
    /\ UNCHANGED <<live, projection, block>>

\* make_injection_context, and what render_state adds to it.
Context ==
    [hard |-> OfTypes(Selected, {"CONSTRAINT_HARD"}), grave |-> OfTypes(Selected, {GraveyardType}),
     comps |-> OfTypes(Selected, {"COMPONENT_STATUS"}), decs |-> OfTypes(Selected, DecisionTypes),
     threads |-> OfTypes(Selected, {"THREAD_OPEN"}), pending |-> Pending(Selected),
     carried |-> Carried(ActiveThread(projection), live.claims), hot |-> Cardinality(HotFiles(projection)),
     skeleton |-> CompressToSkeleton(live.files, live.skeletonBudget,
                                     HotWeights(projection, live.files), DefaultCaps),
     budget |-> live.budget]

Render ==
    /\ rendered = "filled"
    /\ block' = RenderWithBudget(Context)
    /\ rendered' = "rendered"
    /\ UNCHANGED <<live, projection, selected>>

BlockNext == Rebuild \/ Fill \/ Render
-----------------------------------------------------------------------------
Filled == rendered \in {"filled", "rendered"}
ThreadCost == ThreadSection(ActiveThread(projection), Carried(ActiveThread(projection), live.claims))
FillOnly == {c \in Selected : c.type # "THREAD_OPEN"}

BlockTypeOK ==
    /\ rendered \in {"nothing", "projected", "filled", "rendered"}
    /\ \A c \in projection : c.weight \in Nat /\ c.merged \in Nat \ {0}
    /\ Selected \subseteq projection
    /\ Survivors(block) \subseteq Selected /\ block.tokens \in Nat

\* One claim speaks for a topic: the latest of those with the most authority,
\* whatever section the others came from, and no mention of a topic is lost.
LatestSpeaks ==
    rendered # "nothing" =>
        LET choice   == {c \in live.claims : c.type \in ChoiceTypes}
            shown    == {c \in projection : c.type \in ChoiceTypes}
            topic(S) == {c \in S : c.key \notin OneToken \cup {None}}
        IN  /\ \A c, d \in topic(shown) : c.key = d.key => c = d
            /\ \A c \in topic(shown), d \in topic(choice) : c.key = d.key =>
                   Authority(d) <= Authority(c) /\ (Authority(d) = Authority(c) => d.at <= c.at)
            /\ MentionsIn(shown) = MentionsIn(choice)

\* A claim is left out only if there is no room for it beside what was taken:
\* a large one that does not fit never shuts out a small one behind it.
NothingFittingLeftOut ==
    Filled => \A c \in Contenders(projection) \ Selected :
                  Mandatory(c) \/ Tokens(FillOnly) + ThreadCost + Estimate(c) > live.budget

\* What is taken for its weight leaves room for the thread, which is added after
\* the fill and can no longer be dropped.
FillLeavesRoomForThread ==
    Filled /\ (\E c \in FillOnly : ~Mandatory(c) /\ c.type # "COMPONENT_STATUS")
    => Tokens(FillOnly) + ThreadCost <= live.budget

\* The fill of greedy_fill only: where the budget-exempt claims do not all fit, a
\* claim of the user is left out while another's is taken only if that one is the
\* smaller, for the ones behind what does not fit still get their turn.  It says
\* nothing of the sections, whose cut afterwards goes by weight alone and may evict
\* what the user stated (template.py:217, against greedy.py:17-19).
UserOutlivesAssistant ==
    Filled => \A c, d \in Contenders(projection) :
        /\ Mandatory(c) /\ c.who = "user_stated" /\ c \notin Selected
        /\ Mandatory(d) /\ d.who # "user_stated" /\ d \in Selected
        => Estimate(d) < Estimate(c)

\* No text is said twice among the hard rules, the graveyard and the decisions, in
\* one of them or across; the answers, threads and components are not compared.
OneLinePerText ==
    \A c, d \in block.hard \cup block.grave \cup block.decs :
        c.text = d.text /\ c.text[1] # None => c = d

\* An answer never stands as unconfirmed beside the claim that confirms it.
NoPendingOnceConfirmed ==
    \A c \in block.pending, d \in Survivors(block) :
        c.subject # None /\ c.subject = d.subject => d.who \notin Confirming

\* The session's ledger holds what the block shows, no more: the renderer shows
\* one thread, so a second survivor would be hidden from the session for good.
LedgerIsShown ==
    Survivors(block) = block.hard \cup First(block.threads) \cup block.pending
                       \cup block.grave \cup block.comps \cup block.decs

\* Whatever the weights, an open thread of the user leads, and some thread is
\* shown whenever one is open.
UserThreadLeads ==
    rendered = "rendered" =>
        LET open == {c \in live.claims : c.type = "THREAD_OPEN" /\ c.who # Answer}
        IN  /\ open # {} => First(block.threads) # {}
            /\ (\E c \in open : c.who = "user_stated") => \A c \in First(block.threads) : c.who = "user_stated"

\* A block over its budget is down to what may not be dropped.
BlockFits ==
    rendered = "rendered" /\ block.tokens > live.budget =>
        /\ block.decs = {} /\ block.skeleton = {}
        /\ \A c \in block.comps : c.status # "stable"

\* The skeleton keeps its own budget, and a file loses detail only when it is
\* the last one left.
SkeletonDropsBeforeItDegrades ==
    LET detail(path) == Least(5, (CHOOSE f \in live.files : f.path = path).methods)
    IN  /\ Cardinality(block.skeleton) > 1 => TokensOf(block.skeleton) <= live.skeletonBudget
        /\ \A e \in block.skeleton : e.methods < detail(e.path) => Cardinality(block.skeleton) = 1

\* "nothing drops out of the greedy budget *because* it was grouped"
\* (consolidate.py:61-62): a topic that would be shown claim by claim is shown.
GroupingNeverEvicts ==
    Filled =>
        LET alone  == {[c EXCEPT !.key = None] : c \in live.claims}
            fill   == GreedyFill(Contenders(BuildProjection(alone, live.files)), live.budget, Reserve)
            taken  == {c.id : c \in fill.kept \cup fill.comps \cup fill.rest}
        IN  \A g \in projection :
                g.merged > 1 /\ ~Mandatory(g) /\ (\E c \in live.claims : c.id \in taken /\ c.key = g.key /\ c.text = g.text)
                => g \in Selected

\* Whose words a block shows: the latest of the most trusted, and the user's first.
TheRightVoice ==
    LatestSpeaks /\ UserOutlivesAssistant /\ UserThreadLeads /\ NoPendingOnceConfirmed

\* The fill and the cuts respect their budgets, and waste no room.
WithinBudget ==
    /\ NothingFittingLeftOut /\ FillLeavesRoomForThread
    /\ BlockFits /\ SkeletonDropsBeforeItDegrades

\* What a block shows it shows once, and the ledger records what it shows.
ShownOnce == BlockTypeOK /\ OneLinePerText /\ LedgerIsShown
=============================================================================
