----------------------------- MODULE Retrieval -----------------------------
(***************************************************************************)
(* What the memory retrieves for a prompt, and how it explains it:         *)
(* retrieval/hybrid.py, the CK-1 gate of integration/query.py and          *)
(* integration/explain_recall.py.                                          *)
(*                                                                         *)
(* Two axes rank the claims, by meaning (dense) and by words (bm25); their *)
(* ranks are fused.  Before a claim is pushed into a prompt it must not    *)
(* restate the prompt, must not be in the session's ledger, and must pass  *)
(* the dual-evidence gate; then a cap and a size limit apply.              *)
(*                                                                         *)
(* The evidence of one prompt is a record: the two rankings, how many      *)
(* terms each claim shares with the prompt, which are close enough for the *)
(* dense axis alone, which restate the prompt, and how many lines fit.     *)
(***************************************************************************)
EXTENDS Integers, Sequences, FiniteSets, SequencesExt

CONSTANTS Facts,       \* ids of the live claims
          Candidates,  \* CK1_CANDIDATES
          AgreeRank,   \* ck1_dense_rank_max and ck1_bm25_rank_max
          SoloRank,    \* the rank one axis alone must reach
          AnchorTerms, \* ck1_dual_anchor_terms
          MinTerms,    \* ck1_min_term_overlap
          MaxEvents    \* ck1_max_events

ASSUME RetrievalAssumption ==
    /\ Facts \subseteq Nat /\ IsFiniteSet(Facts) /\ Candidates \in Nat \ {0}
    /\ {AgreeRank, SoloRank, MaxEvents} \subseteq Nat \ {0} /\ {AnchorTerms, MinTerms} \subseteq Nat

Unranked == 0
RankIn(axis, f) == IF f \in ToSet(axis) THEN CHOOSE r \in DOMAIN axis : axis[r] = f ELSE Unranked

\* Reciprocal rank fusion: the sum of 1 / (60 + rank) over the axes that rank the
\* claim, as a fraction.
UnrankedToo(r) == 1                                                 \* mutated form
Weight(r)      == IF r = Unranked THEN 0 ELSE 1
Score(e, f) ==
    LET d == RankIn(e.dense, f)
        b == RankIn(e.lexical, f)
    IN  [over |-> Weight(d) * (60 + b) + Weight(b) * (60 + d), under |-> (60 + d) * (60 + b)]

\* Best first, ties by id.
Before(e, f, g) ==
    LET x == Score(e, f)
        y == Score(e, g)
    IN  \/ x.over * y.under > y.over * x.under
        \/ x.over * y.under = y.over * x.under /\ f < g
Best(e, hits, n) == {f \in hits : Cardinality({g \in hits : Before(e, g, f)}) < n}

\* hybrid_recall.  Its hits are a set: the order is always Before.
HybridRecall(e, k) == Best(e, ToSet(e.dense) \cup ToSet(e.lexical), k)

\* Which axes ran is read off the hits that are left, not off the search.
Live(axis, hits) == hits \cap ToSet(axis) # {}

\* ck1_gate_decisions, for one of the hits.
Gate(e, hits, f) ==
    LET d == RankIn(e.dense, f)
        b == RankIn(e.lexical, f)
    IN  CASE Live(e.dense, hits) /\ Live(e.lexical, hits) ->
               d \in 1..AgreeRank /\ b \in 1..AgreeRank /\ e.shared[f] >= AnchorTerms
          [] ~Live(e.dense, hits) /\ Live(e.lexical, hits) ->
               b \in 1..SoloRank /\ e.shared[f] >= MinTerms
          [] Live(e.dense, hits) /\ ~Live(e.lexical, hits) ->
               d \in 1..SoloRank /\ f \in e.close
          [] OTHER -> FALSE

\* select_ck1_hits: echoes and what the session has seen go before the gate looks.
Passed(e, left) == {f \in left : Gate(e, left, f)}
SelectHits(e, hits, seen) ==
    Best(e, Passed(e, (hits \ e.echo) \ seen), MaxEvents)

\* fit_ck1_budget: in order, up to the first line that does not fit.
FitBudget(e, passed) == Best(e, passed, e.fits)

\* recall_for_prompt, up to what it returns.
Pushed(e, seen) == FitBudget(e, SelectHits(e, HybridRecall(e, Candidates), seen))
-----------------------------------------------------------------------------
\* explain_recall's account of CK-1 for a session.
ExplainUnseen(e, seen) == {}                                       \* mutated form
AlreadySeen(e, seen) == (HybridRecall(e, Candidates) \ e.echo) \cap seen

Ck1(e, seen) ==
    LET hits   == HybridRecall(e, Candidates)
        left   == (hits \ e.echo) \ AlreadySeen(e, seen)
        passed == Passed(e, left)
        capped == Best(e, passed, MaxEvents)
    IN  [echo |-> hits \cap e.echo, seen |-> AlreadySeen(e, seen), decided |-> left,
         passed |-> passed, over_cap |-> passed \ capped, injected |-> FitBudget(e, capped)]

\* _claim_verdict: the first that applies, in this order.
Verdict(e, seen, f) ==
    LET ck1 == Ck1(e, seen)
    IN  IF f \in ck1.injected THEN "push"
        ELSE IF f \in ck1.echo THEN "restates the prompt"
        ELSE IF f \in ck1.seen THEN "already seen"
        ELSE IF f \in ck1.over_cap THEN "over the cap"
        ELSE IF f \in ck1.passed THEN "does not fit"
        ELSE IF f \in ck1.decided THEN "gate rejects"
        ELSE "no candidate"

\* explain_recall: every claim asked about gets one.
Explanation(e, seen) == [f \in Facts |-> Verdict(e, seen, f)]
-----------------------------------------------------------------------------
VARIABLE problem       \* one prompt's evidence, and the session's ledger

\* The rankings an axis can return.
Rankings == {s \in UNION {[1..n -> Facts] : n \in 0..Cardinality(Facts)} : IsInjective(s)}

RetrievalInit(Prompts) == problem \in Prompts

\* The explanation never tells another story than the prompt hook: a claim's
\* verdict is "would push" exactly when the hook pushes it, a claim it calls
\* already seen is in the ledger, and a rejected one never reaches the prompt.
ExplanationIsTrue ==
    \A f \in Facts :
        LET verdict == Explanation(problem.e, problem.seen)[f]
        IN  /\ verdict = "push" <=> f \in Pushed(problem.e, problem.seen)
            /\ f \in problem.seen => verdict \in {"already seen", "restates the prompt", "no candidate"}

\* A claim that is as good as another on both axes, and better on one, is never
\* fused below it, so the cut never keeps the worse of the two.
FusionRespectsBothAxes ==
    LET e == problem.e
        better(axis, f, g) == RankIn(axis, f) # Unranked /\
                              (RankIn(axis, g) = Unranked \/ RankIn(axis, f) < RankIn(axis, g))
        same(axis, f, g) == RankIn(axis, f) = Unranked /\ RankIn(axis, g) = Unranked
        kept == HybridRecall(e, 2)
    IN  \A f, g \in Facts :
            /\ better(e.dense, f, g) \/ same(e.dense, f, g)
            /\ better(e.lexical, f, g) \/ same(e.lexical, f, g)
            /\ better(e.dense, f, g) \/ better(e.lexical, f, g)
            => (g \in kept => f \in kept)

\* What a prompt recalls is fused and explained soundly.
RecallIsSound == ExplanationIsTrue /\ FusionRespectsBothAxes
=============================================================================
