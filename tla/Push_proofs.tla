---------------------------- MODULE Push_proofs ----------------------------
(***************************************************************************)
(* What the render ledger keeps true for any number of hooks, claims and   *)
(* pushes, whoever is killed and whichever write fails.                    *)
(*                                                                         *)
(* The argument: a hook that has chosen and not yet printed is told apart  *)
(* by whether its write of the ledger went through.  If it did, what it    *)
(* chose is in the ledger and no later hook chooses it; who chose it       *)
(* before is recorded as having crossed.  If it did not, what it chose is  *)
(* recorded as unlogged.  A claim in the session's context is therefore in *)
(* the ledger or unlogged, and one that two hooks hold at once is unlogged *)
(* or crossed as soon as either has tried to write.                        *)
(***************************************************************************)
EXTENDS Push, FiniteSetTheorems, NaturalsInduction, WellFoundedInduction, TLAPS

Hook == [at : {"idle", "choose", "log", "print"}, kind : {"block", "prompt", "edit"},
         picked : SUBSET Facts, logs : SUBSET Facts, logged : BOOLEAN,
         rescued : SUBSET Facts, passed_over : SUBSET Facts]

\* What a hook holds: it writes what it chose, and has written it or failed to.
HookOk(k) ==
    /\ k.at \in {"idle", "choose"} => k.picked = {} /\ ~k.logged
    /\ k.at = "log" => ~k.logged
    /\ k.logs = k.picked
    /\ k.at = "print" /\ ~k.logged => k.picked \subseteq unlogged
    /\ k.logged => k.picked \subseteq ledger
    /\ k.kind = "edit" /\ k.picked \cap k.rescued # {} => k.passed_over = {}

\* Of two hooks that hold a claim, once one has tried to write it.
Apart(h, g) ==
    h # g /\ hooks[g].at = "print" /\ hooks[h].kind # "block" =>
        hooks[h].picked \cap hooks[g].picked \subseteq unlogged \cup crossed

PushInv ==
    /\ PushTypeOK
    /\ \A h \in Hooks : HookOk(hooks[h])
    /\ LedgerIsExplained
    /\ context \subseteq ledger \cup unlogged
    /\ \A h, g \in Hooks : Apart(h, g)
    /\ \A h \in Hooks : hooks[h].kind # "block" =>
          hooks[h].picked \cap context \subseteq unlogged \cup crossed
-----------------------------------------------------------------------------
\* What is chosen.

\* A set of claims that is not empty has one of the least rank.
LEMMA LeastRanked ==
    ASSUME NEW S, S # {}, NEW rank, \A f \in S : rank[f] \in Nat
    PROVE  \E f \in S : \A g \in S : rank[f] <= rank[g]
<1> DEFINE T == {rank[f] : f \in S}
           R == OpToRel(<, Nat)
<1>1. T \subseteq Nat /\ T # {}
    OBVIOUS
<1>2. PICK m \in T : \A j \in T : ~(<<j, m>> \in R)
  <2> HIDE DEF T
  <2>1. IsWellFoundedOn(R, Nat)
      BY NatLessThanWellFounded
  <2> HIDE DEF R
  <2> QED BY <1>1, <2>1, WFMin
<1>3. \A j \in T : m <= j
  <2> SUFFICES ASSUME NEW j \in T PROVE m <= j
      OBVIOUS
  <2>1. ~(j < m)
      BY <1>1, <1>2 DEF OpToRel
  <2> QED BY <1>1, <2>1
<1> QED
    BY <1>3

\* What a prompt recalls is a claim the session has not seen.
LEMMA PushedIsUnseen ==
    ASSUME NEW e \in Prompts, NEW seen
    PROVE  Pushed(e, seen) \subseteq Facts \ seen
<1>1. HybridRecall(e, Candidates) \subseteq Facts
    BY PushAssumption DEF HybridRecall, Best
<1>2. SelectHits(e, HybridRecall(e, Candidates), seen) \subseteq HybridRecall(e, Candidates) \ seen
    BY DEF SelectHits, Best, Passed
<1> QED
    BY <1>1, <1>2 DEF Pushed, FitBudget, Best

\* There are finitely many prohibitions.
LEMMA ProhibitionsFinite ==
    IsFiniteSet(Prohibitions) /\ Cardinality(Prohibitions) \in Nat
    BY PushAssumption, RetrievalAssumption, FS_Subset, FS_CardinalityType

\* What an edit is shown, of what is over the floor and what is rescued.
RankOf(rescued, order) == [f \in Prohibitions |-> FloorFirst(order, rescued, f)]
Shown(floor, rescued, order) == FirstOfTopic(Unseen(floor \cup rescued), RankOf(rescued, order))
PassedOver(floor, picked) == {f \in Unseen(floor) : \A g \in picked : Topics[g] # Topics[f]}

\* What an edit is shown is of the hits; and when a rescued prohibition is among
\* them, every topic that has a hit over the floor is.
LEMMA FloorGoesFirst ==
    ASSUME NEW floor \in SUBSET Prohibitions, NEW rescued \in Rescues(floor),
           NEW order \in Orders
    PROVE  /\ Shown(floor, rescued, order) \subseteq Prohibitions \ ledger
           /\ Shown(floor, rescued, order) \cap rescued # {} =>
                 PassedOver(floor, Shown(floor, rescued, order)) = {}
<1>a. PICK rank, picked : /\ rank = [f \in Prohibitions |-> FloorFirst(order, rescued, f)]
                          /\ picked = FirstOfTopic(Unseen(floor \cup rescued), rank)
                          /\ picked = Shown(floor, rescued, order)
    BY DEF Shown, RankOf
<1> DEFINE hits   == Unseen(floor \cup rescued)
           firsts == {f \in hits : \A g \in hits : Topics[g] = Topics[f] => rank[f] <= rank[g]}
           ahead(f) == {g \in firsts : rank[g] < rank[f]}
           N == Cardinality(Prohibitions)
<1>1. picked = {f \in firsts : Cardinality(ahead(f)) < MaxSurface}
    BY <1>a DEF FirstOfTopic
<1>2. hits \subseteq Prohibitions \ ledger /\ Unseen(floor) \subseteq hits
    BY DEF Unseen, Rescues
<1>3. firsts \subseteq hits /\ IsFiniteSet(firsts)
  <2>1. firsts \subseteq Prohibitions
      BY <1>2
  <2> QED BY <2>1, ProhibitionsFinite, FS_Subset
<1>4. /\ \A f \in Prohibitions : rank[f] \in Nat
      /\ \A f \in Unseen(floor), g \in rescued : rank[f] < rank[g]
  <2>1. \A f \in Prohibitions : order[f] \in 1..N
      BY DEF Orders
  <2>2. N \in Nat
      BY ProhibitionsFinite
  <2> HIDE DEF N
  <2>3. \A f \in Prohibitions : rank[f] = IF f \in rescued THEN order[f] + N ELSE order[f]
      BY <1>a DEF FloorFirst, N
  <2>4. /\ \A f \in Unseen(floor) : f \in Prohibitions /\ f \notin rescued
        /\ rescued \subseteq Prohibitions
      BY DEF Unseen, Rescues
  <2> QED BY <2>1, <2>2, <2>3, <2>4
<1>5. ASSUME NEW r \in picked \cap rescued, NEW f \in Unseen(floor)
      PROVE  \E g \in picked : Topics[g] = Topics[f]
  <2> DEFINE same == {g \in hits : Topics[g] = Topics[f]}
  <2>1. f \in same /\ \A g \in same : rank[g] \in Nat
      BY <1>2, <1>4
  <2>2. PICK g \in same : \A o \in same : rank[g] <= rank[o]
    <3> HIDE DEF same
    <3> QED BY <2>1, LeastRanked
  <2>3. g \in firsts
      BY <2>2
  <2>4. rank[g] < rank[r]
    <3>1. rank[g] <= rank[f] /\ rank[f] < rank[r]
        BY <1>4, <2>1, <2>2
    <3>2. rank[g] \in Nat /\ rank[f] \in Nat /\ rank[r] \in Nat
        BY <1>2, <1>4, <2>1, <2>2 DEF Rescues
    <3> QED BY <3>1, <3>2
  <2>5. ahead(g) \subseteq ahead(r) /\ ahead(r) \subseteq firsts
    <3>1. \A o \in firsts : rank[o] \in Nat
        BY <1>2, <1>4
    <3>2. rank[g] \in Nat /\ rank[r] \in Nat
        BY <1>2, <1>4, <2>1, <2>2 DEF Rescues
    <3> QED BY <2>4, <3>1, <3>2
  <2>6. Cardinality(ahead(g)) <= Cardinality(ahead(r))
        /\ Cardinality(ahead(g)) \in Nat /\ Cardinality(ahead(r)) \in Nat
    <3> HIDE DEF ahead, firsts
    <3>1. IsFiniteSet(ahead(r))
        BY <1>3, <2>5, FS_Subset
    <3>2. IsFiniteSet(ahead(g)) /\ Cardinality(ahead(g)) <= Cardinality(ahead(r))
        BY <2>5, <3>1, FS_Subset
    <3> QED BY <3>1, <3>2, FS_CardinalityType
  <2>7. Cardinality(ahead(r)) < MaxSurface
    <3>1. r \in picked
        OBVIOUS
    <3> HIDE DEF ahead, firsts
    <3> QED BY <1>1, <3>1
  <2>8. g \in picked
    <3> HIDE DEF ahead, firsts
    <3>1. MaxSurface \in Nat
        BY PushAssumption
    <3>2. Cardinality(ahead(g)) < MaxSurface
        BY <2>6, <2>7, <3>1
    <3> QED BY <1>1, <2>3, <3>2
  <2> QED BY <2>2, <2>8
<1>6. picked \subseteq Prohibitions \ ledger
    BY <1>1, <1>2
<1>7. picked \cap rescued # {} => PassedOver(floor, picked) = {}
    BY <1>5 DEF PassedOver
<1> QED
    BY <1>a, <1>6, <1>7
-----------------------------------------------------------------------------
\* The records the steps make.

\* A hook that is not running holds nothing.
LEMMA NoHookIsOne ==
    /\ NoHook \in Hook
    /\ NoHook.at = "idle" /\ NoHook.kind = "block" /\ NoHook.picked = {} /\ NoHook.logs = {}
    /\ ~NoHook.logged /\ NoHook.rescued = {} /\ NoHook.passed_over = {}
    BY DEF NoHook, Hook

\* A hook that has just started holds nothing either.
LEMMA HookStarted ==
    ASSUME NEW kind \in {"block", "prompt", "edit"}
    PROVE  \E k \in Hook :
              /\ k = [NoHook EXCEPT !.at = "choose", !.kind = kind]
              /\ k.at = "choose" /\ k.kind = kind /\ k.picked = {} /\ k.logs = {} /\ ~k.logged
<1> DEFINE k == [NoHook EXCEPT !.at = "choose", !.kind = kind]
<1>1. /\ k \in Hook
      /\ k.at = "choose" /\ k.kind = kind /\ k.picked = {} /\ k.logs = {} /\ ~k.logged
    BY NoHookIsOne DEF Hook
<1> HIDE DEF k
<1> QED BY <1>1 DEF k

\* A step moves one hook.
LEMMA HookMoved ==
    ASSUME hooks \in [Hooks -> Hook], NEW h \in Hooks, NEW k \in Hook,
           hooks' = [hooks EXCEPT ![h] = k]
    PROVE  /\ hooks' \in [Hooks -> Hook] /\ hooks'[h] = k
           /\ \A g \in Hooks \ {h} : hooks'[g] = hooks[g]
    OBVIOUS

\* A write of the ledger moves only the hook that made it, to the print.
LEMMA HookLogged ==
    ASSUME hooks \in [Hooks -> Hook], NEW h \in Hooks, Log(h)
    PROVE  /\ hooks' \in [Hooks -> Hook]
           /\ hooks'[h].at = "print" /\ hooks'[h].kind = hooks[h].kind
           /\ hooks'[h].picked = hooks[h].picked /\ hooks'[h].logs = hooks[h].logs
           /\ hooks'[h].rescued = hooks[h].rescued /\ hooks'[h].passed_over = hooks[h].passed_over
           /\ \A g \in Hooks \ {h} : hooks'[g] = hooks[g]
           /\ \/ /\ hooks'[h].logged
                 /\ ledger' = ledger \cup hooks[h].logs /\ unlogged' = unlogged
                 /\ crossed' = crossed \cup {f \in hooks[h].picked :
                                         \E g \in Running \ {h} : f \in hooks[g].picked}
              \/ /\ hooks'[h].logged = hooks[h].logged
                 /\ unlogged' = unlogged \cup hooks[h].picked
                 /\ ledger' = ledger /\ crossed' = crossed
<1>1. PICK old \in Hook : old = hooks[h]
    OBVIOUS
<1> DEFINE told == [old EXCEPT !.at = "print", !.logged = TRUE]
           untold == [old EXCEPT !.at = "print"]
<1>2. /\ told \in Hook /\ told.at = "print" /\ told.kind = old.kind /\ told.picked = old.picked
      /\ told.logs = old.logs /\ told.rescued = old.rescued
      /\ told.passed_over = old.passed_over /\ told.logged
    BY DEF Hook
<1>3. /\ untold \in Hook /\ untold.at = "print" /\ untold.kind = old.kind
      /\ untold.picked = old.picked /\ untold.logs = old.logs /\ untold.rescued = old.rescued
      /\ untold.passed_over = old.passed_over /\ untold.logged = old.logged
    BY DEF Hook
<1>4. CASE /\ hooks' = [hooks EXCEPT ![h].at = "print", ![h].logged = TRUE]
           /\ ledger' = ledger \cup hooks[h].logs /\ unlogged' = unlogged
           /\ crossed' = crossed \cup {f \in hooks[h].picked :
                                   \E g \in Running \ {h} : f \in hooks[g].picked}
  <2>1. hooks' = [hooks EXCEPT ![h] = told]
      BY <1>1, <1>4
  <2> HIDE DEF told
  <2>2. hooks' \in [Hooks -> Hook] /\ hooks'[h] = told
        /\ \A g \in Hooks \ {h} : hooks'[g] = hooks[g]
      BY <1>2, <2>1, HookMoved
  <2> QED BY <1>1, <1>2, <1>4, <2>2
<1>5. CASE /\ hooks' = [hooks EXCEPT ![h].at = "print"]
           /\ unlogged' = unlogged \cup hooks[h].picked
           /\ ledger' = ledger /\ crossed' = crossed
  <2>1. hooks' = [hooks EXCEPT ![h] = untold]
      BY <1>1, <1>5
  <2> HIDE DEF untold
  <2>2. hooks' \in [Hooks -> Hook] /\ hooks'[h] = untold
        /\ \A g \in Hooks \ {h} : hooks'[g] = hooks[g]
      BY <1>3, <2>1, HookMoved
  <2> QED BY <1>1, <1>3, <1>5, <2>2
<1> QED
    BY <1>4, <1>5 DEF Log
-----------------------------------------------------------------------------
\* The invariant.  A step moves one hook and forgets nothing that was recorded, so
\* it is enough to look at that hook, alone and beside each other one.

Recorded == ledger \subseteq ledger' /\ unlogged \subseteq unlogged' /\ crossed \subseteq crossed'
Held(h)  == hooks[h].picked

\* It is enough to look at the hook that moved.
LEMMA OneHookMoves ==
    ASSUME PushInv, NEW h \in Hooks, Recorded,
           \A g \in Hooks \ {h} : hooks'[g] = hooks[g],
           HookOk(hooks[h])',
           \A g \in Hooks \ {h} : Apart(h, g)' /\ Apart(g, h)'
    PROVE  /\ \A g \in Hooks : HookOk(hooks[g])'
           /\ \A f, g \in Hooks : Apart(f, g)'
<1>1. ASSUME NEW g \in Hooks PROVE HookOk(hooks[g])'
  <2>1. CASE g = h
      BY <2>1
  <2>2. CASE g # h
    <3>1. HookOk(hooks[g]) /\ hooks'[g] = hooks[g]
        BY <2>2 DEF PushInv
    <3> QED BY <3>1 DEF HookOk, Recorded
  <2> QED BY <2>1, <2>2
<1>2. ASSUME NEW f \in Hooks, NEW g \in Hooks PROVE Apart(f, g)'
  <2>1. CASE f = h \/ g = h
      BY <2>1 DEF Apart
  <2>2. CASE f # h /\ g # h
    <3>1. Apart(f, g) /\ hooks'[f] = hooks[f] /\ hooks'[g] = hooks[g]
        BY <2>2 DEF PushInv
    <3> QED BY <3>1 DEF Apart, Recorded
  <2> QED BY <2>1, <2>2
<1> QED
    BY <1>1, <1>2

\* The type invariant's account of the hooks, under its name.
LEMMA HooksAreTyped == PushTypeOK => hooks \in [Hooks -> Hook]
    BY DEF PushTypeOK, Hook

\* A hook that starts, or stops for whatever reason, holds nothing.
LEMMA EmptyHandedStep ==
    ASSUME PushInv, NEW h \in Hooks, NEW k \in Hook, Recorded,
           hooks' = [hooks EXCEPT ![h] = k],
           k.at \in {"idle", "choose"}, k.picked = {}, k.logs = {}, ~k.logged
    PROVE  /\ hooks' \in [Hooks -> Hook] /\ hooks'[h] = k
           /\ \A g \in Hooks \ {h} : hooks'[g] = hooks[g]
           /\ \A g \in Hooks : HookOk(hooks[g])'
           /\ \A f, g \in Hooks : Apart(f, g)'
<1>1. /\ hooks' \in [Hooks -> Hook] /\ hooks'[h] = k
      /\ \A g \in Hooks \ {h} : hooks'[g] = hooks[g]
    BY HooksAreTyped, HookMoved DEF PushInv
<1>2. HookOk(hooks[h])'
    BY <1>1 DEF HookOk
<1>3. \A g \in Hooks \ {h} : Apart(h, g)' /\ Apart(g, h)'
    BY <1>1 DEF Apart
<1> QED
    BY <1>1, <1>2, <1>3, OneHookMoves

\* A block empties the context; no other hook is running then.
LEMMA StartHookStep ==
    ASSUME PushInv, NEW h \in Hooks, NEW kind \in {"block", "prompt", "edit"}, StartHook(h, kind)
    PROVE  PushInv'
<1>1. PICK k \in Hook :
          /\ k = [NoHook EXCEPT !.at = "choose", !.kind = kind]
          /\ k.at = "choose" /\ k.kind = kind /\ k.picked = {} /\ k.logs = {} /\ ~k.logged
    BY HookStarted
<1>2. /\ hooks' = [hooks EXCEPT ![h] = k]
      /\ pushes' = pushes + 1 /\ pushes < MaxPushes
      /\ context' = (IF kind = "block" THEN {} ELSE context)
      /\ UNCHANGED <<ledger, exposed, lost, unlogged, crossed>>
    BY <1>1 DEF StartHook
<1>3. /\ hooks' \in [Hooks -> Hook] /\ hooks'[h] = k
      /\ \A g \in Hooks \ {h} : hooks'[g] = hooks[g]
      /\ \A g \in Hooks : HookOk(hooks[g])'
      /\ \A f, g \in Hooks : Apart(f, g)'
    BY <1>1, <1>2, EmptyHandedStep DEF Recorded
<1>4. PushTypeOK'
    BY <1>2, <1>3, PushAssumption DEF PushInv, PushTypeOK, Hook
<1>5. LedgerIsExplained'
  <2>1. ~hooks[h].logged \/ hooks[h].picked = {}
      BY DEF PushInv, HookOk, StartHook
  <2>2. \A g \in Hooks : hooks[g].logged /\ hooks[g].picked # {} =>
            hooks'[g].logged /\ hooks'[g].picked = hooks[g].picked
      BY <1>3, <2>1
  <2> QED BY <1>2, <2>2 DEF PushInv, LedgerIsExplained
<1>6. context' \subseteq ledger' \cup unlogged'
    BY <1>2 DEF PushInv
<1>7. ASSUME NEW g \in Hooks, hooks'[g].kind # "block"
      PROVE  hooks'[g].picked \cap context' \subseteq unlogged' \cup crossed'
  <2>1. CASE g = h
      BY <1>1, <1>3, <2>1
  <2>2. CASE g # h
      BY <1>2, <1>3, <1>7, <2>2 DEF PushInv
  <2> QED BY <2>1, <2>2
<1> QED
    BY <1>3, <1>4, <1>5, <1>6, <1>7 DEF PushInv

\* A hook that prompts or edits chooses only what is not in the ledger.
LEMMA ChooseStep ==
    ASSUME PushInv, NEW h \in Hooks, hooks[h].at = "choose",
           NEW picked \in SUBSET Facts, NEW rescued \in SUBSET Facts,
           NEW passed_over \in SUBSET Facts,
           hooks[h].kind # "block" => picked \cap ledger = {},
           picked \cap rescued # {} => passed_over = {},
           Choose(h, picked, picked, rescued, passed_over)
    PROVE  PushInv'
<1>1. PICK old \in Hook : old = hooks[h] /\ ~old.logged
    BY HooksAreTyped DEF PushInv, HookOk
<1>2. UNCHANGED <<ledger, context, pushes, exposed, lost, unlogged, crossed>>
    BY DEF Choose
<1>3. \E k \in Hook :
          /\ hooks' = [hooks EXCEPT ![h] = k] /\ ~k.logged
          /\ \/ k.at = "idle" /\ k.kind = "block" /\ k.picked = {} /\ k.logs = {}
             \/ /\ k.at = "log" /\ k.kind = old.kind /\ k.picked = picked /\ k.logs = picked
                /\ k.rescued = rescued /\ k.passed_over = passed_over
  <2>1. CASE picked = {}
    <3>1. hooks' = [hooks EXCEPT ![h] = NoHook]
        BY <2>1 DEF Choose
    <3> QED BY <3>1, NoHookIsOne
  <2>2. CASE picked # {}
    <3> DEFINE k == [old EXCEPT !.at = "log", !.picked = picked, !.logs = picked,
                                !.rescued = rescued, !.passed_over = passed_over]
    <3>1. k \in Hook
        BY DEF Hook
    <3>2. hooks' = [hooks EXCEPT ![h] = k]
        BY <1>1, <2>2 DEF Choose, PushInv, PushTypeOK
    <3>3. /\ k.at = "log" /\ k.kind = old.kind /\ k.picked = picked /\ k.logs = picked
          /\ k.rescued = rescued /\ k.passed_over = passed_over /\ ~k.logged
        BY <1>1 DEF Hook
    <3> HIDE DEF k
    <3> QED BY <3>1, <3>2, <3>3
  <2> QED BY <2>1, <2>2
<1>4. PICK k \in Hook :
          /\ hooks' = [hooks EXCEPT ![h] = k] /\ ~k.logged
          /\ \/ k.at = "idle" /\ k.kind = "block" /\ k.picked = {} /\ k.logs = {}
             \/ /\ k.at = "log" /\ k.kind = old.kind /\ k.picked = picked /\ k.logs = picked
                /\ k.rescued = rescued /\ k.passed_over = passed_over
    BY <1>3
<1>5. /\ hooks' \in [Hooks -> Hook] /\ hooks'[h] = k
      /\ \A g \in Hooks \ {h} : hooks'[g] = hooks[g]
    BY <1>4, HooksAreTyped, HookMoved DEF PushInv
<1>6. k.kind # "block" => k.picked \cap ledger = {}
    BY <1>1, <1>4
<1>7. HookOk(hooks[h])'
    BY <1>4, <1>5 DEF HookOk
<1>8. ASSUME NEW g \in Hooks \ {h} PROVE Apart(h, g)' /\ Apart(g, h)'
  <2>1. Apart(g, h)'
      BY <1>4, <1>5 DEF Apart
  <2>2. hooks[g].at = "print" => hooks[g].picked \subseteq ledger \cup unlogged
      BY DEF PushInv, HookOk
  <2>3. Apart(h, g)'
      BY <1>2, <1>5, <1>6, <2>2 DEF Apart
  <2> QED BY <2>1, <2>3
<1>9. /\ \A g \in Hooks : HookOk(hooks[g])'
      /\ \A f, g \in Hooks : Apart(f, g)'
  <2>1. Recorded
      BY <1>2 DEF Recorded
  <2> QED BY <1>5, <1>7, <1>8, <2>1, OneHookMoves
<1>10. PushTypeOK'
    BY <1>2, <1>5 DEF PushInv, PushTypeOK, Hook
<1>11. LedgerIsExplained'
  <2>1. \A g \in Hooks : hooks[g].logged => hooks'[g] = hooks[g]
      BY <1>1, <1>5
  <2> QED BY <1>2, <2>1 DEF PushInv, LedgerIsExplained
<1>12. context' \subseteq ledger' \cup unlogged'
    BY <1>2 DEF PushInv
<1>13. ASSUME NEW g \in Hooks, hooks'[g].kind # "block"
       PROVE  hooks'[g].picked \cap context' \subseteq unlogged' \cup crossed'
  <2>1. CASE g = h
      BY <1>2, <1>5, <1>6, <1>13, <2>1 DEF PushInv
  <2>2. CASE g # h
      BY <1>2, <1>5, <1>13, <2>2 DEF PushInv
  <2> QED BY <2>1, <2>2
<1> QED
    BY <1>9, <1>10, <1>11, <1>12, <1>13 DEF PushInv

\* A write tells the ledger what the hook holds, and marks what others hold too.
LEMMA LogStep ==
    ASSUME PushInv, NEW h \in Hooks, Log(h)
    PROVE  PushInv'
<1>1. /\ hooks' \in [Hooks -> Hook]
      /\ hooks'[h].at = "print" /\ hooks'[h].kind = hooks[h].kind
      /\ hooks'[h].picked = hooks[h].picked /\ hooks'[h].logs = hooks[h].logs
      /\ hooks'[h].rescued = hooks[h].rescued /\ hooks'[h].passed_over = hooks[h].passed_over
      /\ \A g \in Hooks \ {h} : hooks'[g] = hooks[g]
    BY HooksAreTyped, HookLogged DEF PushInv
<1>2. \/ /\ hooks'[h].logged
         /\ ledger' = ledger \cup hooks[h].logs /\ unlogged' = unlogged
         /\ crossed' = crossed \cup {f \in hooks[h].picked :
                                       \E g \in Running \ {h} : f \in hooks[g].picked}
      \/ /\ hooks'[h].logged = hooks[h].logged
         /\ unlogged' = unlogged \cup hooks[h].picked
         /\ ledger' = ledger /\ crossed' = crossed
    BY HooksAreTyped, HookLogged DEF PushInv
<1>3. UNCHANGED <<context, pushes, exposed, lost>> /\ hooks[h].at = "log"
    BY DEF Log
<1>4. HookOk(hooks[h]) /\ hooks[h] \in Hook
    BY HooksAreTyped DEF PushInv
<1>5. hooks[h].logs = hooks[h].picked /\ ~hooks[h].logged /\ hooks[h].picked \subseteq Facts
    BY <1>3, <1>4 DEF HookOk, Hook
<1>6. HookOk(hooks[h])'
  <2>1. CASE hooks'[h].logged
      BY <1>1, <1>2, <1>4, <1>5, <2>1 DEF HookOk
  <2>2. CASE ~hooks'[h].logged
      BY <1>1, <1>2, <1>4, <1>5, <2>2 DEF HookOk
  <2> QED BY <2>1, <2>2
<1>7. ASSUME NEW g \in Hooks \ {h} PROVE Apart(h, g)' /\ Apart(g, h)'
  <2>1. hooks'[g] = hooks[g] /\ HookOk(hooks[g]) /\ Apart(h, g)
      BY <1>1 DEF PushInv
  <2>2. Apart(h, g)'
      BY <1>1, <1>2, <2>1 DEF Apart
  <2>3. hooks[g].picked # {} => g \in Running
      BY <2>1 DEF HookOk, Running
  <2>4. hooks[g].picked \cap hooks[h].picked \subseteq unlogged' \cup crossed'
      BY <1>2, <2>3
  <2>5. Apart(g, h)'
      BY <1>1, <2>1, <2>4 DEF Apart
  <2> QED BY <2>2, <2>5
<1>8. /\ \A g \in Hooks : HookOk(hooks[g])'
      /\ \A f, g \in Hooks : Apart(f, g)'
  <2>1. Recorded
      BY <1>2 DEF Recorded
  <2> QED BY <1>1, <1>6, <1>7, <2>1, OneHookMoves
<1>9. PushTypeOK'
    BY <1>1, <1>2, <1>3, <1>5 DEF PushInv, PushTypeOK, Hook
<1>10. LedgerIsExplained'
  <2>1. \A g \in Hooks : hooks[g].logged => hooks'[g] = hooks[g]
      BY <1>1, <1>5
  <2>2. hooks'[h].logged => hooks[h].logs \subseteq hooks'[h].picked
      BY <1>1, <1>5
  <2>3. ledger' = ledger \/ (ledger' = ledger \cup hooks[h].logs /\ hooks'[h].logged)
      BY <1>2
  <2> QED BY <1>3, <2>1, <2>2, <2>3 DEF PushInv, LedgerIsExplained
<1>11. context' \subseteq ledger' \cup unlogged'
    BY <1>2, <1>3 DEF PushInv
<1>12. \A g \in Hooks : hooks'[g].kind # "block" =>
          hooks'[g].picked \cap context' \subseteq unlogged' \cup crossed'
  <2>1. \A g \in Hooks : hooks'[g].kind = hooks[g].kind /\ hooks'[g].picked = hooks[g].picked
      BY <1>1
  <2> QED BY <1>2, <1>3, <2>1 DEF PushInv
<1> QED
    BY <1>8, <1>9, <1>10, <1>11, <1>12 DEF PushInv

\* What is printed was in the ledger or unlogged, and whoever holds it too knows.
LEMMA PrintStep ==
    ASSUME PushInv, NEW h \in Hooks, PrintContext(h)
    PROVE  PushInv'
<1>1. /\ hooks' = [hooks EXCEPT ![h] = NoHook] /\ hooks[h].at = "print"
      /\ context' = context \cup hooks[h].picked /\ exposed' = exposed \cup hooks[h].picked
      /\ UNCHANGED <<ledger, pushes, lost, unlogged, crossed>>
    BY DEF PrintContext, Finish
<1>2. PICK k \in Hook : k = NoHook /\ k.at = "idle" /\ k.kind = "block" /\ k.picked = {}
                        /\ k.logs = {} /\ ~k.logged
    BY NoHookIsOne
<1>3. /\ hooks' \in [Hooks -> Hook] /\ hooks'[h] = k
      /\ \A g \in Hooks \ {h} : hooks'[g] = hooks[g]
      /\ \A g \in Hooks : HookOk(hooks[g])'
      /\ \A f, g \in Hooks : Apart(f, g)'
    BY <1>1, <1>2, EmptyHandedStep DEF Recorded
<1>4. hooks[h].picked \subseteq Facts /\ hooks[h].picked \subseteq ledger \cup unlogged
    BY <1>1, HooksAreTyped DEF PushInv, HookOk, Hook
<1>5. PushTypeOK'
    BY <1>1, <1>3, <1>4 DEF PushInv, PushTypeOK, Hook
<1>6. LedgerIsExplained'
  <2>1. \A g \in Hooks : g = h \/ hooks'[g] = hooks[g]
      BY <1>3
  <2> QED BY <1>1, <2>1 DEF PushInv, LedgerIsExplained
<1>7. context' \subseteq ledger' \cup unlogged'
    BY <1>1, <1>4 DEF PushInv
<1>8. ASSUME NEW g \in Hooks, hooks'[g].kind # "block"
      PROVE  hooks'[g].picked \cap context' \subseteq unlogged' \cup crossed'
  <2>1. g # h /\ hooks'[g] = hooks[g]
      BY <1>2, <1>3, <1>8
  <2>2. hooks[g].picked \cap hooks[h].picked \subseteq unlogged \cup crossed
      BY <1>1, <1>8, <2>1 DEF PushInv, Apart
  <2>3. hooks[g].picked \cap context \subseteq unlogged \cup crossed
      BY <1>8, <2>1 DEF PushInv
  <2> QED BY <1>1, <2>1, <2>2, <2>3
<1> QED
    BY <1>3, <1>5, <1>6, <1>7, <1>8 DEF PushInv

\* A hook that is stopped loses what it wrote and did not print.
LEMMA GiveUpStep ==
    ASSUME PushInv, NEW h \in Hooks, GiveUp(h)
    PROVE  PushInv'
<1>1. /\ hooks' = [hooks EXCEPT ![h] = NoHook]
      /\ lost' = (IF hooks[h].logged THEN lost \cup hooks[h].picked ELSE lost)
      /\ UNCHANGED <<ledger, context, pushes, exposed, unlogged, crossed>>
    BY DEF GiveUp, Finish
<1>2. PICK k \in Hook : k = NoHook /\ k.at = "idle" /\ k.kind = "block" /\ k.picked = {}
                        /\ k.logs = {} /\ ~k.logged
    BY NoHookIsOne
<1>3. /\ hooks' \in [Hooks -> Hook] /\ hooks'[h] = k
      /\ \A g \in Hooks \ {h} : hooks'[g] = hooks[g]
      /\ \A g \in Hooks : HookOk(hooks[g])'
      /\ \A f, g \in Hooks : Apart(f, g)'
    BY <1>1, <1>2, EmptyHandedStep DEF Recorded
<1>4. hooks[h].picked \subseteq Facts
    BY HooksAreTyped DEF PushInv, Hook
<1>5. PushTypeOK'
    BY <1>1, <1>3, <1>4 DEF PushInv, PushTypeOK, Hook
<1>6. LedgerIsExplained'
  <2>1. \A g \in Hooks : g = h \/ hooks'[g] = hooks[g]
      BY <1>3
  <2> QED BY <1>1, <2>1 DEF PushInv, LedgerIsExplained
<1>7. context' \subseteq ledger' \cup unlogged'
    BY <1>1 DEF PushInv
<1>8. ASSUME NEW g \in Hooks, hooks'[g].kind # "block"
      PROVE  hooks'[g].picked \cap context' \subseteq unlogged' \cup crossed'
  <2>1. g # h /\ hooks'[g] = hooks[g]
      BY <1>2, <1>3, <1>8
  <2> QED BY <1>1, <1>8, <2>1 DEF PushInv
<1> QED
    BY <1>3, <1>5, <1>6, <1>7, <1>8 DEF PushInv

\* A session begins with an empty ledger.
LEMMA PushInvInitially == PushInit => PushInv
<1> SUFFICES ASSUME PushInit PROVE PushInv
    OBVIOUS
<1>1. \A h \in Hooks : hooks[h] = NoHook
    BY DEF PushInit
<1>2. hooks \in [Hooks -> Hook]
    BY NoHookIsOne DEF PushInit
<1>3. PushTypeOK
    BY <1>2, PushAssumption DEF PushInit, PushTypeOK, Hook
<1>4. \A h \in Hooks : HookOk(hooks[h])
    BY <1>1, NoHookIsOne DEF HookOk
<1>5. \A h, g \in Hooks : Apart(h, g)
    BY <1>1, NoHookIsOne DEF Apart
<1> QED
    BY <1>3, <1>4, <1>5 DEF PushInit, PushInv, LedgerIsExplained

\* Every step of every hook keeps the invariant.
LEMMA PushInvStep == PushInv /\ [PushNext]_pushVars => PushInv'
<1> SUFFICES ASSUME PushInv, [PushNext]_pushVars PROVE PushInv'
    OBVIOUS
<1>1. CASE UNCHANGED pushVars
    BY <1>1 DEF pushVars, PushInv, PushTypeOK, HookOk, Apart, LedgerIsExplained
<1>2. ASSUME NEW h \in Hooks, PushStep(h) PROVE PushInv'
  <2>1. CASE \E kind \in {"block", "prompt", "edit"} : StartHook(h, kind)
      BY <2>1, StartHookStep
  <2>2. CASE ChooseBlock(h)
    <3>1. PICK survivors \in SUBSET Facts : Choose(h, survivors, survivors, {}, {})
        BY <2>2 DEF ChooseBlock, LogSurvivors
    <3>2. hooks[h].at = "choose" /\ hooks[h].kind = "block"
        BY <2>2 DEF ChooseBlock
    <3> QED BY <3>1, <3>2, ChooseStep
  <2>3. CASE ChoosePrompt(h)
    <3>1. PICK e \in Prompts : Choose(h, Pushed(e, ledger), Pushed(e, ledger), {}, {})
        BY <2>3 DEF ChoosePrompt
    <3>2. hooks[h].at = "choose"
        BY <2>3 DEF ChoosePrompt
    <3>3. Pushed(e, ledger) \in SUBSET Facts /\ Pushed(e, ledger) \cap ledger = {}
        BY PushedIsUnseen
    <3> QED BY <3>1, <3>2, <3>3, ChooseStep
  <2>4. CASE ChooseProhibitions(h)
    <3>1. PICK floor \in SUBSET Prohibitions :
            \E rescued \in Rescues(floor), order \in Orders :
                LET shown == Shown(floor, rescued, order)
                IN  Choose(h, shown, shown, rescued, PassedOver(floor, shown))
        BY <2>4 DEF ChooseProhibitions, Shown, RankOf, PassedOver
    <3>2. PICK rescued \in Rescues(floor), order \in Orders :
              LET shown == Shown(floor, rescued, order)
              IN  Choose(h, shown, shown, rescued, PassedOver(floor, shown))
        BY <3>1
    <3> DEFINE picked == Shown(floor, rescued, order)
    <3>3. picked \subseteq Prohibitions \ ledger
          /\ (picked \cap rescued # {} => PassedOver(floor, picked) = {})
        BY FloorGoesFirst
    <3>4. /\ picked \in SUBSET Facts /\ picked \cap ledger = {}
          /\ rescued \in SUBSET Facts /\ PassedOver(floor, picked) \in SUBSET Facts
        BY <3>3, PushAssumption DEF Rescues, Unseen, PassedOver
    <3>5. hooks[h].at = "choose"
        BY <2>4 DEF ChooseProhibitions
    <3>6. Choose(h, picked, picked, rescued, PassedOver(floor, picked))
        BY <3>2
    <3> HIDE DEF picked
    <3> QED BY <3>3, <3>4, <3>5, <3>6, ChooseStep
  <2>5. CASE Log(h)
      BY <2>5, LogStep
  <2>6. CASE PrintContext(h)
      BY <2>6, PrintStep
  <2>7. CASE GiveUp(h)
      BY <2>7, GiveUpStep
  <2> QED BY <1>2, <2>1, <2>2, <2>3, <2>4, <2>5, <2>6, <2>7 DEF PushStep
<1> QED
    BY <1>1, <1>2 DEF PushNext
-----------------------------------------------------------------------------
\* For any number of hooks, side by side, killed or timed out anywhere: whatever the
\* ledger holds was shown, is about to be, or was lost by a hook that had written it;
\* and a rescued prohibition never takes the place of one over the floor.
THEOREM PushesAlwaysExplained == PushSpec => []PushesAreExplained
<1>1. PushInv => PushesAreExplained
    BY DEF PushInv, HookOk, PushesAreExplained, RescueTrailsFloor
<1> QED
    BY <1>1, PushInvInitially, PushInvStep, PTL DEF PushSpec

\* A push repeats what the session has in its context only if the write of the ledger
\* failed when it was shown, or two hooks had chosen it before either wrote.
THEOREM NothingEverRepeated == PushSpec => NothingRepeated
<1> DEFINE Fresh == \A h \in Hooks :
                       hooks[h].kind # "block" /\ PrintContext(h) =>
                           hooks[h].picked \cap context \subseteq unlogged \cup crossed
<1>1. PushInv => Fresh
    BY DEF PushInv
<1>2. PushInv /\ [PushNext]_pushVars => [Fresh]_pushVars
    BY <1>1
<1> QED
    BY <1>2, PushInvInitially, PushInvStep, PTL DEF PushSpec, NothingRepeated
-----------------------------------------------------------------------------
\* Recall: what is fused, gated and explained for one prompt.

RecallSpec(Problems) == RetrievalInit(Problems) /\ [][UNCHANGED problem]_problem

\* Products keep the order.
LEMMA ProductKeeps ==
    ASSUME NEW x \in Nat, NEW y \in Nat, NEW m \in Nat
    PROVE  /\ x >= y => x * m >= y * m
           /\ x > y /\ m > 0 => x * m > y * m
           /\ x * m > y * m => x > y
           /\ x * m \in Nat
    OBVIOUS

\* A fraction above a fraction that is not below a third is above the third.
LEMMA FractionsOrdered ==
    ASSUME NEW a \in Nat, NEW b \in Nat \ {0}, NEW c \in Nat, NEW d \in Nat \ {0},
           NEW p \in Nat, NEW q \in Nat \ {0}, a * d >= c * b, c * q >= p * d
    PROVE  /\ a * q >= p * b
           /\ a * d > c * b \/ c * q > p * d => a * q > p * b
<1>1. /\ (a * d) * q \in Nat /\ (c * b) * q \in Nat /\ (c * q) * b \in Nat /\ (p * d) * b \in Nat
      /\ (c * b) * q = (c * q) * b
      /\ (a * d) * q = (a * q) * d /\ (p * d) * b = (p * b) * d
    OBVIOUS
<1>2. (a * d) * q >= (c * b) * q /\ (c * q) * b >= (p * d) * b
    BY ProductKeeps
<1>3. (a * d > c * b => (a * d) * q > (c * b) * q) /\ (c * q > p * d => (c * q) * b > (p * d) * b)
    BY ProductKeeps
<1>4. a * q \in Nat /\ p * b \in Nat
    OBVIOUS
<1>5. (a * q) * d >= (p * b) * d
    BY <1>1, <1>2
<1>6. a * d > c * b \/ c * q > p * d => (a * q) * d > (p * b) * d
    BY <1>1, <1>2, <1>3
<1>7. a * q > p * b <=> (a * q) * d > (p * b) * d
    BY <1>4, ProductKeeps
<1>8. a * q >= p * b
  <2>1. CASE a * q < p * b
    <3>1. (p * b) * d > (a * q) * d
        BY <1>4, <2>1, ProductKeeps
    <3> QED BY <1>1, <1>5, <3>1
  <2> QED BY <1>4, <2>1
<1> QED
    BY <1>6, <1>7, <1>8

\* What either axis gives adds up: w / A + u / B against v / C + t / D.
LEMMA AxesAdd ==
    ASSUME NEW A \in Nat \ {0}, NEW B \in Nat \ {0}, NEW C \in Nat \ {0}, NEW D \in Nat \ {0},
           NEW w \in Nat, NEW u \in Nat, NEW v \in Nat, NEW t \in Nat,
           w * C >= v * A, u * D >= t * B
    PROVE  /\ (w * B + u * A) * (C * D) >= (v * D + t * C) * (A * B)
           /\ w * C > v * A \/ u * D > t * B =>
                 (w * B + u * A) * (C * D) > (v * D + t * C) * (A * B)
<1>1. /\ w * C \in Nat /\ v * A \in Nat /\ u * D \in Nat /\ t * B \in Nat
      /\ B * D \in Nat \ {0} /\ A * C \in Nat \ {0}
    OBVIOUS
<1>2. /\ (w * C) * (B * D) >= (v * A) * (B * D)
      /\ w * C > v * A => (w * C) * (B * D) > (v * A) * (B * D)
    BY <1>1, ProductKeeps
<1>3. /\ (u * D) * (A * C) >= (t * B) * (A * C)
      /\ u * D > t * B => (u * D) * (A * C) > (t * B) * (A * C)
    BY <1>1, ProductKeeps
<1>4. (w * B + u * A) * (C * D) = (w * C) * (B * D) + (u * D) * (A * C)
    OBVIOUS
<1>5. (v * D + t * C) * (A * B) = (v * A) * (B * D) + (t * B) * (A * C)
    OBVIOUS
<1>6. /\ (w * C) * (B * D) \in Nat /\ (v * A) * (B * D) \in Nat
      /\ (u * D) * (A * C) \in Nat /\ (t * B) * (A * C) \in Nat
    BY <1>1, ProductKeeps
<1> QED
    BY <1>2, <1>3, <1>4, <1>5, <1>6

Ranked(e) == e.dense \in Rankings /\ e.lexical \in Rankings

LEMMA RanksTyped ==
    ASSUME NEW axis \in Rankings, NEW f
    PROVE  /\ RankIn(axis, f) \in Nat /\ (RankIn(axis, f) # Unranked <=> f \in ToSet(axis))
           /\ IsFiniteSet(ToSet(axis))
<1>1. PICK n \in 0..Cardinality(Facts) : axis \in [1..n -> Facts]
    BY DEF Rankings
<1>2. n \in Nat /\ DOMAIN axis = 1..n
    BY <1>1, RetrievalAssumption, FS_CardinalityType
<1>3. f \in ToSet(axis) => \E r \in DOMAIN axis : axis[r] = f
    BY DEF ToSet
<1>4. ToSet(axis) \subseteq Facts
    BY <1>1, <1>2 DEF ToSet
<1> QED
    BY <1>2, <1>3, <1>4, RetrievalAssumption, FS_Subset DEF RankIn, Unranked

LEMMA ScoreTyped ==
    ASSUME NEW e, Ranked(e), NEW f
    PROVE  Score(e, f).over \in Nat /\ Score(e, f).under \in Nat \ {0}
<1>1. RankIn(e.dense, f) \in Nat /\ RankIn(e.lexical, f) \in Nat
    BY RanksTyped DEF Ranked
<1> DEFINE A == 60 + RankIn(e.dense, f)
           B == 60 + RankIn(e.lexical, f)
           w == Weight(RankIn(e.dense, f))
           u == Weight(RankIn(e.lexical, f))
<1>2. A \in Nat \ {0} /\ B \in Nat \ {0} /\ w \in Nat /\ u \in Nat
    BY <1>1 DEF Weight
<1>3. Score(e, f) = [over |-> w * B + u * A, under |-> A * B]
    BY DEF Score
<1> HIDE DEF A, B, w, u
<1>4. w * B + u * A \in Nat /\ A * B \in Nat \ {0}
    BY <1>2
<1> QED
    BY <1>3, <1>4

\* As good on an axis, and better on it.
BetterOn(axis, f, g) == RankIn(axis, f) # Unranked /\
                        (RankIn(axis, g) = Unranked \/ RankIn(axis, f) < RankIn(axis, g))
NoneOn(axis, f, g) == RankIn(axis, f) = Unranked /\ RankIn(axis, g) = Unranked

\* Better on one axis and as good on the other is a better score.
LEMMA BetterIsBefore ==
    ASSUME NEW e, Ranked(e), NEW f, NEW g,
           BetterOn(e.dense, f, g) \/ NoneOn(e.dense, f, g),
           BetterOn(e.lexical, f, g) \/ NoneOn(e.lexical, f, g),
           BetterOn(e.dense, f, g) \/ BetterOn(e.lexical, f, g)
    PROVE  Before(e, f, g)
<1>1. /\ RankIn(e.dense, f) \in Nat /\ RankIn(e.lexical, f) \in Nat
      /\ RankIn(e.dense, g) \in Nat /\ RankIn(e.lexical, g) \in Nat
    BY RanksTyped DEF Ranked
<1> DEFINE A == 60 + RankIn(e.dense, f)
           B == 60 + RankIn(e.lexical, f)
           C == 60 + RankIn(e.dense, g)
           D == 60 + RankIn(e.lexical, g)
           w == Weight(RankIn(e.dense, f))
           u == Weight(RankIn(e.lexical, f))
           v == Weight(RankIn(e.dense, g))
           t == Weight(RankIn(e.lexical, g))
<1>2. /\ A \in Nat \ {0} /\ B \in Nat \ {0} /\ C \in Nat \ {0} /\ D \in Nat \ {0}
      /\ w \in {0, 1} /\ u \in {0, 1} /\ v \in {0, 1} /\ t \in {0, 1}
    BY <1>1 DEF Weight
<1>3. /\ BetterOn(e.dense, f, g) => w = 1 /\ (v = 0 \/ C > A)
      /\ NoneOn(e.dense, f, g) => w = 0 /\ v = 0
      /\ BetterOn(e.lexical, f, g) => u = 1 /\ (t = 0 \/ D > B)
      /\ NoneOn(e.lexical, f, g) => u = 0 /\ t = 0
    BY <1>1 DEF Weight, BetterOn, NoneOn, Unranked
<1>4. Score(e, f) = [over |-> w * B + u * A, under |-> A * B]
      /\ Score(e, g) = [over |-> v * D + t * C, under |-> C * D]
    BY DEF Score
<1> HIDE DEF A, B, C, D, w, u, v, t
<1>5. /\ BetterOn(e.dense, f, g) => w * C > v * A
      /\ NoneOn(e.dense, f, g) => w * C >= v * A
      /\ BetterOn(e.lexical, f, g) => u * D > t * B
      /\ NoneOn(e.lexical, f, g) => u * D >= t * B
    BY <1>2, <1>3
<1>6. w * C >= v * A /\ u * D >= t * B /\ (w * C > v * A \/ u * D > t * B)
  <2>1. /\ w * C \in Nat /\ v * A \in Nat /\ u * D \in Nat /\ t * B \in Nat
      BY <1>2
  <2> QED BY <1>5, <2>1
<1>7. (w * B + u * A) * (C * D) > (v * D + t * C) * (A * B)
    BY <1>2, <1>6, AxesAdd
<1> QED
    BY <1>4, <1>7 DEF Before

LEMMA BeforeTransitive ==
    ASSUME NEW e, Ranked(e), NEW f \in Facts, NEW g \in Facts, NEW h \in Facts,
           Before(e, f, g), Before(e, g, h)
    PROVE  Before(e, f, h)
<1> DEFINE a == Score(e, f).over
           b == Score(e, f).under
           c == Score(e, g).over
           d == Score(e, g).under
           p == Score(e, h).over
           q == Score(e, h).under
<1>1. /\ a \in Nat /\ b \in Nat \ {0} /\ c \in Nat /\ d \in Nat \ {0}
      /\ p \in Nat /\ q \in Nat \ {0}
    BY ScoreTyped
<1>2. /\ a * d > c * b \/ (a * d = c * b /\ f < g)
      /\ c * q > p * d \/ (c * q = p * d /\ g < h)
    BY DEF Before
<1>3. Before(e, f, h) <=> a * q > p * b \/ (a * q = p * b /\ f < h)
    BY DEF Before
<1> HIDE DEF a, b, c, d, p, q
<1>4. /\ a * d \in Nat /\ c * b \in Nat /\ c * q \in Nat /\ p * d \in Nat
      /\ a * q \in Nat /\ p * b \in Nat
    BY <1>1
<1>5. a * q >= p * b /\ (a * d > c * b \/ c * q > p * d => a * q > p * b)
    BY <1>1, <1>2, <1>4, FractionsOrdered
<1>6. f \in Nat /\ g \in Nat /\ h \in Nat
    BY RetrievalAssumption
<1> QED
    BY <1>2, <1>3, <1>4, <1>5, <1>6

\* A cut that keeps a claim keeps the hits that go before it.
LEMMA CutKeepsTheBetter ==
    ASSUME NEW e, Ranked(e), NEW hits \in SUBSET Facts, NEW n \in Nat,
           NEW f \in hits, NEW g \in Best(e, hits, n), Before(e, f, g)
    PROVE  f \in Best(e, hits, n)
<1> DEFINE ahead(x) == {h \in hits : Before(e, h, x)}
<1>1. IsFiniteSet(ahead(f)) /\ IsFiniteSet(ahead(g))
  <2>1. ahead(f) \subseteq Facts /\ ahead(g) \subseteq Facts
      OBVIOUS
  <2> QED BY <2>1, RetrievalAssumption, FS_Subset
<1>2. ahead(f) \subseteq ahead(g)
    BY BeforeTransitive DEF Best
<1>3. Cardinality(ahead(g)) < n
    BY DEF Best
<1>4. Cardinality(ahead(f)) < n
  <2> HIDE DEF ahead
  <2> QED BY <1>1, <1>2, <1>3, FS_Subset, FS_CardinalityType
<1> QED
    BY <1>4 DEF Best

LEMMA FusionSound == Ranked(problem.e) => FusionRespectsBothAxes
<1> SUFFICES ASSUME Ranked(problem.e), NEW f \in Facts, NEW g \in Facts,
                    BetterOn(problem.e.dense, f, g) \/ NoneOn(problem.e.dense, f, g),
                    BetterOn(problem.e.lexical, f, g) \/ NoneOn(problem.e.lexical, f, g),
                    BetterOn(problem.e.dense, f, g) \/ BetterOn(problem.e.lexical, f, g),
                    g \in HybridRecall(problem.e, 2)
             PROVE  f \in HybridRecall(problem.e, 2)
    BY DEF FusionRespectsBothAxes, BetterOn, NoneOn
<1> DEFINE hits == ToSet(problem.e.dense) \cup ToSet(problem.e.lexical)
<1>1. f \in hits
    BY RanksTyped DEF Ranked, BetterOn
<1>2. Before(problem.e, f, g)
    BY BetterIsBefore
<1>3. hits \subseteq Facts
  <2>1. ASSUME NEW axis \in Rankings PROVE ToSet(axis) \subseteq Facts
      BY DEF Rankings, ToSet
  <2> QED BY <2>1 DEF Ranked
<1>4. g \in Best(problem.e, hits, 2)
    BY DEF HybridRecall
<1>5. f \in Best(problem.e, hits, 2)
  <2> HIDE DEF hits
  <2> QED BY <1>1, <1>2, <1>3, <1>4, CutKeepsTheBetter
<1> QED
    BY <1>5 DEF HybridRecall

LEMMA ExplanationSound == ExplanationIsTrue
<1> DEFINE e == problem.e
           seen == problem.seen
           hits == HybridRecall(e, Candidates)
           left == (hits \ e.echo) \ AlreadySeen(e, seen)
           passed == Passed(e, left)
           capped == Best(e, passed, MaxEvents)
<1>1. left = (hits \ e.echo) \ seen
    BY DEF AlreadySeen
<1>2. Pushed(e, seen) = FitBudget(e, capped)
    BY <1>1 DEF Pushed, SelectHits
<1>3. /\ Ck1(e, seen).injected = FitBudget(e, capped) /\ Ck1(e, seen).echo = hits \cap e.echo
      /\ Ck1(e, seen).seen = (hits \ e.echo) \cap seen /\ Ck1(e, seen).decided = left
      /\ Ck1(e, seen).passed = passed /\ Ck1(e, seen).over_cap \subseteq passed
    BY DEF Ck1, AlreadySeen
<1>4. FitBudget(e, capped) \subseteq left /\ passed \subseteq left
    BY DEF FitBudget, Best, Passed
<1> SUFFICES ASSUME NEW f \in Facts
             PROVE  LET verdict == Verdict(e, seen, f)
                    IN  /\ verdict = "push" <=> f \in Pushed(e, seen)
                        /\ f \in seen => verdict \in {"already seen", "restates the prompt", "no candidate"}
    BY Zenon DEF ExplanationIsTrue, Explanation
<1>5. Verdict(e, seen, f) = "push" <=> f \in Pushed(e, seen)
    BY <1>2, <1>3 DEF Verdict
<1>6. ASSUME f \in seen
      PROVE  Verdict(e, seen, f) \in {"already seen", "restates the prompt", "no candidate"}
  <2>1. f \notin left
      BY <1>1, <1>6
  <2> QED BY <1>3, <1>4, <2>1 DEF Verdict
<1> QED
    BY <1>5, <1>6, Zenon

\* For any claims, rankings, echoes and ledger: the explanation tells what the prompt
\* hook does, and a claim better on both axes is never cut before a worse one.
THEOREM RecallAlwaysSound ==
    ASSUME NEW Problems, \A p \in Problems : Ranked(p.e)
    PROVE  RecallSpec(Problems) => []RecallIsSound
<1>1. RetrievalInit(Problems) => problem \in Problems
    BY DEF RetrievalInit
<1>2. problem \in Problems /\ [UNCHANGED problem]_problem => (problem \in Problems)'
    OBVIOUS
<1>3. problem \in Problems => RecallIsSound
    BY FusionSound, ExplanationSound DEF RecallIsSound
<1> QED
    BY <1>1, <1>2, <1>3, PTL DEF RecallSpec
=============================================================================
