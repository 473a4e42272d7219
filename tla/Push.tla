-------------------------------- MODULE Push --------------------------------
(***************************************************************************)
(* What a session is shown without asking: the block at its start, claims  *)
(* pushed beside a prompt (CK-1), and prohibitions pushed before an edit   *)
(* (K2), with the render ledger that is to keep them from repeating        *)
(* (storage/render_ledger.py).                                             *)
(*                                                                         *)
(* Each is a hook process: it reads the ledger, chooses, writes the ledger *)
(* in a commit of its own, and only then prints.  The prompt hook gives    *)
(* its worker thread three seconds and leaves it behind; any hook may be   *)
(* killed.  Edits issued together run their hooks together.  Compaction    *)
(* empties the session's context and starts a new block; the ledger is the *)
(* session's and stays.                                                    *)
(***************************************************************************)
EXTENDS Retrieval

CONSTANTS Hooks,        \* hook processes
          Prompts,      \* the evidence that prompts may find
          Threads,      \* claims that are open threads
          Prohibitions, \* claims an edit can violate
          Topics,       \* the topic of each claim
          MaxSurface,   \* pretool_max_surface
          MaxPushes     \* bound: hooks started

ASSUME PushAssumption ==
    /\ Threads \subseteq Facts /\ Prohibitions \subseteq Facts
    /\ \A e \in Prompts : ToSet(e.dense) \cup ToSet(e.lexical) \subseteq Facts
    /\ MaxSurface \in Nat \ {0} /\ MaxPushes \in Nat

VARIABLES ledger,    \* render_ledger of the session
          hooks,     \* what each hook is doing
          context,   \* what the session has in its context
          pushes,    \* hooks started
          exposed,   \* history: what was ever printed
          lost,      \* history: recorded, then not printed
          unlogged,  \* history: chosen, but the ledger's write failed
          crossed    \* history: recorded by one hook while another had chosen it too

pushVars == <<ledger, hooks, context, pushes, exposed, lost, unlogged, crossed>>

NoHook == [at |-> "idle", kind |-> "block", picked |-> {}, logs |-> {}, logged |-> FALSE,
           rescued |-> {}, passed_over |-> {}]

PushTypeOK ==
    /\ ledger \subseteq Facts /\ context \subseteq Facts /\ pushes \in 0..MaxPushes
    /\ {exposed, lost, unlogged, crossed} \subseteq SUBSET Facts
    /\ hooks \in [Hooks -> [at : {"idle", "choose", "log", "print"}, kind : {"block", "prompt", "edit"},
                            picked : SUBSET Facts, logs : SUBSET Facts, logged : BOOLEAN,
                            rescued : SUBSET Facts, passed_over : SUBSET Facts]]

PushInit ==
    /\ ledger = {} /\ context = {} /\ pushes = 0
    /\ hooks = [h \in Hooks |-> NoHook]
    /\ exposed = {} /\ lost = {} /\ unlogged = {} /\ crossed = {}

Running == {h \in Hooks : hooks[h].at # "idle"}
Finish(h) == hooks' = [hooks EXCEPT ![h] = NoHook]

\* The agent waits for the hooks of a prompt, of a start, and of the edits it
\* issued together.
StartHook(h, kind) ==
    /\ hooks[h].at = "idle" /\ pushes < MaxPushes
    /\ \A g \in Running : kind = "edit" /\ hooks[g].kind = "edit"
    /\ hooks' = [hooks EXCEPT ![h] = [NoHook EXCEPT !.at = "choose", !.kind = kind]]
    /\ pushes' = pushes + 1
    /\ context' = IF kind = "block" THEN {} ELSE context
    /\ UNCHANGED <<ledger, exposed, lost, unlogged, crossed>>

\* Nothing chosen is silence.
Choose(h, picked, logs, rescued, passed_over) ==
    /\ hooks' = [hooks EXCEPT ![h] =
          IF picked = {} THEN NoHook
          ELSE [@ EXCEPT !.at = "log", !.picked = picked, !.logs = logs,
                         !.rescued = rescued, !.passed_over = passed_over]]
    /\ UNCHANGED <<ledger, context, pushes, exposed, lost, unlogged, crossed>>

\* render_state: one thread at most is selected; the renderer then drops what the
\* budget does not hold, and what survives is what the ledger is told.
LogSelected(selected, survivors)  == selected        \* mutated form
LogSurvivors(selected, survivors) == survivors

ChooseBlock(h) ==
    /\ hooks[h].at = "choose" /\ hooks[h].kind = "block"
    /\ \E selected \in SUBSET Facts :
          /\ Cardinality(selected \cap Threads) <= 1
          /\ \E survivors \in SUBSET selected :
                /\ selected \cap Threads \subseteq survivors
                /\ Choose(h, survivors, LogSurvivors(selected, survivors), {}, {})

ChoosePrompt(h) ==
    /\ hooks[h].at = "choose" /\ hooks[h].kind = "prompt"
    /\ \E e \in Prompts : LET picked == Pushed(e, ledger) IN Choose(h, picked, picked, {}, {})

\* surface_prohibitions_for_edit: of the prohibitions the search finds, those over
\* the floor, by authority, and after them those the dense axis rescues; one for
\* each topic, and the first few.
Orders == {order \in [Prohibitions -> 1..Cardinality(Prohibitions)] : IsInjective(order)}

RescuedFirst(order, rescued, f) ==                   \* mutated form
    IF f \in rescued THEN order[f] ELSE order[f] + Cardinality(Prohibitions)
FloorFirst(order, rescued, f) ==
    IF f \in rescued THEN order[f] + Cardinality(Prohibitions) ELSE order[f]

FirstOfTopic(hits, rank) ==
    LET firsts == {f \in hits : \A g \in hits : Topics[g] = Topics[f] => rank[f] <= rank[g]}
    IN  {f \in firsts : Cardinality({g \in firsts : rank[g] < rank[f]}) < MaxSurface}

UnseenOrNot(found) == found                          \* mutated form
Unseen(found)      == found \ ledger

\* What the dense axis may rescue of the hits below the floor.
Rescues(floor) == SUBSET (Prohibitions \ floor)

ChooseProhibitions(h) ==
    /\ hooks[h].at = "choose" /\ hooks[h].kind = "edit"
    /\ \E floor \in SUBSET Prohibitions : \E rescued \in Rescues(floor), order \in Orders :
          LET rank   == [f \in Prohibitions |-> FloorFirst(order, rescued, f)]
              picked == FirstOfTopic(Unseen(floor \cup rescued), rank)
          IN  Choose(h, picked, picked, rescued,
                     {f \in Unseen(floor) : \A g \in picked : Topics[g] # Topics[f]})

\* record_rendered fails open: what it could not write is shown all the same.
Log(h) ==
    /\ hooks[h].at = "log"
    /\ \/ /\ ledger' = ledger \cup hooks[h].logs
          /\ crossed' = crossed \cup {f \in hooks[h].picked :
                                         \E g \in Running \ {h} : f \in hooks[g].picked}
          /\ hooks' = [hooks EXCEPT ![h].at = "print", ![h].logged = TRUE]
          /\ UNCHANGED unlogged
       \/ /\ hooks' = [hooks EXCEPT ![h].at = "print"]
          /\ unlogged' = unlogged \cup hooks[h].picked
          /\ UNCHANGED <<ledger, crossed>>
    /\ UNCHANGED <<context, pushes, exposed, lost>>

PrintContext(h) ==
    /\ hooks[h].at = "print"
    /\ context' = context \cup hooks[h].picked
    /\ exposed' = exposed \cup hooks[h].picked
    /\ Finish(h)
    /\ UNCHANGED <<ledger, pushes, lost, unlogged, crossed>>

\* The prompt hook's three seconds are over, or the hook is killed: nothing is
\* printed, and what was committed stays.
GiveUp(h) ==
    /\ hooks[h].at # "idle"
    /\ lost' = IF hooks[h].logged THEN lost \cup hooks[h].picked ELSE lost
    /\ Finish(h)
    /\ UNCHANGED <<ledger, context, pushes, exposed, unlogged, crossed>>

PushStep(h) ==
    \/ \E kind \in {"block", "prompt", "edit"} : StartHook(h, kind)
    \/ ChooseBlock(h) \/ ChoosePrompt(h) \/ ChooseProhibitions(h)
    \/ Log(h) \/ PrintContext(h) \/ GiveUp(h)

PushNext == \E h \in Hooks : PushStep(h)
PushSpec == PushInit /\ [][PushNext]_pushVars
-----------------------------------------------------------------------------
\* The ledger holds only what the session was shown, is about to be shown, or
\* lost to a timeout or a kill: a claim that is only selected for the block, and
\* then dropped by the renderer, is not kept from every later prompt.
LedgerIsExplained ==
    ledger \subseteq exposed \cup lost
                     \cup UNION {hooks[h].picked : h \in {g \in Hooks : hooks[g].logged}}

\* A push never repeats what the session has in its context, unless the ledger's
\* write failed when it was shown, or two hooks chose it side by side.
NothingRepeated ==
    [][\A h \in Hooks :
          hooks[h].kind # "block" /\ PrintContext(h) =>
              hooks[h].picked \cap context \subseteq unlogged \cup crossed]_pushVars

\* A prohibition that only the dense axis rescued never takes the place of one over
\* the floor on another topic (query.py:456-459).
RescueTrailsFloor ==
    \A h \in Hooks :
        hooks[h].kind = "edit" =>
            (hooks[h].picked \cap hooks[h].rescued # {} => hooks[h].passed_over = {})

\* What the ledger holds was shown or chosen by a hook, and the floor comes first.
PushesAreExplained == PushTypeOK /\ LedgerIsExplained /\ RescueTrailsFloor
=============================================================================
