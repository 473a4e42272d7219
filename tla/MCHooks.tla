------------------------------ MODULE MCHooks ------------------------------
(* The hooks at work, in suites told apart by the initial state: scans of    *)
(* two files; searches and the writes that end them; calls that race with    *)
(* each other over one scanned file; passes that overlap while it is read;   *)
(* and what a session is shown without asking.                               *)
EXTENDS ReadGate, Push, TLC

CONSTANTS f1, f2, w1, c1

VARIABLE suite

MCRank  == f1 :> 1 @@ f2 :> 0
MCGreps ==
    LET Search(path, under, glob, matched) ==
            [path |-> path, under |-> under, glob |-> glob, matched |-> matched]
    IN  {Search("relative", {f1}, "none", Files), Search("none", Files, "none", Files),
         Search("other", Files, "plain", {f2}), Search("other", {f1}, "none", Files)}
MCTopics == <<"a", "a", "b">>
MCPrompts ==
    [dense : {<<>>, <<1, 2>>, <<2, 3>>}, lexical : {<<>>, <<1, 3>>, <<2, 1>>},
     shared : {<<MinTerms, MinTerms, MinTerms>>, <<0, MinTerms, 0>>},
     close : {Facts}, echo : {{}, {2}}, fits : {MaxEvents}]

gateVars == <<graphVars, gateOnly>>
hookVars == <<suite, gateVars, pushVars, problem>>

\* As a scan of f1 leaves the store, for the suite that makes none.
Scanned ==
    /\ nodes = [f \in Files |-> IF f = f1 THEN 0 ELSE None]
    /\ rows = [f \in Files |-> IF f = f1 THEN [at |-> 1, fresh |-> TRUE, symbols |-> TRUE] ELSE NoRow]

MCInit ==
    /\ suite \in {"scans", "searches", "reads", "overlap", "push"}
    /\ DiskInit /\ GateInit /\ PushInit
    /\ problem = None
    /\ IF suite = "reads" THEN Scanned ELSE NothingScanned /\ policy = "strict"
    /\ suite \in {"reads", "overlap", "push"} => disk[f2].holds = "absent"
    /\ suite \in {"reads", "push"} => disk[f1].holds = "symbols"

OnePass   == clock' = clock /\ \A w \in Passes \ {w1} : passes'[w] = passes[w]
TwoCached == Cardinality({k \in Greps : grep'[k] # Nothing}) <= 2
Plain(f)  == disk'[f].holds \in {"symbols", "absent"}
HooksOnly == ignored' = {} /\ (\A f \in Files : Plain(f)) /\ TwoCached /\ \A w \in Passes : passes'[w].at # "idle" => passes'[w].kind = "hook"
OneFile ==
    /\ disk'[f2] = disk[f2] /\ edits' <= 1 /\ ignored' = {} /\ search' = search
    /\ \A w \in Passes : f2 \notin passes'[w].left \cup passes'[w].deleted
    /\ \A c \in Calls : calls'[c].file # f2
NoPasses == passes' = passes

\* One call is enough here, and what matters ends with the gate's last look.
OneLook ==
    /\ calls[c1].at # "check"
    /\ \A c \in Calls \ {c1} : calls'[c] = calls[c]
    /\ calls'[c1].at \notin {"body", "clear", "record"}
    /\ UNCHANGED <<readCache, denied, got, promised>>

MCNext ==
    /\ UNCHANGED <<suite, problem>>
    /\ \/ suite = "scans" /\ GraphNext /\ OnePass /\ Plain(f2) /\ search' = search /\ UNCHANGED <<gateOnly, pushVars>>
       \/ suite = "searches" /\ GraphNext /\ OnePass /\ HooksOnly /\ UNCHANGED <<gateOnly, pushVars>>
       \/ suite = "reads" /\ GateNext /\ OneFile /\ NoPasses /\ UNCHANGED pushVars
       \/ suite = "overlap" /\ GateNext /\ OneFile /\ OneLook /\ UNCHANGED pushVars
       \/ suite = "push" /\ PushNext /\ UNCHANGED gateVars

MCSpec == MCInit /\ [][MCNext]_hookVars
=============================================================================
