---------------------------- MODULE SymbolGraph ----------------------------
(***************************************************************************)
(* The symbol graph: symbols/extractor.py builds an update from the files  *)
(* on disk, symbols/store.py applies it, and the write hook invalidates    *)
(* the cached searches the change makes stale (storage/grep_cache.py).     *)
(*                                                                         *)
(* A pass reads each file, commits the nodes of all of them, and stamps    *)
(* each file's row in a commit of its own; nothing keeps the files still   *)
(* meanwhile, and another pass may be doing the same.  Scans (the worker   *)
(* at the end of a session, or of the whole project) also prune; the write *)
(* hook indexes the one file the tool wrote, whatever .gitignore says.     *)
(*                                                                         *)
(* A file's content is a version and what it holds: symbols, only imports, *)
(* or nothing the extractor understands (a syntax error, an empty file).   *)
(***************************************************************************)
EXTENDS Integers, FiniteSets

CONSTANTS Files,
          Rank,       \* _src_rank, with the path to break ties
          MaxFiles,   \* _MAX_FILES: how many files discovery keeps
          Passes,     \* processes that index
          Greps,      \* cached searches, each with its filters
          MaxEdits,   \* bound: changes of files on disk
          MaxTime     \* bound: the clock

\* A search's filters: the path it was given, spelled as the hooks spell a file's
\* path or otherwise (absolute, ".", relative to a subdirectory), with the files at
\* or under it; and its glob, which fnmatch reads as the tool does or otherwise
\* (braces, a bare name, "**/"), with the files the tool takes it for.
Searches == [path : {"none", "relative", "other"}, under : SUBSET Files,
             glob : {"none", "plain", "other"}, matched : SUBSET Files]
Covers(k) == k.under \cap k.matched
NoSearch  == [path |-> "none", under |-> {}, glob |-> "none", matched |-> {}]

ASSUME SymbolGraphAssumption ==
    /\ Rank \in [Files -> Nat] /\ MaxFiles \in Nat \ {0}
    /\ MaxEdits \in Nat /\ MaxTime \in Nat \ {0}
    /\ \A f, g \in Files : Rank[f] = Rank[g] => f = g
ASSUME SearchesAssumption ==
    /\ Greps \subseteq {k \in Searches : Covers(k) # {}}
    /\ \A k \in Greps : /\ k.path = "none" => k.under = Files
                       /\ k.glob = "none" => k.matched = Files

VARIABLES clock,      \* milliseconds, coarsely; starts at 1
          disk,       \* each file's content, its version and its mtime
          edits,      \* how many changes the disk has seen
          ignored,    \* files that .gitignore, or a directory to skip, excludes
          gone,       \* files a commit's diff may list as deleted
          nodes,      \* the version each file's symbol nodes were parsed from
          rows,       \* symbol_files
          passes,     \* what each indexing process is doing
          grep,       \* grep_cache: the versions a stored result was computed from
          search,     \* the search that is running, and what it has found
          stirred,    \* history: files that changed under a pass that had read them
          unhooked,   \* history: files changed with no hook left to say so
          raced       \* history: searches stored after what they saw had changed

graphVars == <<clock, disk, edits, ignored, gone, nodes, rows, passes, grep, search, stirred,
               unhooked, raced>>

None     == -1
Readable == {"symbols", "imports", "nothing"}
NoRow    == [at |-> None, fresh |-> FALSE, symbols |-> FALSE]
Unread   == [holds |-> "unread", version |-> None]
Nothing  == [f \in Files |-> None]
Idle     == [at |-> "idle", kind |-> "scan", deleted |-> {}, left |-> {},
             parsed |-> [f \in Files |-> Unread], time |-> None]

Versions == None..MaxEdits
Times    == None..MaxTime

GraphTypeOK ==
    /\ clock \in 1..MaxTime /\ edits \in 0..MaxEdits /\ gone \subseteq Files /\ ignored \subseteq Files
    /\ disk \in [Files -> [holds : Readable \cup {"absent"}, version : 0..MaxEdits, mtime : 1..MaxTime]]
    /\ nodes \in [Files -> Versions]
    /\ rows \in [Files -> [at : Times, fresh : BOOLEAN, symbols : BOOLEAN]]
    /\ \A w \in Passes :
          /\ passes[w].at \in {"idle", "parse", "apply", "stamp", "prune", "invalidate"}
          /\ passes[w].kind \in {"scan", "hook"} /\ passes[w].time \in Times
          /\ passes[w].left \subseteq Files /\ passes[w].deleted \subseteq Files
          /\ passes[w].at \in {"parse", "stamp"} => passes[w].left # {}
    /\ grep \in [Greps -> [Files -> Versions]]
    /\ stirred \subseteq Files /\ unhooked \subseteq Files /\ raced \subseteq Greps

NothingScanned ==
    /\ nodes = [f \in Files |-> None]
    /\ rows = [f \in Files |-> NoRow]

DiskInit ==
    /\ clock = 1 /\ edits = 0 /\ gone = {} /\ ignored = {}
    /\ disk \in [Files -> [holds : {"symbols", "absent"}, version : {0}, mtime : {1}]]
    /\ passes = [w \in Passes |-> Idle]
    /\ grep = [k \in Greps |-> Nothing]
    /\ search = [of |-> NoSearch, found |-> Nothing]
    /\ stirred = {} /\ unhooked = {} /\ raced = {}

GraphInit == DiskInit /\ NothingScanned

\* A pass that has read f and has yet to commit it, or to stamp its row.
Holding(w, f) ==
    \/ passes[w].at \in {"parse", "apply"} /\ passes[w].parsed[f] # Unread
    \/ passes[w].at = "stamp" /\ f \in passes[w].left

Stir(F) == stirred' = stirred \cup {f \in F : \E w \in Passes : Holding(w, f)}
-----------------------------------------------------------------------------
Tick ==
    /\ clock < MaxTime
    /\ clock' = clock + 1
    /\ UNCHANGED <<disk, edits, ignored, gone, nodes, rows, passes, grep, search, stirred, unhooked, raced>>

ChangeTo(f, content) ==
    /\ edits < MaxEdits
    /\ edits' = edits + 1
    /\ disk' = [disk EXCEPT ![f] = [holds |-> content, version |-> edits + 1, mtime |-> clock]]
    /\ gone' = IF content = "absent" THEN gone \cup {f} ELSE gone
    /\ Stir({f})

\* git checkout, an editor, a generator, rm: no hook runs.
EditOutside(f) ==
    /\ \E content \in Readable \cup {"absent"} :
          /\ content = "absent" => disk[f].holds # "absent"
          /\ ChangeTo(f, content)
    /\ unhooked' = unhooked \cup {f}
    /\ UNCHANGED <<clock, ignored, nodes, rows, passes, grep, search, raced>>

\* .gitignore comes to match the file, or a release adds its directory to _SKIP_DIRS.
Ignore(f) ==
    /\ f \notin ignored
    /\ ignored' = ignored \cup {f}
    /\ UNCHANGED <<clock, disk, edits, gone, nodes, rows, passes, grep, search, stirred, unhooked, raced>>

BeginParsing(w, kind, left, deleted) ==                            \* mutated form
    passes' = [passes EXCEPT ![w] =
        [Idle EXCEPT !.at = "parse", !.kind = kind, !.left = left, !.deleted = deleted]]
Begin(w, kind, left, deleted) ==
    passes' = [passes EXCEPT ![w] =
        [Idle EXCEPT !.at = IF left = {} THEN "apply" ELSE "parse",
                     !.kind = kind, !.left = left, !.deleted = deleted]]

\* The agent's Write, Edit or MultiEdit, and the PostToolUse hook it starts.
WriteTool(w, f) ==
    /\ passes[w].at = "idle"
    /\ \E content \in Readable : ChangeTo(f, content)
    /\ Begin(w, "hook", {f}, {})
    /\ UNCHANGED <<clock, ignored, nodes, rows, grep, search, unhooked, raced>>

InScope == {f \in Files \ ignored : disk[f].holds # "absent"}
Discovered == {f \in InScope : Cardinality({g \in InScope : Rank[g] < Rank[f]}) < MaxFiles}

\* _update_symbol_graph: what the last commit's diff names (a file it changed, one
\* it deleted, one it renamed), or, when there is no diff, what discovery keeps.
Scan(w) ==
    /\ passes[w].at = "idle"
    /\ \/ Begin(w, "scan", Discovered, {})
       \/ \E f \in Files : Begin(w, "scan", {f}, {})
       \/ \E f \in gone : Begin(w, "scan", {}, {f})
       \/ \E f \in Files, old \in gone : f # old /\ Begin(w, "scan", {f}, {old})
    /\ UNCHANGED <<clock, disk, edits, ignored, gone, nodes, rows, grep, search, stirred, unhooked, raced>>

\* extract_file, one file of the pass at a time.
Parse(w) ==
    /\ passes[w].at = "parse"
    /\ \E f \in passes[w].left :
          LET left == passes[w].left \ {f}
          IN  passes' = [passes EXCEPT ![w].parsed[f] = [holds |-> disk[f].holds, version |-> disk[f].version],
                                       ![w].left = left,
                                       ![w].at = IF left = {} THEN "apply" ELSE "parse"]
    /\ UNCHANGED <<clock, disk, edits, ignored, gone, nodes, rows, grep, search, stirred, unhooked, raced>>

\* upsert_paths: a file that yields neither a node nor an edge is not one of them,
\* and keeps whatever was stored for it.
Upserts(w) == {f \in Files : passes[w].parsed[f].holds \in {"symbols", "imports"}}

AfterStamps(w) == IF passes[w].kind = "scan" THEN "prune" ELSE "invalidate"

\* apply_symbol_update up to its first commit; the rows' time is read just after.
Apply(w) ==
    LET upserts == Upserts(w)
        deleted == passes[w].deleted
    IN  /\ passes[w].at = "apply"
        /\ nodes' = [f \in Files |->
              CASE f \in upserts /\ passes[w].parsed[f].holds = "symbols" -> passes[w].parsed[f].version
                [] f \in upserts /\ passes[w].parsed[f].holds = "imports" -> None
                [] f \in deleted \ upserts -> None
                [] OTHER -> nodes[f]]
        /\ rows' = [f \in Files |-> IF f \in deleted THEN NoRow ELSE rows[f]]
        /\ passes' = [passes EXCEPT
              ![w].at = IF upserts = {} THEN AfterStamps(w) ELSE "stamp",
              ![w].left = upserts, ![w].time = clock]
        /\ stirred' = stirred \cup {f \in deleted \cup upserts : \E v \in Passes \ {w} : Holding(v, f)}
        /\ UNCHANGED <<clock, disk, edits, ignored, gone, grep, search, unhooked, raced>>

\* The rows, each in a commit of its own.
Stamp(w) ==
    /\ passes[w].at = "stamp"
    /\ \E f \in passes[w].left :
          LET left == passes[w].left \ {f}
          IN  /\ rows' = [rows EXCEPT ![f] =
                    [at |-> passes[w].time, fresh |-> TRUE,
                     symbols |-> passes[w].parsed[f].holds = "symbols"]]
              /\ passes' = [passes EXCEPT ![w].left = left,
                                          ![w].at = IF left = {} THEN AfterStamps(w) ELSE "stamp"]
    /\ UNCHANGED <<clock, disk, edits, ignored, gone, nodes, grep, search, stirred, unhooked, raced>>

\* prune_out_of_scope_symbols keys on the exclusion predicate, never on what one
\* discovery run kept.
Undiscovered == {f \in Files : nodes[f] # None} \ Discovered    \* mutated form
Doomed       == {f \in ignored : nodes[f] # None}

Prune(w) ==
    /\ passes[w].at = "prune"
    /\ nodes' = [f \in Files |-> IF f \in Doomed THEN None ELSE nodes[f]]
    /\ rows' = [f \in Files |-> IF f \in Doomed THEN NoRow ELSE rows[f]]
    /\ passes' = [passes EXCEPT ![w] = Idle]
    /\ Stir(Doomed)
    /\ UNCHANGED <<clock, disk, edits, ignored, gone, grep, search, unhooked, raced>>

\* The file a hook's pass is about, and the cached searches invalidate_project_cache
\* deletes for it: it compares the filters, as they were written, with one path.
Subject(w) == {f \in Files : passes[w].parsed[f] # Unread} \cup passes[w].left

ByPath(k, F) == k.path = "relative" /\ k.under \cap F # {}
ByGlob(k, F) == k.glob = "plain" /\ k.matched \cap F # {}
FilteredOnly(w) ==                                                 \* mutated form
    {k \in Greps : ByPath(k, Subject(w)) \/ ByGlob(k, Subject(w))}
Outdated(w) ==
    {k \in Greps : \/ k.path = "none" /\ k.glob = "none"
                   \/ ByPath(k, Subject(w))
                   \/ ByGlob(k, Subject(w))}

Invalidate(w) ==
    /\ passes[w].at = "invalidate"
    /\ grep' = [k \in Greps |-> IF k \in Outdated(w) THEN Nothing ELSE grep[k]]
    /\ raced' = raced \ Outdated(w)
    /\ passes' = [passes EXCEPT ![w] = Idle]
    /\ UNCHANGED <<clock, disk, edits, ignored, gone, nodes, rows, search, stirred, unhooked>>

\* Killed, or an exception that the hook and the worker swallow.
PassFails(w) ==
    /\ passes[w].at # "idle"
    /\ passes' = [passes EXCEPT ![w] = Idle]
    /\ unhooked' = IF passes[w].kind = "hook" THEN unhooked \cup Subject(w) ELSE unhooked
    /\ UNCHANGED <<clock, disk, edits, ignored, gone, nodes, rows, grep, search, stirred, raced>>
-----------------------------------------------------------------------------
Snapshot(k) == [f \in Files |-> IF f \in Covers(k) THEN disk[f].version ELSE None]

\* PreToolUse found nothing cached, so the tool searches the files.
SearchFiles(k) ==
    /\ search.of = NoSearch /\ grep[k] = Nothing
    /\ search' = [of |-> k, found |-> Snapshot(k)]
    /\ UNCHANGED <<clock, disk, edits, ignored, gone, nodes, rows, passes, grep, stirred, unhooked, raced>>

\* PostToolUse stores the result, or the hook is lost.
StoreSearch ==
    /\ search.of # NoSearch
    /\ \/ /\ grep' = [grep EXCEPT ![search.of] = search.found]
          /\ raced' = IF search.found = Snapshot(search.of)
                      THEN raced \ {search.of} ELSE raced \cup {search.of}
       \/ UNCHANGED <<grep, raced>>
    /\ search' = [of |-> NoSearch, found |-> Nothing]
    /\ UNCHANGED <<clock, disk, edits, ignored, gone, nodes, rows, passes, stirred, unhooked>>

PassStep(w) ==
    \/ Scan(w) \/ Parse(w) \/ Apply(w) \/ Stamp(w) \/ Prune(w) \/ Invalidate(w) \/ PassFails(w)
    \/ \E f \in Files : WriteTool(w, f)
GrepStep == StoreSearch \/ \E k \in Greps : SearchFiles(k)
DiskStep == Tick \/ \E f \in Files : EditOutside(f) \/ Ignore(f)

GraphNext == DiskStep \/ GrepStep \/ \E w \in Passes : PassStep(w)
GraphSpec == GraphInit /\ [][GraphNext]_graphVars
-----------------------------------------------------------------------------
\* A scan never drops a file that is in scope: its nodes go only when the file is
\* ignored, was deleted by a commit, or no longer defines anything.  "Delete what
\* was not discovered" would purge modules beyond the cap (store.py:218-222).
InScopeIsKept ==
    [][\A f \in Files :
          nodes[f] # None /\ nodes'[f] = None =>
              f \in ignored \/ f \in gone
                  \/ \E w \in Passes : passes[w].parsed[f].holds = "imports"]_graphVars

\* Why a cached search may no longer tell what the files hold: the change was made
\* outside the hooks, its hook has not come that far, or the search was itself
\* under way when the change was made.
Excused(k) ==
    \/ k \in raced
    \/ Covers(k) \cap unhooked # {}
    \/ \E w \in Passes : passes[w].kind = "hook" /\ Covers(k) \cap Subject(w) # {}
Stale(k) == grep[k] # Nothing /\ grep[k] # Snapshot(k)

\* A search no write can end: it has filters, and neither is written in a form that
\* the path of a changed file would match.
Unmatchable(k) == k.path # "relative" /\ k.glob # "plain" /\ ~(k.path = "none" /\ k.glob = "none")

\* A cached search that has gone stale has one of those excuses, or filters no write
\* can match.
StaleSearchHasCause == \A k \in Greps : Stale(k) => Excused(k) \/ Unmatchable(k)

\* The graph's rows are well formed and a stale search result has an excuse.
SearchesAreSound == GraphTypeOK /\ StaleSearchHasCause
=============================================================================
