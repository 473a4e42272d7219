----------------------------- MODULE Skeleton -----------------------------
(***************************************************************************)
(* The codebase skeleton of the injection block: symbols/projection.py,    *)
(* symbols/render.py and the hot weights that rank its files.  A file is a *)
(* record of counts; sizes are in tokens.  A list of files or entries is   *)
(* the set of them, each with its place in it.                             *)
(*                                                                         *)
(*   place              where the list has it; the files are in the order  *)
(*                      of their paths                                     *)
(*   classes, methods   its classes, and the methods of each               *)
(*   routes, public, private   its functions                               *)
(*   central            its PageRank as a percentage of the graph's best   *)
(*   support            TRUE under tests/, scripts/ and the like           *)
(***************************************************************************)
EXTENDS Integers, Sequences, FiniteSets, FiniteSetsExt, Functions

Least(a, b)  == IF a < b THEN a ELSE b
Atleast(a, b) == IF a > b THEN a ELSE b

\* Caps, as a session start has them.
DefaultCaps == [classes |-> 5, methods |-> 5, functions |-> 10]

\* _build_entry: routes first, then the public functions, then the private.
BuildEntry(file, caps) ==
    LET routes  == Least(file.routes, caps.functions)
        public  == Least(file.public, caps.functions - routes)
        private == Least(file.private, caps.functions - routes - public)
    IN  [path |-> file.path, place |-> file.place, central |-> file.central, support |-> file.support,
         classes |-> Least(file.classes, caps.classes),
         methods |-> Least(file.methods, caps.methods),
         exported |-> routes + public, hidden |-> private,
         classes_omitted |-> file.classes - Least(file.classes, caps.classes),
         functions_omitted |-> (file.routes - routes) + (file.public - public)]

\* _render_import_hint: the names it lists, and how many more it owns up to.
ImportHint(entry) ==
    [listed |-> entry.classes + entry.exported, more |-> entry.classes_omitted + entry.functions_omitted]

\* _render_entry: a header, the import line, a line for each member.
RenderEntry(entry) ==
    12 + (IF ImportHint(entry).listed > 0 THEN 10 ELSE 0)
       + entry.classes * (6 + 8 * entry.methods) + 8 * (entry.exported + entry.hidden)

TokensOf(entries) == SumFunctionOnSet([e \in entries |-> RenderEntry(e)], entries)

\* _file_score, in hundredths.
FileScore(entry, hot) ==
    LET density == 3 * entry.classes + entry.exported + entry.hidden + 1
        score   == 100 * density + 15 * entry.central + 20 * hot[entry.path]
    IN  IF entry.support THEN (score * 35) \div 100 ELSE score

\* The best first; equal ones in the order of their paths.
Scores(a, b, hot) ==
    \/ FileScore(a, hot) > FileScore(b, hot)
    \/ FileScore(a, hot) = FileScore(b, hot) /\ a.place < b.place
ByScore(entries, hot) ==
    {[e EXCEPT !.place = Cardinality({d \in entries : Scores(d, e, hot)})] : e \in entries}

\* As many of the worst go as it takes, but never the last one.
DropWorst(ranked, budget) ==
    LET first(n) == {e \in ranked : e.place < n}
        fits(n)  == n <= 1 \/ TokensOf(first(n)) <= budget
    IN  first(Max({n \in 0..Cardinality(ranked) : fits(n)}))

DegradeAll(entries, limit) == {[e EXCEPT !.methods = Least(@, limit)] : e \in entries}

\* Detail goes only once there is no file left to drop.
DropBeforeDegrade(ranked, budget) ==
    LET kept == DropWorst(ranked, budget)
    IN  IF TokensOf(kept) <= budget THEN kept
        ELSE IF TokensOf(DegradeAll(kept, 3)) <= budget THEN DegradeAll(kept, 3)
        ELSE DegradeAll(kept, 1)

\* compress_to_skeleton: the files arrive in the order of their paths.
CompressToSkeleton(files, budget, hot, caps) ==
    LET entries == {BuildEntry(f, caps) : f \in files}
    IN  IF TokensOf(entries) <= budget THEN entries
        ELSE DropBeforeDegrade(ByScore(entries, hot), budget)
=============================================================================
