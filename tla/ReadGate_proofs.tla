-------------------------- MODULE ReadGate_proofs --------------------------
(***************************************************************************)
(* What the hooks may rely on, for any number of files, passes, cached     *)
(* searches, sessions and calls.  The invariants come in layers: what a    *)
(* pass is allowed to be doing, which makes the graph's types and the      *)
(* excuse for a stale search inductive; what a pass knows of a file that   *)
(* nothing has stirred, which is what a denial rests on; and what a call   *)
(* has been told so far.                                                   *)
(***************************************************************************)
EXTENDS ReadGate, TLAPS

Contents == Readable \cup {"absent", "unread"}
Places   == {"idle", "parse", "apply", "stamp", "prune", "invalidate"}
Parsed   == [holds : Contents, version : Versions]
PassRecords ==
    [at : Places, kind : {"scan", "hook"}, deleted : SUBSET Files, left : SUBSET Files,
     parsed : [Files -> Parsed], time : Times]
Rows     == [at : Times, fresh : BOOLEAN, symbols : BOOLEAN]
DiskRecords == [holds : Readable \cup {"absent"}, version : 0..MaxEdits, mtime : 1..MaxTime]

\* What a pass p may be doing: it has read what it commits, a hook's pass never
\* prunes, a scan's never invalidates, and what it deletes a commit has deleted.
PassIsOrderly(p) ==
    /\ p.at \in {"parse", "stamp"} => p.left # {}
    /\ p.at \in {"idle", "apply"} => p.left = {}
    /\ p.at \in {"idle", "prune"} => p.kind = "scan"
    /\ p.at = "invalidate" => p.kind = "hook"
    /\ p.at = "stamp" => \A f \in p.left : p.parsed[f].holds \in {"symbols", "imports"}
    /\ p.deleted \subseteq gone
    /\ \A f \in Files : p.parsed[f].holds = "symbols" => p.parsed[f].version # None

GraphInv ==
    /\ GraphTypeOK
    /\ passes \in [Passes -> PassRecords]
    /\ search \in [of : Greps \cup {NoSearch}, found : [Files -> Versions]]
    /\ \A w \in Passes : PassIsOrderly(passes[w])

\* What a pass knows of a file that nothing has stirred since the pass read it.
KnowsUnstirred(w, f) ==
    Holding(w, f) =>
        /\ passes[w].parsed[f] = [holds |-> disk[f].holds, version |-> disk[f].version]
        /\ passes[w].at = "stamp" /\ disk[f].holds = "symbols" => nodes[f] = disk[f].version

FileVouched(f) ==
    /\ disk[f].version <= edits /\ nodes[f] <= edits
    /\ disk[f].mtime <= clock /\ rows[f].at <= clock
    /\ f \notin stirred => /\ nodes[f] = disk[f].version => disk[f].holds = "symbols"
                           /\ rows[f].symbols /\ disk[f].mtime < rows[f].at =>
                                 nodes[f] = disk[f].version

PassVouched(w) ==
    /\ passes[w].time <= clock
    /\ \A f \in Files :
          /\ passes[w].parsed[f].version <= edits
          /\ f \notin stirred => KnowsUnstirred(w, f)

VouchInv == (\A f \in Files : FileVouched(f)) /\ (\A w \in Passes : PassVouched(w))

CallRecords ==
    [at : {"idle", "body", "post"} \cup Deciding, session : Sessions \cup {None},
     file : Files \cup {None}, whole : BOOLEAN, row : Rows]

CallIsSound(x) ==
    /\ x.at # "idle" => x.session \in Sessions /\ x.file \in Files
    /\ x.at = "post" => <<x.session, x.file>> \in got
    /\ x.at = "stat" => x.row.symbols

CallInv ==
    /\ GateTypeOK
    /\ calls \in [Calls -> CallRecords]
    /\ \A c \in Calls : CallIsSound(calls[c])
    /\ NeverDeniedUnread
    /\ \A k \in Sessions \X Files : promised[k] # None => denied[k] = promised[k]

-----------------------------------------------------------------------------
\* A step that gives one pass an orderly record leaves all of them orderly.
LEMMA PassReplaced ==
    ASSUME passes \in [Passes -> PassRecords], \A v \in Passes : PassIsOrderly(passes[v]),
           NEW w \in Passes, NEW p \in PassRecords, PassIsOrderly(p), gone \subseteq gone',
           passes' = [passes EXCEPT ![w] = p]
    PROVE  /\ passes' \in [Passes -> PassRecords]
           /\ \A v \in Passes : PassIsOrderly(passes[v])'
<1>1. passes' \in [Passes -> PassRecords]
    OBVIOUS
<1>2. ASSUME NEW v \in Passes PROVE PassIsOrderly(passes[v])'
  <2>1. CASE v = w
      BY <2>1 DEF PassIsOrderly
  <2>2. CASE v # w
      BY <2>2 DEF PassIsOrderly
  <2> QED BY <2>1, <2>2
<1> QED BY <1>1, <1>2

LEMMA IdleIsOrderly == Idle \in PassRecords /\ PassIsOrderly(Idle)
BY SymbolGraphAssumption DEF Idle, PassRecords, Places, Parsed, Contents, Unread, Versions, Times, None, PassIsOrderly

\* How a pass begins: with nothing read, and every file it is to read ahead of it.
LEMMA BeginIsOrderly ==
    ASSUME NEW w \in Passes, NEW kind \in {"scan", "hook"}, NEW left \in SUBSET Files,
           NEW deleted \in SUBSET gone, gone \subseteq Files, kind = "hook" => left # {},
           Begin(w, kind, left, deleted)
    PROVE  \E p \in PassRecords :
              /\ PassIsOrderly(p) /\ passes' = [passes EXCEPT ![w] = p]
              /\ p.at \in {"apply", "parse"} /\ p.kind = kind /\ p.left = left
              /\ p.deleted = deleted /\ p.parsed = [f \in Files |-> Unread] /\ p.time = None
<1>1. PICK at : at = IF left = {} THEN "apply" ELSE "parse"
    OBVIOUS
<1>2. at \in {"apply", "parse"} /\ (at = "apply" <=> left = {})
    BY <1>1
<1> DEFINE p == [Idle EXCEPT !.at = at, !.kind = kind, !.left = left, !.deleted = deleted]
<1>3. passes' = [passes EXCEPT ![w] = p]
    BY <1>1 DEF Begin
<1>4. Idle.parsed = [f \in Files |-> Unread] /\ Idle.time = None
    BY DEF Idle
<1>5. p \in PassRecords
    BY <1>2, IdleIsOrderly DEF PassRecords, Places
<1>6. /\ p.at = at /\ p.kind = kind /\ p.left = left /\ p.deleted = deleted
      /\ p.parsed = Idle.parsed /\ p.time = Idle.time
    BY IdleIsOrderly DEF PassRecords
<1> HIDE DEF p
<1>7. PassIsOrderly(p)
    BY <1>2, <1>4, <1>6 DEF PassIsOrderly, Unread
<1> QED
    BY <1>2, <1>3, <1>4, <1>5, <1>6, <1>7

LEMMA GraphInitially == GraphInit => GraphInv
<1> SUFFICES ASSUME GraphInit PROVE GraphInv
    OBVIOUS
<1> USE SymbolGraphAssumption DEF GraphInit, DiskInit, NothingScanned
<1>1. Idle \in PassRecords /\ PassIsOrderly(Idle)
    BY IdleIsOrderly
<1>2. Nothing \in [Files -> Versions]
    BY DEF Nothing, Versions, None
<1>3. NoRow \in [at : Times, fresh : BOOLEAN, symbols : BOOLEAN]
    BY DEF NoRow, Times, None
<1>4. passes \in [Passes -> PassRecords] /\ \A w \in Passes : passes[w] = Idle
    BY <1>1
<1>5. /\ disk \in [Files -> [holds : Readable \cup {"absent"}, version : 0..MaxEdits, mtime : 1..MaxTime]]
      /\ nodes \in [Files -> Versions]
      /\ rows \in [Files -> [at : Times, fresh : BOOLEAN, symbols : BOOLEAN]]
      /\ grep \in [Greps -> [Files -> Versions]]
  <2>1. disk \in [Files -> [holds : Readable \cup {"absent"}, version : 0..MaxEdits, mtime : 1..MaxTime]]
    <3>1. [holds : {"symbols", "absent"}, version : {0}, mtime : {1}]
            \subseteq [holds : Readable \cup {"absent"}, version : 0..MaxEdits, mtime : 1..MaxTime]
        BY DEF Readable
    <3> QED BY <3>1
  <2> QED BY <1>2, <1>3, <2>1 DEF Versions, None
<1>6. GraphTypeOK
    BY <1>1, <1>4, <1>5 DEF GraphTypeOK, PassRecords, Idle, Times, None
<1> QED
    BY <1>1, <1>2, <1>4, <1>6 DEF GraphInv

\* The parts of GraphInv that are about the store, the disk and the searches.
StoreTypeOK ==
    /\ clock \in 1..MaxTime /\ edits \in 0..MaxEdits /\ gone \subseteq Files /\ ignored \subseteq Files
    /\ disk \in [Files -> DiskRecords] /\ nodes \in [Files -> Versions] /\ rows \in [Files -> Rows]
    /\ grep \in [Greps -> [Files -> Versions]]
    /\ search \in [of : Greps \cup {NoSearch}, found : [Files -> Versions]]
    /\ stirred \subseteq Files /\ unhooked \subseteq Files /\ raced \subseteq Greps

LEMMA GraphInvInParts ==
    GraphInv <=> /\ StoreTypeOK
                 /\ passes \in [Passes -> PassRecords]
                 /\ \A w \in Passes : PassIsOrderly(passes[w])
<1>1. ASSUME passes \in [Passes -> PassRecords], \A w \in Passes : PassIsOrderly(passes[w]),
             NEW w \in Passes
      PROVE  /\ passes[w].at \in {"idle", "parse", "apply", "stamp", "prune", "invalidate"}
             /\ passes[w].kind \in {"scan", "hook"} /\ passes[w].time \in Times
             /\ passes[w].left \subseteq Files /\ passes[w].deleted \subseteq Files
             /\ passes[w].at \in {"parse", "stamp"} => passes[w].left # {}
    BY <1>1 DEF PassRecords, Places, PassIsOrderly
<1> QED
    BY <1>1 DEF GraphInv, GraphTypeOK, StoreTypeOK, Rows, DiskRecords

LEMMA ScanOrderly ==
    ASSUME GraphInv, NEW w \in Passes, Scan(w)
    PROVE  \E p \in PassRecords :
              /\ PassIsOrderly(p) /\ passes' = [passes EXCEPT ![w] = p]
              /\ p.kind = "scan" /\ p.parsed = [f \in Files |-> Unread] /\ p.time = None
              /\ p.at \in {"apply", "parse"}
<1>1. PICK left \in SUBSET Files, deleted \in SUBSET gone : Begin(w, "scan", left, deleted)
    BY DEF Scan, Discovered, InScope
<1> QED
    BY <1>1, BeginIsOrderly DEF GraphInv, GraphTypeOK

LEMMA HookOrderly ==
    ASSUME GraphInv, NEW w \in Passes, NEW f \in Files, WriteTool(w, f)
    PROVE  \E p \in PassRecords :
              /\ PassIsOrderly(p) /\ passes' = [passes EXCEPT ![w] = p]
              /\ p.kind = "hook" /\ p.left = {f} /\ p.time = None
              /\ p.parsed = [g \in Files |-> Unread] /\ p.at = "parse"
<1>1. PICK left \in SUBSET Files, deleted \in SUBSET gone : left = {f} /\ deleted = {}
    OBVIOUS
<1>2. Begin(w, "hook", left, deleted) /\ left # {}
    BY <1>1 DEF WriteTool
<1>3. \E p \in PassRecords :
              /\ PassIsOrderly(p) /\ passes' = [passes EXCEPT ![w] = p]
              /\ p.at \in {"apply", "parse"} /\ p.kind = "hook" /\ p.left = left
              /\ p.deleted = deleted /\ p.parsed = [g \in Files |-> Unread] /\ p.time = None
    BY <1>2, BeginIsOrderly DEF GraphInv, GraphTypeOK
<1> QED
    BY <1>1, <1>3 DEF PassIsOrderly

LEMMA ParseOrderly ==
    ASSUME GraphInv, NEW w \in Passes, Parse(w)
    PROVE  \E p \in PassRecords, f \in passes[w].left :
              /\ PassIsOrderly(p) /\ passes' = [passes EXCEPT ![w] = p]
              /\ p.left = passes[w].left \ {f} /\ p.at \in {"parse", "apply"}
              /\ p.kind = passes[w].kind /\ p.time = passes[w].time
              /\ p.parsed = [passes[w].parsed EXCEPT ![f] =
                                [holds |-> disk[f].holds, version |-> disk[f].version]]
<1> USE SymbolGraphAssumption
<1>1. PICK f \in passes[w].left :
          LET left == passes[w].left \ {f}
          IN  passes' = [passes EXCEPT ![w].parsed[f] = [holds |-> disk[f].holds, version |-> disk[f].version],
                                       ![w].left = left,
                                       ![w].at = IF left = {} THEN "apply" ELSE "parse"]
    BY DEF Parse
<1>2. PICK at : at = IF passes[w].left \ {f} = {} THEN "apply" ELSE "parse"
    OBVIOUS
<1>3. PICK read : read = [holds |-> disk[f].holds, version |-> disk[f].version]
    OBVIOUS
<1> DEFINE o == passes[w]
           p == [o EXCEPT !.parsed = [@ EXCEPT ![f] = read], !.left = @ \ {f}, !.at = at]
<1>4. o \in PassRecords /\ PassIsOrderly(o) /\ f \in Files
    BY DEF GraphInv, PassRecords
<1>5. read \in Parsed /\ (read.holds = "symbols" => read.version # None)
  <2>1. disk[f].holds \in Contents /\ disk[f].version \in Versions /\ disk[f].version # None
      BY <1>4 DEF GraphInv, GraphTypeOK, Contents, Versions, None
  <2> QED BY <1>3, <2>1 DEF Parsed
<1>6. passes' = [passes EXCEPT ![w] = p]
    BY <1>1, <1>2, <1>3, <1>4 DEF GraphInv, PassRecords
<1>7. p \in PassRecords
    BY <1>2, <1>4, <1>5 DEF PassRecords, Places
<1>8. /\ p.parsed = [o.parsed EXCEPT ![f] = read] /\ p.left = o.left \ {f} /\ p.at = at
      /\ p.kind = o.kind /\ p.deleted = o.deleted /\ p.time = o.time
    BY <1>4 DEF PassRecords
<1>9. PassIsOrderly(p)
  <2>1. o.parsed \in [Files -> Parsed]
      BY <1>4 DEF PassRecords
  <2>2. /\ o.deleted \subseteq gone
        /\ \A g \in Files : o.parsed[g].holds = "symbols" => o.parsed[g].version # None
      BY <1>4 DEF PassIsOrderly
  <2> HIDE DEF p, o
  <2>3. \A g \in Files : p.parsed[g] = IF g = f THEN read ELSE o.parsed[g]
      BY <1>8, <2>1
  <2>4. \A g \in Files : p.parsed[g].holds = "symbols" => p.parsed[g].version # None
      BY <1>5, <2>2, <2>3
  <2>5. /\ p.at \in {"parse", "apply"} /\ (p.at = "apply" <=> p.left = {}) /\ p.deleted \subseteq gone
      BY <1>2, <1>8, <2>2 DEF o
  <2> QED BY <2>4, <2>5 DEF PassIsOrderly
<1>10. at \in {"parse", "apply"}
    BY <1>2
<1> HIDE DEF p
<1> QED BY <1>3, <1>6, <1>7, <1>8, <1>9, <1>10

LEMMA ApplyOrderly ==
    ASSUME GraphInv, NEW w \in Passes, Apply(w)
    PROVE  \E p \in PassRecords :
              /\ PassIsOrderly(p) /\ passes' = [passes EXCEPT ![w] = p]
              /\ p.left = Upserts(w) /\ p.time = clock /\ p.kind = passes[w].kind
              /\ p.parsed = passes[w].parsed
              /\ p.at \in {"stamp", "prune", "invalidate"}
              /\ p.at = "prune" => p.kind = "scan"
<1> USE SymbolGraphAssumption
<1>1. PICK at : at = IF Upserts(w) = {} THEN AfterStamps(w) ELSE "stamp"
    OBVIOUS
<1> DEFINE o == passes[w]
           p == [o EXCEPT !.at = at, !.left = Upserts(w), !.time = clock]
<1>2. o \in PassRecords /\ PassIsOrderly(o)
    BY DEF GraphInv
<1>3. Upserts(w) \subseteq Files /\ clock \in Times
    BY DEF Upserts, GraphInv, GraphTypeOK, Times, None
<1>4. /\ at \in {"stamp", "prune", "invalidate"} /\ (at = "stamp" => Upserts(w) # {})
      /\ at = "prune" => o.kind = "scan"
      /\ at = "invalidate" => o.kind = "hook"
    BY <1>1, <1>2 DEF AfterStamps, PassRecords
<1>5. passes' = [passes EXCEPT ![w] = p]
    BY <1>1, <1>2 DEF Apply, GraphInv
<1>6. p \in PassRecords
    BY <1>2, <1>3, <1>4 DEF PassRecords, Places
<1>7. /\ p.at = at /\ p.left = Upserts(w) /\ p.time = clock
      /\ p.parsed = o.parsed /\ p.kind = o.kind /\ p.deleted = o.deleted
    BY <1>2 DEF PassRecords
<1> HIDE DEF p
<1>8. PassIsOrderly(p)
    BY <1>2, <1>4, <1>7 DEF PassIsOrderly, Upserts
<1> QED BY <1>4, <1>5, <1>6, <1>7, <1>8

LEMMA StampOrderly ==
    ASSUME GraphInv, NEW w \in Passes, Stamp(w)
    PROVE  \E p \in PassRecords, f \in passes[w].left :
              /\ PassIsOrderly(p) /\ passes' = [passes EXCEPT ![w] = p]
              /\ rows' = [rows EXCEPT ![f] =
                    [at |-> passes[w].time, fresh |-> TRUE,
                     symbols |-> passes[w].parsed[f].holds = "symbols"]]
              /\ p.left = passes[w].left \ {f} /\ p.time = passes[w].time /\ p.kind = passes[w].kind
              /\ p.parsed = passes[w].parsed
              /\ p.at \in {"stamp", "prune", "invalidate"}
              /\ p.at = "prune" => p.kind = "scan"
<1> USE SymbolGraphAssumption
<1>1. PICK f \in passes[w].left :
          LET left == passes[w].left \ {f}
          IN  /\ rows' = [rows EXCEPT ![f] =
                    [at |-> passes[w].time, fresh |-> TRUE,
                     symbols |-> passes[w].parsed[f].holds = "symbols"]]
              /\ passes' = [passes EXCEPT ![w].left = left,
                                          ![w].at = IF left = {} THEN AfterStamps(w) ELSE "stamp"]
    BY DEF Stamp
<1>2. PICK at : at = IF passes[w].left \ {f} = {} THEN AfterStamps(w) ELSE "stamp"
    OBVIOUS
<1> DEFINE o == passes[w]
           p == [o EXCEPT !.left = @ \ {f}, !.at = at]
<1>3. o \in PassRecords /\ PassIsOrderly(o) /\ o.at = "stamp"
    BY DEF GraphInv, Stamp
<1>4. /\ at \in {"stamp", "prune", "invalidate"} /\ (at = "stamp" => o.left \ {f} # {})
      /\ at = "prune" => o.kind = "scan"
      /\ at = "invalidate" => o.kind = "hook"
    BY <1>2, <1>3 DEF AfterStamps, PassRecords
<1>5. passes' = [passes EXCEPT ![w] = p]
    BY <1>1, <1>2, <1>3 DEF GraphInv
<1>6. p \in PassRecords
    BY <1>3, <1>4 DEF PassRecords, Places
<1>7. /\ p.at = at /\ p.left = o.left \ {f} /\ p.time = o.time
      /\ p.parsed = o.parsed /\ p.kind = o.kind /\ p.deleted = o.deleted
    BY <1>3 DEF PassRecords
<1> HIDE DEF p
<1>8. PassIsOrderly(p)
    BY <1>3, <1>4, <1>7 DEF PassIsOrderly
<1> QED BY <1>1, <1>4, <1>5, <1>6, <1>7, <1>8

LEMMA GraphInvInPartsNext ==
    (GraphInv <=> /\ StoreTypeOK
                  /\ passes \in [Passes -> PassRecords]
                  /\ \A w \in Passes : PassIsOrderly(passes[w]))'
BY GraphInvInParts, PTL

\* A pass that becomes an orderly record, in a step that keeps the store well typed.
LEMMA GraphInvByPass ==
    ASSUME GraphInv, StoreTypeOK', gone \subseteq gone', NEW w \in Passes,
           \E p \in PassRecords : PassIsOrderly(p) /\ passes' = [passes EXCEPT ![w] = p]
    PROVE  GraphInv'
<1>1. PICK p \in PassRecords : PassIsOrderly(p) /\ passes' = [passes EXCEPT ![w] = p]
    OBVIOUS
<1>2. passes' \in [Passes -> PassRecords] /\ \A v \in Passes : PassIsOrderly(passes[v])'
    BY <1>1, PassReplaced DEF GraphInv
<1> QED BY <1>2, GraphInvInPartsNext

LEMMA GraphInvSamePasses ==
    ASSUME GraphInv, StoreTypeOK', gone \subseteq gone', passes' = passes
    PROVE  GraphInv'
<1>1. \A v \in Passes : PassIsOrderly(passes[v])'
    BY DEF GraphInv, PassIsOrderly
<1> QED BY <1>1, GraphInvInPartsNext DEF GraphInv

LEMMA ChangeKeepsTypes ==
    ASSUME GraphInv, NEW f \in Files, NEW content \in Readable \cup {"absent"}, ChangeTo(f, content)
    PROVE  /\ edits' \in 0..MaxEdits /\ disk' \in [Files -> DiskRecords]
           /\ gone \subseteq gone' /\ gone' \subseteq Files /\ stirred' \subseteq Files
<1> USE SymbolGraphAssumption
<1>1. edits + 1 \in 0..MaxEdits /\ clock \in 1..MaxTime
    BY DEF GraphInv, GraphTypeOK, ChangeTo
<1>2. [holds |-> content, version |-> edits + 1, mtime |-> clock] \in DiskRecords
    BY <1>1 DEF DiskRecords
<1>3. disk' \in [Files -> DiskRecords]
    BY <1>2 DEF GraphInv, GraphTypeOK, ChangeTo, DiskRecords
<1> QED
    BY <1>1, <1>3 DEF GraphInv, GraphTypeOK, ChangeTo, Stir

LEMMA GraphStep == GraphInv /\ [GraphNext]_graphVars => GraphInv'
<1> SUFFICES ASSUME GraphInv, [GraphNext]_graphVars PROVE GraphInv'
    OBVIOUS
<1> USE SymbolGraphAssumption
<1>0. StoreTypeOK /\ passes \in [Passes -> PassRecords]
    BY GraphInvInParts
<1>1. CASE UNCHANGED graphVars
  <2>1. StoreTypeOK'
      BY <1>0, <1>1 DEF graphVars, StoreTypeOK
  <2> QED BY <1>1, <2>1, GraphInvSamePasses DEF graphVars
<1>2. CASE Tick
  <2>1. StoreTypeOK'
      BY <1>0, <1>2 DEF Tick, StoreTypeOK
  <2> QED BY <1>2, <2>1, GraphInvSamePasses DEF Tick
<1>3. ASSUME NEW f \in Files, EditOutside(f) PROVE GraphInv'
  <2>1. PICK content \in Readable \cup {"absent"} : ChangeTo(f, content)
      BY <1>3 DEF EditOutside
  <2>2. StoreTypeOK' /\ gone \subseteq gone'
      BY <1>0, <1>3, <2>1, ChangeKeepsTypes DEF EditOutside, StoreTypeOK
  <2> QED BY <1>3, <2>2, GraphInvSamePasses DEF EditOutside
<1>4. ASSUME NEW f \in Files, Ignore(f) PROVE GraphInv'
  <2>1. StoreTypeOK'
      BY <1>0, <1>4 DEF Ignore, StoreTypeOK
  <2> QED BY <1>4, <2>1, GraphInvSamePasses DEF Ignore
<1>5. CASE GrepStep
  <2>1. Nothing \in [Files -> Versions] /\ \A k \in Greps : Snapshot(k) \in [Files -> Versions]
      BY <1>0 DEF Nothing, Snapshot, StoreTypeOK, DiskRecords, Versions, None
  <2>2. CASE StoreSearch
    <3>1. search.of \in Greps /\ search.found \in [Files -> Versions]
        BY <1>0, <2>2 DEF StoreSearch, StoreTypeOK
    <3>2. search' \in [of : Greps \cup {NoSearch}, found : [Files -> Versions]]
        BY <2>1, <2>2 DEF StoreSearch
    <3>3. grep' \in [Greps -> [Files -> Versions]] /\ raced' \subseteq Greps
        BY <1>0, <2>2, <3>1 DEF StoreSearch, StoreTypeOK
    <3>4. StoreTypeOK'
        BY <1>0, <2>2, <3>2, <3>3 DEF StoreSearch, StoreTypeOK
    <3> QED BY <2>2, <3>4, GraphInvSamePasses DEF StoreSearch
  <2>3. ASSUME NEW k \in Greps, SearchFiles(k) PROVE GraphInv'
    <3>1. search' \in [of : Greps \cup {NoSearch}, found : [Files -> Versions]]
        BY <2>1, <2>3 DEF SearchFiles
    <3>2. StoreTypeOK'
        BY <1>0, <2>3, <3>1 DEF SearchFiles, StoreTypeOK
    <3> QED BY <2>3, <3>2, GraphInvSamePasses DEF SearchFiles
  <2> QED BY <1>5, <2>2, <2>3 DEF GrepStep
<1>6. ASSUME NEW w \in Passes, PassStep(w) PROVE GraphInv'
  <2>1. CASE Scan(w)
    <3>1. StoreTypeOK' /\ gone \subseteq gone'
        BY <1>0, <2>1 DEF Scan, StoreTypeOK
    <3> QED BY <2>1, <3>1, ScanOrderly, GraphInvByPass
  <2>2. CASE Parse(w)
    <3>1. StoreTypeOK' /\ gone \subseteq gone'
        BY <1>0, <2>2 DEF Parse, StoreTypeOK
    <3> QED BY <2>2, <3>1, ParseOrderly, GraphInvByPass
  <2>3. CASE Apply(w)
    <3>1. nodes' \in [Files -> Versions]
      <4>1. passes[w].parsed \in [Files -> Parsed] /\ None \in Versions
          BY <1>0 DEF PassRecords, Versions, None
      <4> QED BY <1>0, <2>3, <4>1 DEF Apply, StoreTypeOK, Parsed
    <3>2. rows' \in [Files -> Rows] /\ stirred' \subseteq Files
      <4>1. NoRow \in Rows
          BY DEF NoRow, Rows, Times, None
      <4>2. rows' \in [Files -> Rows]
          BY <1>0, <2>3, <4>1 DEF Apply, StoreTypeOK
      <4>3. passes[w].deleted \subseteq Files /\ Upserts(w) \subseteq Files
          BY <1>0 DEF PassRecords, Upserts
      <4> QED BY <1>0, <2>3, <4>2, <4>3 DEF Apply, StoreTypeOK
    <3>3. StoreTypeOK' /\ gone \subseteq gone'
        BY <1>0, <2>3, <3>1, <3>2 DEF Apply, StoreTypeOK
    <3> QED BY <2>3, <3>3, ApplyOrderly, GraphInvByPass
  <2>4. CASE Stamp(w)
    <3>1. PICK f \in passes[w].left : rows' = [rows EXCEPT ![f] =
                    [at |-> passes[w].time, fresh |-> TRUE,
                     symbols |-> passes[w].parsed[f].holds = "symbols"]]
        BY <2>4 DEF Stamp
    <3>2. passes[w].time \in Times
        BY <1>0 DEF PassRecords
    <3>3. [at |-> passes[w].time, fresh |-> TRUE, symbols |-> passes[w].parsed[f].holds = "symbols"] \in Rows
        BY <3>2 DEF Rows
    <3>4. StoreTypeOK' /\ gone \subseteq gone'
        BY <1>0, <2>4, <3>1, <3>3 DEF Stamp, StoreTypeOK
    <3> QED BY <2>4, <3>4, StampOrderly, GraphInvByPass
  <2>5. CASE Prune(w)
    <3>1. nodes' \in [Files -> Versions]
        BY <1>0, <2>5 DEF Prune, StoreTypeOK, Versions, None
    <3>2. NoRow \in Rows
        BY DEF NoRow, Rows, Times, None
    <3>3. rows' \in [Files -> Rows]
        BY <1>0, <2>5, <3>2 DEF Prune, StoreTypeOK
    <3>4. stirred' \subseteq Files
        BY <1>0, <2>5 DEF Prune, StoreTypeOK, Stir, Doomed
    <3>5. StoreTypeOK' /\ gone \subseteq gone'
        BY <1>0, <2>5, <3>1, <3>3, <3>4 DEF Prune, StoreTypeOK
    <3> QED BY <2>5, <3>5, IdleIsOrderly, GraphInvByPass DEF Prune
  <2>6. CASE Invalidate(w)
    <3>1. grep' \in [Greps -> [Files -> Versions]] /\ raced' \subseteq Greps
        BY <1>0, <2>6 DEF Invalidate, StoreTypeOK, Nothing, Versions, None
    <3>2. StoreTypeOK' /\ gone \subseteq gone'
        BY <1>0, <2>6, <3>1 DEF Invalidate, StoreTypeOK
    <3> QED BY <2>6, <3>2, IdleIsOrderly, GraphInvByPass DEF Invalidate
  <2>7. CASE PassFails(w)
    <3>1. Subject(w) \subseteq Files
        BY <1>0 DEF Subject, PassRecords
    <3>2. StoreTypeOK' /\ gone \subseteq gone'
        BY <1>0, <2>7, <3>1 DEF PassFails, StoreTypeOK
    <3> QED BY <2>7, <3>2, IdleIsOrderly, GraphInvByPass DEF PassFails
  <2>8. ASSUME NEW f \in Files, WriteTool(w, f) PROVE GraphInv'
    <3>1. PICK content \in Readable : ChangeTo(f, content)
        BY <2>8 DEF WriteTool
    <3>2. StoreTypeOK' /\ gone \subseteq gone'
        BY <1>0, <2>8, <3>1, ChangeKeepsTypes DEF WriteTool, StoreTypeOK
    <3> QED BY <2>8, <3>2, HookOrderly, GraphInvByPass
  <2> QED BY <1>6, <2>1, <2>2, <2>3, <2>4, <2>5, <2>6, <2>7, <2>8 DEF PassStep
<1> QED BY <1>1, <1>2, <1>3, <1>4, <1>5, <1>6 DEF GraphNext, DiskStep

LEMMA MarkKeepsGraphInv ==
    ASSUME GraphInv, NEW f, rows' = rows \/ MarkStale(f),
           UNCHANGED <<clock, disk, edits, ignored, gone, nodes, passes, grep, search, stirred,
                       unhooked, raced>>
    PROVE  GraphInv'
<1>1. rows' \in [Files -> Rows]
  <2>1. rows \in [Files -> Rows]
      BY GraphInvInParts DEF StoreTypeOK
  <2>2. ASSUME f \in Files PROVE [rows[f] EXCEPT !.fresh = FALSE] \in Rows
      BY <2>1, <2>2 DEF Rows
  <2>3. MarkStale(f) => rows' = [rows EXCEPT ![f] = [rows[f] EXCEPT !.fresh = FALSE]]
      BY <2>1 DEF MarkStale
  <2> QED BY <2>1, <2>2, <2>3
<1>2. StoreTypeOK'
    BY <1>1, GraphInvInParts DEF StoreTypeOK
<1> QED BY <1>2, GraphInvSamePasses

\* What a step of a call does to the graph: at most, it marks one row stale.
LEMMA CallTouchesOneRow ==
    ASSUME NEW c \in Calls, CallStep(c)
    PROVE  /\ rows' = rows \/ (MarkStale(calls[c].file) /\ CheckDisk(c))
           /\ UNCHANGED <<clock, disk, edits, ignored, gone, nodes, passes, grep, search, stirred,
                          unhooked, raced>>
BY DEF CallStep, CheckDisk, graphVars

LEMMA GraphInvKept == GraphInv /\ [GateNext]_<<graphVars, gateOnly>> => GraphInv'
<1> SUFFICES ASSUME GraphInv, [GateNext]_<<graphVars, gateOnly>> PROVE GraphInv'
    OBVIOUS
<1>1. ASSUME NEW c \in Calls, CallStep(c) PROVE GraphInv'
    BY <1>1, CallTouchesOneRow, MarkKeepsGraphInv
<1>2. CASE [GraphNext]_graphVars
    BY <1>2, GraphStep
<1> QED BY <1>1, <1>2 DEF GateNext

\* Whatever goes on, a scan never drops a file that is in scope: the nodes of a
\* file go only when it is ignored, was deleted by a commit, or defines nothing.
THEOREM InScopeAlwaysKept == GateSpec => InScopeIsKept
<1> DEFINE Kept(f) ==
        nodes[f] # None /\ nodes'[f] = None =>
            f \in ignored \/ f \in gone \/ \E w \in Passes : passes[w].parsed[f].holds = "imports"
<1>1. ASSUME GraphInv, [GateNext]_<<graphVars, gateOnly>>, NEW f \in Files PROVE Kept(f)
  <2>1. CASE nodes' = nodes
      BY <2>1
  <2>2. ASSUME NEW w \in Passes, Apply(w) PROVE Kept(f)
    <3>1. PassIsOrderly(passes[w])
        BY <1>1 DEF GraphInv
    <3>2. CASE f \in Upserts(w)
        BY <2>2, <3>1, <3>2 DEF Apply, Upserts, PassIsOrderly
    <3>3. CASE f \notin Upserts(w)
        BY <2>2, <3>1, <3>3 DEF Apply, PassIsOrderly
    <3> QED BY <3>2, <3>3
  <2>3. ASSUME NEW w \in Passes, Prune(w) PROVE Kept(f)
      BY <2>3 DEF Prune, Doomed
  <2>4. ASSUME NEW c \in Calls, CallStep(c) PROVE nodes' = nodes
      BY <2>4, CallTouchesOneRow
  <2>5. ASSUME GraphNext PROVE nodes' = nodes \/ \E w \in Passes : Apply(w) \/ Prune(w)
      BY <2>5 DEF GraphNext, DiskStep, GrepStep, PassStep, Tick, EditOutside, Ignore, StoreSearch,
                  SearchFiles, Scan, Parse, Stamp, Invalidate, PassFails, WriteTool
  <2> QED
      BY <1>1, <2>1, <2>2, <2>3, <2>4, <2>5 DEF GateNext, graphVars
<1>2. GraphInv /\ [GateNext]_<<graphVars, gateOnly>> => [\A f \in Files : Kept(f)]_graphVars
    BY <1>1
<1> QED
    BY <1>2, GraphInitially, GraphInvKept, PTL DEF GateSpec, InScopeIsKept
-----------------------------------------------------------------------------
\* The excuse for one cached search.
HasCause(k) == Excused(k) \/ Unmatchable(k)
IsSound(k) == Stale(k) => HasCause(k)

LEMMA CauseInitially == GraphInit => \A k \in Greps : IsSound(k)
BY DEF GraphInit, DiskInit, IsSound, Stale

\* A pass that is left as it is stays the excuse it was.
LEMMA CauseOfOthers ==
    ASSUME NEW w \in Passes, NEW k \in Greps, HasCause(k), passes \in [Passes -> PassRecords],
           NEW p, passes' = [passes EXCEPT ![w] = p],
           passes[w].kind # "hook" \/ Covers(k) \cap Subject(w) = {},
           k \in raced => k \in raced', unhooked \subseteq unhooked'
    PROVE  HasCause(k)'
BY DEF HasCause, Excused, Subject

LEMMA CauseOfPass ==
    ASSUME NEW w \in Passes, NEW k \in Greps, HasCause(k), passes \in [Passes -> PassRecords],
           NEW p, passes' = [passes EXCEPT ![w] = p], p.kind = passes[w].kind,
           {f \in Files : p.parsed[f] # Unread} \cup p.left = Subject(w),
           raced' = raced, unhooked' = unhooked
    PROVE  HasCause(k)'
<1>1. Subject(w)' = Subject(w)
    BY DEF Subject
<1>2. \A v \in Passes : v # w => Subject(v)' = Subject(v)
    BY DEF Subject
<1>3. \A v \in Passes : passes'[v].kind = passes[v].kind
    OBVIOUS
<1> QED BY <1>1, <1>2, <1>3 DEF HasCause, Excused

LEMMA CauseSamePasses ==
    ASSUME NEW k \in Greps, HasCause(k), passes' = passes,
           k \in raced => k \in raced', unhooked \subseteq unhooked'
    PROVE  HasCause(k)'
BY DEF HasCause, Excused, Subject

LEMMA SnapshotSame ==
    ASSUME NEW k, disk' = disk PROVE Snapshot(k)' = Snapshot(k)
BY DEF Snapshot

LEMMA SnapshotElsewhere ==
    ASSUME NEW k, NEW f \in Files, f \notin Covers(k), NEW content, ChangeTo(f, content), GraphInv
    PROVE  Snapshot(k)' = Snapshot(k)
<1>1. \A g \in Files : g # f => disk'[g] = disk[g]
    BY DEF ChangeTo, GraphInv, GraphTypeOK
<1> QED BY <1>1 DEF Snapshot

LEMMA CauseStep ==
    ASSUME GraphInv, \A k \in Greps : IsSound(k), [GraphNext]_graphVars, NEW k \in Greps
    PROVE  IsSound(k)'
<1> SUFFICES ASSUME grep'[k] # Nothing, grep'[k] # Snapshot(k)' PROVE HasCause(k)'
    BY DEF IsSound, Stale, Nothing
<1> DEFINE WasStale == grep[k] # Nothing /\ grep[k] # Snapshot(k)
<1>0. passes \in [Passes -> PassRecords] /\ (\A v \in Passes : PassIsOrderly(passes[v]))
    BY DEF GraphInv
<1>1. ASSUME WasStale PROVE HasCause(k)
    BY <1>1 DEF IsSound, Stale
<1>2. ASSUME grep' = grep, disk' = disk PROVE WasStale
    BY <1>2, SnapshotSame
<1>3. CASE UNCHANGED graphVars \/ Tick \/ \E f \in Files : Ignore(f)
    BY <1>1, <1>2, <1>3, CauseSamePasses DEF graphVars, Tick, Ignore
<1>4. ASSUME NEW f \in Files, EditOutside(f) PROVE HasCause(k)'
  <2>1. CASE f \in Covers(k)
      BY <1>4, <2>1 DEF EditOutside, HasCause, Excused, GraphInv, GraphTypeOK
  <2>2. CASE f \notin Covers(k)
    <3>1. Snapshot(k)' = Snapshot(k)
        BY <1>4, <2>2, SnapshotElsewhere DEF EditOutside
    <3>2. WasStale
        BY <1>4, <3>1 DEF EditOutside
    <3> QED BY <1>1, <1>4, <3>2, CauseSamePasses DEF EditOutside
  <2> QED BY <2>1, <2>2
<1>5. CASE StoreSearch
  <2>1. Snapshot(k)' = Snapshot(k)
      BY <1>5, SnapshotSame DEF StoreSearch
  <2>2. CASE UNCHANGED <<grep, raced>>
      BY <1>1, <1>2, <1>5, <2>2, CauseSamePasses DEF StoreSearch
  <2>3. CASE /\ grep' = [grep EXCEPT ![search.of] = search.found]
             /\ raced' = IF search.found = Snapshot(search.of)
                         THEN raced \ {search.of} ELSE raced \cup {search.of}
    <3>1. CASE search.of = k
      <4>1. grep'[k] = search.found
          BY <2>3, <3>1 DEF GraphInv, GraphTypeOK
      <4>2. k \in raced'
          BY <2>1, <2>3, <3>1, <4>1
      <4> QED BY <4>2 DEF HasCause, Excused
    <3>2. CASE search.of # k
      <4>1. WasStale
          BY <2>1, <2>3, <3>2 DEF GraphInv, GraphTypeOK
      <4> QED BY <1>1, <1>5, <2>3, <3>2, <4>1, CauseSamePasses DEF StoreSearch
    <3> QED BY <3>1, <3>2
  <2> QED BY <1>5, <2>2, <2>3 DEF StoreSearch
<1>6. ASSUME NEW l \in Greps, SearchFiles(l) PROVE HasCause(k)'
    BY <1>1, <1>2, <1>6, CauseSamePasses DEF SearchFiles
<1>7. ASSUME NEW w \in Passes, PassStep(w) PROVE HasCause(k)'
  <2>1. CASE Scan(w)
    <3>1. WasStale /\ raced' = raced /\ unhooked' = unhooked
        BY <1>2, <2>1 DEF Scan
    <3>2. passes[w].kind # "hook"
        BY <1>0, <2>1 DEF Scan, PassIsOrderly
    <3>3. PICK p : passes' = [passes EXCEPT ![w] = p]
        BY <2>1, ScanOrderly
    <3> QED BY <1>0, <1>1, <3>1, <3>2, <3>3, CauseOfOthers
  <2>2. CASE Parse(w)
    <3>1. WasStale /\ raced' = raced /\ unhooked' = unhooked
        BY <1>2, <2>2 DEF Parse
    <3>2. PICK p \in PassRecords, f \in passes[w].left :
              /\ passes' = [passes EXCEPT ![w] = p]
              /\ p.left = passes[w].left \ {f} /\ p.kind = passes[w].kind
              /\ p.parsed = [passes[w].parsed EXCEPT ![f] =
                                [holds |-> disk[f].holds, version |-> disk[f].version]]
        BY <2>2, ParseOrderly
    <3>3. f \in Files /\ passes[w].parsed \in [Files -> Parsed] /\ passes[w].left \subseteq Files
        BY <1>0 DEF PassRecords
    <3>4. [holds |-> disk[f].holds, version |-> disk[f].version] # Unread
        BY <3>3 DEF Unread, GraphInv, GraphTypeOK, Readable
    <3>5. p.parsed[f] # Unread /\ \A g \in Files : g # f => p.parsed[g] = passes[w].parsed[g]
        BY <3>2, <3>3, <3>4
    <3>6. {g \in Files : p.parsed[g] # Unread} \cup p.left = Subject(w)
        BY <3>2, <3>3, <3>5 DEF Subject
    <3> QED BY <1>0, <1>1, <3>1, <3>2, <3>6, CauseOfPass
  <2>3. CASE Apply(w)
    <3>1. WasStale /\ raced' = raced /\ unhooked' = unhooked
        BY <1>2, <2>3 DEF Apply
    <3>2. PICK p \in PassRecords :
              /\ passes' = [passes EXCEPT ![w] = p]
              /\ p.left = Upserts(w) /\ p.kind = passes[w].kind /\ p.parsed = passes[w].parsed
        BY <2>3, ApplyOrderly
    <3>3. passes[w].left = {} /\ \A f \in Upserts(w) : f \in Files /\ passes[w].parsed[f] # Unread
      <4>1. passes[w].left = {}
          BY <1>0, <2>3 DEF Apply, PassIsOrderly
      <4> QED BY <4>1 DEF Upserts, Unread
    <3>4. {g \in Files : p.parsed[g] # Unread} \cup p.left = Subject(w)
        BY <3>2, <3>3 DEF Subject
    <3> QED BY <1>0, <1>1, <3>1, <3>2, <3>4, CauseOfPass
  <2>4. CASE Stamp(w)
    <3>1. WasStale /\ raced' = raced /\ unhooked' = unhooked
        BY <1>2, <2>4 DEF Stamp
    <3>2. PICK p \in PassRecords, f \in passes[w].left :
              /\ passes' = [passes EXCEPT ![w] = p]
              /\ p.left = passes[w].left \ {f} /\ p.kind = passes[w].kind /\ p.parsed = passes[w].parsed
        BY <2>4, StampOrderly
    <3>3. f \in Files /\ passes[w].parsed[f] # Unread
      <4>1. f \in Files
          BY <1>0 DEF PassRecords
      <4> QED BY <1>0, <2>4, <4>1 DEF Stamp, Unread, PassIsOrderly
    <3>4. {g \in Files : p.parsed[g] # Unread} \cup p.left = Subject(w)
        BY <3>2, <3>3 DEF Subject
    <3> QED BY <1>0, <1>1, <3>1, <3>2, <3>4, CauseOfPass
  <2>5. CASE Prune(w)
    <3>1. WasStale /\ raced' = raced /\ unhooked' = unhooked
        BY <1>2, <2>5 DEF Prune
    <3>2. passes[w].kind # "hook"
        BY <1>0, <2>5 DEF Prune, PassIsOrderly
    <3> QED BY <1>0, <1>1, <2>5, <3>1, <3>2, CauseOfOthers DEF Prune
  <2>6. CASE Invalidate(w)
    <3>1. k \notin Outdated(w)
        BY <2>6 DEF Invalidate
    <3>2. Covers(k) \cap Subject(w) = {} \/ Unmatchable(k)
        BY <3>1 DEF Outdated, ByPath, ByGlob, Covers, Unmatchable
    <3>3. Snapshot(k)' = Snapshot(k) /\ grep'[k] = grep[k]
        BY <2>6, <3>1, SnapshotSame DEF Invalidate
    <3>4. WasStale
        BY <3>3
    <3>5. (k \in raced => k \in raced') /\ unhooked' = unhooked
        BY <2>6, <3>1 DEF Invalidate
    <3>6. passes' = [passes EXCEPT ![w] = Idle]
        BY <2>6 DEF Invalidate
    <3>7. CASE Covers(k) \cap Subject(w) = {}
        BY <1>0, <1>1, <3>4, <3>5, <3>6, <3>7, CauseOfOthers
    <3>8. CASE Unmatchable(k)
        BY <3>8 DEF HasCause, Unmatchable
    <3> QED BY <3>2, <3>7, <3>8
  <2>7. CASE PassFails(w)
    <3>1. WasStale /\ raced' = raced /\ unhooked \subseteq unhooked'
        BY <1>2, <2>7 DEF PassFails
    <3>2. CASE passes[w].kind # "hook" \/ Covers(k) \cap Subject(w) = {}
        BY <1>0, <1>1, <2>7, <3>1, <3>2, CauseOfOthers DEF PassFails
    <3>3. CASE passes[w].kind = "hook" /\ Covers(k) \cap Subject(w) # {}
        BY <2>7, <3>3 DEF PassFails, HasCause, Excused
    <3> QED BY <3>2, <3>3
  <2>8. ASSUME NEW f \in Files, WriteTool(w, f) PROVE HasCause(k)'
    <3>1. PICK p \in PassRecords : passes' = [passes EXCEPT ![w] = p] /\ p.kind = "hook" /\ p.left = {f}
        BY <2>8, HookOrderly
    <3>2. CASE f \in Covers(k)
      <4>1. passes'[w] = p
          BY <1>0, <3>1
      <4>2. f \in Subject(w)'
          BY <3>1, <4>1 DEF Subject
      <4> QED BY <3>1, <3>2, <4>1, <4>2 DEF HasCause, Excused
    <3>3. CASE f \notin Covers(k)
      <4>1. Snapshot(k)' = Snapshot(k)
          BY <2>8, <3>3, SnapshotElsewhere DEF WriteTool
      <4>2. WasStale /\ raced' = raced /\ unhooked' = unhooked
          BY <2>8, <4>1 DEF WriteTool
      <4>3. passes[w].kind # "hook"
          BY <1>0, <2>8 DEF WriteTool, PassIsOrderly
      <4> QED BY <1>0, <1>1, <3>1, <4>2, <4>3, CauseOfOthers
    <3> QED BY <3>2, <3>3
  <2> QED BY <1>7, <2>1, <2>2, <2>3, <2>4, <2>5, <2>6, <2>7, <2>8 DEF PassStep
<1> QED BY <1>3, <1>4, <1>5, <1>6, <1>7 DEF GraphNext, DiskStep, GrepStep

\* The graph's rows are well formed, and a cached search that no longer tells what
\* the files hold is one that no hook could have invalidated yet, or one whose filters no
\* path of a changed file would match, for any number of files, searches and passes.
THEOREM SearchesAlwaysSound == GateSpec => []SearchesAreSound
<1> DEFINE Inv == GraphInv /\ \A k \in Greps : IsSound(k)
<1>1. GraphInit => Inv
    BY GraphInitially, CauseInitially
<1>2. ASSUME Inv, [GateNext]_<<graphVars, gateOnly>> PROVE Inv'
  <2>1. GraphInv'
      BY <1>2, GraphInvKept
  <2>2. ASSUME NEW c \in Calls, CallStep(c), NEW k \in Greps PROVE IsSound(k)'
      BY <1>2, <2>2, CallTouchesOneRow DEF IsSound, HasCause, Stale, Excused, Snapshot, Subject
  <2>3. CASE [GraphNext]_graphVars
      BY <1>2, <2>1, <2>3, CauseStep
  <2> QED BY <1>2, <2>1, <2>2, <2>3 DEF GateNext
<1>3. Inv => SearchesAreSound
    BY DEF SearchesAreSound, GraphInv, StaleSearchHasCause, IsSound, HasCause, Stale, Excused
<1> QED BY <1>1, <1>2, <1>3, PTL DEF GateSpec
-----------------------------------------------------------------------------
LEMMA CallsInitially == GateInit => CallInv
BY SymbolGraphAssumption DEF GateInit, CallInv, GateTypeOK, CallRecords, CallIsSound, NoCall, NoRow,
   NeverDeniedUnread, Outcomes, Times, Rows, None, Deciding

LEMMA CallReplaced ==
    ASSUME calls \in [Calls -> CallRecords], \A d \in Calls : CallIsSound(calls[d]),
           NEW c \in Calls, NEW x \in CallRecords, CallIsSound(x)', got \subseteq got',
           calls' = [calls EXCEPT ![c] = x]
    PROVE  /\ calls' \in [Calls -> CallRecords]
           /\ \A d \in Calls : CallIsSound(calls[d])'
<1>1. calls' \in [Calls -> CallRecords]
    OBVIOUS
<1>2. ASSUME NEW d \in Calls PROVE CallIsSound(calls[d])'
  <2>1. CASE d = c
      BY <2>1 DEF CallIsSound
  <2>2. CASE d # c
      BY <2>2 DEF CallIsSound
  <2> QED BY <2>1, <2>2
<1> QED BY <1>1, <1>2

\* A call that moves on keeps what it is about.
LEMMA CallMoves ==
    ASSUME calls \in [Calls -> CallRecords], \A d \in Calls : CallIsSound(calls[d]),
           NEW c \in Calls, NEW place \in {"body", "post"} \cup Deciding, calls[c].at # "idle",
           Move(c, place), got \subseteq got',
           place = "post" => Key(c) \in got', place # "stat"
    PROVE  /\ calls' \in [Calls -> CallRecords]
           /\ \A d \in Calls : CallIsSound(calls[d])'
<1>0. PICK x : x = [calls[c] EXCEPT !.at = place]
    OBVIOUS
<1>1. x \in CallRecords /\ calls' = [calls EXCEPT ![c] = x]
    BY <1>0 DEF CallRecords, Move
<1>2. x.at = place /\ x.session = calls[c].session /\ x.file = calls[c].file
    BY <1>0 DEF CallRecords
<1>3. CallIsSound(x)'
    BY <1>2 DEF CallIsSound, Key
<1> QED BY <1>1, <1>3, CallReplaced

LEMMA CallEnds ==
    ASSUME calls \in [Calls -> CallRecords], \A d \in Calls : CallIsSound(calls[d]),
           NEW c \in Calls, End(c), got \subseteq got'
    PROVE  /\ calls' \in [Calls -> CallRecords]
           /\ \A d \in Calls : CallIsSound(calls[d])'
<1>1. NoCall \in CallRecords /\ CallIsSound(NoCall)'
    BY SymbolGraphAssumption DEF NoCall, NoRow, CallRecords, CallIsSound, Rows, Times, None, Deciding
<1> QED BY <1>1, CallReplaced DEF End

LEMMA CallsStep == GraphInv /\ CallInv /\ [GateNext]_<<graphVars, gateOnly>> => CallInv'
<1> SUFFICES ASSUME GraphInv, CallInv, [GateNext]_<<graphVars, gateOnly>> PROVE CallInv'
    OBVIOUS
<1> USE SymbolGraphAssumption
<1>0. /\ calls \in [Calls -> CallRecords] /\ (\A d \in Calls : CallIsSound(calls[d]))
      /\ policy \in Policies /\ readCache \in [Sessions \X Files -> Outcomes]
      /\ denied \in [Sessions \X Files -> Times] /\ promised \in [Sessions \X Files -> Times]
      /\ got \subseteq Sessions \X Files /\ NeverDeniedUnread
      /\ \A k \in Sessions \X Files : promised[k] # None => denied[k] = promised[k]
    BY DEF CallInv, GateTypeOK
<1>1. CASE UNCHANGED gateOnly
    BY <1>0, <1>1 DEF gateOnly, CallInv, GateTypeOK, CallIsSound, NeverDeniedUnread
<1>2. ASSUME calls' \in [Calls -> CallRecords], \A d \in Calls : CallIsSound(calls[d])',
             UNCHANGED <<policy, denied, promised>>,
             readCache' \in [Sessions \X Files -> Outcomes],
             got \subseteq got', got' \subseteq Sessions \X Files,
             \A k \in Sessions \X Files : readCache'[k] # readCache[k] => k \in got
      PROVE  CallInv'
  <2>1. \A d \in Calls : calls'[d].at \in {"idle", "body", "post"} \cup Deciding
      BY <1>2 DEF CallRecords
  <2>2. NeverDeniedUnread'
      BY <1>0, <1>2 DEF NeverDeniedUnread
  <2> QED BY <1>0, <1>2, <2>1, <2>2 DEF CallInv, GateTypeOK
<1>3. ASSUME NEW c \in Calls, CallStep(c) PROVE CallInv'
  <2>1. Key(c) \in Sessions \X Files \/ calls[c].at = "idle"
      BY <1>0 DEF CallIsSound, Key
  <2>2. ASSUME NEW s \in Sessions, NEW f \in Files, Ask(c, s, f) PROVE CallInv'
    <3>1. PICK x : \E whole \in BOOLEAN :
              /\ x = [at |-> IF whole THEN "reread" ELSE "body", session |-> s, file |-> f,
                      whole |-> whole, row |-> NoRow]
              /\ calls' = [calls EXCEPT ![c] = x]
        BY <2>2 DEF Ask
    <3>2. x \in CallRecords
        BY <3>1 DEF CallRecords, NoRow, Rows, Times, None, Deciding
    <3>3. CallIsSound(x)'
        BY <3>1 DEF CallIsSound
    <3>4. calls' \in [Calls -> CallRecords] /\ \A d \in Calls : CallIsSound(calls[d])'
        BY <1>0, <2>2, <3>1, <3>2, <3>3, CallReplaced DEF Ask
    <3> QED BY <1>0, <1>2, <2>2, <3>4 DEF Ask
  <2>3. CASE CheckReread(c)
    <3>1. calls' \in [Calls -> CallRecords] /\ \A d \in Calls : CallIsSound(calls[d])'
        BY <1>0, <2>3, CallMoves, CallEnds DEF CheckReread, Deciding
    <3> QED BY <1>0, <1>2, <2>3, <3>1 DEF CheckReread
  <2>4. CASE CheckRow(c)
    <3>1. CASE rows[calls[c].file] = NoRow \/ ~rows[calls[c].file].fresh \/ ~rows[calls[c].file].symbols
      <4>1. calls' \in [Calls -> CallRecords] /\ \A d \in Calls : CallIsSound(calls[d])'
          BY <1>0, <2>4, <3>1, CallMoves DEF CheckRow
      <4> QED BY <1>0, <1>2, <2>4, <4>1 DEF CheckRow
    <3>2. CASE ~(rows[calls[c].file] = NoRow \/ ~rows[calls[c].file].fresh \/ ~rows[calls[c].file].symbols)
      <4>1. calls[c].file \in Files /\ calls[c].session \in Sessions
          BY <1>0, <2>4 DEF CheckRow, CallIsSound
      <4>2. PICK x, row : row = rows[calls[c].file] /\ x = [calls[c] EXCEPT !.at = "stat", !.row = row]
          OBVIOUS
      <4>3. row \in Rows /\ row.symbols
          BY <3>2, <4>1, <4>2 DEF GraphInv, GraphTypeOK, Rows
      <4>4. x \in CallRecords /\ calls' = [calls EXCEPT ![c] = x]
        <5>1. x \in CallRecords
          <6>1. calls[c] \in CallRecords /\ "stat" \in {"idle", "body", "post"} \cup Deciding
              BY <1>0 DEF Deciding
          <6> QED BY <4>2, <4>3, <6>1 DEF CallRecords
        <5>2. calls' = [calls EXCEPT ![c].at = "stat", ![c].row = row]
            BY <2>4, <3>2, <4>2 DEF CheckRow
        <5> QED BY <1>0, <4>2, <5>1, <5>2
      <4>5. x.at = "stat" /\ x.session = calls[c].session /\ x.file = calls[c].file /\ x.row = row
          BY <1>0, <4>2 DEF CallRecords
      <4>6. CallIsSound(x)'
          BY <4>1, <4>3, <4>5 DEF CallIsSound
      <4>7. calls' \in [Calls -> CallRecords] /\ \A d \in Calls : CallIsSound(calls[d])'
          BY <1>0, <2>4, <4>4, <4>6, CallReplaced DEF CheckRow
      <4> QED BY <1>0, <1>2, <2>4, <4>7 DEF CheckRow
    <3> QED BY <3>1, <3>2
  <2>5. CASE CheckDisk(c)
    <3>1. calls' \in [Calls -> CallRecords] /\ \A d \in Calls : CallIsSound(calls[d])'
        BY <1>0, <2>5, CallMoves DEF CheckDisk, Deciding
    <3> QED BY <1>0, <1>2, <2>5, <3>1 DEF CheckDisk
  <2>6. CASE CheckDenial(c)
    <3>1. calls' \in [Calls -> CallRecords] /\ \A d \in Calls : CallIsSound(calls[d])'
        BY <1>0, <2>6, CallMoves DEF CheckDenial, Deciding
    <3> QED BY <1>0, <1>2, <2>6, <3>1 DEF CheckDenial
  <2>7. CASE FailOpen(c)
    <3>1. calls' \in [Calls -> CallRecords] /\ \A d \in Calls : CallIsSound(calls[d])'
        BY <1>0, <2>7, CallMoves DEF FailOpen, Deciding
    <3> QED BY <1>0, <1>2, <2>7, <3>1 DEF FailOpen
  <2>8. CASE Clear(c) \/ Record(c)
    <3>1. calls' \in [Calls -> CallRecords] /\ \A d \in Calls : CallIsSound(calls[d])'
        BY <1>0, <2>8, CallMoves, CallEnds DEF Clear, Record, Deciding
    <3>2. PICK t \in Times : denied' = [denied EXCEPT ![Key(c)] = t]
                             /\ promised' = [promised EXCEPT ![Key(c)] = t]
      <4>1. clock \in Times /\ None \in Times
          BY DEF GraphInv, GraphTypeOK, Times, None
      <4>2. CASE Clear(c)
          BY <4>1, <4>2 DEF Clear
      <4>3. CASE Record(c)
          BY <4>1, <4>3 DEF Record, DenialTime
      <4> QED BY <2>8, <4>2, <4>3
    <3>3. denied' \in [Sessions \X Files -> Times] /\ promised' \in [Sessions \X Files -> Times]
          /\ \A k \in Sessions \X Files : promised'[k] # None => denied'[k] = promised'[k]
        BY <1>0, <3>2
    <3>4. UNCHANGED <<policy, readCache, got>>
        BY <2>8 DEF Clear, Record
    <3>5. \A d \in Calls : calls'[d].at \in {"idle", "body", "post"} \cup Deciding
        BY <3>1 DEF CallRecords
    <3> QED BY <1>0, <3>1, <3>3, <3>4, <3>5 DEF CallInv, GateTypeOK, NeverDeniedUnread
  <2>9. CASE Body(c)
    <3>1. got \subseteq got' /\ got' \subseteq Sessions \X Files
        BY <1>0, <2>1, <2>9 DEF Body
    <3>2. calls' \in [Calls -> CallRecords] /\ \A d \in Calls : CallIsSound(calls[d])'
        BY <1>0, <2>9, <3>1, CallMoves, CallEnds DEF Body, RecordsWhole
    <3> QED BY <1>0, <1>2, <2>9, <3>1, <3>2 DEF Body
  <2>10. CASE RecordRead(c)
    <3>1. calls' \in [Calls -> CallRecords] /\ \A d \in Calls : CallIsSound(calls[d])'
        BY <1>0, <2>10, CallEnds DEF RecordRead
    <3>2. Key(c) \in got
        BY <1>0, <2>10 DEF RecordRead, CallIsSound, Key
    <3>3. Outcome(Key(c)) \in Outcomes
        BY DEF Outcome, Outcomes
    <3>4. /\ readCache' \in [Sessions \X Files -> Outcomes]
          /\ \A k \in Sessions \X Files : readCache'[k] # readCache[k] => k \in got
        BY <1>0, <2>10, <3>2, <3>3 DEF RecordRead
    <3> QED BY <1>0, <1>2, <2>10, <3>1, <3>4 DEF RecordRead
  <2> QED BY <1>3, <2>2, <2>3, <2>4, <2>5, <2>6, <2>7, <2>8, <2>9, <2>10 DEF CallStep
<1> QED BY <1>1, <1>3 DEF GateNext, gateOnly

LEMMA CallInvKept == GateSpec => [](GraphInv /\ CallInv)
<1>1. GraphInit /\ GateInit => GraphInv /\ CallInv
    BY GraphInitially, CallsInitially
<1> QED BY <1>1, GraphInvKept, CallsStep, PTL DEF GateSpec

\* A session is told "its content is in your context" of a file only after it was
\* given the whole of it, whatever the calls, and the gate's caches stay well formed.
THEOREM ReadsAlwaysSound == GateSpec => []ReadsAreSound
<1>1. CallInv => ReadsAreSound
    BY DEF CallInv, ReadsAreSound
<1> QED BY <1>1, CallInvKept, PTL

\* A retry inside the window is granted unless the session has used the grant: a
\* denial's time and the promise it made are one, whichever calls interleave.
THEOREM RetryAlwaysGranted == GateSpec => RetryIsGranted
<1> DEFINE Granted(c) ==
        calls[c].at = "check" /\ calls'[c].at = "record" /\ promised[Key(c)] # None =>
            clock - promised[Key(c)] > Window
<1>1. ASSUME GraphInv, CallInv, [GateNext]_<<graphVars, gateOnly>>, NEW c \in Calls PROVE Granted(c)
  <2> SUFFICES ASSUME calls[c].at = "check", calls'[c].at = "record", promised[Key(c)] # None
               PROVE  clock - promised[Key(c)] > Window
      OBVIOUS
  <2>1. Key(c) \in Sessions \X Files /\ calls \in [Calls -> CallRecords]
      BY <1>1 DEF CallInv, CallIsSound, Key
  <2>2. denied[Key(c)] = promised[Key(c)] /\ denied[Key(c)] \in Times /\ clock \in 1..MaxTime
      BY <1>1, <2>1 DEF CallInv, GateTypeOK, GraphInv, GraphTypeOK
  <2>3. PICK d \in Calls : CallStep(d)
      BY <1>1 DEF GateNext, gateOnly
  <2>4. d = c
      BY <2>1, <2>3 DEF CallStep, Ask, CheckReread, CheckRow, CheckDisk, CheckDenial, Clear, Record,
                        FailOpen, Body, RecordRead, Move, End
  <2>5. CheckDenial(c)
    <3>1. CheckDenial(c) \/ FailOpen(c)
        BY <2>3, <2>4 DEF CallStep, Ask, CheckReread, CheckRow, CheckDisk, Clear, Record, Body, RecordRead
    <3>2. FailOpen(c) => calls'[c].at = "body"
        BY <2>1 DEF FailOpen, Move, CallRecords
    <3> QED BY <3>1, <3>2
  <2>6. ~DeniedWithin(Key(c))
      BY <2>1, <2>5 DEF CheckDenial, Move
  <2> QED
      BY <2>2, <2>6, ReadGateAssumption, SymbolGraphAssumption DEF DeniedWithin, Times, None
<1>2. GraphInv /\ CallInv /\ [GateNext]_<<graphVars, gateOnly>>
        => [\A c \in Calls : Granted(c)]_<<graphVars, gateOnly>>
    BY <1>1
<1> QED BY <1>2, CallInvKept, PTL DEF GateSpec, RetryIsGranted
-----------------------------------------------------------------------------
LEMMA VouchInitially == GraphInit => VouchInv
BY SymbolGraphAssumption DEF GraphInit, DiskInit, NothingScanned, VouchInv, FileVouched, PassVouched,
   KnowsUnstirred, Holding, Idle, NoRow, Unread, None

LEMMA FileVouchedStill ==
    ASSUME GraphInv, NEW f \in Files, FileVouched(f), clock <= clock', clock' \in Nat,
           UNCHANGED <<edits, disk, nodes>>, stirred \subseteq stirred',
           rows'[f].at = rows[f].at, rows'[f].symbols = rows[f].symbols
    PROVE  FileVouched(f)'
BY SymbolGraphAssumption DEF FileVouched, GraphInv, GraphTypeOK, Times, None

LEMMA PassVouchedStill ==
    ASSUME GraphInv, NEW w \in Passes, PassVouched(w), clock <= clock', clock' \in Nat,
           passes'[w] = passes[w], UNCHANGED <<edits, disk, nodes>>, stirred \subseteq stirred'
    PROVE  PassVouched(w)'
<1>1. passes[w].time' <= clock'
    BY SymbolGraphAssumption DEF PassVouched, GraphInv, GraphTypeOK, Times, None
<1> QED
    BY <1>1 DEF PassVouched, KnowsUnstirred, Holding

\* A step that touches neither the disk, nor the nodes, nor a row that anybody trusts.
LEMMA VouchStill ==
    ASSUME GraphInv, VouchInv, clock <= clock', clock' \in Nat, UNCHANGED <<edits, disk, nodes>>,
           stirred \subseteq stirred',
           \A f \in Files : rows'[f].at = rows[f].at /\ rows'[f].symbols = rows[f].symbols,
           \A w \in Passes : passes'[w] = passes[w] \/ PassVouched(w)'
    PROVE  VouchInv'
<1>1. \A f \in Files : FileVouched(f)'
    BY FileVouchedStill DEF VouchInv
<1>2. \A w \in Passes : PassVouched(w)'
    BY PassVouchedStill DEF VouchInv
<1> QED BY <1>1, <1>2 DEF VouchInv

LEMMA VouchChange ==
    ASSUME GraphInv, VouchInv, NEW f \in Files, NEW content \in Readable \cup {"absent"},
           ChangeTo(f, content), UNCHANGED <<clock, nodes, rows>>,
           \A w \in Passes : passes'[w] = passes[w] \/ PassVouched(w)'
    PROVE  VouchInv'
<1> USE SymbolGraphAssumption
<1>1. /\ edits \in 0..MaxEdits /\ edits' = edits + 1 /\ stirred \subseteq stirred' /\ clock \in 1..MaxTime
      /\ disk'[f] = [holds |-> content, version |-> edits + 1, mtime |-> clock]
      /\ \A g \in Files : g # f => disk'[g] = disk[g]
    BY DEF GraphInv, GraphTypeOK, ChangeTo, Stir
<1>2. ASSUME NEW g \in Files PROVE FileVouched(g)'
  <2>1. FileVouched(g) /\ nodes[g] \in Versions /\ rows[g].at \in Times /\ disk[g].version \in 0..MaxEdits
      BY DEF VouchInv, GraphInv, GraphTypeOK
  <2>2. CASE g = f
      BY <1>1, <2>1, <2>2 DEF FileVouched, Versions, Times, None
  <2>3. CASE g # f
      BY <1>1, <2>1, <2>3 DEF FileVouched, Versions, Times, None
  <2> QED BY <2>2, <2>3
<1>3. ASSUME NEW w \in Passes, passes'[w] = passes[w] PROVE PassVouched(w)'
  <2>1. PassVouched(w)
      BY DEF VouchInv
  <2>2. Holding(w, f) => f \in stirred'
      BY DEF ChangeTo, Stir
  <2>3. \A g \in Files : Holding(w, g)' = Holding(w, g)
      BY <1>3 DEF Holding
  <2>4. passes[w].time' <= clock'
      BY <1>3, <2>1 DEF PassVouched
  <2>5. ASSUME NEW g \in Files PROVE passes'[w].parsed[g].version <= edits'
    <3>1. passes[w].parsed[g].version \in Versions /\ passes[w].parsed[g].version <= edits
        BY <2>1 DEF PassVouched, GraphInv, PassRecords, Parsed
    <3> QED BY <1>1, <1>3, <3>1 DEF Versions, None
  <2>6. ASSUME NEW g \in Files, g \notin stirred' PROVE KnowsUnstirred(w, g)'
    <3>1. CASE g = f
        BY <2>2, <2>3, <2>6, <3>1 DEF KnowsUnstirred
    <3>2. CASE g # f
        BY <1>1, <1>3, <2>1, <2>3, <2>6, <3>2 DEF KnowsUnstirred, PassVouched
    <3> QED BY <3>1, <3>2
  <2> QED BY <2>4, <2>5, <2>6 DEF PassVouched
<1> QED BY <1>2, <1>3 DEF VouchInv

LEMMA VouchParse ==
    ASSUME GraphInv, VouchInv, NEW w \in Passes, Parse(w)
    PROVE  VouchInv'
<1>1. PICK p \in PassRecords, f \in passes[w].left :
          /\ passes' = [passes EXCEPT ![w] = p]
          /\ p.left = passes[w].left \ {f} /\ p.at \in {"parse", "apply"}
          /\ p.kind = passes[w].kind /\ p.time = passes[w].time
          /\ p.parsed = [passes[w].parsed EXCEPT ![f] =
                            [holds |-> disk[f].holds, version |-> disk[f].version]]
    BY ParseOrderly
<1>2. /\ passes[w].parsed \in [Files -> Parsed] /\ f \in Files /\ passes'[w] = p
      /\ \A v \in Passes : v # w => passes'[v] = passes[v]
    BY <1>1 DEF GraphInv, PassRecords
<1>3. PassVouched(w) /\ FileVouched(f) /\ clock \in 1..MaxTime
    BY <1>2 DEF VouchInv, GraphInv, GraphTypeOK
<1>4. UNCHANGED <<clock, disk, edits, nodes, rows, stirred>> /\ passes[w].at = "parse"
    BY DEF Parse
<1>5. /\ p.parsed[f] = [holds |-> disk[f].holds, version |-> disk[f].version]
      /\ \A g \in Files : g # f => p.parsed[g] = passes[w].parsed[g]
    BY <1>1, <1>2
<1>6. ASSUME NEW g \in Files PROVE p.parsed[g].version <= edits
  <2>1. CASE g = f
      BY <1>3, <1>5, <2>1 DEF FileVouched
  <2>2. CASE g # f
      BY <1>3, <1>5, <2>2 DEF PassVouched
  <2> QED BY <2>1, <2>2
<1>7. ASSUME NEW g \in Files, g \notin stirred PROVE KnowsUnstirred(w, g)'
  <2>1. p.at # "stamp"
      BY <1>1
  <2>2. CASE g = f
      BY <1>2, <1>4, <1>5, <2>1, <2>2 DEF KnowsUnstirred
  <2>3. CASE g # f
    <3>1. Holding(w, g)' => Holding(w, g)
        BY <1>2, <1>4, <1>5, <2>1, <2>3 DEF Holding
    <3> QED BY <1>2, <1>3, <1>4, <1>5, <1>7, <2>1, <2>3, <3>1 DEF PassVouched, KnowsUnstirred
  <2> QED BY <2>2, <2>3
<1>8. PassVouched(w)'
    BY <1>1, <1>2, <1>3, <1>4, <1>6, <1>7 DEF PassVouched
<1>9. clock' <= clock' /\ clock' \in Nat
    BY <1>3, <1>4
<1> QED
  <2>1. \A v \in Passes : passes'[v] = passes[v] \/ PassVouched(v)'
      BY <1>2, <1>8
  <2> QED BY <1>3, <1>4, <2>1, VouchStill

LEMMA VouchApply ==
    ASSUME GraphInv, VouchInv, NEW w \in Passes, Apply(w)
    PROVE  VouchInv'
<1> USE SymbolGraphAssumption
<1> DEFINE upserts == Upserts(w)
           deleted == passes[w].deleted
<1>1. PICK p \in PassRecords :
          /\ passes' = [passes EXCEPT ![w] = p]
          /\ p.left = upserts /\ p.time = clock /\ p.parsed = passes[w].parsed
          /\ p.at \in {"stamp", "prune", "invalidate"}
    BY ApplyOrderly
<1>2. /\ passes[w].parsed \in [Files -> Parsed] /\ passes'[w] = p /\ passes[w].at = "apply"
      /\ \A v \in Passes : v # w => passes'[v] = passes[v]
    BY <1>1 DEF GraphInv, PassRecords, Apply
<1>3. UNCHANGED <<clock, disk, edits>> /\ clock \in 1..MaxTime /\ edits \in 0..MaxEdits /\ stirred \subseteq stirred'
    BY DEF Apply, GraphInv, GraphTypeOK
<1>4. ASSUME NEW f \in Files
      PROVE  /\ f \in upserts => passes[w].parsed[f].holds \in {"symbols", "imports"}
             /\ f \in upserts => Holding(w, f)
             /\ passes[w].parsed[f].version \in Versions /\ passes[w].parsed[f].version <= edits
             /\ f \notin stirred => KnowsUnstirred(w, f)
    BY <1>2 DEF Upserts, Holding, Unread, VouchInv, PassVouched, Parsed
<1>5. ASSUME NEW f \in Files
      PROVE  /\ f \in upserts /\ passes[w].parsed[f].holds = "symbols" =>
                    nodes'[f] = passes[w].parsed[f].version
             /\ f \in upserts /\ passes[w].parsed[f].holds = "imports" => nodes'[f] = None
             /\ f \in deleted \ upserts => nodes'[f] = None
             /\ f \notin deleted \cup upserts => nodes'[f] = nodes[f]
             /\ rows'[f] = IF f \in deleted THEN NoRow ELSE rows[f]
    BY DEF Apply
<1>6. ASSUME NEW f \in Files PROVE FileVouched(f)'
  <2>1. /\ FileVouched(f) /\ nodes[f] \in Versions /\ rows[f].at \in Times
        /\ disk[f].version \in 0..MaxEdits /\ disk[f].mtime \in 1..MaxTime
      BY DEF VouchInv, GraphInv, GraphTypeOK
  <2>2. nodes'[f] <= edits
      BY <1>3, <1>4, <1>5, <2>1 DEF FileVouched, Versions, None
  <2>3. rows'[f].at <= clock
      BY <1>3, <1>5, <2>1 DEF FileVouched, NoRow, None
  <2>4. ASSUME f \notin stirred'
        PROVE  /\ nodes'[f] = disk[f].version => disk[f].holds = "symbols"
               /\ rows'[f].symbols /\ disk[f].mtime < rows'[f].at => nodes'[f] = disk[f].version
    <3>1. f \notin stirred
        BY <1>3, <2>4
    <3>2. CASE f \in upserts /\ passes[w].parsed[f].holds = "symbols"
      <4>1. passes[w].parsed[f] = [holds |-> disk[f].holds, version |-> disk[f].version]
          BY <1>4, <3>1, <3>2 DEF KnowsUnstirred
      <4> QED BY <1>5, <3>2, <4>1
    <3>3. CASE f \in upserts /\ passes[w].parsed[f].holds = "imports"
      <4>1. passes[w].parsed[f] = [holds |-> disk[f].holds, version |-> disk[f].version]
          BY <1>4, <3>1, <3>3 DEF KnowsUnstirred
      <4>2. nodes'[f] # disk[f].version /\ disk[f].holds = "imports"
          BY <1>5, <2>1, <3>3, <4>1 DEF None
      <4>3. nodes[f] # disk[f].version
          BY <2>1, <3>1, <4>2 DEF FileVouched
      <4> QED BY <1>5, <2>1, <3>1, <4>2, <4>3 DEF FileVouched, NoRow
    <3>4. CASE f \in deleted \ upserts
        BY <1>5, <2>1, <3>4 DEF NoRow, None
    <3>5. CASE f \notin deleted \cup upserts
        BY <1>5, <2>1, <3>1, <3>5 DEF FileVouched
    <3> QED BY <1>4, <3>2, <3>3, <3>4, <3>5
  <2> QED BY <1>3, <2>1, <2>2, <2>3, <2>4 DEF FileVouched
<1>7. PassVouched(w)'
  <2>1. ASSUME NEW f \in Files, f \notin stirred', Holding(w, f)'
        PROVE  /\ p.parsed[f] = [holds |-> disk[f].holds, version |-> disk[f].version]
               /\ disk[f].holds = "symbols" => nodes'[f] = disk[f].version
    <3>1. f \in upserts
        BY <1>1, <1>2, <2>1 DEF Holding
    <3>2. passes[w].parsed[f] = [holds |-> disk[f].holds, version |-> disk[f].version]
        BY <1>3, <1>4, <2>1, <3>1 DEF KnowsUnstirred
    <3> QED BY <1>1, <1>5, <3>1, <3>2
  <2>2. ASSUME NEW f \in Files, f \notin stirred' PROVE KnowsUnstirred(w, f)'
      BY <1>2, <1>3, <2>1, <2>2 DEF KnowsUnstirred
  <2> QED BY <1>1, <1>2, <1>3, <1>4, <2>2 DEF PassVouched
<1>8. ASSUME NEW v \in Passes, v # w PROVE PassVouched(v)'
  <2>1. PassVouched(v)
      BY DEF VouchInv
  <2>2. ASSUME NEW f \in Files, f \notin stirred' PROVE KnowsUnstirred(v, f)'
    <3>1. Holding(v, f)' = Holding(v, f)
        BY <1>2, <1>8 DEF Holding
    <3>2. Holding(v, f) => f \notin deleted \cup upserts
        BY <1>8, <2>2 DEF Apply
    <3>3. Holding(v, f) => nodes'[f] = nodes[f]
        BY <1>5, <3>2
    <3> QED BY <1>2, <1>3, <1>8, <2>1, <2>2, <3>1, <3>3 DEF KnowsUnstirred, PassVouched
  <2> QED BY <1>2, <1>3, <1>8, <2>1, <2>2 DEF PassVouched
<1> QED BY <1>6, <1>7, <1>8 DEF VouchInv

LEMMA VouchStamp ==
    ASSUME GraphInv, VouchInv, NEW w \in Passes, Stamp(w)
    PROVE  VouchInv'
<1>1. PICK p \in PassRecords, f \in passes[w].left :
          /\ PassIsOrderly(p) /\ passes' = [passes EXCEPT ![w] = p]
          /\ rows' = [rows EXCEPT ![f] =
                [at |-> passes[w].time, fresh |-> TRUE,
                 symbols |-> passes[w].parsed[f].holds = "symbols"]]
          /\ p.left = passes[w].left \ {f} /\ p.time = passes[w].time /\ p.kind = passes[w].kind
          /\ p.parsed = passes[w].parsed
          /\ p.at \in {"stamp", "prune", "invalidate"}
          /\ p.at = "prune" => p.kind = "scan"
    BY StampOrderly
<1>2. /\ f \in Files /\ passes'[w] = p /\ passes[w].at = "stamp"
      /\ \A v \in Passes : v # w => passes'[v] = passes[v]
    BY <1>1 DEF GraphInv, PassRecords, Stamp
<1>3. UNCHANGED <<clock, disk, edits, nodes, stirred>> /\ clock \in Nat
    BY SymbolGraphAssumption DEF Stamp, GraphInv, GraphTypeOK
<1>4. PassVouched(w)
    BY DEF VouchInv
<1>5. ASSUME NEW g \in Files PROVE FileVouched(g)'
  <2>1. FileVouched(g)
      BY DEF VouchInv
  <2>2. CASE g = f
    <3>1. rows'[f].at = passes[w].time /\ rows'[f].symbols = (passes[w].parsed[f].holds = "symbols")
        BY <1>1, <1>2 DEF GraphInv, GraphTypeOK
    <3>2. f \notin stirred =>
              /\ passes[w].parsed[f] = [holds |-> disk[f].holds, version |-> disk[f].version]
              /\ disk[f].holds = "symbols" => nodes[f] = disk[f].version
        BY <1>1, <1>2, <1>4 DEF PassVouched, KnowsUnstirred, Holding
    <3>3. ASSUME f \notin stirred, rows'[f].symbols PROVE nodes[f] = disk[f].version
      <4>1. passes[w].parsed[f].holds = "symbols"
          BY <3>1, <3>3
      <4>2. disk[f].holds = "symbols"
          BY <3>2, <3>3, <4>1
      <4> QED BY <3>2, <3>3, <4>2
    <3>4. rows'[f].at <= clock
        BY <1>4, <3>1 DEF PassVouched
    <3> QED BY <1>3, <2>1, <2>2, <3>3, <3>4 DEF FileVouched
  <2>3. CASE g # f
    <3>1. rows'[g] = rows[g]
        BY <1>1, <2>3 DEF GraphInv, GraphTypeOK
    <3> QED BY <1>3, <2>1, <3>1 DEF FileVouched
  <2> QED BY <2>2, <2>3
<1>6. PassVouched(w)'
  <2>1. ASSUME NEW g \in Files PROVE Holding(w, g)' => Holding(w, g)
      BY <1>1, <1>2 DEF Holding
  <2> QED BY <1>1, <1>2, <1>3, <1>4, <2>1 DEF PassVouched, KnowsUnstirred
<1>7. ASSUME NEW v \in Passes, v # w PROVE PassVouched(v)'
    BY <1>2, <1>3, <1>7, PassVouchedStill DEF VouchInv
<1> QED BY <1>5, <1>6, <1>7 DEF VouchInv

\* A pass that becomes idle again knows nothing.
LEMMA IdleVouched ==
    ASSUME NEW w \in Passes, passes'[w] = Idle, clock' \in Nat, edits' \in Nat
    PROVE  PassVouched(w)'
BY DEF PassVouched, KnowsUnstirred, Holding, Idle, Unread, None

LEMMA VouchPrune ==
    ASSUME GraphInv, VouchInv, NEW w \in Passes, Prune(w)
    PROVE  VouchInv'
<1> USE SymbolGraphAssumption
<1>1. UNCHANGED <<clock, disk, edits>> /\ clock \in Nat /\ edits \in Nat /\ stirred \subseteq stirred'
    BY DEF Prune, Stir, GraphInv, GraphTypeOK
<1>2. ASSUME NEW f \in Files PROVE FileVouched(f)'
  <2>1. /\ FileVouched(f) /\ disk[f].version \in 0..MaxEdits
      BY DEF VouchInv, GraphInv, GraphTypeOK
  <2>2. CASE f \in Doomed
    <3>1. nodes'[f] = None /\ rows'[f] = NoRow
        BY <2>2 DEF Prune
    <3> QED BY <1>1, <2>1, <3>1 DEF FileVouched, NoRow, None
  <2>3. CASE f \notin Doomed
    <3>1. nodes'[f] = nodes[f] /\ rows'[f] = rows[f]
        BY <2>3 DEF Prune
    <3> QED BY <1>1, <2>1, <3>1 DEF FileVouched
  <2> QED BY <2>2, <2>3
<1>3. passes'[w] = Idle /\ \A v \in Passes : v # w => passes'[v] = passes[v]
    BY DEF Prune, GraphInv
<1>4. ASSUME NEW v \in Passes, v # w PROVE PassVouched(v)'
  <2>1. PassVouched(v) /\ passes'[v] = passes[v]
      BY <1>3, <1>4 DEF VouchInv
  <2>2. ASSUME NEW f \in Files, f \notin stirred' PROVE KnowsUnstirred(v, f)'
    <3>1. Holding(v, f)' = Holding(v, f)
        BY <2>1 DEF Holding
    <3>2. Holding(v, f) => f \notin Doomed
        BY <2>2 DEF Prune, Stir, Doomed
    <3>3. Holding(v, f) => nodes'[f] = nodes[f]
        BY <3>2 DEF Prune
    <3> QED BY <1>1, <2>1, <2>2, <3>1, <3>3 DEF KnowsUnstirred, PassVouched
  <2> QED BY <1>1, <2>1, <2>2 DEF PassVouched
<1>5. PassVouched(w)'
    BY <1>1, <1>3, IdleVouched
<1> QED BY <1>2, <1>4, <1>5 DEF VouchInv

LEMMA VouchMark ==
    ASSUME GraphInv, VouchInv, NEW f, rows' = rows \/ MarkStale(f),
           UNCHANGED <<clock, disk, edits, nodes, passes, stirred>>
    PROVE  VouchInv'
<1>1. rows \in [Files -> Rows] /\ clock \in Nat
    BY SymbolGraphAssumption DEF GraphInv, GraphTypeOK, Rows
<1>2. ASSUME NEW g \in Files PROVE rows'[g].at = rows[g].at /\ rows'[g].symbols = rows[g].symbols
  <2>1. MarkStale(f) => rows'[g] = rows[g] \/ rows'[g] = [rows[g] EXCEPT !.fresh = FALSE]
      BY <1>1 DEF MarkStale
  <2> QED BY <1>1, <2>1 DEF Rows
<1> QED BY <1>1, <1>2, VouchStill

LEMMA VouchStep == GraphInv /\ VouchInv /\ [GateNext]_<<graphVars, gateOnly>> => VouchInv'
<1> SUFFICES ASSUME GraphInv, VouchInv, [GateNext]_<<graphVars, gateOnly>> PROVE VouchInv'
    OBVIOUS
<1> USE SymbolGraphAssumption
<1>0. /\ clock \in Nat /\ edits \in Nat /\ passes \in [Passes -> PassRecords]
      /\ clock <= clock /\ clock <= clock + 1
    BY DEF GraphInv, GraphTypeOK
<1>1. ASSUME NEW c \in Calls, CallStep(c) PROVE VouchInv'
    BY <1>1, CallTouchesOneRow, VouchMark
<1>2. CASE UNCHANGED graphVars
    BY <1>0, <1>2, VouchStill DEF graphVars
<1>3. CASE Tick \/ GrepStep \/ \E f \in Files : Ignore(f)
    BY <1>0, <1>3, VouchStill DEF Tick, Ignore, GrepStep, StoreSearch, SearchFiles
<1>4. ASSUME NEW f \in Files, EditOutside(f) PROVE VouchInv'
    BY <1>4, VouchChange DEF EditOutside
<1>5. ASSUME NEW w \in Passes, PassStep(w) PROVE VouchInv'
  <2>1. CASE Scan(w) \/ Invalidate(w) \/ PassFails(w)
    <3>1. UNCHANGED <<clock, edits, disk, nodes, rows, stirred>>
        BY <2>1 DEF Scan, Invalidate, PassFails
    <3>2. \A v \in Passes : v # w => passes'[v] = passes[v]
        BY <1>0, <2>1, ScanOrderly DEF Invalidate, PassFails
    <3>3. PassVouched(w)'
      <4>1. CASE Scan(w)
        <5>1. PICK p \in PassRecords :
                  /\ PassIsOrderly(p) /\ passes' = [passes EXCEPT ![w] = p]
                  /\ p.kind = "scan" /\ p.parsed = [f \in Files |-> Unread] /\ p.time = None
                  /\ p.at \in {"apply", "parse"}
            BY <4>1, ScanOrderly
        <5> QED BY <1>0, <3>1, <5>1 DEF PassVouched, KnowsUnstirred, Holding, Unread, None
      <4>2. CASE Invalidate(w) \/ PassFails(w)
          BY <1>0, <3>1, <4>2, IdleVouched DEF Invalidate, PassFails
      <4> QED BY <2>1, <4>1, <4>2
    <3> QED BY <1>0, <3>1, <3>2, <3>3, VouchStill
  <2>2. CASE Parse(w) \/ Apply(w) \/ Stamp(w) \/ Prune(w)
      BY <2>2, VouchParse, VouchApply, VouchStamp, VouchPrune
  <2>3. ASSUME NEW f \in Files, WriteTool(w, f) PROVE VouchInv'
    <3>1. PICK p \in PassRecords :
              /\ PassIsOrderly(p) /\ passes' = [passes EXCEPT ![w] = p]
              /\ p.kind = "hook" /\ p.left = {f} /\ p.time = None
              /\ p.parsed = [g \in Files |-> Unread] /\ p.at = "parse"
        BY <2>3, HookOrderly
    <3>2. PICK content \in Readable : ChangeTo(f, content) /\ clock' = clock /\ edits' = edits + 1
        BY <2>3 DEF WriteTool, ChangeTo
    <3>3. PassVouched(w)'
        BY <1>0, <3>1, <3>2 DEF PassVouched, KnowsUnstirred, Holding, Unread, None
    <3>4. \A v \in Passes : v # w => passes'[v] = passes[v]
        BY <1>0, <3>1
    <3> QED BY <2>3, <3>2, <3>3, <3>4, VouchChange DEF WriteTool
  <2> QED BY <1>5, <2>1, <2>2, <2>3 DEF PassStep
<1> QED BY <1>1, <1>2, <1>3, <1>4, <1>5 DEF GateNext, GraphNext, DiskStep

\* The gate denies a read on the strength of the skeleton only while the skeleton
\* has what the file holds, or one of the four named exceptions applies, for any
\* number of files, calls and overlapping passes.
THEOREM DenialAlwaysVouched == GateSpec => DenialIsVouched
<1> DEFINE Vouched(c) ==
        calls[c].at = "stat" /\ calls'[c].at = "check" =>
            LET f == calls[c].file
            IN  \/ SkeletonIsCurrent(f) \/ disk[f].holds = "absent"
                \/ rows[f] # calls[c].row \/ WithinMargin(c) \/ f \in stirred
<1>1. ASSUME GraphInv, CallInv, VouchInv, [GateNext]_<<graphVars, gateOnly>>, NEW c \in Calls
      PROVE  Vouched(c)
  <2> DEFINE f == calls[c].file
  <2> SUFFICES ASSUME calls[c].at = "stat", calls'[c].at = "check",
                      disk[f].holds # "absent", rows[f] = calls[c].row, f \notin stirred, ~WithinMargin(c)
               PROVE  SkeletonIsCurrent(f)
      OBVIOUS
  <2>1. /\ f \in Files /\ calls \in [Calls -> CallRecords] /\ rows[f].symbols /\ FileVouched(f)
        /\ rows[f].at \in Times /\ disk[f].mtime \in 1..MaxTime
      BY <1>1 DEF CallInv, CallIsSound, VouchInv, GraphInv, GraphTypeOK
  <2>2. PICK d \in Calls : CallStep(d)
      BY <1>1 DEF GateNext, gateOnly
  <2>3. d = c
      BY <2>1, <2>2 DEF CallStep, Ask, CheckReread, CheckRow, CheckDisk, CheckDenial, Clear, Record,
                        FailOpen, Body, RecordRead, Move, End
  <2>4. CheckDisk(c) \/ FailOpen(c)
      BY <2>2, <2>3 DEF CallStep, Ask, CheckReread, CheckRow, CheckDenial, Clear, Record, Body, RecordRead
  <2>5. ~ChangedSinceScan(c)
      BY <2>1, <2>4 DEF CheckDisk, FailOpen, Move, CallRecords
  <2>6. ~(disk[f].mtime > rows[f].at + Margin)
      BY <2>5 DEF ChangedSinceScan
  <2>7. disk[f].mtime < rows[f].at
      BY <2>1, <2>6, ReadGateAssumption, SymbolGraphAssumption DEF WithinMargin, Times, None
  <2> QED
      BY <2>1, <2>7 DEF FileVouched, SkeletonIsCurrent
<1>2. GraphInv /\ CallInv /\ VouchInv /\ [GateNext]_<<graphVars, gateOnly>>
        => [\A c \in Calls : Vouched(c)]_<<graphVars, gateOnly>>
    BY <1>1
<1>3. GraphInit => VouchInv
    BY VouchInitially
<1> QED BY <1>2, <1>3, CallInvKept, VouchStep, PTL DEF GateSpec, DenialIsVouched
=============================================================================
