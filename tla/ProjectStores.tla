---------------------------- MODULE ProjectStores ----------------------------
(***************************************************************************)
(* Which store a working directory belongs to: storage/connection.py and   *)
(* init_project.                                                           *)
(*                                                                         *)
(* A store is a file named by the hash of a path; it records the root of   *)
(* the repository its first user stood in.  An existing store of the       *)
(* repository's root goes first, then the directory's own, then one whose  *)
(* recorded path is the same place seen through another mount.  Roots are  *)
(* cached per process; recorded paths are cached in a file beside the      *)
(* stores, valid as long as a store's file is unchanged.  What a process   *)
(* writes reaches that file when it closes the store.                      *)
(*                                                                         *)
(* A directory is a place seen through a mount, <<place, mount>>; TheRoot  *)
(* is the place that holds the others.                                     *)
(***************************************************************************)
EXTENDS Integers, Sequences, FiniteSets, SequencesExt

CONSTANTS Users,      \* processes that resolve a project and open its store
          Dirs,       \* the directories work is done in, as <<place, mount>>
          FileNames,  \* the ids of all stores, in the order of their file names
          MaxOpens    \* bound: times a store is opened

TheRoot == "root"
Mounts  == {d[2] : d \in Dirs}
ASSUME StoresAssumption ==
    /\ MaxOpens \in Nat /\ \A d \in Dirs : d[1] # "none"
    /\ FileNames \in Seq(Dirs \cup {<<TheRoot, m>> : m \in Mounts})
    /\ IsInjective(FileNames)
    /\ ToSet(FileNames) = Dirs \cup {<<TheRoot, m>> : m \in Mounts}

VARIABLES git,     \* whether the root holds a .git entry
          stores,  \* the files: whether each exists, its recorded path, the version
                   \*   on disk, whether it was ever closed
          index,   \* _path_keys.json: per store the version it was read at and the key
          roots,   \* _ROOT_CACHE of each process
          users,   \* where each process is, for which directory, with which store
          worked,  \* history: the places a store was opened for
          hurried, \* history: stores begun while one of the place was unfinished
          opens
storeVars == <<git, stores, index, roots, users, worked, hurried, opens>>

Unknown   == <<"none", "none">>
NoStore   == [exists |-> FALSE, path |-> Unknown, version |-> 0, closed |-> FALSE]
Idling    == [at |-> "idle", dir |-> Unknown, store |-> Unknown]
Ids       == ToSet(FileNames)
Existing  == {s \in Ids : stores[s].exists}

\* normalized_project_path_key: the place, whatever the mount.
Key(path) == path[1]

\* project_root: the cached answer of this process, or what is on the disk now.
RootNow(d)      == IF git THEN <<TheRoot, d[2]>> ELSE d
RootOf(u, d)    == IF roots[u][d] # Unknown THEN roots[u][d] ELSE RootNow(d)

\* An index entry holds as long as the file has not changed since.
HoldsAnyway(s) == index[s].version > 0                             \* mutated form
Holds(s)       == index[s].version = stores[s].version
KeyOf(s)       == IF Holds(s) THEN index[s].key ELSE Key(stores[s].path)

\* _find_equivalent_project_id: the first by file name, and what was read on the way.
Equivalent(d) == {s \in Existing : KeyOf(s) = Key(d)}
FirstOf(S)    == FileNames[CHOOSE i \in DOMAIN FileNames :
                              FileNames[i] \in S /\ \A j \in 1..(i - 1) : FileNames[j] \notin S]
Position(s)   == CHOOSE i \in DOMAIN FileNames : FileNames[i] = s
Scanned(d)    == IF Equivalent(d) = {} THEN Existing
                 ELSE {s \in Existing : Position(s) <= Position(FirstOf(Equivalent(d)))}

\* resolve_project_id when no store fits: at the path, never at the repository's root.
NewAtRoot(u, d) == RootOf(u, d)                                    \* mutated form
NewAtPath(u, d) == d

Anchored(u, d) == RootOf(u, d) \in Existing
Own(d)         == d \in Existing

Found(u, d) ==
    IF Anchored(u, d) THEN RootOf(u, d)
    ELSE IF Own(d) THEN d
    ELSE IF Equivalent(d) # {} THEN FirstOf(Equivalent(d))
    ELSE NewAtPath(u, d)

\* A store of the place is being opened, or was left before its file told its path.
Unfinished(u, place) ==
    \/ \E v \in Users \ {u} : users[v].at # "idle" /\ Key(users[v].dir) = place
    \/ \E s \in Existing : Key(s) = place /\ ~stores[s].closed

StoresInit ==
    /\ git \in BOOLEAN
    /\ stores = [s \in Ids |-> NoStore]
    /\ index = [s \in Ids |-> [version |-> 0, key |-> Key(Unknown)]]
    /\ roots = [u \in Users |-> [d \in Dirs |-> Unknown]]
    /\ users = [u \in Users |-> Idling]
    /\ worked = [s \in Ids |-> {}]
    /\ hurried = {} /\ opens = 0

GitInit ==
    /\ ~git /\ git' = TRUE
    /\ UNCHANGED <<stores, index, roots, users, worked, hurried, opens>>

Resolve(u) ==
    /\ users[u].at = "idle" /\ opens < MaxOpens
    /\ opens' = opens + 1
    /\ \E d \in Dirs :
          /\ roots' = [roots EXCEPT ![u][d] = RootOf(u, d)]
          /\ users' = [users EXCEPT ![u] = [at |-> "open", dir |-> d, store |-> Found(u, d)]]
          /\ index' = IF Anchored(u, d) \/ Own(d) THEN index
                      ELSE [s \in Ids |-> IF s \in Scanned(d) /\ ~Holds(s)
                                          THEN [version |-> stores[s].version, key |-> Key(stores[s].path)]
                                          ELSE index[s]]
          /\ hurried' = IF Unfinished(u, Key(d)) THEN hurried \cup {Found(u, d)} ELSE hurried
    /\ UNCHANGED <<git, stores, worked>>

\* get_connection creates the file, if there is none.
OpenStore(u) ==
    /\ users[u].at = "open"
    /\ users' = [users EXCEPT ![u].at = "record"]
    /\ stores' = [stores EXCEPT ![users[u].store] =
                     IF @.exists THEN @ ELSE [@ EXCEPT !.exists = TRUE, !.version = 1]]
    /\ worked' = [worked EXCEPT ![users[u].store] = @ \cup {Key(users[u].dir)}]
    /\ UNCHANGED <<git, index, roots, hurried, opens>>

\* init_project records the repository's root, whatever directory the store is of.
Record(u) ==
    /\ users[u].at = "record"
    /\ users' = [users EXCEPT ![u].at = "close"]
    /\ stores' = [stores EXCEPT ![users[u].store].path = RootOf(u, users[u].dir)]
    /\ UNCHANGED <<git, index, roots, worked, hurried, opens>>

\* The last to close a store checkpoints it: only then does the file change.
Close(u) ==
    /\ users[u].at = "close"
    /\ users' = [users EXCEPT ![u] = Idling]
    /\ stores' = IF \E v \in Users \ {u} : users[v].at # "idle" /\ users[v].store = users[u].store
                 THEN stores
                 ELSE [stores EXCEPT ![users[u].store].version = @ + 1,
                                 ![users[u].store].closed = TRUE]
    /\ UNCHANGED <<git, index, roots, worked, hurried, opens>>

\* The process ends, or is killed wherever it is.
Restart(u) ==
    /\ roots[u] # [d \in Dirs |-> Unknown]
    /\ users' = [users EXCEPT ![u] = Idling]
    /\ roots' = [roots EXCEPT ![u] = [d \in Dirs |-> Unknown]]
    /\ UNCHANGED <<git, stores, index, worked, hurried, opens>>

UserStep(u) == Resolve(u) \/ OpenStore(u) \/ Record(u) \/ Close(u) \/ Restart(u)
StoresNext == GitInit \/ \E u \in Users : UserStep(u)
StoresSpec == StoresInit /\ [][StoresNext]_storeVars
-----------------------------------------------------------------------------
StoresTypeOK ==
    /\ \A s \in Ids : /\ stores[s].path \in Ids \cup {Unknown}
                      /\ index[s].version <= stores[s].version
    /\ \A u \in Users : users[u].at \in {"idle", "open", "record", "close"}
    /\ opens \in 0..MaxOpens

\* Anchoring redirects into a store of the root that exists and never creates one
\* (connection.py:155-166): a store's place is one somebody worked in, so that an
\* unrelated repository further up collects nothing.
StoreHasItsOwn == \A s \in Ids : worked[s] # {} => Key(s) \in worked[s]

\* One checkout seen through two mounts has one store, however the index was
\* filled, unless the second was begun while the first was still being opened or
\* had been left by a kill before its file told its path.
OneStorePerCheckout ==
    \A s, t \in Existing :
        s # t /\ Key(s) = Key(t) => \/ {s, t} \cap hurried # {}
                                    \/ git

\* "the safe reading is that they are separate" (connection.py:166): two directories
\* share a store only if it is the one of the repository's root.
ProjectsStaySeparate ==
    \A s \in Ids : Cardinality(worked[s]) > 1 => Key(s) = TheRoot

\* The stores a path may resolve to are told apart as they should be, up to
\* ProjectsStaySeparate.
StoresAreFound == StoresTypeOK /\ StoreHasItsOwn /\ OneStorePerCheckout
=============================================================================
