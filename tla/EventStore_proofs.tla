-------------------------- MODULE EventStore_proofs --------------------------
(***************************************************************************)
(* Proofs about the event store, for any statements, batches, sessions,    *)
(* retries, failures and calls of the API.                                 *)
(*                                                                         *)
(* The writes of a merge are loops, so a table is followed turn by turn:   *)
(* each write is shown to keep a table Sane, and LoopInduction carries     *)
(* that over the turns.  A chain of links is the least closed set around   *)
(* its first row, because the walk stops growing within as many steps as   *)
(* there are rows; so a circle is excluded by any closed set that holds    *)
(* the successor and not the row, and the refusal in set_superseded_by is  *)
(* exactly what provides one.  What a process has read before its first    *)
(* write is an assumption about the store: others may change the store     *)
(* meanwhile, and the pairs of echoes that this lets in are carried along. *)
(***************************************************************************)
EXTENDS EventStore, FiniteSetTheorems, SequenceTheorems, WellFoundedInduction, NaturalsInduction, TLAPS

-----------------------------------------------------------------------------
\* Loops.

\* Every nonempty set of naturals has a least element.
LEMMA LeastExists ==
    ASSUME NEW S \in SUBSET Nat, S # {}
    PROVE  \E m \in S : \A j \in S : m <= j
<1> DEFINE R == OpToRel(<, Nat)
<1>1. PICK m \in S : \A j \in S : ~(<<j, m>> \in R)
  <2>1. IsWellFoundedOn(R, Nat)
      BY NatLessThanWellFounded
  <2> HIDE DEF R
  <2> QED BY <2>1, WFMin
<1>2. \A j \in S : m <= j
  <2> SUFFICES ASSUME NEW j \in S PROVE m <= j
      OBVIOUS
  <2>1. ~(j < m)
      BY <1>1 DEF OpToRel
  <2> QED BY <2>1
<1> QED BY <1>2

\* What holds before a loop and is kept by each turn holds all along.
LEMMA LoopInduction ==
    ASSUME NEW n \in Nat, NEW P, 0 \in P, \A i \in 1..n : i - 1 \in P => i \in P
    PROVE  \A i \in 0..n : i \in P
<1> DEFINE Bad == {i \in 0..n : i \notin P}
<1>1. SUFFICES ASSUME Bad # {} PROVE FALSE
    OBVIOUS
<1>2. PICK m \in Bad : \A i \in Bad : m <= i
  <2>1. Bad \in SUBSET Nat
      OBVIOUS
  <2> HIDE DEF Bad
  <2> QED BY <1>1, <2>1, LeastExists
<1>3. m \in 0..n /\ m \notin P
    OBVIOUS
<1>4. m # 0 /\ m \in 1..n /\ m - 1 \in 0..n /\ ~(m <= m - 1)
    BY <1>3
<1>5. m - 1 \notin Bad
  <2> HIDE DEF Bad
  <2> QED BY <1>2, <1>4
<1> QED BY <1>3, <1>4, <1>5

\* The states of a loop that starts in b and whose turn i leads from a to F[<<a, i>>].
IsLoop(n, b, F, f) ==
    /\ f = [i \in 0..n |-> f[i]]
    /\ f[0] = b
    /\ \A i \in 1..n : f[i] = F[<<f[i - 1], i>>]

\* A loop whose turns are defined on S runs.
LEMMA LoopExists ==
    ASSUME NEW n \in Nat, NEW S, NEW b \in S, NEW F \in [S \X (1..n) -> S]
    PROVE  \E f \in [0..n -> S] : IsLoop(n, b, F, f)
<1> DEFINE P == {k \in 0..n : \E f \in [0..k -> S] : IsLoop(k, b, F, f)}
<1>1. 0 \in P
  <2>0. 0 \in 0..n
      OBVIOUS
  <2> DEFINE f == [i \in 0..0 |-> b]
  <2>1. f \in [0..0 -> S] /\ f = [i \in 0..0 |-> f[i]] /\ f[0] = b /\ 1..0 = {}
      OBVIOUS
  <2> HIDE DEF f
  <2> QED BY <2>0, <2>1 DEF IsLoop
<1>2. ASSUME NEW k \in 1..n, k - 1 \in P PROVE k \in P
  <2>1. PICK f \in [0..k - 1 -> S] : IsLoop(k - 1, b, F, f)
      BY <1>2
  <2>2. k - 1 \in 0..k - 1 /\ 0 \in 0..k - 1 /\ k \in 0..n /\ k \in 0..k
        /\ \A i \in 0..k - 1 : i # k /\ i \in 0..k
      OBVIOUS
  <2> DEFINE g == [i \in 0..k |-> IF i = k THEN F[<<f[k - 1], k>>] ELSE f[i]]
  <2>3. g = [i \in 0..k |-> g[i]] /\ g[k] = F[<<f[k - 1], k>>]
        /\ \A i \in 0..k - 1 : g[i] = f[i]
      BY <2>2
  <2>4. f[k - 1] \in S
      BY <2>2
  <2>5. F[<<f[k - 1], k>>] \in S
      BY <2>4
  <2>6. g \in [0..k -> S]
    <3> SUFFICES ASSUME NEW i \in 0..k PROVE (IF i = k THEN F[<<f[k - 1], k>>] ELSE f[i]) \in S
        OBVIOUS
    <3>1. i # k => i \in 0..k - 1
        OBVIOUS
    <3> QED BY <2>5, <3>1
  <2> HIDE DEF g
  <2>7. g[0] = b
      BY <2>1, <2>2, <2>3 DEF IsLoop
  <2>8. ASSUME NEW i \in 1..k PROVE g[i] = F[<<g[i - 1], i>>]
    <3>1. i - 1 \in 0..k - 1 /\ (i # k => i \in 0..k - 1 /\ i \in 1..k - 1)
        OBVIOUS
    <3>2. CASE i = k
        BY <2>3, <3>1, <3>2
    <3>3. CASE i # k
        BY <2>1, <2>3, <3>1, <3>3 DEF IsLoop
    <3> QED BY <3>2, <3>3
  <2>9. IsLoop(k, b, F, g)
      BY <2>3, <2>7, <2>8 DEF IsLoop
  <2> QED BY <2>2, <2>6, <2>9
<1>3. n \in 0..n
    OBVIOUS
<1>4. n \in P
  <2> HIDE DEF P
  <2> QED BY <1>1, <1>2, <1>3, LoopInduction
<1> QED BY <1>4

-----------------------------------------------------------------------------
\* Chains of superseded rows.

\* Links lead from stored rows to stored rows.
Linkage(rs) ==
    /\ Stored(rs) \subseteq Statements
    /\ \A x \in Stored(rs) : rs[x].by \in Stored(rs) \cup {None}

Closed(rs, C) == \A y \in C : rs[y].by # None => rs[y].by \in C

\* The walk as a loop: it collects stored rows, and each turn adds the successors.
IsWalk(rs, x, f) ==
    /\ f[0] = {x}
    /\ \A i \in 1..Cardinality(Stored(rs)) :
          f[i] = f[i - 1] \cup ({rs[y].by : y \in f[i - 1]} \ {None})

LEMMA StoredFinite ==
    ASSUME NEW rs, Stored(rs) \subseteq Statements
    PROVE  IsFiniteSet(Stored(rs)) /\ Cardinality(Stored(rs)) \in Nat
BY StoreAssumption, FS_Subset, FS_CardinalityType

LEMMA WalkExists ==
    ASSUME NEW rs, Linkage(rs), NEW x \in Stored(rs)
    PROVE  \E f : Chain(rs, x) = f[Cardinality(Stored(rs))] /\ IsWalk(rs, x, f)
<1> DEFINE N == Cardinality(Stored(rs))
           Next1(Y) == Y \cup ({rs[y].by : y \in Y} \ {None})
           Body(f, n) == IF n = 0 THEN {x} ELSE Next1(f[n - 1])
           Is(f) == f = [n \in 0..N |-> Body(f, n)]
           S == SUBSET Stored(rs)
           F == [p \in S \X (1..N) |-> Next1(p[1])]
<1>1. N \in Nat
    BY StoredFinite DEF Linkage
<1>2. F \in [S \X (1..N) -> S] /\ \A Y \in S, i \in 1..N : F[<<Y, i>>] = Next1(Y)
  <2>1. \A Y \in S : Next1(Y) \in S
      BY DEF Linkage
  <2> HIDE DEF Next1, S, N
  <2> QED BY <2>1
<1>3. {x} \in S
    OBVIOUS
<1> HIDE DEF N, F, S
<1>4. PICK f \in [0..N -> S] : IsLoop(N, {x}, F, f)
    BY <1>1, <1>2, <1>3, LoopExists
<1> HIDE DEF Next1
<1>5. \A n \in 0..N : f[n] = Body(f, n)
  <2> SUFFICES ASSUME NEW n \in 0..N PROVE f[n] = Body(f, n)
      OBVIOUS
  <2>1. CASE n = 0
      BY <1>4, <2>1 DEF IsLoop
  <2>2. CASE n # 0
    <3>1. n \in 1..N /\ n - 1 \in 0..N
        BY <1>1, <2>2
    <3>2. f[n] = F[<<f[n - 1], n>>] /\ f[n - 1] \in S
        BY <1>4, <3>1 DEF IsLoop
    <3> QED BY <1>2, <2>2, <3>1, <3>2
  <2> QED BY <2>1, <2>2
<1> HIDE DEF Body
<1>6. Is(f)
  <2>1. f = [n \in 0..N |-> f[n]]
      BY <1>4 DEF IsLoop
  <2>2. [n \in 0..N |-> f[n]] = [n \in 0..N |-> Body(f, n)]
      BY <1>5
  <2> QED BY <2>1, <2>2
<1> DEFINE g == CHOOSE h : Is(h)
<1>7. Is(g)
  <2> HIDE DEF Is
  <2> QED BY <1>6
<1>8. Chain(rs, x) = g[N]
    BY DEF Chain, N, Is, Body, Next1
<1> HIDE DEF g
<1>9. \A n \in 0..N : g[n] = Body(g, n)
    BY <1>7
<1>10. 0 \in 0..N /\ \A n \in 1..N : n \in 0..N /\ n # 0
    BY <1>1
<1>11. IsWalk(rs, x, g)
    BY <1>9, <1>10 DEF IsWalk, Body, Next1, N
<1> QED BY <1>8, <1>11 DEF N

\* The walk stays on stored rows and loses none.
LEMMA WalkGrows ==
    ASSUME NEW rs, Linkage(rs), NEW x \in Stored(rs), NEW f, IsWalk(rs, x, f)
    PROVE  /\ \A i \in 0..Cardinality(Stored(rs)) : f[i] \subseteq Stored(rs) /\ x \in f[i]
           /\ \A i \in 1..Cardinality(Stored(rs)) :
                 /\ f[i - 1] \subseteq f[i]
                 /\ \A y \in f[i - 1] : rs[y].by # None => rs[y].by \in f[i]
                 /\ Closed(rs, f[i - 1]) => f[i] = f[i - 1]
<1> DEFINE N == Cardinality(Stored(rs))
           P == {i \in 0..N : f[i] \subseteq Stored(rs) /\ x \in f[i]}
<1>1. N \in Nat
    BY StoredFinite DEF Linkage
<1>2. \A i \in 1..N : f[i] = f[i - 1] \cup ({rs[y].by : y \in f[i - 1]} \ {None})
    BY DEF IsWalk
<1>3. 0 \in P
  <2>1. 0 \in 0..N
      BY <1>1
  <2> QED BY <2>1 DEF IsWalk
<1>4. ASSUME NEW i \in 1..N, i - 1 \in P PROVE i \in P
  <2>1. i \in 0..N
      BY <1>1
  <2> QED BY <1>2, <1>4, <2>1 DEF Linkage
<1>5. \A i \in 0..N : i \in P
  <2> HIDE DEF P, N
  <2> QED BY <1>1, <1>3, <1>4, LoopInduction
<1>6. \A i \in 0..N : f[i] \subseteq Stored(rs) /\ x \in f[i]
    BY <1>5
<1>7. ASSUME NEW i \in 1..N
      PROVE  /\ f[i - 1] \subseteq f[i]
             /\ \A y \in f[i - 1] : rs[y].by # None => rs[y].by \in f[i]
             /\ Closed(rs, f[i - 1]) => f[i] = f[i - 1]
  <2>1. f[i] = f[i - 1] \cup ({rs[y].by : y \in f[i - 1]} \ {None})
      BY <1>2
  <2>2. ASSUME Closed(rs, f[i - 1]) PROVE {rs[y].by : y \in f[i - 1]} \ {None} \subseteq f[i - 1]
      BY <2>2 DEF Closed
  <2> QED BY <2>1, <2>2
<1> QED BY <1>6, <1>7

\* A chain has its row and with a row its successor, and is the least such set: the
\* walk takes as many turns as there are rows, and until it is closed each one adds one.
LEMMA ChainProperties ==
    ASSUME NEW rs, Linkage(rs), NEW x \in Stored(rs)
    PROVE  /\ Chain(rs, x) \subseteq Stored(rs) /\ x \in Chain(rs, x)
           /\ Closed(rs, Chain(rs, x))
           /\ \A C : x \in C /\ Closed(rs, C) => Chain(rs, x) \subseteq C
<1> DEFINE N == Cardinality(Stored(rs))
<1>1. N \in Nat /\ IsFiniteSet(Stored(rs)) /\ N \in 0..N /\ 0 \in 0..N
    BY StoredFinite DEF Linkage
<1>2. PICK f : Chain(rs, x) = f[N] /\ IsWalk(rs, x, f)
    BY WalkExists
<1>3. /\ \A i \in 0..N : f[i] \subseteq Stored(rs) /\ x \in f[i]
      /\ \A i \in 1..N : /\ f[i - 1] \subseteq f[i]
                         /\ \A y \in f[i - 1] : rs[y].by # None => rs[y].by \in f[i]
                         /\ Closed(rs, f[i - 1]) => f[i] = f[i - 1]
    BY <1>2, WalkGrows
<1>4. \A i \in 1..N : i \in 0..N /\ i - 1 \in 0..N
    BY <1>1
<1>5. Closed(rs, f[N])
  <2> DEFINE P == {i \in 0..N : Closed(rs, f[i]) \/ Cardinality(f[i]) > i}
  <2>1. \A i \in 0..N : IsFiniteSet(f[i]) /\ Cardinality(f[i]) \in Nat /\ Cardinality(f[i]) <= N
      BY <1>1, <1>3, FS_Subset, FS_CardinalityType
  <2>2. 0 \in P
    <3>1. Cardinality(f[0]) = 1
        BY <1>2, FS_Singleton DEF IsWalk
    <3> QED BY <1>1, <3>1
  <2>3. ASSUME NEW i \in 1..N, i - 1 \in P PROVE i \in P
    <3>0. i \in 0..N /\ i - 1 \in 0..N
        BY <1>4
    <3>1. CASE Closed(rs, f[i - 1])
        BY <1>3, <3>0, <3>1
    <3>2. CASE ~Closed(rs, f[i - 1])
      <4>1. Cardinality(f[i - 1]) > i - 1
          BY <2>3, <3>2
      <4>2. f[i - 1] # f[i] /\ f[i - 1] \subseteq f[i]
          BY <1>3, <3>2 DEF Closed
      <4>3. Cardinality(f[i - 1]) <= Cardinality(f[i]) /\ Cardinality(f[i - 1]) # Cardinality(f[i])
          BY <2>1, <3>0, <4>2, FS_Subset
      <4>4. Cardinality(f[i]) \in Nat /\ Cardinality(f[i - 1]) \in Nat
          BY <2>1, <3>0
      <4>5. Cardinality(f[i]) > i
          BY <4>1, <4>3, <4>4
      <4> QED BY <3>0, <4>5
    <3> QED BY <3>1, <3>2
  <2>4. \A i \in 0..N : i \in P
    <3> HIDE DEF P, N
    <3> QED BY <1>1, <2>2, <2>3, LoopInduction
  <2>5. N \in P
      BY <1>1, <2>4
  <2>6. ~(Cardinality(f[N]) > N)
      BY <1>1, <2>1
  <2> QED BY <2>5, <2>6
<1>6. ASSUME NEW C, x \in C, Closed(rs, C) PROVE f[N] \subseteq C
  <2> DEFINE P == {i \in 0..N : f[i] \subseteq C}
  <2>1. 0 \in P
      BY <1>1, <1>2, <1>6 DEF IsWalk
  <2>2. ASSUME NEW i \in 1..N, i - 1 \in P PROVE i \in P
      BY <1>2, <1>4, <1>6, <2>2 DEF IsWalk, Closed
  <2>3. \A i \in 0..N : i \in P
    <3> HIDE DEF P, N
    <3> QED BY <1>1, <2>1, <2>2, LoopInduction
  <2> QED BY <1>1, <2>3
<1> QED BY <1>1, <1>2, <1>3, <1>5, <1>6

\* No row is its own successor (Acyclic, of any table).
Acyc(rs) == \A x \in Stored(rs) : rs[x].by = None \/ x \notin Chain(rs, rs[x].by)

\* It is enough to have some closed set around the successor and without the row.
LEMMA AcycBySeparation ==
    ASSUME NEW rs, Linkage(rs),
           \A x \in Stored(rs) : rs[x].by # None =>
               \E C \in SUBSET Stored(rs) : Closed(rs, C) /\ rs[x].by \in C /\ x \notin C
    PROVE  Acyc(rs)
<1> SUFFICES ASSUME NEW x \in Stored(rs), rs[x].by # None PROVE x \notin Chain(rs, rs[x].by)
    BY DEF Acyc
<1>1. PICK C \in SUBSET Stored(rs) : Closed(rs, C) /\ rs[x].by \in C /\ x \notin C
    OBVIOUS
<1>2. rs[x].by \in Stored(rs)
    BY DEF Linkage
<1> QED BY <1>1, <1>2, ChainProperties

\* New rows, and changes of anything but the links, close no circle.
LEMMA SameLinksKeep ==
    ASSUME NEW rs, NEW rt, Linkage(rs), Acyc(rs),
           Stored(rs) \subseteq Stored(rt), Stored(rt) \subseteq Statements,
           \A x \in Stored(rs) : rt[x].by = rs[x].by,
           \A x \in Stored(rt) \ Stored(rs) : rt[x].by = None
    PROVE  Linkage(rt) /\ Acyc(rt)
<1>1. Linkage(rt)
    BY DEF Linkage
<1>2. ASSUME NEW x \in Stored(rt), rt[x].by # None
      PROVE  \E C \in SUBSET Stored(rt) : Closed(rt, C) /\ rt[x].by \in C /\ x \notin C
  <2> DEFINE C == Chain(rs, rs[x].by)
  <2>1. x \in Stored(rs) /\ rt[x].by = rs[x].by /\ rs[x].by \in Stored(rs)
      BY <1>2 DEF Linkage
  <2>2. C \subseteq Stored(rs) /\ rs[x].by \in C /\ Closed(rs, C)
      BY <2>1, ChainProperties
  <2>3. x \notin C
      BY <1>2, <2>1 DEF Acyc
  <2> HIDE DEF C
  <2>4. Closed(rt, C)
      BY <2>2 DEF Closed
  <2> QED BY <2>1, <2>2, <2>3, <2>4
<1> QED BY <1>1, <1>2, AcycBySeparation

\* Rows that are not on the chain of new may all be linked to it.
LEMMA LinksKeep ==
    ASSUME NEW rs, NEW rt, Linkage(rs), Acyc(rs), NEW new \in Stored(rs), NEW D,
           Stored(rt) = Stored(rs), D \cap Chain(rs, new) = {},
           \A x \in Stored(rs) : rt[x].by = IF x \in D THEN new ELSE rs[x].by
    PROVE  Linkage(rt) /\ Acyc(rt)
<1> DEFINE C == Chain(rs, new)
<1>1. Linkage(rt)
    BY DEF Linkage
<1>2. C \subseteq Stored(rs) /\ new \in C /\ Closed(rs, C) /\ D \cap C = {}
    BY ChainProperties
<1>3. \A B : new \in B /\ Closed(rs, B) => C \subseteq B
    BY ChainProperties
<1>4. ASSUME NEW x \in Stored(rs), x \notin D, rs[x].by # None
      PROVE  \E B \in SUBSET Stored(rs) : Closed(rt, B) /\ rs[x].by \in B /\ x \notin B
  <2> DEFINE A == Chain(rs, rs[x].by)
  <2>1. rs[x].by \in Stored(rs)
      BY <1>4 DEF Linkage
  <2>2. A \subseteq Stored(rs) /\ rs[x].by \in A /\ Closed(rs, A)
        /\ \A B : rs[x].by \in B /\ Closed(rs, B) => A \subseteq B
      BY <2>1, ChainProperties
  <2>3. x \notin A
      BY <1>4 DEF Acyc
  <2> HIDE DEF A, C
  <2>4. CASE A \cap D = {}
    <3>1. Closed(rt, A)
        BY <2>2, <2>4 DEF Closed
    <3> QED BY <2>2, <2>3, <3>1
  <2>5. CASE A \cap D # {}
    <3>1. Closed(rt, A \cup C)
        BY <1>2, <2>2 DEF Closed
    <3>2. x \notin C
      <4>1. SUFFICES ASSUME x \in C PROVE FALSE
          OBVIOUS
      <4>2. rs[x].by \in C
          BY <1>2, <1>4, <4>1 DEF Closed
      <4>3. A \subseteq C
          BY <1>2, <2>2, <4>2
      <4> QED BY <1>2, <2>5, <4>3
    <3> QED BY <1>2, <2>2, <2>3, <3>1, <3>2
  <2> QED BY <2>4, <2>5
<1>5. ASSUME NEW x \in Stored(rs), rt[x].by # None
      PROVE  \E B \in SUBSET Stored(rs) : Closed(rt, B) /\ rt[x].by \in B /\ x \notin B
  <2>1. CASE x \in D
    <3> HIDE DEF C
    <3>1. Closed(rt, C)
        BY <1>2 DEF Closed
    <3> QED BY <1>2, <2>1, <3>1
  <2>2. CASE x \notin D
    <3>1. rt[x].by = rs[x].by
        BY <2>2
    <3> QED BY <1>4, <1>5, <2>2, <3>1
  <2> QED BY <2>1, <2>2
<1> QED BY <1>1, <1>5, AcycBySeparation

\* A chain comes to an end: of its rows, the one with the fewest after it is the last.
LEMMA ChainEnds ==
    ASSUME NEW rs, Linkage(rs), Acyc(rs), NEW x \in Stored(rs)
    PROVE  \E y \in Chain(rs, x) : rs[y].by = None
<1> DEFINE C == Chain(rs, x)
           Size(y) == Cardinality(Chain(rs, y))
           S == {n \in Nat : \E y \in C : Size(y) = n}
<1>1. C \subseteq Stored(rs) /\ x \in C /\ Closed(rs, C)
    BY ChainProperties
<1> HIDE DEF C
<1>2. \A y \in Stored(rs) : IsFiniteSet(Chain(rs, y)) /\ Size(y) \in Nat
    BY StoredFinite, ChainProperties, FS_Subset, FS_CardinalityType DEF Linkage
<1>3. S # {}
    BY <1>1, <1>2
<1>4. PICK m \in S : \A j \in S : m <= j
  <2>1. S \in SUBSET Nat
      OBVIOUS
  <2> HIDE DEF S
  <2> QED BY <1>3, <2>1, LeastExists
<1>5. PICK y \in C : Size(y) = m
    OBVIOUS
<1>6. ASSUME rs[y].by # None PROVE FALSE
  <2> DEFINE z == rs[y].by
  <2>1. y \in Stored(rs) /\ z \in C /\ z \in Stored(rs)
      BY <1>1, <1>6 DEF Closed
  <2>2. y \in Chain(rs, y) /\ z \in Chain(rs, y) /\ Closed(rs, Chain(rs, y))
      BY <1>6, <2>1, ChainProperties DEF Closed
  <2>3. y \notin Chain(rs, z)
      BY <1>6, <2>1 DEF Acyc
  <2>4. Chain(rs, z) \subseteq Chain(rs, y)
      BY <2>1, <2>2, ChainProperties
  <2> HIDE DEF z
  <2>5. Size(z) <= Size(y) /\ Size(z) # Size(y)
      BY <1>2, <2>1, <2>2, <2>3, <2>4, FS_Subset
  <2>6. Size(z) \in S
      BY <1>2, <2>1
  <2>7. m <= Size(z)
    <3> HIDE DEF S
    <3> QED BY <1>4, <2>6
  <2>8. Size(y) \in Nat /\ Size(z) \in Nat
      BY <1>2, <2>1
  <2> QED BY <1>5, <2>5, <2>7, <2>8
<1> QED BY <1>5, <1>6 DEF C

-----------------------------------------------------------------------------
\* What the links leave alone.

Tables == UNION {[D -> Row] : D \in SUBSET Statements}

\* q is r, but perhaps for the link.
Unlinked(r, q) ==
    /\ q.id = r.id /\ q.session = r.session /\ q.created = r.created /\ q.auth = r.auth
    /\ q.weight = r.weight /\ q.mention = r.mention /\ q.archived = r.archived /\ q.ev = r.ev

\* A table whose links close no circle.
Linked(rs) == rs \in [Stored(rs) -> Row] /\ Linkage(rs) /\ Acyc(rs)

\* rt is rs with links set, a handoff's only to a handoff.
Relinked(rs, rt) ==
    /\ Linked(rt)
    /\ Stored(rt) = Stored(rs)
    /\ \A x \in Stored(rs) :
          /\ Unlinked(rs[x], rt[x])
          /\ \/ rt[x].by = rs[x].by
             \/ rt[x].by \in Stored(rs) /\ (x \in Handoffs => rt[x].by \in Handoffs)

LEMMA RelinkedSelf == ASSUME NEW rs, Linked(rs) PROVE Relinked(rs, rs)
BY DEF Relinked, Unlinked

LEMMA RelinkedAgain ==
    ASSUME NEW rs, NEW rt, NEW ru, Relinked(rs, rt), Relinked(rt, ru)
    PROVE  Relinked(rs, ru)
BY DEF Relinked, Unlinked

\* A row with a new link is a row.
LEMMA RowLinked ==
    ASSUME NEW r \in Row, NEW y \in Statements
    PROVE  /\ [r EXCEPT !.by = y] \in Row /\ [r EXCEPT !.by = y].by = y
           /\ Unlinked(r, [r EXCEPT !.by = y])
BY DEF Row, Unlinked

\* set_superseded_by, for one row or for several at once.
LEMMA LinksSet ==
    ASSUME NEW rs, Linked(rs), NEW new \in Stored(rs), NEW D \in SUBSET Stored(rs),
           \A x \in D \cap Handoffs : new \in Handoffs, D \cap Chain(rs, new) = {},
           NEW rt,
           rt = [x \in Stored(rs) |-> IF x \in D THEN [rs[x] EXCEPT !.by = new] ELSE rs[x]]
    PROVE  Relinked(rs, rt)
<1>1. rs \in [Stored(rs) -> Row] /\ Linkage(rs) /\ Acyc(rs) /\ new \in Statements
    BY DEF Linked, Linkage
<1>2. Stored(rt) = Stored(rs)
    BY DEF Stored
<1>3. \A x \in Stored(rs) : rs[x] \in Row
    BY <1>1
<1>4. ASSUME NEW x \in Stored(rs)
      PROVE  /\ rt[x] \in Row /\ Unlinked(rs[x], rt[x])
             /\ rt[x].by = IF x \in D THEN new ELSE rs[x].by
  <2>1. CASE x \in D
    <3>1. rt[x] = [rs[x] EXCEPT !.by = new]
        BY <2>1
    <3> QED BY <1>1, <1>3, <2>1, <3>1, RowLinked
  <2>2. CASE x \notin D
      BY <1>3, <2>2 DEF Unlinked
  <2> QED BY <2>1, <2>2
<1>5. Linkage(rt) /\ Acyc(rt)
    BY <1>1, <1>2, <1>4, LinksKeep
<1>6. rt \in [Stored(rt) -> Row]
    BY <1>2, <1>4
<1> QED BY <1>2, <1>4, <1>5, <1>6 DEF Relinked, Linked

LEMMA SetSupersededByLinks ==
    ASSUME NEW rs, Linked(rs), NEW old \in Stored(rs), NEW new \in Stored(rs),
           old \in Handoffs => new \in Handoffs
    PROVE  Relinked(rs, SetSupersededBy(rs, old, new))
<1>1. CASE old \in Chain(rs, new)
    BY <1>1, RelinkedSelf DEF SetSupersededBy
<1>2. CASE old \notin Chain(rs, new)
  <2> DEFINE rt == [rs EXCEPT ![old].by = new]
  <2>1. SetSupersededBy(rs, old, new) = rt
      BY <1>2 DEF SetSupersededBy
  <2>2. rt = [x \in Stored(rs) |-> IF x \in {old} THEN [rs[x] EXCEPT !.by = new] ELSE rs[x]]
    <3>1. rs = [x \in Stored(rs) |-> rs[x]]
        BY DEF Linked
    <3> QED BY <3>1 DEF Stored
  <2> HIDE DEF rt
  <2>3. {old} \cap Chain(rs, new) = {}
      BY <1>2
  <2>4. Relinked(rs, rt)
      BY <2>2, <2>3, LinksSet
  <2> QED BY <2>1, <2>4
<1> QED BY <1>1, <1>2

LEMMA SupersedeAllLinks ==
    ASSUME NEW rs, Linked(rs), NEW new \in Stored(rs), NEW olds \in SUBSET Stored(rs),
           \A x \in olds \cap Handoffs : new \in Handoffs
    PROVE  Relinked(rs, SupersedeAll(rs, olds, new))
<1> DEFINE D == olds \ Chain(rs, new)
           rt == SupersedeAll(rs, olds, new)
<1>1. rt = [x \in Stored(rs) |-> IF x \in D THEN [rs[x] EXCEPT !.by = new] ELSE rs[x]]
  <2>1. ASSUME NEW x \in Stored(rs)
        PROVE  (IF x \in olds THEN SetSupersededBy(rs, x, new)[x] ELSE rs[x])
               = IF x \in D THEN [rs[x] EXCEPT !.by = new] ELSE rs[x]
      BY DEF SetSupersededBy, Stored
  <2> QED BY <2>1 DEF SupersedeAll
<1> HIDE DEF rt
<1>2. D \cap Chain(rs, new) = {} /\ D \in SUBSET Stored(rs)
      /\ \A x \in D \cap Handoffs : new \in Handoffs
    OBVIOUS
<1> HIDE DEF D
<1>3. Relinked(rs, rt)
    BY <1>1, <1>2, LinksSet
<1> QED BY <1>3 DEF rt

LEMMA DedupTypes ==
    DedupGroup = {"APPROACH_ABANDONED_DO_NOT_RETRY", "CONSTRAINT_HARD", "APPROACH_ABANDONED"}
BY DEF DedupGroup, DedupPriority

LEMMA HandoffTypes == \A x \in Handoffs : x \in Statements /\ TypeOf[x] = "THREAD_OPEN"
BY StoreAssumption

LEMMA SettleLinks ==
    ASSUME NEW rs, Linked(rs), NEW new \in Stored(rs), NEW x \in Stored(rs),
           TypeOf[new] \in DedupGroup, TypeOf[x] \in DedupGroup
    PROVE  Relinked(rs, Settle(rs, new, x))
<1>1. new \notin Handoffs /\ x \notin Handoffs
    BY HandoffTypes, DedupTypes
<1> QED BY <1>1, SetSupersededByLinks DEF Settle

\* The scan, turn by turn.
DedupPeers(rs, new) ==
    {x \in Active(rs) : /\ TypeOf[x] \in DedupGroup \ {TypeOf[new]}
                        /\ {x, new} \in Overlaps \cup SameSubject}

DedupTurn(rs, new, a, n) ==
    IF WithId(rs, DedupPeers(rs, new), n) = {} THEN a
    ELSE Settle(a, new, CHOOSE x \in WithId(rs, DedupPeers(rs, new), n) : TRUE)

DedupRun(rs, new, g) ==
    /\ g[0] = rs
    /\ \A n \in 1..Cardinality(Stored(rs)) : g[n] = DedupTurn(rs, new, g[n - 1], n)
    /\ \A n \in 0..Cardinality(Stored(rs)) : Relinked(rs, g[n])
    /\ CrossTypeDedup(rs, new) = g[Cardinality(Stored(rs))]

\* Every table of the scan is the first one with links set.
LEMMA DedupRuns ==
    ASSUME NEW rs, Linked(rs), NEW new \in Stored(rs), TypeOf[new] \in DedupGroup
    PROVE  \E g : DedupRun(rs, new, g)
<1> DEFINE N == Cardinality(Stored(rs))
           peers == DedupPeers(rs, new)
           Turn(a, n) == DedupTurn(rs, new, a, n)
           peers1 == {x \in Active(rs) : /\ TypeOf[x] \in DedupGroup \ {TypeOf[new]}
                                         /\ {x, new} \in Overlaps \cup SameSubject}
           Body(f, n) == IF n = 0 THEN rs
                         ELSE IF WithId(rs, peers1, n) = {} THEN f[n - 1]
                         ELSE Settle(f[n - 1], new, CHOOSE x \in WithId(rs, peers1, n) : TRUE)
           Is(f) == f = [n \in 0..N |-> Body(f, n)]
           S == {a \in Tables : Relinked(rs, a)}
           F == [p \in S \X (1..N) |-> Turn(p[1], p[2])]
<1>1. N \in Nat
    BY StoredFinite DEF Linked, Linkage
<1>2. \A a : Relinked(rs, a) => a \in S
    BY DEF Relinked, Linked, Linkage, Tables
<1>3. rs \in S
    BY <1>2, RelinkedSelf
<1>4. ASSUME NEW a \in S, NEW n \in 1..N PROVE Turn(a, n) \in S
  <2>1. Relinked(rs, a)
      OBVIOUS
  <2>2. CASE WithId(rs, peers, n) = {}
      BY <2>2 DEF DedupTurn
  <2>3. CASE WithId(rs, peers, n) # {}
    <3> DEFINE x == CHOOSE x \in WithId(rs, peers, n) : TRUE
    <3>1. x \in WithId(rs, peers, n)
        BY <2>3
    <3>2. x \in peers
      <4> HIDE DEF x, peers
      <4> QED BY <3>1 DEF WithId
    <3>3. x \in Stored(rs) /\ TypeOf[x] \in DedupGroup
      <4> HIDE DEF x
      <4> QED BY <3>2 DEF Active, DedupPeers
    <3> HIDE DEF x
    <3>4. Linked(a) /\ new \in Stored(a) /\ x \in Stored(a)
        BY <2>1, <3>3 DEF Relinked
    <3>5. Relinked(rs, Settle(a, new, x))
        BY <2>1, <3>3, <3>4, SettleLinks, RelinkedAgain
    <3>6. Turn(a, n) = Settle(a, new, x)
        BY <2>3 DEF x, DedupTurn
    <3> QED BY <1>2, <3>5, <3>6
  <2> QED BY <2>2, <2>3
<1> HIDE DEF S, N
<1>5. F \in [S \X (1..N) -> S] /\ \A a \in S, n \in 1..N : F[<<a, n>>] = Turn(a, n)
    BY <1>4
<1> HIDE DEF F
<1>6. PICK f \in [0..N -> S] : IsLoop(N, rs, F, f)
    BY <1>1, <1>3, <1>5, LoopExists
<1>7. \A g : \A n \in 1..N : Body(g, n) = Turn(g[n - 1], n)
  <2>1. \A n \in 1..N : n # 0
      BY <1>1
  <2> QED BY <2>1 DEF DedupTurn, DedupPeers
<1>8. \A g : Body(g, 0) = rs
    OBVIOUS
<1>9. /\ 0 \in 0..N /\ N \in 0..N
      /\ \A n \in 1..N : n \in 0..N /\ n - 1 \in 0..N
      /\ \A n \in 0..N : n = 0 \/ n \in 1..N
    BY <1>1
<1> HIDE DEF Body
<1>10. \A n \in 0..N : f[n] = Body(f, n)
  <2> SUFFICES ASSUME NEW n \in 0..N PROVE f[n] = Body(f, n)
      OBVIOUS
  <2>1. CASE n = 0
      BY <1>6, <1>8, <2>1 DEF IsLoop
  <2>2. CASE n \in 1..N
    <3>1. f[n] = F[<<f[n - 1], n>>] /\ f[n - 1] \in S
        BY <1>6, <1>9, <2>2 DEF IsLoop
    <3>2. F[<<f[n - 1], n>>] = Turn(f[n - 1], n)
        BY <1>5, <2>2, <3>1
    <3> QED BY <1>7, <2>2, <3>1, <3>2
  <2> QED BY <1>9, <2>1, <2>2
<1>11. Is(f)
  <2>1. f = [n \in 0..N |-> f[n]]
      BY <1>6 DEF IsLoop
  <2>2. [n \in 0..N |-> f[n]] = [n \in 0..N |-> Body(f, n)]
      BY <1>10
  <2> QED BY <2>1, <2>2
<1> DEFINE g == CHOOSE h : Is(h)
<1>12. Is(g)
  <2> HIDE DEF Is
  <2> QED BY <1>11
<1>13. CrossTypeDedup(rs, new) = g[N]
    BY DEF CrossTypeDedup, N, Body
<1> HIDE DEF g
<1>14. \A n \in 0..N : g[n] = Body(g, n)
    BY <1>12
<1>15. \A n \in 0..N : g[n] \in S
  <2> DEFINE P == {n \in 0..N : g[n] \in S}
  <2>1. 0 \in P
      BY <1>3, <1>8, <1>9, <1>14
  <2>2. ASSUME NEW n \in 1..N, n - 1 \in P PROVE n \in P
    <3>1. n \in 0..N /\ g[n] = Turn(g[n - 1], n)
        BY <1>7, <1>9, <1>14
    <3> QED BY <1>4, <2>2, <3>1
  <2> HIDE DEF P
  <2>3. \A n \in 0..N : n \in P
      BY <1>1, <2>1, <2>2, LoopInduction
  <2> QED BY <2>3 DEF P
<1>16. DedupRun(rs, new, g)
  <2>1. g[0] = rs /\ \A n \in 1..N : g[n] = DedupTurn(rs, new, g[n - 1], n)
      BY <1>7, <1>8, <1>9, <1>14
  <2>2. \A n \in 0..N : Relinked(rs, g[n])
      BY <1>15 DEF S
  <2> QED BY <1>13, <2>1, <2>2 DEF DedupRun, N
<1> QED BY <1>16

LEMMA CrossTypeDedupLinks ==
    ASSUME NEW rs, Linked(rs), NEW new \in Stored(rs)
    PROVE  Relinked(rs, CrossTypeDedup(rs, new))
<1>1. CASE TypeOf[new] \notin DedupGroup
    BY <1>1, RelinkedSelf DEF CrossTypeDedup
<1>2. CASE TypeOf[new] \in DedupGroup
  <2>1. PICK g : DedupRun(rs, new, g)
      BY <1>2, DedupRuns
  <2>2. Cardinality(Stored(rs)) \in 0..Cardinality(Stored(rs))
      BY StoredFinite DEF Linked, Linkage
  <2> QED BY <2>1, <2>2 DEF DedupRun
<1> QED BY <1>1, <1>2

-----------------------------------------------------------------------------
\* What every write of a merge keeps.

\* Live rows echo one another only as a missed pair.
Unechoed(rs, ms) == \A x, y \in Active(rs) : x # y /\ {x, y} \in Echoes => {x, y} \in ms

\* So does any live row with x.
NoNear(rs, x, ms) == \A y \in Active(rs) : y # x /\ {y, x} \in Echoes => {y, x} \in ms

\* A statement that is only linked to evidence of its own session was counted once.
Counted(st, ev) ==
    \A x \in Stored(st.rows) \ Added :
        (\A p \in st.prov : p[1] = x => ev[p[2]].session = st.rows[x].session) =>
            st.rows[x].mention = 1 /\ st.rows[x].weight <= InitialWeight

\* Handoffs give way to handoffs only, and commitments are not archived.
Standing(rs) ==
    \A x \in Stored(rs) :
        /\ x \in Handoffs => rs[x].by \in Handoffs \cup {None}
        /\ TypeOf[x] \in Protected => ~rs[x].archived

Sane(st, ev, quiet, ms) ==
    /\ st = [rows |-> st.rows, prov |-> st.prov]
    /\ Linked(st.rows)
    /\ st.prov \subseteq Stored(st.rows) \X DOMAIN ev
    /\ Unechoed(st.rows, ms)
    /\ Counted(st, ev)
    /\ quiet => Standing(st.rows)

\* Links take rows out of the live ones, and change nothing else.
LEMMA RelinkedSane ==
    ASSUME NEW st, NEW ev, NEW quiet, NEW ms, Sane(st, ev, quiet, ms), NEW rt, Relinked(st.rows, rt)
    PROVE  Sane([rows |-> rt, prov |-> st.prov], ev, quiet, ms)
<1> DEFINE out == [rows |-> rt, prov |-> st.prov]
           rs == st.rows
<1>1. out.rows = rt /\ out.prov = st.prov /\ out = [rows |-> out.rows, prov |-> out.prov]
    OBVIOUS
<1> HIDE DEF out
<1>2. /\ Linked(rt) /\ Stored(rt) = Stored(rs)
      /\ \A x \in Stored(rs) :
            /\ Unlinked(rs[x], rt[x])
            /\ \/ rt[x].by = rs[x].by
               \/ rt[x].by \in Stored(rs) /\ (x \in Handoffs => rt[x].by \in Handoffs)
    BY DEF Relinked
<1>3. Active(rt) \subseteq Active(rs)
  <2>1. None \notin Stored(rs)
      BY <1>2, StoreAssumption DEF Linked, Linkage
  <2> QED BY <1>2, <2>1 DEF Active, Unlinked
<1>4. Unechoed(rt, ms)
    BY <1>3 DEF Sane, Unechoed
<1>5. Counted(out, ev)
    BY <1>1, <1>2 DEF Sane, Counted, Unlinked
<1>6. quiet => Standing(rt)
    BY <1>2 DEF Sane, Standing, Unlinked
<1>7. out.prov \subseteq Stored(out.rows) \X DOMAIN ev
    BY <1>1, <1>2 DEF Sane
<1> QED BY <1>1, <1>2, <1>4, <1>5, <1>6, <1>7 DEF Sane, out

\* A row that changes, keeping its session and its link.
Touch(rs, x, r, ms) ==
    /\ r \in Row /\ r.by = rs[x].by /\ r.session = rs[x].session
    /\ r.archived = rs[x].archived \/ (~r.archived /\ NoNear(rs, x, ms))

LEMMA TouchedSane ==
    ASSUME NEW st, NEW ev, NEW quiet, NEW ms, Sane(st, ev, quiet, ms),
           NEW x \in Stored(st.rows), NEW r, Touch(st.rows, x, r, ms), NEW e \in DOMAIN ev,
           \/ x \in Added
           \/ ev[e].session # st.rows[x].session
           \/ r.mention = st.rows[x].mention /\ r.weight = st.rows[x].weight
    PROVE  Sane([rows |-> [st.rows EXCEPT ![x] = r], prov |-> st.prov \cup {<<x, e>>}], ev, quiet, ms)
<1> DEFINE rs == st.rows
           rt == [rs EXCEPT ![x] = r]
           out == [rows |-> rt, prov |-> st.prov \cup {<<x, e>>}]
<1>1. out.rows = rt /\ out.prov = st.prov \cup {<<x, e>>}
      /\ out = [rows |-> out.rows, prov |-> out.prov]
    OBVIOUS
<1> HIDE DEF out
<1>2. rs \in [Stored(rs) -> Row] /\ Linkage(rs) /\ Acyc(rs)
    BY DEF Sane, Linked
<1>3. Stored(rt) = Stored(rs) /\ rt[x] = r /\ \A y \in Stored(rs) : y # x => rt[y] = rs[y]
    BY <1>2 DEF Stored
<1>4. r \in Row /\ r.by = rs[x].by /\ r.session = rs[x].session
    BY DEF Touch
<1>5. rt \in [Stored(rt) -> Row]
    BY <1>2, <1>3, <1>4
<1> HIDE DEF rt
<1>6. Linkage(rt) /\ Acyc(rt)
  <2>1. \A y \in Stored(rs) : rt[y].by = rs[y].by
      BY <1>3, <1>4
  <2>2. Stored(rt) \subseteq Statements
      BY <1>2, <1>3 DEF Linkage
  <2> QED BY <1>2, <1>3, <2>1, <2>2, SameLinksKeep
<1>7. Unechoed(rt, ms)
  <2>1. ASSUME r.archived = rs[x].archived PROVE Active(rt) = Active(rs)
      BY <1>3, <1>4, <2>1 DEF Active
  <2>2. ASSUME ~r.archived, NoNear(rs, x, ms), Unechoed(rs, ms) PROVE Unechoed(rt, ms)
    <3>1. \A y \in Active(rt) : y # x => y \in Active(rs)
        BY <1>3 DEF Active
    <3>2. \A y \in Active(rs) : y # x /\ {x, y} \in Echoes => {x, y} \in ms /\ {y, x} \in ms
      <4>1. \A y : {y, x} = {x, y}
          OBVIOUS
      <4> QED BY <2>2, <4>1 DEF NoNear
    <3> QED BY <2>2, <3>1, <3>2 DEF Unechoed
  <2>3. Unechoed(rs, ms)
      BY DEF Sane
  <2> QED BY <2>1, <2>2, <2>3 DEF Touch, Unechoed
<1>8. out.prov \subseteq Stored(rt) \X DOMAIN ev
    BY <1>1, <1>3 DEF Sane
<1>9. Counted(out, ev)
  <2> SUFFICES ASSUME NEW y \in Stored(rt) \ Added,
                      \A p \in out.prov : p[1] = y => ev[p[2]].session = rt[y].session
               PROVE  rt[y].mention = 1 /\ rt[y].weight <= InitialWeight
      BY <1>1 DEF Counted
  <2>1. rt[y].session = rs[y].session /\ y \in Stored(rs)
      BY <1>3, <1>4
  <2>2. \A p \in st.prov : p[1] = y => ev[p[2]].session = rs[y].session
      BY <1>1, <2>1
  <2>3. rs[y].mention = 1 /\ rs[y].weight <= InitialWeight
      BY <2>1, <2>2 DEF Sane, Counted
  <2>4. y = x => ev[e].session = rs[x].session
    <3>1. <<x, e>> \in out.prov /\ <<x, e>>[1] = x /\ <<x, e>>[2] = e
        BY <1>1
    <3> QED BY <2>1, <3>1
  <2> QED BY <1>3, <2>1, <2>3, <2>4
<1>10. quiet => Standing(rt)
  <2>1. quiet => Standing(rs)
      BY DEF Sane
  <2> QED BY <1>3, <1>4, <2>1 DEF Standing, Touch
<1> QED BY <1>1, <1>3, <1>5, <1>6, <1>7, <1>8, <1>9, <1>10 DEF Sane, Linked, out, rt

\* A new row, live and linked to the evidence that brought it.
LEMMA InsertedSane ==
    ASSUME NEW st, NEW ev, NEW quiet, NEW ms, Sane(st, ev, quiet, ms),
           NEW x \in Statements \ Stored(st.rows), NEW r \in Row, NEW e \in DOMAIN ev,
           r.by = None, ~r.archived, r.mention = 1, r.weight <= InitialWeight,
           NoNear(st.rows, x, ms)
    PROVE  Sane([rows |-> Insert(st.rows, x, r), prov |-> st.prov \cup {<<x, e>>}], ev, quiet, ms)
<1> DEFINE rs == st.rows
           rt == Insert(rs, x, r)
           out == [rows |-> rt, prov |-> st.prov \cup {<<x, e>>}]
<1>1. out.rows = rt /\ out.prov = st.prov \cup {<<x, e>>}
      /\ out = [rows |-> out.rows, prov |-> out.prov]
    OBVIOUS
<1> HIDE DEF out
<1>2. rs \in [Stored(rs) -> Row] /\ Linkage(rs) /\ Acyc(rs)
    BY DEF Sane, Linked
<1>3. /\ Stored(rt) = Stored(rs) \cup {x} /\ rt[x] = r
      /\ \A y \in Stored(rs) : y # x /\ rt[y] = rs[y]
    BY DEF Stored, Insert
<1>4. rt \in [Stored(rt) -> Row]
  <2>1. rt = [y \in Stored(rs) \cup {x} |-> rt[y]]
      BY DEF Insert
  <2> HIDE DEF rt
  <2> QED BY <1>2, <1>3, <2>1
<1> HIDE DEF rt
<1>5. Linkage(rt) /\ Acyc(rt)
  <2>1. Stored(rs) \subseteq Stored(rt) /\ Stored(rt) \subseteq Statements
      BY <1>2, <1>3 DEF Linkage
  <2>2. \A y \in Stored(rt) \ Stored(rs) : rt[y].by = None
      BY <1>3
  <2> QED BY <1>2, <1>3, <2>1, <2>2, SameLinksKeep
<1>6. Unechoed(rt, ms)
  <2>1. \A y \in Active(rt) : y # x => y \in Active(rs)
      BY <1>3 DEF Active
  <2>2. \A y \in Active(rs) : y # x /\ {x, y} \in Echoes => {x, y} \in ms /\ {y, x} \in ms
    <3>1. \A y : {y, x} = {x, y}
        OBVIOUS
    <3> QED BY <3>1 DEF NoNear
  <2>3. Unechoed(rs, ms)
      BY DEF Sane
  <2> QED BY <2>1, <2>2, <2>3 DEF Unechoed
<1>7. out.prov \subseteq Stored(rt) \X DOMAIN ev
    BY <1>1, <1>3 DEF Sane
<1>8. Counted(out, ev)
  <2> SUFFICES ASSUME NEW y \in Stored(rt) \ Added,
                      \A p \in out.prov : p[1] = y => ev[p[2]].session = rt[y].session
               PROVE  rt[y].mention = 1 /\ rt[y].weight <= InitialWeight
      BY <1>1 DEF Counted
  <2>1. CASE y = x
      BY <1>3, <2>1
  <2>2. CASE y # x
    <3>1. y \in Stored(rs) /\ rt[y] = rs[y]
        BY <1>3, <2>2
    <3>2. \A p \in st.prov : p[1] = y => ev[p[2]].session = rs[y].session
        BY <1>1, <3>1
    <3> QED BY <3>1, <3>2 DEF Sane, Counted
  <2> QED BY <2>1, <2>2
<1>9. quiet => Standing(rt)
  <2>1. quiet => Standing(rs)
      BY DEF Sane
  <2> QED BY <1>3, <2>1 DEF Standing
<1> QED BY <1>1, <1>4, <1>5, <1>6, <1>7, <1>8, <1>9 DEF Sane, Linked, out, rt

\* Of a finite set of rows one has the greatest id: the one with the fewest above it.
LEMMA LastScanned ==
    ASSUME NEW rs, Linked(rs), NEW xs \in SUBSET Stored(rs), xs # {}
    PROVE  \E x \in xs : \A y \in xs : rs[y].id <= rs[x].id
<1> DEFINE Above(x) == {y \in xs : rs[y].id > rs[x].id}
           Size(x) == Cardinality(Above(x))
           S == {n \in Nat : \E x \in xs : Size(x) = n}
<1>1. \A x \in xs : rs[x].id \in Nat
    BY DEF Linked, Row
<1>2. \A x \in xs : IsFiniteSet(Above(x)) /\ Size(x) \in Nat
  <2>1. IsFiniteSet(Stored(rs))
      BY StoredFinite DEF Linked, Linkage
  <2>2. \A x \in xs : Above(x) \in SUBSET Stored(rs)
      OBVIOUS
  <2> HIDE DEF Above
  <2> QED BY <2>1, <2>2, FS_Subset, FS_CardinalityType
<1>3. PICK m \in S : \A j \in S : m <= j
  <2>1. S \in SUBSET Nat /\ S # {}
      BY <1>2
  <2> HIDE DEF S
  <2> QED BY <2>1, LeastExists
<1>4. PICK x \in xs : Size(x) = m
    OBVIOUS
<1>5. ASSUME NEW z \in xs, ~(rs[z].id <= rs[x].id) PROVE FALSE
  <2>1. Above(z) \subseteq Above(x) /\ z \in Above(x) /\ z \notin Above(z)
      BY <1>1, <1>5
  <2> HIDE DEF Above
  <2>2. Size(z) <= Size(x) /\ Size(z) # Size(x)
      BY <1>2, <2>1, FS_Subset
  <2>3. Size(z) \in S
      BY <1>2
  <2>4. m <= Size(z)
    <3> HIDE DEF S
    <3> QED BY <1>3, <2>3
  <2>5. Size(z) \in Nat /\ Size(x) \in Nat
      BY <1>2
  <2> QED BY <1>4, <2>2, <2>4, <2>5
<1> QED BY <1>5

\* _find_echo finds a live near-duplicate if there is one.
LEMMA EchoFound ==
    ASSUME NEW rs, Linked(rs), NEW x
    PROVE  \/ EchoOf(rs, x) = None /\ \A ms : NoNear(rs, x, ms)
           \/ EchoOf(rs, x) \in Stored(rs) /\ EchoOf(rs, x) # None
<1>1. CASE Near(rs, x) = {}
    BY <1>1 DEF EchoOf, NoNear, Near
<1>2. CASE Near(rs, x) # {}
  <2> DEFINE last == {y \in Near(rs, x) : \A z \in Near(rs, x) : rs[z].id <= rs[y].id}
  <2>1. EchoOf(rs, x) = CHOOSE y \in last : TRUE
      BY <1>2 DEF EchoOf
  <2>2. Near(rs, x) \in SUBSET Stored(rs) /\ Stored(rs) \subseteq Statements
      BY DEF Active, Linked, Linkage, Near
  <2>3. \E y \in Near(rs, x) : \A z \in Near(rs, x) : rs[z].id <= rs[y].id
      BY <1>2, <2>2, LastScanned
  <2>4. EchoOf(rs, x) \in Near(rs, x)
      BY <2>1, <2>3
  <2> QED BY <2>2, <2>4, StoreAssumption
<1> QED BY <1>1, <1>2

\* A restatement in the row's own session leaves its counters alone.
LEMMA BumpTouches ==
    ASSUME NEW r \in Row, NEW s, NEW e \in Nat
    PROVE  /\ Bump(r, s, e) \in Row
           /\ Bump(r, s, e).by = r.by /\ Bump(r, s, e).session = r.session
           /\ Bump(r, s, e).archived = r.archived
           /\ r.session = s => Bump(r, s, e).mention = r.mention /\ Bump(r, s, e).weight = r.weight
<1> DEFINE n == IF r.session # s THEN 1 ELSE 0
           b == [r EXCEPT !.mention = @ + n, !.weight = Capped(@ + n * DedupBump),
                          !.ev = IF @ = 0 THEN e ELSE @]
<1>1. Bump(r, s, e) = b
    BY DEF Bump
<1>2. /\ r.id \in Nat /\ r.created \in Nat /\ r.mention \in Nat /\ r.weight \in 0..MaxWeight
      /\ r.ev \in Nat /\ MaxWeight \in Nat /\ DedupBump \in Nat
    BY StoreAssumption DEF Row
<1>3. /\ n \in {0, 1} /\ n * DedupBump \in Nat /\ r.mention + n \in Nat
      /\ r.session = s => n * DedupBump = 0 /\ n = 0
    BY <1>2
<1> HIDE DEF n
<1>4. /\ Capped(r.weight + n * DedupBump) \in 0..MaxWeight
      /\ n * DedupBump = 0 => Capped(r.weight + n * DedupBump) = r.weight
    BY <1>2, <1>3 DEF Capped
<1>5. /\ b.mention = r.mention + n /\ b.weight = Capped(r.weight + n * DedupBump)
      /\ b.by = r.by /\ b.session = r.session /\ b.archived = r.archived
    BY DEF Row
<1>6. b \in Row
  <2> DEFINE w == Capped(r.weight + n * DedupBump)
             m == r.mention + n
             d == IF r.ev = 0 THEN e ELSE r.ev
  <2>1. b = [r EXCEPT !.mention = m, !.weight = w, !.ev = d]
      OBVIOUS
  <2>2. m \in Nat /\ w \in 0..MaxWeight /\ d \in Nat
      BY <1>2, <1>3, <1>4
  <2> HIDE DEF m, w, d, b
  <2> QED BY <2>1, <2>2 DEF Row
<1> QED BY <1>1, <1>2, <1>3, <1>4, <1>5, <1>6

\* Supersession takes live rows other than the new one, and a handoff for another only.
LEMMA SupersededFound ==
    ASSUME NEW rs, NEW c, NEW e, NEW s, NEW now, c.stmt \in Statements
    PROVE  /\ FindSuperseded(rs, c, e, s, now) \subseteq Stored(rs)
           /\ \A x \in FindSuperseded(rs, c, e, s, now) \cap Handoffs : c.stmt \in Handoffs
<1>1. FindSuperseded(rs, c, e, s, now) \subseteq Stored(rs)
    BY DEF FindSuperseded, Active
<1>2. ASSUME NEW x \in FindSuperseded(rs, c, e, s, now), x \in Handoffs PROVE c.stmt \in Handoffs
  <2>1. TypeOf[x] = "THREAD_OPEN"
      BY <1>2, HandoffTypes
  <2>2. TypeOf[x] \in CandidateTypes(TypeOf[c.stmt])
      BY <1>2 DEF FindSuperseded
  <2>3. TypeOf[c.stmt] = "THREAD_OPEN"
      BY <2>1, <2>2 DEF CandidateTypes, ChoiceFamily
  <2>4. ~Shielded(x, c.stmt)
      BY <1>2, <2>3 DEF FindSuperseded
  <2> QED BY <1>2, <2>4 DEF Shielded
<1> QED BY <1>1, <1>2

-----------------------------------------------------------------------------
\* The merge of a candidate.

Cand == [stmt : Statements, auth : Authorities]

\* A candidate after the gate.
Ruled(c) ==
    /\ c.stmt \in Statements /\ c.auth \in Authorities
    /\ c.weight \in 0..MaxWeight /\ c.weight <= InitialWeight

\* Evidence e of session s, whose candidates are stamped now.
Source(ev, e, s, now) ==
    /\ DOMAIN ev \subseteq Nat /\ e \in DOMAIN ev /\ s = ev[e].session
    /\ s \in Sessions /\ now \in Nat

\* Rows stay, and provenance is only added, and for this evidence.
Gained(st, out, e) ==
    /\ Stored(st.rows) \subseteq Stored(out.rows)
    /\ st.prov \subseteq out.prov
    /\ out.prov \subseteq st.prov \cup (Statements \X {e})

LEMMA VerdictApplied ==
    ASSUME NEW cand \in Cand
    PROVE  Ruled(ApplyVerdict(cand)) /\ ApplyVerdict(cand).stmt = cand.stmt
<1>1. MaxWeight \in Nat /\ InitialWeight \in 1..MaxWeight
    BY StoreAssumption
<1>2. cand.stmt \in Statements /\ cand.auth \in Authorities
    BY DEF Cand
<1>3. "assistant_decided" \in Authorities
    BY DEF Authorities, Ranks
<1> QED BY <1>1, <1>2, <1>3 DEF ApplyVerdict, Ruled

LEMMA NewRowTyped ==
    ASSUME NEW rs, Linked(rs), NEW c, Ruled(c), NEW ev, NEW e, NEW s, NEW now, Source(ev, e, s, now)
    PROVE  LET r == NewRow(rs, c, e, s, now)
           IN  /\ r \in Row /\ r.by = None /\ ~r.archived /\ r.mention = 1
               /\ r.weight <= InitialWeight
<1>1. Cardinality(Stored(rs)) + 1 \in Nat
    BY StoredFinite DEF Linked, Linkage
<1>2. e \in Nat
    BY DEF Source
<1> QED BY <1>1, <1>2 DEF NewRow, Row, Ruled, Source

LEMMA InsertOrUpdateSane ==
    ASSUME NEW st, NEW ev, NEW quiet, NEW ms, Sane(st, ev, quiet, ms), NEW c, Ruled(c),
           NEW e, NEW s, NEW now, Source(ev, e, s, now), NoNear(st.rows, c.stmt, ms)
    PROVE  LET in == InsertOrUpdate(st.rows, c, e, s, now)
           IN  /\ Sane([rows |-> in, prov |-> LinkProvenance(st, c.stmt, e)], ev, quiet, ms)
               /\ c.stmt \in Stored(in) /\ Stored(st.rows) \subseteq Stored(in)
<1> DEFINE x == c.stmt
           rs == st.rows
<1>0. Linked(rs) /\ e \in Nat /\ e \in DOMAIN ev /\ x \in Statements
    BY DEF Sane, Source, Ruled
<1>1. CASE x \in Stored(rs)
  <2> DEFINE b == Bump(rs[x], s, e)
             r == [b EXCEPT !.archived = FALSE]
  <2>1. InsertOrUpdate(rs, c, e, s, now) = [rs EXCEPT ![x] = r]
      BY <1>1 DEF InsertOrUpdate
  <2>2. rs[x] \in Row
      BY <1>0, <1>1 DEF Linked
  <2>3. /\ b \in Row /\ b.by = rs[x].by /\ b.session = rs[x].session
        /\ rs[x].session = s => b.mention = rs[x].mention /\ b.weight = rs[x].weight
      BY <1>0, <2>2, BumpTouches
  <2> HIDE DEF b
  <2>4. /\ r \in Row /\ r.by = b.by /\ r.session = b.session /\ ~r.archived
        /\ r.mention = b.mention /\ r.weight = b.weight
      BY <2>3 DEF Row
  <2> HIDE DEF r
  <2>5. Touch(rs, x, r, ms)
      BY <2>3, <2>4 DEF Touch
  <2>6. Sane([rows |-> [rs EXCEPT ![x] = r], prov |-> st.prov \cup {<<x, e>>}], ev, quiet, ms)
    <3>1. \/ ev[e].session # rs[x].session
          \/ r.mention = rs[x].mention /\ r.weight = rs[x].weight
        BY <2>3, <2>4 DEF Source
    <3> QED BY <1>0, <1>1, <2>5, <3>1, TouchedSane
  <2>7. x \in Stored([rs EXCEPT ![x] = r]) /\ Stored([rs EXCEPT ![x] = r]) = Stored(rs)
      BY <1>1 DEF Stored
  <2> QED BY <2>1, <2>6, <2>7 DEF LinkProvenance
<1>2. CASE x \notin Stored(rs)
  <2> DEFINE r == NewRow(rs, c, e, s, now)
  <2>1. InsertOrUpdate(rs, c, e, s, now) = Insert(rs, x, r)
      BY <1>2 DEF InsertOrUpdate
  <2>2. r \in Row /\ r.by = None /\ ~r.archived /\ r.mention = 1 /\ r.weight <= InitialWeight
      BY <1>0, NewRowTyped
  <2> HIDE DEF r
  <2>3. Sane([rows |-> Insert(rs, x, r), prov |-> st.prov \cup {<<x, e>>}], ev, quiet, ms)
      BY <1>0, <1>2, <2>2, InsertedSane
  <2>4. x \in Stored(Insert(rs, x, r)) /\ Stored(rs) \subseteq Stored(Insert(rs, x, r))
      BY DEF Stored, Insert
  <2> QED BY <2>1, <2>3, <2>4 DEF LinkProvenance
<1> QED BY <1>1, <1>2

LEMMA ReviewSane ==
    ASSUME NEW st, NEW ev, NEW quiet, NEW ms, Sane(st, ev, quiet, ms), NEW x \in Added,
           NEW e, NEW s, NEW now, Source(ev, e, s, now)
    PROVE  Sane(Review(st, x, e, s, now), ev, quiet, ms)
<1> DEFINE rs == st.rows
           c == [stmt |-> x, auth |-> "assistant_decided", weight |-> InitialWeight]
<1>0. Linked(rs) /\ e \in DOMAIN ev /\ x \in Statements
    BY StoreAssumption DEF Sane, Source, Added
<1>1. CASE x \in Stored(rs)
  <2> DEFINE r == [rs[x] EXCEPT !.mention = @ + 1]
  <2>1. Review(st, x, e, s, now) = [rows |-> [rs EXCEPT ![x] = r], prov |-> st.prov \cup {<<x, e>>}]
      BY <1>1 DEF Review, LinkProvenance
  <2>2. rs[x] \in Row
      BY <1>0, <1>1 DEF Linked
  <2>3. r \in Row /\ r.by = rs[x].by /\ r.session = rs[x].session /\ r.archived = rs[x].archived
      BY <2>2 DEF Row
  <2> HIDE DEF r
  <2>4. Touch(rs, x, r, ms)
      BY <2>3 DEF Touch
  <2>5. Sane([rows |-> [rs EXCEPT ![x] = r], prov |-> st.prov \cup {<<x, e>>}], ev, quiet, ms)
      BY <1>0, <1>1, <2>4, TouchedSane
  <2> QED BY <2>1, <2>5
<1>2. CASE x \notin Stored(rs)
  <2> DEFINE r == NewRow(rs, c, e, s, now)
  <2>1. Review(st, x, e, s, now) = [rows |-> Insert(rs, x, r), prov |-> st.prov \cup {<<x, e>>}]
      BY <1>2 DEF Review, LinkProvenance
  <2>2. Ruled(c)
      BY <1>0, StoreAssumption DEF Ruled, Authorities, Ranks
  <2> HIDE DEF c
  <2>3. r \in Row /\ r.by = None /\ ~r.archived /\ r.mention = 1 /\ r.weight <= InitialWeight
      BY <1>0, <2>2, NewRowTyped
  <2> HIDE DEF r
  <2>4. NoNear(rs, x, ms)
    <3>1. \A y : x \in {y, x}
        OBVIOUS
    <3> QED BY <3>1, StoreAssumption DEF NoNear, Added
  <2> QED BY <1>0, <1>2, <2>1, <2>3, <2>4, InsertedSane
<1> QED BY <1>1, <1>2

\* The states of a loop: sane, and with more provenance than it began with.
LoopStates(st, ev, quiet, ms, e) ==
    {a \in [rows : Tables, prov : SUBSET (Statements \X Nat)] :
        Sane(a, ev, quiet, ms) /\ Gained(st, a, e)}

LEMMA InLoop ==
    ASSUME NEW st, NEW ev, NEW quiet, NEW ms, NEW e, DOMAIN ev \subseteq Nat,
           NEW a, Sane(a, ev, quiet, ms), Gained(st, a, e)
    PROVE  a \in LoopStates(st, ev, quiet, ms, e)
<1>1. a.rows \in Tables /\ Stored(a.rows) \subseteq Statements
    BY DEF Sane, Linked, Linkage, Tables
<1>2. a.prov \in SUBSET (Statements \X Nat)
    BY <1>1 DEF Sane
<1>3. a = [rows |-> a.rows, prov |-> a.prov]
    BY DEF Sane
<1>4. a \in [rows : Tables, prov : SUBSET (Statements \X Nat)]
    BY <1>1, <1>2, <1>3
<1> QED BY <1>4 DEF LoopStates

\* The scan of the dependents, turn by turn.
CascadeHit(st, new) ==
    {x \in Active(st.rows) : \E k \in Cascades : k.of = new /\ k.dependent = x}

CascadeAdds(new, x) == (CHOOSE k \in Cascades : k.of = new /\ k.dependent = x).adds

CascadeTurn(st, new, e, s, now, a, n) ==
    IF WithId(st.rows, CascadeHit(st, new), n) = {} THEN a
    ELSE Review(a, CascadeAdds(new, CHOOSE x \in WithId(st.rows, CascadeHit(st, new), n) : TRUE),
                e, s, now)

CascadeRun(st, new, e, s, now, g) ==
    /\ g[0] = st
    /\ \A n \in 1..Cardinality(Stored(st.rows)) :
          g[n] = CascadeTurn(st, new, e, s, now, g[n - 1], n)
    /\ CascadeComponentStatus(st, new, e, s, now) = g[Cardinality(Stored(st.rows))]

\* Whatever the scan finds, the stores it goes through are sane.
LEMMA CascadeRuns ==
    ASSUME NEW st, NEW ev, NEW quiet, NEW ms, Sane(st, ev, quiet, ms), NEW new,
           NEW e, NEW s, NEW now, Source(ev, e, s, now)
    PROVE  \E g : /\ CascadeRun(st, new, e, s, now, g)
                  /\ \A n \in 0..Cardinality(Stored(st.rows)) :
                        Sane(g[n], ev, quiet, ms) /\ Gained(st, g[n], e)
<1> DEFINE N == Cardinality(Stored(st.rows))
           hit == CascadeHit(st, new)
           Turn(a, n) == CascadeTurn(st, new, e, s, now, a, n)
           hit1 == {x \in Active(st.rows) : \E k \in Cascades : k.of = new /\ k.dependent = x}
           Adds(x) == (CHOOSE k \in Cascades : k.of = new /\ k.dependent = x).adds
           Body(f, n) == IF n = 0 THEN st
                         ELSE IF WithId(st.rows, hit1, n) = {} THEN f[n - 1]
                         ELSE Review(f[n - 1], Adds(CHOOSE x \in WithId(st.rows, hit1, n) : TRUE),
                                     e, s, now)
           Is(f) == f = [n \in 0..N |-> Body(f, n)]
           S == LoopStates(st, ev, quiet, ms, e)
           F == [p \in S \X (1..N) |-> Turn(p[1], p[2])]
<1>1. N \in Nat
    BY StoredFinite DEF Sane, Linked, Linkage
<1>2. \A a : Sane(a, ev, quiet, ms) /\ Gained(st, a, e) => a \in S
    BY InLoop DEF Source
<1>3. st \in S
    BY <1>2 DEF Gained
<1>4. ASSUME NEW a \in S, NEW n \in 1..N PROVE Turn(a, n) \in S
  <2>1. Sane(a, ev, quiet, ms) /\ Gained(st, a, e)
      BY DEF LoopStates
  <2>2. CASE WithId(st.rows, hit, n) = {}
      BY <2>2 DEF CascadeTurn
  <2>3. CASE WithId(st.rows, hit, n) # {}
    <3> DEFINE x == CHOOSE x \in WithId(st.rows, hit, n) : TRUE
    <3>1. x \in WithId(st.rows, hit, n)
        BY <2>3
    <3>2. x \in hit
      <4> HIDE DEF x, hit
      <4> QED BY <3>1 DEF WithId
    <3>3. CascadeAdds(new, x) \in Added
      <4>1. \E k \in Cascades : k.of = new /\ k.dependent = x
        <5> HIDE DEF x
        <5> QED BY <3>2 DEF CascadeHit
      <4> HIDE DEF x
      <4>2. (CHOOSE k \in Cascades : k.of = new /\ k.dependent = x) \in Cascades
          BY <4>1
      <4> QED BY <4>2 DEF Added, CascadeAdds
    <3> DEFINE y == CascadeAdds(new, x)
    <3>4. Turn(a, n) = Review(a, y, e, s, now)
        BY <2>3 DEF CascadeTurn
    <3>5. y \in Added
        BY <3>3
    <3> HIDE DEF y
    <3>6. Sane(Review(a, y, e, s, now), ev, quiet, ms)
        BY <2>1, <3>5, ReviewSane
    <3>7. Gained(st, Review(a, y, e, s, now), e)
      <4>1. y \in Statements
          BY <3>5, StoreAssumption DEF Added
      <4>2. Stored(a.rows) \subseteq Stored(Review(a, y, e, s, now).rows)
          BY DEF Review, Insert, Stored
      <4>3. Review(a, y, e, s, now).prov = a.prov \cup {<<y, e>>}
          BY DEF Review, LinkProvenance
      <4> QED BY <2>1, <4>1, <4>2, <4>3 DEF Gained
    <3> QED BY <1>2, <3>4, <3>6, <3>7
  <2> QED BY <2>2, <2>3
<1> HIDE DEF S, N
<1>5. F \in [S \X (1..N) -> S] /\ \A a \in S, n \in 1..N : F[<<a, n>>] = Turn(a, n)
    BY <1>4
<1> HIDE DEF F
<1>6. PICK f \in [0..N -> S] : IsLoop(N, st, F, f)
    BY <1>1, <1>3, <1>5, LoopExists
<1>7. \A g : \A n \in 1..N : Body(g, n) = Turn(g[n - 1], n)
  <2>1. \A n \in 1..N : n # 0
      BY <1>1
  <2> QED BY <2>1 DEF CascadeTurn, CascadeHit, CascadeAdds
<1>8. \A g : Body(g, 0) = st
    OBVIOUS
<1>9. /\ 0 \in 0..N /\ N \in 0..N
      /\ \A n \in 1..N : n \in 0..N /\ n - 1 \in 0..N
      /\ \A n \in 0..N : n = 0 \/ n \in 1..N
    BY <1>1
<1> HIDE DEF Body
<1>10. \A n \in 0..N : f[n] = Body(f, n)
  <2> SUFFICES ASSUME NEW n \in 0..N PROVE f[n] = Body(f, n)
      OBVIOUS
  <2>1. CASE n = 0
      BY <1>6, <1>8, <2>1 DEF IsLoop
  <2>2. CASE n \in 1..N
    <3>1. f[n] = F[<<f[n - 1], n>>] /\ f[n - 1] \in S
        BY <1>6, <1>9, <2>2 DEF IsLoop
    <3>2. F[<<f[n - 1], n>>] = Turn(f[n - 1], n)
        BY <1>5, <2>2, <3>1
    <3> QED BY <1>7, <2>2, <3>1, <3>2
  <2> QED BY <1>9, <2>1, <2>2
<1>11. Is(f)
  <2>1. f = [n \in 0..N |-> f[n]]
      BY <1>6 DEF IsLoop
  <2>2. [n \in 0..N |-> f[n]] = [n \in 0..N |-> Body(f, n)]
      BY <1>10
  <2> QED BY <2>1, <2>2
<1> DEFINE g == CHOOSE h : Is(h)
<1>12. Is(g)
  <2> HIDE DEF Is
  <2> QED BY <1>11
<1>13. CascadeComponentStatus(st, new, e, s, now) = g[N]
    BY DEF CascadeComponentStatus, N, Body
<1> HIDE DEF g
<1>14. \A n \in 0..N : g[n] = Body(g, n)
    BY <1>12
<1>15. \A n \in 0..N : g[n] \in S
  <2> DEFINE P == {n \in 0..N : g[n] \in S}
  <2>1. 0 \in P
      BY <1>3, <1>8, <1>9, <1>14
  <2>2. ASSUME NEW n \in 1..N, n - 1 \in P PROVE n \in P
    <3>1. n \in 0..N /\ g[n] = Turn(g[n - 1], n)
        BY <1>7, <1>9, <1>14
    <3> QED BY <1>4, <2>2, <3>1
  <2> HIDE DEF P
  <2>3. \A n \in 0..N : n \in P
      BY <1>1, <2>1, <2>2, LoopInduction
  <2> QED BY <2>3 DEF P
<1>16. CascadeRun(st, new, e, s, now, g)
  <2>1. g[0] = st /\ \A n \in 1..N : g[n] = CascadeTurn(st, new, e, s, now, g[n - 1], n)
      BY <1>7, <1>8, <1>9, <1>14
  <2> QED BY <1>13, <2>1 DEF CascadeRun, N
<1>17. \A n \in 0..N : Sane(g[n], ev, quiet, ms) /\ Gained(st, g[n], e)
    BY <1>15 DEF S, LoopStates
<1> QED BY <1>16, <1>17 DEF N

LEMMA CascadeSane ==
    ASSUME NEW st, NEW ev, NEW quiet, NEW ms, Sane(st, ev, quiet, ms), NEW new,
           NEW e, NEW s, NEW now, Source(ev, e, s, now)
    PROVE  LET out == CascadeComponentStatus(st, new, e, s, now)
           IN  Sane(out, ev, quiet, ms) /\ Gained(st, out, e)
<1>1. Cardinality(Stored(st.rows)) \in 0..Cardinality(Stored(st.rows))
    BY StoredFinite DEF Sane, Linked, Linkage
<1> QED BY <1>1, CascadeRuns DEF CascadeRun

\* Folding into a stored row, live or not.
LEMMA FoldIntoSane ==
    ASSUME NEW st, NEW ev, NEW quiet, NEW ms, Sane(st, ev, quiet, ms), NEW echo \in Stored(st.rows),
           NEW e, NEW s, NEW now, Source(ev, e, s, now)
    PROVE  LET out == FoldInto(st, echo, e, s)
           IN  /\ Sane(out, ev, quiet, ms) /\ Gained(st, out, e)
               /\ \E x \in Statements : <<x, e>> \in out.prov
<1> DEFINE rs == st.rows
           out == FoldInto(st, echo, e, s)
<1>0. Linked(rs) /\ e \in Nat /\ e \in DOMAIN ev /\ Stored(rs) \subseteq Statements
    BY DEF Sane, Source, Linked, Linkage
<1>1. out = [rows |-> [rs EXCEPT ![echo] = Bump(@, s, e)], prov |-> LinkProvenance(st, echo, e)]
    BY DEF FoldInto
<1> HIDE DEF out
<1> DEFINE r == Bump(rs[echo], s, e)
<1>2. rs[echo] \in Row
    BY <1>0 DEF Linked
<1>3. /\ r \in Row /\ r.by = rs[echo].by /\ r.session = rs[echo].session
      /\ r.archived = rs[echo].archived
      /\ rs[echo].session = s => r.mention = rs[echo].mention /\ r.weight = rs[echo].weight
    BY <1>0, <1>2, BumpTouches
<1>4. out = [rows |-> [rs EXCEPT ![echo] = r], prov |-> st.prov \cup {<<echo, e>>}]
    BY <1>1 DEF LinkProvenance
<1> HIDE DEF r
<1>5. Touch(rs, echo, r, ms)
    BY <1>3 DEF Touch
<1>6. \/ ev[e].session # rs[echo].session
      \/ r.mention = rs[echo].mention /\ r.weight = rs[echo].weight
    BY <1>3 DEF Source
<1>7. Sane([rows |-> [rs EXCEPT ![echo] = r], prov |-> st.prov \cup {<<echo, e>>}], ev, quiet, ms)
    BY <1>0, <1>5, <1>6, TouchedSane
<1>8. out.prov = st.prov \cup {<<echo, e>>} /\ echo \in Statements
      /\ Stored(out.rows) = Stored(rs)
    BY <1>0, <1>4 DEF Stored
<1>9. Gained(st, out, e) /\ \E x \in Statements : <<x, e>> \in out.prov
    BY <1>8 DEF Gained
<1> QED BY <1>4, <1>7, <1>9 DEF out

\* Inserting or counting a candidate that echoes no live row, but for a missed pair.
LEMMA MintSane ==
    ASSUME NEW st, NEW ev, NEW quiet, NEW ms, Sane(st, ev, quiet, ms), NEW c, Ruled(c),
           NoNear(st.rows, c.stmt, ms), NEW e, NEW s, NEW now, Source(ev, e, s, now)
    PROVE  LET out == Mint(st, c, e, s, now)
           IN  /\ Sane(out, ev, quiet, ms) /\ Gained(st, out, e)
               /\ \E x \in Statements : <<x, e>> \in out.prov
<1> DEFINE rs == st.rows
           out == Mint(st, c, e, s, now)
           in  == InsertOrUpdate(rs, c, e, s, now)
           sup == SupersedeAll(in, FindSuperseded(in, c, e, s, now), c.stmt)
           ded == CrossTypeDedup(sup, c.stmt)
           P   == LinkProvenance(st, c.stmt, e)
           mid == [rows |-> ded, prov |-> P]
<1>1. out = IF TypeOf[c.stmt] = "COMPONENT_STATUS"
            THEN CascadeComponentStatus(mid, c.stmt, e, s, now) ELSE mid
    BY DEF Mint
<1>2. /\ Sane([rows |-> in, prov |-> P], ev, quiet, ms)
      /\ c.stmt \in Stored(in) /\ Stored(rs) \subseteq Stored(in)
    BY InsertOrUpdateSane
<1>3. c.stmt \in Statements
    BY DEF Ruled
<1> HIDE DEF in, P, out
<1>4. Linked(in)
  <2>1. [rows |-> in, prov |-> P].rows = in
      OBVIOUS
  <2> QED BY <1>2, <2>1 DEF Sane
<1>5. Relinked(in, sup)
    BY <1>2, <1>3, <1>4, SupersededFound, SupersedeAllLinks
<1> HIDE DEF sup
<1>6. Linked(sup) /\ c.stmt \in Stored(sup)
    BY <1>2, <1>5 DEF Relinked
<1>7. Relinked(in, ded)
    BY <1>5, <1>6, CrossTypeDedupLinks, RelinkedAgain
<1> HIDE DEF ded
<1>8. Sane(mid, ev, quiet, ms)
  <2> DEFINE st1 == [rows |-> in, prov |-> P]
  <2>1. st1.rows = in /\ st1.prov = P
      OBVIOUS
  <2>2. Sane(st1, ev, quiet, ms)
      BY <1>2
  <2> HIDE DEF st1
  <2>3. Sane([rows |-> ded, prov |-> st1.prov], ev, quiet, ms)
      BY <1>7, <2>1, <2>2, RelinkedSane
  <2> QED BY <2>1, <2>3
<1>9. mid.prov = st.prov \cup {<<c.stmt, e>>} /\ Stored(rs) \subseteq Stored(mid.rows)
    BY <1>2, <1>7 DEF P, LinkProvenance, Relinked
<1> HIDE DEF mid
<1>10. Gained(st, mid, e) /\ <<c.stmt, e>> \in mid.prov
    BY <1>3, <1>9 DEF Gained
<1>11. CASE TypeOf[c.stmt] = "COMPONENT_STATUS"
  <2>1. out = CascadeComponentStatus(mid, c.stmt, e, s, now)
      BY <1>1, <1>11
  <2>2. Sane(out, ev, quiet, ms) /\ Gained(mid, out, e)
      BY <1>8, <2>1, CascadeSane
  <2> QED BY <1>3, <1>10, <2>2 DEF Gained, out
<1>12. CASE TypeOf[c.stmt] # "COMPONENT_STATUS"
    BY <1>1, <1>3, <1>8, <1>10, <1>12 DEF out
<1> QED BY <1>11, <1>12

\* One turn, whatever was found: a stored row, or None where only missed pairs echo.
LEMMA MergeWithSane ==
    ASSUME NEW st, NEW ev, NEW quiet, NEW ms, Sane(st, ev, quiet, ms), NEW cand \in Cand, NEW echo,
           \/ echo = None /\ NoNear(st.rows, cand.stmt, ms)
           \/ echo # None /\ echo \in Stored(st.rows),
           NEW e, NEW s, NEW now, Source(ev, e, s, now)
    PROVE  LET out == MergeWith(st, cand, echo, e, s, now)
           IN  /\ Sane(out, ev, quiet, ms) /\ Gained(st, out, e)
               /\ \E x \in Statements : <<x, e>> \in out.prov
<1> DEFINE c == ApplyVerdict(cand)
<1>1. Ruled(c) /\ c.stmt = cand.stmt
    BY VerdictApplied
<1>2. CASE echo = None
  <2>1. MergeWith(st, cand, echo, e, s, now) = Mint(st, c, e, s, now)
      BY <1>2 DEF MergeWith
  <2>2. NoNear(st.rows, c.stmt, ms)
      BY <1>1, <1>2
  <2> HIDE DEF c
  <2> QED BY <1>1, <2>1, <2>2, MintSane
<1>3. CASE echo # None
  <2>1. MergeWith(st, cand, echo, e, s, now) = FoldInto(st, echo, e, s)
      BY <1>3 DEF MergeWith
  <2> QED BY <1>3, <2>1, FoldIntoSane
<1> QED BY <1>2, <1>3

LEMMA CandidateSane ==
    ASSUME NEW st, NEW ev, NEW quiet, NEW ms, Sane(st, ev, quiet, ms), NEW cand \in Cand,
           NEW e, NEW s, NEW now, Source(ev, e, s, now)
    PROVE  LET out == MergeCandidate(st, cand, e, s, now)
           IN  Sane(out, ev, quiet, ms) /\ Gained(st, out, e)
<1>1. CASE Verdict(cand) = "reject"
    BY <1>1 DEF MergeCandidate, Gained
<1>2. CASE Verdict(cand) # "reject"
  <2> DEFINE echo == EchoOf(st.rows, cand.stmt)
  <2>1. MergeCandidate(st, cand, e, s, now) = MergeWith(st, cand, echo, e, s, now)
      BY <1>2 DEF MergeCandidate
  <2>2. \/ echo = None /\ NoNear(st.rows, cand.stmt, ms)
        \/ echo # None /\ echo \in Stored(st.rows)
      BY EchoFound DEF Sane
  <2> HIDE DEF echo
  <2> QED BY <2>1, <2>2, MergeWithSane
<1> QED BY <1>1, <1>2

\* The loop over the candidates, turn by turn.
CandidatesRun(st, cands, e, s, now, g) ==
    /\ g[0] = st
    /\ \A n \in 1..Len(cands) : g[n] = MergeCandidate(g[n - 1], cands[n], e, s, now)
    /\ MergeCandidates(st, cands, e, s, now) = g[Len(cands)]

LEMMA CandidatesRuns ==
    ASSUME NEW st, NEW ev, NEW quiet, NEW ms, Sane(st, ev, quiet, ms), NEW cands \in Seq(Cand),
           NEW e, NEW s, NEW now, Source(ev, e, s, now)
    PROVE  \E g : /\ CandidatesRun(st, cands, e, s, now, g)
                  /\ \A n \in 0..Len(cands) : Sane(g[n], ev, quiet, ms) /\ Gained(st, g[n], e)
<1> DEFINE N == Len(cands)
           Turn(a, n) == MergeCandidate(a, cands[n], e, s, now)
           Body(f, n) == IF n = 0 THEN st ELSE Turn(f[n - 1], n)
           Is(f) == f = [n \in 0..N |-> Body(f, n)]
           S == LoopStates(st, ev, quiet, ms, e)
           F == [p \in S \X (1..N) |-> Turn(p[1], p[2])]
<1>1. N \in Nat /\ DOMAIN cands = 1..N /\ \A n \in 1..N : cands[n] \in Cand
    OBVIOUS
<1>2. \A a : Sane(a, ev, quiet, ms) /\ Gained(st, a, e) => a \in S
    BY InLoop DEF Source
<1>3. st \in S
    BY <1>2 DEF Gained
<1>4. ASSUME NEW a \in S, NEW n \in 1..N PROVE Turn(a, n) \in S
  <2>1. Sane(a, ev, quiet, ms) /\ Gained(st, a, e)
      BY DEF LoopStates
  <2>2. Sane(Turn(a, n), ev, quiet, ms) /\ Gained(a, Turn(a, n), e)
      BY <1>1, <2>1, CandidateSane
  <2> HIDE DEF Turn
  <2>3. Gained(st, Turn(a, n), e)
      BY <2>1, <2>2 DEF Gained
  <2> QED BY <1>2, <2>2, <2>3
<1>5. MergeCandidates(st, cands, e, s, now) = (CHOOSE f : Is(f))[N]
    BY DEF MergeCandidates
<1> HIDE DEF Turn, S, N
<1>6. F \in [S \X (1..N) -> S] /\ \A a \in S, n \in 1..N : F[<<a, n>>] = Turn(a, n)
    BY <1>4
<1> HIDE DEF F
<1>7. PICK f \in [0..N -> S] : IsLoop(N, st, F, f)
    BY <1>1, <1>3, <1>6, LoopExists
<1>8. /\ \A g : Body(g, 0) = st
      /\ \A g : \A n \in 1..N : Body(g, n) = Turn(g[n - 1], n)
  <2>1. \A n \in 1..N : n # 0
      BY <1>1
  <2> QED BY <2>1
<1>9. /\ 0 \in 0..N /\ N \in 0..N
      /\ \A n \in 1..N : n \in 0..N /\ n - 1 \in 0..N
      /\ \A n \in 0..N : n = 0 \/ n \in 1..N
    BY <1>1
<1> HIDE DEF Body
<1>10. \A n \in 0..N : f[n] = Body(f, n)
  <2> SUFFICES ASSUME NEW n \in 0..N PROVE f[n] = Body(f, n)
      OBVIOUS
  <2>1. CASE n = 0
      BY <1>7, <1>8, <2>1 DEF IsLoop
  <2>2. CASE n \in 1..N
    <3>1. f[n] = F[<<f[n - 1], n>>] /\ f[n - 1] \in S
        BY <1>7, <1>9, <2>2 DEF IsLoop
    <3>2. F[<<f[n - 1], n>>] = Turn(f[n - 1], n)
        BY <1>6, <2>2, <3>1
    <3> QED BY <1>8, <2>2, <3>1, <3>2
  <2> QED BY <1>9, <2>1, <2>2
<1>11. Is(f)
  <2>1. f = [n \in 0..N |-> f[n]]
      BY <1>7 DEF IsLoop
  <2>2. [n \in 0..N |-> f[n]] = [n \in 0..N |-> Body(f, n)]
      BY <1>10
  <2> QED BY <2>1, <2>2
<1> DEFINE g == CHOOSE h : Is(h)
<1>12. Is(g)
  <2> HIDE DEF Is
  <2> QED BY <1>11
<1> HIDE DEF g
<1>14. \A n \in 0..N : g[n] = Body(g, n)
    BY <1>12
<1>15. \A n \in 0..N : g[n] \in S
  <2> DEFINE P == {n \in 0..N : g[n] \in S}
  <2>1. 0 \in P
      BY <1>3, <1>8, <1>9, <1>14
  <2>2. ASSUME NEW n \in 1..N, n - 1 \in P PROVE n \in P
    <3>1. n \in 0..N /\ g[n] = Turn(g[n - 1], n)
        BY <1>8, <1>9, <1>14
    <3> QED BY <1>4, <2>2, <3>1
  <2> HIDE DEF P
  <2>3. \A n \in 0..N : n \in P
      BY <1>1, <2>1, <2>2, LoopInduction
  <2> QED BY <2>3 DEF P
<1>16. CandidatesRun(st, cands, e, s, now, g)
  <2>1. g[0] = st /\ \A n \in 1..N : g[n] = MergeCandidate(g[n - 1], cands[n], e, s, now)
      BY <1>8, <1>9, <1>14 DEF Turn
  <2>2. MergeCandidates(st, cands, e, s, now) = g[N]
      BY <1>5 DEF g, N
  <2> QED BY <2>1, <2>2 DEF CandidatesRun, N
<1>17. \A n \in 0..N : Sane(g[n], ev, quiet, ms) /\ Gained(st, g[n], e)
    BY <1>15 DEF S, LoopStates
<1> QED BY <1>16, <1>17 DEF N

LEMMA CandidatesSane ==
    ASSUME NEW st, NEW ev, NEW quiet, NEW ms, Sane(st, ev, quiet, ms), NEW cands \in Seq(Cand),
           NEW e, NEW s, NEW now, Source(ev, e, s, now)
    PROVE  LET out == MergeCandidates(st, cands, e, s, now)
           IN  Sane(out, ev, quiet, ms) /\ Gained(st, out, e)
<1>1. Len(cands) \in 0..Len(cands)
    OBVIOUS
<1> QED BY <1>1, CandidatesRuns DEF CandidatesRun

-----------------------------------------------------------------------------
\* Decay and archive, and what the other steps keep.

\* Rows that lose weight or go to the archive, and keep the rest.
Fades(rs, rt) ==
    /\ rt \in [Stored(rs) -> Row]
    /\ \A x \in Stored(rs) :
          /\ rt[x].by = rs[x].by /\ rt[x].session = rs[x].session
          /\ rt[x].mention = rs[x].mention /\ rt[x].weight <= rs[x].weight
          /\ rs[x].archived => rt[x].archived

LEMMA FadedSane ==
    ASSUME NEW st, NEW ev, NEW quiet, NEW ms, NEW still, Sane(st, ev, quiet, ms), NEW rt, Fades(st.rows, rt),
           still => quiet,
           still => \A x \in Stored(st.rows) :
                        TypeOf[x] \in Protected => rt[x].archived = st.rows[x].archived
    PROVE  Sane([rows |-> rt, prov |-> st.prov], ev, still, ms)
<1> DEFINE out == [rows |-> rt, prov |-> st.prov]
           rs == st.rows
<1>1. out.rows = rt /\ out.prov = st.prov /\ out = [rows |-> out.rows, prov |-> out.prov]
    OBVIOUS
<1> HIDE DEF out
<1>2. rs \in [Stored(rs) -> Row] /\ Linkage(rs) /\ Acyc(rs) /\ Stored(rs) \subseteq Statements
    BY DEF Sane, Linked, Linkage
<1>3. Stored(rt) = Stored(rs) /\ rt \in [Stored(rt) -> Row]
    BY DEF Fades, Stored
<1>4. Linkage(rt) /\ Acyc(rt)
    BY <1>2, <1>3, SameLinksKeep DEF Fades
<1>5. Active(rt) \subseteq Active(rs)
    BY <1>3 DEF Fades, Active
<1>6. Unechoed(rt, ms)
    BY <1>5 DEF Sane, Unechoed
<1>7. out.prov \subseteq Stored(rt) \X DOMAIN ev
    BY <1>1, <1>3 DEF Sane
<1>8. Counted(out, ev)
  <2> SUFFICES ASSUME NEW y \in Stored(rt) \ Added,
                      \A p \in out.prov : p[1] = y => ev[p[2]].session = rt[y].session
               PROVE  rt[y].mention = 1 /\ rt[y].weight <= InitialWeight
      BY <1>1 DEF Counted
  <2>1. y \in Stored(rs) /\ rt[y].session = rs[y].session /\ rt[y].mention = rs[y].mention
        /\ rt[y].weight <= rs[y].weight
      BY <1>3 DEF Fades
  <2>2. rs[y].mention = 1 /\ rs[y].weight <= InitialWeight
      BY <1>1, <2>1 DEF Sane, Counted
  <2>3. rs[y].weight \in 0..MaxWeight /\ rt[y].weight \in 0..MaxWeight
      BY <1>2, <1>3, <2>1 DEF Row
  <2> QED BY <2>1, <2>2, <2>3, StoreAssumption
<1>9. still => Standing(rt)
  <2>1. still => Standing(rs)
      BY DEF Sane
  <2> QED BY <1>3, <2>1 DEF Standing, Fades
<1> QED BY <1>1, <1>3, <1>4, <1>6, <1>7, <1>8, <1>9 DEF Sane, Linked, out

\* Decay takes no weight below zero and archives no commitment.
LEMMA DecayFades ==
    ASSUME NEW rs, rs \in [Stored(rs) -> Row], NEW s
    PROVE  /\ Fades(rs, DecayAll(rs, s))
           /\ \A x \in Stored(rs) :
                 TypeOf[x] \in Protected => DecayAll(rs, s)[x].archived = rs[x].archived
<1> DEFINE rt == DecayAll(rs, s)
           new(x) == [Decayed(rs[x], s) EXCEPT !.archived = @ \/ ArchiveDue(x, Decayed(rs[x], s))]
<1>1. rt = [x \in Stored(rs) |-> new(x)]
    BY DEF DecayAll
<1>2. ASSUME NEW x \in Stored(rs)
      PROVE  /\ new(x) \in Row /\ new(x).by = rs[x].by /\ new(x).session = rs[x].session
             /\ new(x).mention = rs[x].mention /\ new(x).weight <= rs[x].weight
             /\ rs[x].archived => new(x).archived
             /\ TypeOf[x] \in Protected => new(x).archived = rs[x].archived
  <2> DEFINE w == IF rs[x].session # s /\ ~rs[x].archived /\ rs[x].weight > 0
                  THEN rs[x].weight - 1 ELSE rs[x].weight
             d == [rs[x] EXCEPT !.weight = w]
             b == d.archived \/ ArchiveDue(x, d)
  <2>1. rs[x] \in Row /\ rs[x].weight \in 0..MaxWeight /\ rs[x].archived \in BOOLEAN
      BY DEF Row
  <2>2. w \in 0..MaxWeight /\ w <= rs[x].weight
      BY <2>1, StoreAssumption
  <2>3. new(x) = [d EXCEPT !.archived = b]
      BY DEF Decayed
  <2> HIDE DEF w, new
  <2>4. /\ d \in Row /\ d.by = rs[x].by /\ d.session = rs[x].session
        /\ d.mention = rs[x].mention /\ d.weight = w /\ d.archived = rs[x].archived
      BY <2>1, <2>2 DEF Row
  <2> HIDE DEF d
  <2>5. b \in BOOLEAN /\ (rs[x].archived => b)
        /\ (TypeOf[x] \in Protected => b = rs[x].archived)
      BY <2>1, <2>4 DEF ArchiveDue
  <2> HIDE DEF b
  <2> QED BY <2>2, <2>3, <2>4, <2>5 DEF Row
<1> HIDE DEF new, rt
<1>3. Fades(rs, rt)
    BY <1>1, <1>2 DEF Fades
<1>4. \A x \in Stored(rs) : TypeOf[x] \in Protected => rt[x].archived = rs[x].archived
    BY <1>1, <1>2
<1> QED BY <1>3, <1>4 DEF rt

\* Whether it was due or not.
LEMMA DecaySane ==
    ASSUME NEW st, NEW ev, NEW quiet, NEW ms, Sane(st, ev, quiet, ms), NEW due, NEW s
    PROVE  Sane([rows |-> ApplyDecay(st.rows, due, s), prov |-> st.prov], ev, quiet, ms)
<1>1. st.rows \in [Stored(st.rows) -> Row]
    BY DEF Sane, Linked
<1>2. CASE ~due
  <2>1. ApplyDecay(st.rows, due, s) = st.rows
      BY <1>2 DEF ApplyDecay
  <2> QED BY <2>1 DEF Sane
<1>3. CASE due
  <2> DEFINE rt == ApplyDecay(st.rows, due, s)
  <2>1. rt = DecayAll(st.rows, s)
      BY <1>3 DEF ApplyDecay
  <2> HIDE DEF rt
  <2>2. /\ Fades(st.rows, rt)
        /\ \A x \in Stored(st.rows) : TypeOf[x] \in Protected => rt[x].archived = st.rows[x].archived
      BY <1>1, <2>1, DecayFades
  <2>3. Sane([rows |-> rt, prov |-> st.prov], ev, quiet, ms)
      BY <2>2, FadedSane
  <2> QED BY <2>3 DEF rt
<1> QED BY <1>2, <1>3

LEMMA DecayKeeps ==
    ASSUME NEW rs, rs \in [Stored(rs) -> Row], NEW due, NEW s
    PROVE  /\ Stored(ApplyDecay(rs, due, s)) = Stored(rs)
           /\ Active(ApplyDecay(rs, due, s)) \subseteq Active(rs)
<1>1. CASE ~due
    BY <1>1 DEF ApplyDecay
<1>2. CASE due
  <2> DEFINE rt == DecayAll(rs, s)
  <2>1. ApplyDecay(rs, due, s) = rt
      BY <1>2 DEF ApplyDecay
  <2> HIDE DEF rt
  <2>2. Fades(rs, rt)
      BY DecayFades DEF rt
  <2> QED BY <2>1, <2>2 DEF Fades, Stored, Active
<1> QED BY <1>1, <1>2

\* Further evidence changes nothing of what is stored.
LEMMA EvidenceGrows ==
    ASSUME NEW st, NEW ev, NEW quiet, NEW ms, Sane(st, ev, quiet, ms), NEW more,
           DOMAIN ev \subseteq DOMAIN more, \A f \in DOMAIN ev : more[f] = ev[f]
    PROVE  Sane(st, more, quiet, ms)
<1>1. \A p \in st.prov : p[2] \in DOMAIN ev /\ more[p[2]] = ev[p[2]]
    BY DEF Sane
<1>2. Counted(st, more)
    BY <1>1 DEF Sane, Counted
<1>3. st.prov \subseteq Stored(st.rows) \X DOMAIN more
    BY DEF Sane
<1> QED BY <1>2, <1>3 DEF Sane

-----------------------------------------------------------------------------
\* The store in every reachable state.

Evidence == [session : Sessions, cands : Batches]

Place == [at : {"idle", "guard", "look", "write", "finish"}, ev : Nat, now : Nat, next : Nat,
          echo : Statements \cup {None}, due : BOOLEAN, late : BOOLEAN]

\* What the search of a process found holds of the store while nobody has committed,
\* and the row it found remains.
Found(r, ev, rs, ms) ==
    /\ r.at # "idle" => r.ev \in DOMAIN ev
    /\ r.at = "look" => r.next # 0
    /\ r.at = "write" =>
          /\ r.next \in 1..Len(ev[r.ev].cands)
          /\ Verdict(ev[r.ev].cands[r.next]) # "reject"
          /\ r.echo = None /\ ~r.late => NoNear(rs, ev[r.ev].cands[r.next].stmt, ms)
          /\ r.echo # None => r.echo \in Stored(rs)

Busy(r) == r.at \in {"look", "write", "finish"}

\* A merge that has passed the guard and written nothing yet.
Unwritten(r, ev) ==
    /\ r.at \in {"look", "write"}
    /\ \A i \in 1..r.next - 1 : Verdict(ev[r.ev].cands[i]) = "reject"

\* Evidence that was merged has a provenance, which the guard looks for; what was
\* merged twice, or will be, two had let through together.
Tally(mg, ev, p, ts, rc) ==
    /\ ts \in Seq(Nat) /\ Len(ts) = Len(ev)
    /\ \A e \in DOMAIN ev : /\ ts[e] > 0 => \E x \in Statements : <<x, e>> \in p
                            /\ ts[e] <= 1 \/ e \in rc
    /\ \A m \in Mergers : Unwritten(mg[m], ev) => ts[mg[m].ev] = 0 \/ mg[m].ev \in rc
    /\ \A m, k \in Mergers :
          m # k /\ Busy(mg[m]) /\ Busy(mg[k]) /\ mg[m].ev = mg[k].ev => mg[m].ev \in rc

Store == [rows |-> rows, prov |-> prov]

StoreInv ==
    /\ evidence \in Seq(Evidence) /\ clock \in Nat /\ links \in Nat
    /\ lastDecay \in Sessions \cup {None}
    /\ Sane(Store, evidence, links = 0, missed)
    /\ merge \in [Mergers -> Place]
    /\ \A m \in Mergers : Found(merge[m], evidence, rows, missed)
    /\ Tally(merge, evidence, prov, times, raced)

LEMMA StoreFields == Store.rows = rows /\ Store.prov = prov
BY DEF Store

LEMMA IdlePlace == Idle \in Place /\ Idle.at = "idle" /\ ~Busy(Idle)
BY DEF Idle, Place, Busy

LEMMA StoreInit == Init => StoreInv
<1> SUFFICES ASSUME Init PROVE StoreInv
    OBVIOUS
<1>1. /\ evidence = <<>> /\ clock = 0 /\ rows = <<>> /\ prov = {}
      /\ lastDecay = None /\ links = 0 /\ times = <<>> /\ merge = [m \in Mergers |-> Idle]
    BY DEF Init
<1>2. Stored(rows) = {} /\ rows \in [{} -> Row]
    BY <1>1 DEF Stored
<1>3. Linked(rows)
    BY <1>2 DEF Linked, Linkage, Acyc
<1>4. Sane(Store, evidence, links = 0, missed)
  <2>1. Unechoed(rows, missed) /\ Standing(rows)
      BY <1>2 DEF Unechoed, Standing, Active
  <2>2. Counted(Store, evidence)
      BY <1>2, StoreFields DEF Counted
  <2>3. prov \subseteq Stored(rows) \X DOMAIN evidence
      BY <1>1
  <2> QED BY <1>3, <2>1, <2>2, <2>3, StoreFields DEF Sane, Store
<1>5. \A m \in Mergers : merge[m] = Idle
    BY <1>1
<1>6. Tally(merge, evidence, prov, times, raced)
    BY <1>1, <1>5, IdlePlace DEF Tally, Unwritten
<1>7. \A m \in Mergers : Found(merge[m], evidence, rows, missed)
    BY <1>5, IdlePlace DEF Found
<1> QED BY <1>1, <1>4, <1>6, <1>7, IdlePlace DEF StoreInv

\* A pair that is missed once stays so.
LEMMA SaneMissed ==
    ASSUME NEW st, NEW ev, NEW quiet, NEW ms, Sane(st, ev, quiet, ms), NEW mt, ms \subseteq mt
    PROVE  Sane(st, ev, quiet, mt)
BY DEF Sane, Unechoed

\* Rows that leave the live ones take nothing from what was found.
LEMMA FoundKept ==
    ASSUME NEW r, NEW ev, NEW rs, NEW ms, Found(r, ev, rs, ms), NEW rt,
           Active(rt) \subseteq Active(rs), Stored(rs) \subseteq Stored(rt)
    PROVE  Found(r, ev, rt, ms)
BY DEF Found, NoNear

\* The evidence a process merges, and its candidates.
LEMMA MergedSource ==
    ASSUME StoreInv, NEW m \in Mergers, merge[m].at # "idle"
    PROVE  /\ Source(evidence, merge[m].ev, Session(m), merge[m].now)
           /\ Cands(m) \in Seq(Cand) /\ merge[m] \in Place
<1>0. evidence \in Seq(Evidence) /\ merge[m] \in Place /\ merge[m].ev \in DOMAIN evidence
    BY DEF StoreInv, Found
<1>1. DOMAIN evidence \subseteq Nat /\ merge[m].ev \in 1..Len(evidence)
    BY <1>0
<1>2. evidence[merge[m].ev] \in Evidence
    BY <1>0, <1>1, ElementOfSeq
<1>3. Cands(m) \in Seq(Cand)
    BY <1>2, StoreAssumption DEF Cand, Evidence, Cands
<1> QED BY <1>0, <1>1, <1>2, <1>3 DEF Source, Session, Evidence, Place

LEMMA CaptureStores ==
    ASSUME StoreInv, NEW s \in Sessions, NEW cands \in Batches, Capture(s, cands)
    PROVE  StoreInv'
<1> DEFINE row == [session |-> s, cands |-> cands]
<1>1. /\ evidence' = Append(evidence, row) /\ times' = Append(times, 0)
      /\ UNCHANGED <<clock, rows, prov, lastDecay, merge, links, raced, missed>>
    BY DEF Capture, dbVars
<1>2. row \in Evidence
    BY DEF Evidence
<1>3. evidence \in Seq(Evidence) /\ times \in Seq(Nat) /\ Len(times) = Len(evidence)
    BY DEF StoreInv, Tally
<1> HIDE DEF row
<1>4. evidence' \in Seq(Evidence) /\ times' \in Seq(Nat) /\ Len(times') = Len(evidence')
    BY <1>1, <1>2, <1>3
<1>5. /\ DOMAIN evidence \subseteq DOMAIN evidence'
      /\ \A f \in DOMAIN evidence : evidence'[f] = evidence[f] /\ times'[f] = times[f]
      /\ \A f \in DOMAIN evidence' \ DOMAIN evidence : times'[f] = 0
    BY <1>1, <1>2, <1>3
<1>6. Store' = Store
    BY <1>1 DEF Store
<1>7. Sane(Store, evidence', links = 0, missed)
    BY <1>5, EvidenceGrows DEF StoreInv
<1>8. \A m \in Mergers : Found(merge[m], evidence', rows, missed)
    BY <1>5 DEF StoreInv, Found
<1>9. Tally(merge, evidence', prov, times', raced)
  <2>1. \A m \in Mergers : Unwritten(merge[m], evidence') =>
            merge[m].ev \in DOMAIN evidence /\ Unwritten(merge[m], evidence)
      BY <1>5 DEF StoreInv, Found, Unwritten
  <2>2. Tally(merge, evidence, prov, times, raced)
      BY DEF StoreInv
  <2>3. \A e \in DOMAIN evidence' : /\ times'[e] > 0 => \E x \in Statements : <<x, e>> \in prov
                                    /\ times'[e] <= 1 \/ e \in raced
      BY <1>5, <2>2 DEF Tally
  <2>4. \A m \in Mergers : Unwritten(merge[m], evidence') =>
            times'[merge[m].ev] = 0 \/ merge[m].ev \in raced
      BY <1>5, <2>1, <2>2 DEF Tally
  <2> QED BY <1>4, <2>2, <2>3, <2>4 DEF Tally
<1> QED BY <1>1, <1>4, <1>6, <1>7, <1>8, <1>9 DEF StoreInv

\* One process moves on, and is busy with what it was busy with or not at all.
LEMMA PlaceMoves ==
    ASSUME StoreInv, NEW m \in Mergers, NEW r \in Place, Found(r, evidence, rows, missed),
           Busy(r) => Busy(merge[m]) /\ r.ev = merge[m].ev,
           Unwritten(r, evidence) => Unwritten(merge[m], evidence),
           merge' = [merge EXCEPT ![m] = r],
           UNCHANGED <<evidence, rows, prov, lastDecay, links, history>>, clock' \in Nat
    PROVE  StoreInv'
<1>1. merge \in [Mergers -> Place] /\ Tally(merge, evidence, prov, times, raced)
    BY DEF StoreInv
<1>2. merge'[m] = r /\ \A k \in Mergers : k # m => merge'[k] = merge[k]
    BY <1>1
<1>3. Store' = Store /\ UNCHANGED <<times, raced, missed>>
    BY DEF Store, history
<1>4. \A k \in Mergers : Found(merge'[k], evidence, rows, missed)
    BY <1>2 DEF StoreInv
<1>5. Tally(merge', evidence, prov, times, raced)
  <2>1. \A k \in Mergers : Unwritten(merge'[k], evidence) =>
            Unwritten(merge[k], evidence) /\ merge'[k].ev = merge[k].ev
      BY <1>2 DEF Unwritten, Busy
  <2>2. \A k \in Mergers : Busy(merge'[k]) => Busy(merge[k]) /\ merge'[k].ev = merge[k].ev
      BY <1>2
  <2> QED BY <1>1, <2>1, <2>2 DEF Tally
<1>6. merge' \in [Mergers -> Place]
    BY <1>1
<1> QED BY <1>3, <1>4, <1>5, <1>6 DEF StoreInv

LEMMA ExtractStores ==
    ASSUME StoreInv, NEW m \in Mergers, NEW e \in DOMAIN evidence, Extract(m, e)
    PROVE  StoreInv'
<1> DEFINE r == [Idle EXCEPT !.at = "guard", !.ev = e, !.now = clock + 1]
<1>1. /\ merge' = [merge EXCEPT ![m] = r] /\ clock' = clock + 1
      /\ UNCHANGED <<evidence, rows, prov, lastDecay, links, history>>
    BY DEF Extract, dbVars
<1>2. clock' \in Nat /\ e \in Nat /\ clock + 1 \in Nat
    BY <1>1 DEF StoreInv
<1>3. r \in Place /\ r.at = "guard" /\ r.ev = e
    BY <1>2 DEF Idle, Place
<1> HIDE DEF r
<1>4. Found(r, evidence, rows, missed) /\ ~Busy(r) /\ ~Unwritten(r, evidence)
    BY <1>3 DEF Found, Busy, Unwritten
<1> QED BY <1>1, <1>2, <1>3, <1>4, PlaceMoves

\* A process that stops.
LEMMA StopsStores ==
    ASSUME StoreInv, NEW m \in Mergers, merge' = [merge EXCEPT ![m] = Idle],
           UNCHANGED <<evidence, clock, rows, prov, lastDecay, links, history>>
    PROVE  StoreInv'
<1>1. Found(Idle, evidence, rows, missed) /\ ~Unwritten(Idle, evidence)
    BY IdlePlace DEF Found, Unwritten
<1>2. clock' \in Nat
    BY DEF StoreInv
<1> QED BY <1>1, <1>2, IdlePlace, PlaceMoves

LEMMA GuardStores ==
    ASSUME StoreInv, NEW m \in Mergers, Guard(m)
    PROVE  StoreInv'
<1>1. merge[m].at = "guard" /\ UNCHANGED <<evidence, clock, rows, prov, lastDecay, links, times, missed>>
    BY DEF Guard, dbVars
<1>2. CASE ~ToMerge(prov, Cands(m), merge[m].ev)
  <2>1. merge' = [merge EXCEPT ![m] = Idle] /\ UNCHANGED history
      BY <1>1, <1>2 DEF Guard, history
  <2> QED BY <1>1, <2>1, StopsStores
<1>3. CASE ToMerge(prov, Cands(m), merge[m].ev)
  <2> DEFINE r == [merge[m] EXCEPT !.at = "look", !.next = 1]
             e == merge[m].ev
  <2>1. /\ merge' = [merge EXCEPT ![m] = r]
        /\ raced' = IF \E k \in Mergers : InMerge(k) /\ merge[k].ev = e THEN raced \cup {e} ELSE raced
      BY <1>3 DEF Guard
  <2>2. merge \in [Mergers -> Place] /\ merge[m] \in Place /\ e \in DOMAIN evidence
      BY <1>1 DEF StoreInv, Found
  <2>3. r \in Place /\ r.at = "look" /\ r.ev = e /\ r.next = 1
      BY <2>2 DEF Place
  <2>4. \A x \in Statements : <<x, e>> \notin prov
      BY <1>3 DEF ToMerge
  <2> HIDE DEF r, e
  <2>5. merge'[m] = r /\ (\A k \in Mergers : k # m => merge'[k] = merge[k])
        /\ merge' \in [Mergers -> Place]
      BY <2>1, <2>2, <2>3
  <2>6. Found(r, evidence, rows, missed)
      BY <2>2, <2>3 DEF Found
  <2>7. \A k \in Mergers : Found(merge'[k], evidence, rows, missed)
      BY <2>5, <2>6 DEF StoreInv
  <2>8. Tally(merge, evidence, prov, times, raced) /\ raced \subseteq raced'
      BY <2>1 DEF StoreInv
  <2>9. times[e] = 0
    <3>1. evidence \in Seq(Evidence) /\ times \in Seq(Nat) /\ Len(times) = Len(evidence)
        BY <2>8 DEF Tally, StoreInv
    <3>2. times[e] \in Nat
        BY <2>2, <3>1
    <3>3. ~(times[e] > 0)
        BY <2>2, <2>4, <2>8 DEF Tally
    <3> QED BY <3>2, <3>3
  <2>10. \A k \in Mergers : k # m /\ Busy(merge[k]) /\ merge[k].ev = e => e \in raced'
      BY <2>1 DEF Busy, InMerge
  <2>11. \A k \in Mergers : Unwritten(merge'[k], evidence) =>
             times[merge'[k].ev] = 0 \/ merge'[k].ev \in raced'
      BY <2>3, <2>5, <2>8, <2>9 DEF Tally
  <2>12. ASSUME NEW k \in Mergers, NEW l \in Mergers, k # l,
                Busy(merge'[k]), Busy(merge'[l]), merge'[k].ev = merge'[l].ev
         PROVE  merge'[k].ev \in raced'
    <3>1. CASE k = m
        BY <2>3, <2>5, <2>10, <2>12, <3>1
    <3>2. CASE l = m
        BY <2>3, <2>5, <2>10, <2>12, <3>2
    <3>3. CASE k # m /\ l # m
        BY <2>5, <2>8, <2>12, <3>3 DEF Tally
    <3> QED BY <3>1, <3>2, <3>3
  <2>13. Tally(merge', evidence, prov, times, raced')
      BY <2>8, <2>11, <2>12 DEF Tally
  <2>14. Store' = Store
      BY <1>1 DEF Store
  <2> QED BY <1>1, <2>5, <2>7, <2>13, <2>14 DEF StoreInv
<1> QED BY <1>2, <1>3

LEMMA LeastOf ==
    ASSUME NEW S \in SUBSET Nat, S # {}
    PROVE  Least(S) \in S /\ \A j \in S : Least(S) <= j
BY LeastExists DEF Least

LEMMA LookStores ==
    ASSUME StoreInv, NEW m \in Mergers, Look(m)
    PROVE  StoreInv'
<1> DEFINE cands == Cands(m)
           kept == Kept(cands, merge[m].next)
           i == Least(kept)
           wait == [merge[m] EXCEPT !.at = "finish", !.due = DecayDue(lastDecay, Session(m))]
           find == [merge[m] EXCEPT !.at = "write", !.next = i, !.late = FALSE,
                                    !.echo = EchoOf(rows, cands[i].stmt)]
<1>1. /\ merge[m].at = "look"
      /\ merge' = [merge EXCEPT ![m] = IF kept = {} THEN wait ELSE find]
      /\ UNCHANGED <<evidence, clock, rows, prov, lastDecay, links, history>>
    BY DEF Look, dbVars
<1>2. merge[m] \in Place /\ cands \in Seq(Cand) /\ merge[m].ev \in DOMAIN evidence
      /\ merge[m].next # 0 /\ clock' \in Nat /\ Sane(Store, evidence, links = 0, missed)
    BY <1>1, MergedSource DEF StoreInv, Found
<1>3. Busy(merge[m]) /\ merge[m].next \in Nat
    BY <1>1, <1>2 DEF Busy, Place
<1>4. CASE kept = {}
  <2>1. wait \in Place /\ wait.at = "finish" /\ wait.ev = merge[m].ev
      BY <1>2 DEF Place, DecayDue
  <2>2. merge' = [merge EXCEPT ![m] = wait]
      BY <1>1, <1>4
  <2> HIDE DEF wait
  <2>3. Found(wait, evidence, rows, missed) /\ ~Unwritten(wait, evidence)
      BY <1>2, <2>1 DEF Found, Unwritten
  <2> QED BY <1>1, <1>2, <1>3, <2>1, <2>2, <2>3, PlaceMoves
<1>5. CASE kept # {}
  <2>1. kept \in SUBSET Nat
      BY <1>2, <1>3 DEF Kept
  <2>2. i \in kept
      BY <1>5, <2>1, LeastOf
  <2>3. i \in Nat /\ merge[m].next <= i /\ i \in 1..Len(cands) /\ Verdict(cands[i]) # "reject"
      BY <1>2, <1>3, <2>2 DEF Kept
  <2> DEFINE echo == EchoOf(rows, cands[i].stmt)
  <2>4. Linked(rows)
      BY <1>2, StoreFields DEF Sane
  <2>5. \/ echo = None /\ NoNear(rows, cands[i].stmt, missed)
        \/ echo \in Stored(rows) /\ echo # None
      BY <2>4, EchoFound
  <2>6. echo \in Statements \cup {None}
      BY <2>4, <2>5 DEF Linked, Linkage
  <2>7. merge' = [merge EXCEPT ![m] = find]
      BY <1>1, <1>5
  <2>8. find = [merge[m] EXCEPT !.at = "write", !.next = i, !.late = FALSE, !.echo = echo]
      OBVIOUS
  <2>9. cands = evidence[merge[m].ev].cands
      BY DEF Cands
  <2> HIDE DEF echo, i, find, kept, cands
  <2>10. /\ find \in Place /\ find.at = "write" /\ find.ev = merge[m].ev /\ find.next = i
         /\ find.echo = echo
      BY <1>2, <2>3, <2>6, <2>8 DEF Place
  <2>11. Found(find, evidence, rows, missed)
      BY <1>2, <2>3, <2>5, <2>9, <2>10 DEF Found
  <2>12. Unwritten(find, evidence) => Unwritten(merge[m], evidence)
    <3>1. \A j \in 1..merge[m].next - 1 : j \in 1..i - 1
        BY <1>3, <2>3
    <3> QED BY <1>1, <2>10, <3>1 DEF Unwritten
  <2> QED BY <1>1, <1>2, <1>3, <2>7, <2>10, <2>11, <2>12, PlaceMoves
<1> QED BY <1>4, <1>5

\* The transaction that is written comes from the candidate that was looked up and a
\* stretch of those after it.
LEMMA WrittenSane ==
    ASSUME StoreInv, NEW m \in Mergers, merge[m].at = "write", NEW mt, missed \subseteq mt,
           merge[m].late /\ merge[m].echo = None =>
               Pairs(rows, Cands(m)[merge[m].next].stmt) \subseteq mt
    PROVE  LET more == Commits(Cands(m), merge[m].next)
           IN  /\ Sane(Written(m), evidence, links = 0, mt) /\ Gained(Store, Written(m), merge[m].ev)
               /\ \E x \in Statements : <<x, merge[m].ev>> \in Written(m).prov
               /\ more # {} => Least(more) \in Nat /\ Least(more) > merge[m].next
<1> DEFINE e     == merge[m].ev
           n     == merge[m].next
           cands == Cands(m)
           s     == Session(m)
           now   == merge[m].now
           more  == Commits(cands, n)
           upTo  == IF more = {} THEN Len(cands) ELSE Least(more) - 1
           rest  == SubSeq(cands, n + 1, upTo)
           one   == MergeWith([rows |-> rows, prov |-> prov], cands[n], merge[m].echo, e, s, now)
<1>1. Source(evidence, e, s, now) /\ cands \in Seq(Cand) /\ merge[m] \in Place
    BY MergedSource
<1>2. /\ Found(merge[m], evidence, rows, missed) /\ cands = evidence[e].cands
      /\ Sane(Store, evidence, links = 0, missed)
    BY DEF StoreInv, Cands
<1>3. n \in 1..Len(cands) /\ Len(cands) \in Nat /\ cands[n] \in Cand
  <2>1. n \in 1..Len(cands) /\ Len(cands) \in Nat
      BY <1>1, <1>2 DEF Found
  <2> HIDE DEF n, cands
  <2> QED BY <1>1, <2>1
<1>4. Sane(Store, evidence, links = 0, mt)
    BY <1>2, SaneMissed
<1>5. Written(m) = MergeCandidates(one, rest, e, s, now)
    BY DEF Written
<1>6. \/ merge[m].echo = None /\ NoNear(rows, cands[n].stmt, mt)
      \/ merge[m].echo # None /\ merge[m].echo \in Stored(rows)
  <2>1. CASE merge[m].echo # None
      BY <1>2, <2>1 DEF Found
  <2>2. CASE merge[m].echo = None /\ merge[m].late
      BY <2>2 DEF NoNear, Pairs, Near
  <2>3. CASE merge[m].echo = None /\ ~merge[m].late
    <3>1. NoNear(rows, cands[n].stmt, missed)
        BY <1>2, <2>3 DEF Found
    <3> QED BY <2>3, <3>1 DEF NoNear
  <2> QED BY <2>1, <2>2, <2>3
<1>7. more \in SUBSET Nat /\ \A i \in more : n < i /\ i <= Len(cands)
    BY <1>3 DEF Commits
<1>8. more # {} => Least(more) \in more
  <2> HIDE DEF more
  <2> QED BY <1>7, LeastOf
<1> HIDE DEF more
<1>9. upTo \in n..Len(cands)
  <2>1. CASE more = {}
      BY <1>3, <2>1
  <2>2. CASE more # {}
    <3> DEFINE i == Least(more)
    <3>1. i \in Nat /\ n < i /\ i <= Len(cands)
        BY <1>7, <1>8, <2>2
    <3>2. upTo = i - 1
        BY <2>2
    <3> HIDE DEF i, upTo, n, cands
    <3>3. n \in Nat /\ Len(cands) \in Nat
        BY <1>3
    <3> QED BY <3>1, <3>2, <3>3
  <2> QED BY <2>1, <2>2
<1>10. rest \in Seq(Cand)
  <2> HIDE DEF upTo, n, cands
  <2>1. n + 1 \in 1..Len(cands) + 1
      BY <1>3
  <2> QED BY <1>1, <1>3, <1>9, <2>1, SubSeqProperties
<1>11. Store = [rows |-> rows, prov |-> prov]
    BY DEF Store
<1> HIDE DEF e, n, cands, s, now, rest
<1>12. /\ Sane(one, evidence, links = 0, mt) /\ Gained(Store, one, e)
       /\ \E x \in Statements : <<x, e>> \in one.prov
    BY <1>1, <1>3, <1>4, <1>6, <1>11, StoreFields, MergeWithSane
<1> HIDE DEF one
<1>13. Sane(Written(m), evidence, links = 0, mt) /\ Gained(one, Written(m), e)
    BY <1>1, <1>5, <1>10, <1>12, CandidatesSane
<1>14. Gained(Store, Written(m), e) /\ \E x \in Statements : <<x, e>> \in Written(m).prov
    BY <1>12, <1>13 DEF Gained
<1>15. more # {} => Least(more) \in Nat /\ Least(more) > n
    BY <1>3, <1>7, <1>8
<1> QED BY <1>13, <1>14, <1>15 DEF e, n, cands, more

\* The first write of a merge counts; its provenance keeps later ones out.
LEMMA WriteTally ==
    ASSUME StoreInv, NEW m \in Mergers, Write(m),
           \E x \in Statements : <<x, merge[m].ev>> \in prov', prov \subseteq prov',
           \A k \in Mergers \ {m} : /\ merge'[k].at = merge[k].at /\ merge'[k].ev = merge[k].ev
                                    /\ merge'[k].next = merge[k].next,
           \/ merge'[m] = Idle
           \/ merge'[m].ev = merge[m].ev /\ merge'[m].next \in Nat /\ merge'[m].next > merge[m].next
    PROVE  Tally(merge', evidence, prov', times', raced)
<1> DEFINE e == merge[m].ev
<1>1. /\ merge[m].at = "write" /\ Tally(merge, evidence, prov, times, raced)
      /\ times' = IF FirstWrite(m) THEN [times EXCEPT ![e] = @ + 1] ELSE times
    BY DEF Write, StoreInv
<1>2. /\ merge[m] \in Place /\ e \in DOMAIN evidence /\ evidence \in Seq(Evidence)
      /\ merge[m].next \in Nat /\ merge[m].next >= 1
      /\ Verdict(evidence[e].cands[merge[m].next]) # "reject"
    BY <1>1 DEF StoreInv, Found, Place
<1>3. times \in Seq(Nat) /\ Len(times) = Len(evidence) /\ times[e] \in Nat /\ e \in DOMAIN times
  <2>1. times \in Seq(Nat) /\ Len(times) = Len(evidence)
      BY <1>1 DEF Tally
  <2> QED BY <1>2, <2>1
<1> HIDE DEF e
<1>4. Busy(merge[m]) /\ (FirstWrite(m) => Unwritten(merge[m], evidence))
    BY <1>1 DEF Busy, Unwritten, FirstWrite, Cands, e
<1>5. FirstWrite(m) => times[e] = 0 \/ e \in raced
    BY <1>1, <1>4 DEF Tally, e
<1>6. /\ times' \in Seq(Nat) /\ Len(times') = Len(evidence)
      /\ \A f \in DOMAIN evidence : f # e => times'[f] = times[f]
      /\ times'[e] = IF FirstWrite(m) THEN times[e] + 1 ELSE times[e]
    BY <1>1, <1>2, <1>3
<1>7. ASSUME NEW f \in DOMAIN evidence
      PROVE  /\ times'[f] > 0 => \E x \in Statements : <<x, f>> \in prov'
             /\ times'[f] <= 1 \/ f \in raced
  <2>1. CASE f # e
      BY <1>1, <1>6, <2>1 DEF Tally
  <2>2. CASE f = e
    <3>1. \E x \in Statements : <<x, e>> \in prov'
        BY DEF e
    <3>2. times[e] <= 1 \/ e \in raced
        BY <1>1, <1>2 DEF Tally
    <3>3. times'[e] <= 1 \/ e \in raced
        BY <1>3, <1>5, <1>6, <3>2
    <3> QED BY <2>2, <3>1, <3>3
  <2> QED BY <2>1, <2>2
<1>8. ~Unwritten(merge'[m], evidence)
  <2>1. CASE merge'[m] = Idle
      BY <2>1, IdlePlace DEF Unwritten
  <2>2. CASE merge'[m].ev = e /\ merge'[m].next \in Nat /\ merge'[m].next > merge[m].next
    <3>1. merge[m].next \in 1..merge'[m].next - 1
        BY <1>2, <2>2
    <3> QED BY <1>2, <2>2, <3>1 DEF Unwritten
  <2> QED BY <2>1, <2>2 DEF e
<1>9. ASSUME NEW k \in Mergers, Unwritten(merge'[k], evidence)
      PROVE  times'[merge'[k].ev] = 0 \/ merge'[k].ev \in raced
  <2>1. k # m /\ merge'[k].ev = merge[k].ev /\ Unwritten(merge[k], evidence) /\ Busy(merge[k])
      BY <1>8, <1>9 DEF Unwritten, Busy
  <2>2. merge[k].ev \in DOMAIN evidence
      BY <2>1 DEF StoreInv, Found, Busy
  <2>3. CASE merge[k].ev = e
      BY <1>1, <1>4, <2>1, <2>3 DEF Tally, e
  <2>4. CASE merge[k].ev # e
      BY <1>1, <1>6, <2>1, <2>2, <2>4 DEF Tally
  <2> QED BY <2>3, <2>4
<1>10. \A k \in Mergers : Busy(merge'[k]) => Busy(merge[k]) /\ merge'[k].ev = merge[k].ev
    BY <1>4, IdlePlace DEF Busy
<1>11. \A k, l \in Mergers :
          k # l /\ Busy(merge'[k]) /\ Busy(merge'[l]) /\ merge'[k].ev = merge'[l].ev =>
              merge'[k].ev \in raced
    BY <1>1, <1>10 DEF Tally
<1> QED BY <1>6, <1>7, <1>9, <1>11 DEF Tally

LEMMA WriteStores ==
    ASSUME StoreInv, NEW m \in Mergers, Write(m)
    PROVE  StoreInv'
<1> DEFINE more == Commits(Cands(m), merge[m].next)
           mine == IF more = {} THEN Idle
                   ELSE [merge[m] EXCEPT !.at = "look", !.next = Least(more), !.echo = None, !.late = FALSE]
           theirs(k) == [merge[k] EXCEPT !.late = @ \/ merge[k].at = "write"]
           due == more = {} /\ DecayDue(lastDecay, Session(m))
<1>1. /\ merge[m].at = "write"
      /\ merge' = [k \in Mergers |-> IF k = m THEN mine ELSE theirs(k)]
      /\ rows' = ApplyDecay(Written(m).rows, due, Session(m)) /\ prov' = Written(m).prov
      /\ lastDecay' = IF more = {} THEN Session(m) ELSE lastDecay
      /\ missed' = IF merge[m].late /\ merge[m].echo = None
                   THEN missed \cup Pairs(rows, Cands(m)[merge[m].next].stmt) ELSE missed
      /\ UNCHANGED <<evidence, clock, links, raced>>
    BY DEF Write
<1>2. /\ Sane(Written(m), evidence, links = 0, missed') /\ Gained(Store, Written(m), merge[m].ev)
      /\ \E x \in Statements : <<x, merge[m].ev>> \in Written(m).prov
      /\ more # {} => Least(more) \in Nat /\ Least(more) > merge[m].next
    BY <1>1, WrittenSane
<1>3. merge[m] \in Place /\ Session(m) \in Sessions /\ merge[m].next \in Nat
    BY <1>1, MergedSource DEF Source, Place
<1>4. /\ mine \in Place /\ mine.at # "write" /\ mine.at \in {"idle", "look"}
      /\ \/ mine = Idle
         \/ mine.ev = merge[m].ev /\ mine.next \in Nat /\ mine.next > merge[m].next
  <2>1. CASE more = {}
      BY <2>1, IdlePlace
  <2>2. CASE more # {}
    <3> DEFINE i == Least(more)
    <3>1. mine = [merge[m] EXCEPT !.at = "look", !.next = i, !.echo = None, !.late = FALSE]
        BY <2>2
    <3>2. i \in Nat /\ i > merge[m].next
        BY <1>2, <2>2
    <3> HIDE DEF i, mine
    <3> QED BY <1>3, <3>1, <3>2 DEF Place
  <2> QED BY <2>1, <2>2
<1>5. \A k \in Mergers : /\ theirs(k) \in Place /\ theirs(k).at = merge[k].at
                         /\ theirs(k).ev = merge[k].ev /\ theirs(k).next = merge[k].next
                         /\ theirs(k).echo = merge[k].echo
                         /\ merge[k].at = "write" => theirs(k).late
  <2>1. \A k \in Mergers : merge[k] \in Place
      BY DEF StoreInv
  <2> QED BY <2>1 DEF Place
<1> HIDE DEF more, mine, theirs, due
<1>6. merge' \in [Mergers -> Place] /\ merge'[m] = mine
      /\ \A k \in Mergers : k # m => merge'[k] = theirs(k)
    BY <1>1, <1>4, <1>5
<1>7. Stored(rows) \subseteq Stored(rows') /\ prov \subseteq prov'
  <2>1. Stored(ApplyDecay(Written(m).rows, due, Session(m))) = Stored(Written(m).rows)
    <3>1. Written(m).rows \in [Stored(Written(m).rows) -> Row]
        BY <1>2 DEF Sane, Linked
    <3> QED BY <3>1, DecayKeeps
  <2>2. Stored(rows') = Stored(Written(m).rows)
      BY <1>1, <2>1
  <2> QED BY <1>1, <1>2, <2>2, StoreFields DEF Gained
<1>8. ASSUME NEW k \in Mergers PROVE Found(merge'[k], evidence, rows', missed')
  <2>1. CASE k = m
    <3>1. mine.at # "idle" => mine.ev = merge[m].ev /\ mine.next # 0
        BY <1>3, <1>4, IdlePlace
    <3>2. merge[m].ev \in DOMAIN evidence
        BY <1>1 DEF StoreInv, Found
    <3> QED BY <1>4, <1>6, <2>1, <3>1, <3>2 DEF Found
  <2>2. CASE k # m
    <3>1. Found(merge[k], evidence, rows, missed) /\ merge'[k] = theirs(k)
        BY <1>6, <2>2 DEF StoreInv
    <3> QED BY <1>5, <1>7, <3>1 DEF Found
  <2> QED BY <2>1, <2>2
<1>9. Tally(merge', evidence, prov', times', raced)
    BY <1>1, <1>2, <1>4, <1>5, <1>6, <1>7, WriteTally
<1>10. Sane(Store', evidence, links = 0, missed')
  <2>1. Store' = [rows |-> ApplyDecay(Written(m).rows, due, Session(m)), prov |-> Written(m).prov]
      BY <1>1 DEF Store
  <2> QED BY <1>2, <2>1, DecaySane
<1>11. lastDecay' \in Sessions \cup {None}
    BY <1>1, <1>3 DEF StoreInv
<1>12. evidence' = evidence /\ clock' = clock /\ links' = links /\ raced' = raced
    BY <1>1
<1> QED BY <1>6, <1>8, <1>9, <1>10, <1>11, <1>12 DEF StoreInv

\* Rows that only leave the live ones, while the processes stay where they are.
LEMMA QuietStores ==
    ASSUME StoreInv, UNCHANGED <<evidence, clock, prov, lastDecay, merge, history>>,
           links' \in Nat, Active(rows') \subseteq Active(rows), Stored(rows') = Stored(rows),
           Sane(Store', evidence, links' = 0, missed)
    PROVE  StoreInv'
<1>1. UNCHANGED <<times, raced, missed>>
    BY DEF history
<1>2. \A m \in Mergers : Found(merge[m], evidence, rows', missed)
    BY FoundKept DEF StoreInv
<1> QED BY <1>1, <1>2 DEF StoreInv

LEMMA FinishStores ==
    ASSUME StoreInv, NEW m \in Mergers, Finish(m)
    PROVE  StoreInv'
<1> DEFINE due == merge[m].due
<1>1. /\ merge[m].at = "finish" /\ merge' = [merge EXCEPT ![m] = Idle]
      /\ rows' = ApplyDecay(rows, due, Session(m))
      /\ lastDecay' = IF due THEN Session(m) ELSE lastDecay
      /\ UNCHANGED <<evidence, clock, prov, links, history>>
    BY DEF Finish
<1>2. Sane(Store, evidence, links = 0, missed) /\ Session(m) \in Sessions
    BY <1>1, MergedSource DEF StoreInv, Source
<1> HIDE DEF due
<1>3. Sane(Store', evidence, links = 0, missed)
  <2>1. Store' = [rows |-> ApplyDecay(Store.rows, due, Session(m)), prov |-> Store.prov]
      BY <1>1, StoreFields DEF Store
  <2> QED BY <1>2, <2>1, DecaySane
<1>4. Stored(rows') = Stored(rows) /\ Active(rows') \subseteq Active(rows)
  <2>1. rows \in [Stored(rows) -> Row]
      BY <1>2, StoreFields DEF Sane, Linked
  <2> QED BY <1>1, <2>1, DecayKeeps
<1>5. merge'[m] = Idle /\ \A k \in Mergers : k # m => merge'[k] = merge[k]
    BY <1>1 DEF StoreInv
<1>6. merge' \in [Mergers -> Place]
    BY <1>1, IdlePlace DEF StoreInv
<1>7. \A k \in Mergers : Found(merge'[k], evidence, rows', missed)
  <2>1. Found(Idle, evidence, rows', missed)
      BY IdlePlace DEF Found
  <2> QED BY <1>4, <1>5, <2>1, FoundKept DEF StoreInv
<1>8. Tally(merge', evidence, prov, times, raced)
  <2>1. ~Unwritten(Idle, evidence)
      BY IdlePlace DEF Unwritten
  <2> QED BY <1>5, <2>1, IdlePlace DEF StoreInv, Tally
<1>9. lastDecay' \in Sessions \cup {None} /\ UNCHANGED <<times, raced, missed>>
    BY <1>1, <1>2 DEF StoreInv, history
<1> QED BY <1>1, <1>3, <1>6, <1>7, <1>8, <1>9 DEF StoreInv

LEMMA MarkSupersededStores ==
    ASSUME StoreInv, NEW x \in Stored(rows), NEW y \in Stored(rows), MarkSuperseded(x, y)
    PROVE  StoreInv'
<1>1. /\ links' = links + 1 /\ rows' = SetSupersededBy(rows, x, y)
      /\ UNCHANGED <<evidence, clock, prov, lastDecay, merge, history>>
    BY DEF MarkSuperseded
<1>2. links' \in Nat /\ ~(links' = 0)
    BY <1>1 DEF StoreInv
<1>3. Sane(Store, evidence, links = 0, missed) /\ Linked(rows)
    BY StoreFields DEF StoreInv, Sane
<1>4. Sane(Store, evidence, FALSE, missed)
    BY <1>3 DEF Sane
<1>5. /\ Linked(rows') /\ Stored(rows') = Stored(rows)
      /\ \A z \in Stored(rows) : Unlinked(rows[z], rows'[z])
      /\ \A z \in Stored(rows) : rows'[z].by \in {rows[z].by, y}
  <2>1. CASE x \in Chain(rows, y)
      BY <1>1, <1>3, <2>1 DEF SetSupersededBy, Unlinked
  <2>2. CASE x \notin Chain(rows, y)
    <3>1. rows' = [rows EXCEPT ![x].by = y] /\ y \in Statements
        BY <1>1, <1>3, <2>2 DEF SetSupersededBy, Linked, Linkage
    <3>2. /\ Stored(rows') = Stored(rows)
          /\ \A z \in Stored(rows) : rows'[z] = IF z = x THEN [rows[x] EXCEPT !.by = y] ELSE rows[z]
        BY <3>1 DEF Stored
    <3>3. rows \in [Stored(rows) -> Row] /\ Linkage(rows) /\ Acyc(rows)
        BY <1>3 DEF Linked
    <3>4. \A z \in Stored(rows) : rows'[z] \in Row /\ Unlinked(rows[z], rows'[z])
              /\ rows'[z].by = IF z \in {x} THEN y ELSE rows[z].by
      <4>1. rows[x] \in Row
          BY <3>3
      <4>2. /\ [rows[x] EXCEPT !.by = y] \in Row /\ [rows[x] EXCEPT !.by = y].by = y
            /\ Unlinked(rows[x], [rows[x] EXCEPT !.by = y])
          BY <3>1, <4>1, RowLinked
      <4> QED BY <3>2, <3>3, <4>2 DEF Unlinked
    <3>5. rows' \in [Stored(rows') -> Row]
      <4>1. rows' = [z \in Stored(rows') |-> rows'[z]]
          BY <3>1, <3>3 DEF Stored
      <4> QED BY <3>2, <3>4, <4>1
    <3>6. {x} \cap Chain(rows, y) = {}
        BY <2>2
    <3>7. Linkage(rows') /\ Acyc(rows')
      <4> DEFINE rt == rows'
      <4>1. /\ Stored(rt) = Stored(rows)
            /\ \A z \in Stored(rows) : rt[z].by = IF z \in {x} THEN y ELSE rows[z].by
          BY <3>2, <3>4
      <4> HIDE DEF rt
      <4>2. Linkage(rt) /\ Acyc(rt)
          BY <3>3, <3>6, <4>1, LinksKeep
      <4> QED BY <4>2 DEF rt
    <3> QED BY <3>2, <3>4, <3>5, <3>7 DEF Linked
  <2> QED BY <2>1, <2>2
<1>6. Active(rows') \subseteq Active(rows)
  <2>1. None \notin Stored(rows)
      BY <1>3, StoreAssumption DEF Linked, Linkage
  <2> QED BY <1>5, <2>1 DEF Active, Unlinked
<1>7. Sane(Store', evidence, FALSE, missed)
  <2>1. Unechoed(rows', missed)
      BY <1>4, <1>6, StoreFields DEF Sane, Unechoed
  <2>2. Store'.rows = rows' /\ Store'.prov = prov /\ Store' = [rows |-> Store'.rows, prov |-> Store'.prov]
      BY <1>1 DEF Store
  <2>3. Counted(Store', evidence)
      BY <1>4, <1>5, <2>2, StoreFields DEF Sane, Counted, Unlinked
  <2>4. prov \subseteq Stored(rows') \X DOMAIN evidence
      BY <1>4, <1>5, StoreFields DEF Sane
  <2> QED BY <1>5, <2>1, <2>2, <2>3, <2>4 DEF Sane
<1>8. Sane(Store', evidence, links' = 0, missed)
    BY <1>2, <1>7 DEF Sane
<1> QED BY <1>1, <1>2, <1>5, <1>6, <1>8, QuietStores

LEMMA MarkArchivedStores ==
    ASSUME StoreInv, NEW x \in Stored(rows), MarkArchived(x)
    PROVE  StoreInv'
<1>1. /\ links' = links + 1 /\ rows' = [rows EXCEPT ![x].archived = TRUE]
      /\ UNCHANGED <<evidence, clock, prov, lastDecay, merge, history>>
    BY DEF MarkArchived
<1>2. links' \in Nat /\ ~(links' = 0)
    BY <1>1 DEF StoreInv
<1>3. Sane(Store, evidence, links = 0, missed) /\ rows \in [Stored(rows) -> Row]
    BY StoreFields DEF StoreInv, Sane, Linked
<1> DEFINE r == [rows[x] EXCEPT !.archived = TRUE]
<1>4. rows[x] \in Row
    BY <1>3
<1>5. /\ r \in Row /\ r.by = rows[x].by /\ r.session = rows[x].session
      /\ r.mention = rows[x].mention /\ r.weight = rows[x].weight /\ r.archived
      /\ r.weight \in 0..MaxWeight
    BY <1>4 DEF Row
<1>6. rows' = [rows EXCEPT ![x] = r]
    BY <1>1
<1> HIDE DEF r
<1>7. Fades(rows, rows')
  <2>1. \A z \in Stored(rows) : rows[z].weight \in 0..MaxWeight
      BY <1>3 DEF Row
  <2>2. \A z \in Stored(rows) : rows[z].weight <= rows[z].weight
      BY <2>1, StoreAssumption
  <2>3. rows' \in [Stored(rows) -> Row]
      BY <1>3, <1>5, <1>6
  <2> QED BY <1>3, <1>5, <1>6, <2>2, <2>3 DEF Fades
<1>8. Sane(Store', evidence, FALSE, missed)
  <2>1. Sane([rows |-> rows', prov |-> Store.prov], evidence, FALSE, missed)
      BY <1>3, <1>7, StoreFields, FadedSane
  <2>2. Store' = [rows |-> rows', prov |-> Store.prov]
      BY <1>1 DEF Store
  <2> QED BY <2>1, <2>2
<1>9. Sane(Store', evidence, links' = 0, missed)
    BY <1>2, <1>8 DEF Sane
<1>10. Stored(rows') = Stored(rows) /\ Active(rows') \subseteq Active(rows)
    BY <1>7 DEF Fades, Stored, Active
<1> QED BY <1>1, <1>2, <1>9, <1>10, QuietStores

LEMMA StoreStep == StoreInv /\ [Next]_vars => StoreInv'
<1> SUFFICES ASSUME StoreInv, [Next]_vars PROVE StoreInv'
    OBVIOUS
<1>1. ASSUME NEW s \in Sessions, NEW cands \in Batches, Capture(s, cands) PROVE StoreInv'
    BY <1>1, CaptureStores
<1>2. ASSUME NEW m \in Mergers, NEW e \in DOMAIN evidence, Extract(m, e) PROVE StoreInv'
    BY <1>2, ExtractStores
<1>3. ASSUME NEW m \in Mergers, Merge(m) PROVE StoreInv'
    BY <1>3, GuardStores, LookStores, WriteStores, FinishStores DEF Merge
<1>4. ASSUME NEW m \in Mergers, Abandon(m) PROVE StoreInv'
  <2>1. merge' = [merge EXCEPT ![m] = Idle]
        /\ UNCHANGED <<evidence, clock, rows, prov, lastDecay, links, history>>
      BY <1>4 DEF Abandon, dbVars
  <2> QED BY <2>1, StopsStores
<1>5. ASSUME NEW x \in Stored(rows), NEW y \in Stored(rows), MarkSuperseded(x, y) PROVE StoreInv'
    BY <1>5, MarkSupersededStores
<1>6. ASSUME NEW x \in Stored(rows), MarkArchived(x) PROVE StoreInv'
    BY <1>6, MarkArchivedStores
<1>7. CASE UNCHANGED vars
  <2>1. UNCHANGED <<evidence, clock, rows, prov, lastDecay, merge, links, times, raced, missed>>
      BY <1>7 DEF vars, dbVars, history
  <2>2. Store' = Store
      BY <2>1 DEF Store
  <2> QED BY <2>1, <2>2 DEF StoreInv
<1> QED BY <1>1, <1>2, <1>3, <1>4, <1>5, <1>6, <1>7 DEF Next

LEMMA StoreKeeps == Spec => []StoreInv
BY StoreInit, StoreStep, PTL DEF Spec

\* Links lead from stored rows to stored rows and never in a circle, however merges,
\* retries, failures and calls of the API follow one another (set_superseded_by).
THEOREM AlwaysWellFormed == Spec => []WellFormed
<1>1. StoreInv => WellFormed
  <2> SUFFICES ASSUME StoreInv PROVE WellFormed
      OBVIOUS
  <2>1. Linked(rows) /\ prov \subseteq Stored(rows) \X DOMAIN evidence
      BY StoreFields DEF StoreInv, Sane
  <2>2. TypeOK
      BY <2>1 DEF TypeOK, Linked, Linkage, StoreInv
  <2>3. Acyclic
      BY <2>1 DEF Acyclic, Linked, Acyc
  <2> QED BY <2>2, <2>3 DEF WellFormed
<1> QED BY <1>1, StoreKeeps, PTL

\* No retry or replay merges evidence a second time unless two let it through the guard
\* together, and a statement heard in its own session only counts once (merge.py, F9).
THEOREM AlwaysCountsOnce == Spec => []CountsOnce
<1>1. StoreInv => CountsOnce
  <2> SUFFICES ASSUME StoreInv PROVE CountsOnce
      OBVIOUS
  <2>1. SecondMergeNeedsRace
      BY DEF StoreInv, Tally, SecondMergeNeedsRace
  <2>2. Counted(Store, evidence)
      BY DEF StoreInv, Sane
  <2>3. InSessionNeverInflates
    <3> SUFFICES ASSUME NEW x \in Stored(rows) \ Added, LinkedFrom(x) \subseteq {rows[x].session}
                 PROVE  rows[x].mention = 1 /\ rows[x].weight <= InitialWeight
        BY DEF InSessionNeverInflates
    <3>1. \A p \in prov : p[1] = x => evidence[p[2]].session = rows[x].session
        BY DEF LinkedFrom
    <3> QED BY <2>2, <3>1, StoreFields DEF Counted
  <2> QED BY <2>1, <2>3 DEF CountsOnce
<1> QED BY <1>1, StoreKeeps, PTL

\* Near-identical statements are both live only when the search for the second was
\* overtaken by a commit (merge.py, R3).
THEOREM LiveEchoAlwaysRaces == Spec => []LiveEchoNeedsRace
<1>1. StoreInv => LiveEchoNeedsRace
  <2> SUFFICES ASSUME StoreInv, NEW x \in Active(rows), NEW y \in Near(rows, x)
               PROVE  {y, x} \in missed
      BY DEF LiveEchoNeedsRace, LiveEchoes, Pairs
  <2>1. Unechoed(rows, missed)
      BY StoreFields DEF StoreInv, Sane
  <2> QED BY <2>1 DEF Near, Unechoed
<1> QED BY <1>1, StoreKeeps, PTL

\* What ends up in the place of a handoff is a handoff (supersede.py, #25).
THEOREM HandoffsAlwaysStand == Spec => []HandoffsStand
<1>1. StoreInv => HandoffsStand
  <2> SUFFICES ASSUME StoreInv, links = 0, NEW x \in Stored(rows) \cap Handoffs
               PROVE  Ends(x) \subseteq Handoffs
      BY DEF HandoffsStand
  <2>1. Linked(rows) /\ Standing(rows)
      BY StoreFields DEF StoreInv, Sane
  <2> DEFINE C == Stored(rows) \cap Handoffs
  <2>2. Closed(rows, C) /\ x \in C
      BY <2>1 DEF Closed, Standing, Linked, Linkage
  <2>3. Chain(rows, x) \subseteq C
      BY <2>1, <2>2, ChainProperties DEF Linked
  <2> QED BY <2>3 DEF Ends
<1> QED BY <1>1, StoreKeeps, PTL

\* A commitment that only commitments have replaced is on show, however many sessions
\* have decayed it (decay.py).
THEOREM CommitmentsAlwaysStand == Spec => []CommitmentsStand
<1>1. StoreInv => CommitmentsStand
  <2> SUFFICES ASSUME StoreInv, links = 0, NEW x \in Stored(rows),
                      \A y \in Chain(rows, x) : TypeOf[y] \in Protected
               PROVE  \E y \in Ends(x) : ~rows[y].archived
      BY DEF CommitmentsStand
  <2>1. Linked(rows) /\ Standing(rows)
      BY StoreFields DEF StoreInv, Sane
  <2>2. PICK y \in Chain(rows, x) : rows[y].by = None
      BY <2>1, ChainEnds DEF Linked
  <2>3. y \in Stored(rows)
      BY <2>1, ChainProperties DEF Linked
  <2> QED BY <2>1, <2>2, <2>3 DEF Ends, Standing
<1> QED BY <1>1, StoreKeeps, PTL

=============================================================================
