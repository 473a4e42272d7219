---------------------------- MODULE Derive_proofs ----------------------------
(***************************************************************************)
(* Proofs about what is derived from the store and from files: the         *)
(* injection block (Block, Skeleton), the account of a session (Telemetry) *)
(* and the events of a transcript (Extraction).                            *)
(*                                                                         *)
(* The code computes with loops over lists; the proofs need the same few   *)
(* facts about them, which come first: what a loop keeps holds at its end, *)
(* a sum over a set does not depend on the order and splits along any      *)
(* grouping, and a finite set has a first and a last element in any strict *)
(* total order.                                                            *)
(*                                                                         *)
(* Block: SessionInv says of each stage of render_state what the stages    *)
(* after it rely on.  The projection is made of the claims of the store    *)
(* (From, Whole), one speaker a group (Origin, OneSpeaks); the fill admits *)
(* each claim that fits after those ahead of it (Admitted, FillOf); the    *)
(* rendering takes away and never adds (RenderedOf), and each of the       *)
(* backstop's loops ends with a block that fits or with nothing to drop.   *)
(*                                                                         *)
(* Telemetry: TelemetryInv relates the lines of the file to the            *)
(* conversation they come from, and the row to the lines it was made of.   *)
(*                                                                         *)
(* Extraction: ExtractionInv gives the events of each stage as a function  *)
(* of the transcript.  The rules, the head and git change how an event     *)
(* reads, never what it tells (Tells), so that a list stays in order       *)
(* (InOrder) and keeps what it had (Keeps); the rest of the pipeline adds  *)
(* events of other kinds behind it (Additions).                            *)
(***************************************************************************)
EXTENDS Block, Telemetry, Extraction, FiniteSetTheorems, WellFoundedInduction, NaturalsInduction, TLAPS

-----------------------------------------------------------------------------
\* Loops.

\* Every nonempty set of naturals has a least element.
LEMMA LeastExists ==
    ASSUME NEW S \in SUBSET Nat, S # {}
    PROVE  \E m \in S : \A j \in S : m <= j
<1> DEFINE R == OpToRel(<, Nat)
<1>1. PICK m \in S : \A j \in S : ~(<<j, m>> \in R)
  <2>1. IsWellFoundedOn(R, Nat)
      BY NatLessThanWellFounded
  <2> HIDE DEF R
  <2> QED BY <2>1, WFMin
<1>2. \A j \in S : m <= j
  <2> SUFFICES ASSUME NEW j \in S PROVE m <= j
      OBVIOUS
  <2>1. ~(j < m)
      BY <1>1 DEF OpToRel
  <2> QED BY <2>1
<1> QED BY <1>2

\* What holds before a loop and is kept by each turn holds all along.
LEMMA LoopInduction ==
    ASSUME NEW n \in Nat, NEW P, 0 \in P, \A i \in 1..n : i - 1 \in P => i \in P
    PROVE  \A i \in 0..n : i \in P
<1> DEFINE Bad == {i \in 0..n : i \notin P}
<1>1. SUFFICES ASSUME Bad # {} PROVE FALSE
    OBVIOUS
<1>2. PICK m \in Bad : \A i \in Bad : m <= i
  <2>1. Bad \in SUBSET Nat
      OBVIOUS
  <2> HIDE DEF Bad
  <2> QED BY <1>1, <2>1, LeastExists
<1>3. m \in 0..n /\ m \notin P
    OBVIOUS
<1>4. m # 0 /\ m \in 1..n /\ m - 1 \in 0..n /\ ~(m <= m - 1)
    BY <1>3
<1>5. m - 1 \notin Bad
  <2> HIDE DEF Bad
  <2> QED BY <1>2, <1>4
<1> QED BY <1>3, <1>4, <1>5

\* The states of a loop that starts in b and whose turn i leads from a to F[<<a, i>>].
IsLoop(n, b, F, f) ==
    /\ f = [i \in 0..n |-> f[i]]
    /\ f[0] = b
    /\ \A i \in 1..n : f[i] = F[<<f[i - 1], i>>]

\* A loop whose turns are defined on S runs.
LEMMA LoopExists ==
    ASSUME NEW n \in Nat, NEW S, NEW b \in S, NEW F \in [S \X (1..n) -> S]
    PROVE  \E f \in [0..n -> S] : IsLoop(n, b, F, f)
<1> DEFINE P == {k \in 0..n : \E f \in [0..k -> S] : IsLoop(k, b, F, f)}
<1>1. 0 \in P
  <2>0. 0 \in 0..n
      OBVIOUS
  <2> DEFINE f == [i \in 0..0 |-> b]
  <2>1. f \in [0..0 -> S] /\ f = [i \in 0..0 |-> f[i]] /\ f[0] = b /\ 1..0 = {}
      OBVIOUS
  <2> HIDE DEF f
  <2> QED BY <2>0, <2>1 DEF IsLoop
<1>2. ASSUME NEW k \in 1..n, k - 1 \in P PROVE k \in P
  <2>1. PICK f \in [0..k - 1 -> S] : IsLoop(k - 1, b, F, f)
      BY <1>2
  <2>2. k - 1 \in 0..k - 1 /\ 0 \in 0..k - 1 /\ k \in 0..n /\ k \in 0..k
        /\ \A i \in 0..k - 1 : i # k /\ i \in 0..k
      OBVIOUS
  <2> DEFINE g == [i \in 0..k |-> IF i = k THEN F[<<f[k - 1], k>>] ELSE f[i]]
  <2>3. g = [i \in 0..k |-> g[i]] /\ g[k] = F[<<f[k - 1], k>>]
        /\ \A i \in 0..k - 1 : g[i] = f[i]
      BY <2>2
  <2>4. f[k - 1] \in S
      BY <2>2
  <2>5. F[<<f[k - 1], k>>] \in S
      BY <2>4
  <2>6. g \in [0..k -> S]
    <3> SUFFICES ASSUME NEW i \in 0..k PROVE (IF i = k THEN F[<<f[k - 1], k>>] ELSE f[i]) \in S
        OBVIOUS
    <3>1. i # k => i \in 0..k - 1
        OBVIOUS
    <3> QED BY <2>5, <3>1
  <2> HIDE DEF g
  <2>7. g[0] = b
      BY <2>1, <2>2, <2>3 DEF IsLoop
  <2>8. ASSUME NEW i \in 1..k PROVE g[i] = F[<<g[i - 1], i>>]
    <3>1. i - 1 \in 0..k - 1 /\ (i # k => i \in 0..k - 1 /\ i \in 1..k - 1)
        OBVIOUS
    <3>2. CASE i = k
        BY <2>3, <3>1, <3>2
    <3>3. CASE i # k
        BY <2>1, <2>3, <3>1, <3>3 DEF IsLoop
    <3> QED BY <3>2, <3>3
  <2>9. IsLoop(k, b, F, g)
      BY <2>3, <2>7, <2>8 DEF IsLoop
  <2> QED BY <2>2, <2>6, <2>9
<1>3. n \in 0..n
    OBVIOUS
<1>4. n \in P
  <2> HIDE DEF P
  <2> QED BY <1>1, <1>2, <1>3, LoopInduction
<1> QED BY <1>4
-----------------------------------------------------------------------------
\* Sums.  The community modules sum a function over a set by taking the elements
\* in an order of their own; the sum does not depend on it.

Pick(s) == CHOOSE x \in s : TRUE
IsFold(S, f, h) == h = [s \in SUBSET S |-> IF s = {} THEN 0 ELSE f[Pick(s)] + h[s \ {Pick(s)}]]

\* What is left of a finite set without the element that is picked.
LEMMA PickedOff ==
    ASSUME NEW S, IsFiniteSet(S), NEW s \in SUBSET S
    PROVE  /\ IsFiniteSet(s) /\ Cardinality(s) \in Nat /\ (Cardinality(s) = 0 <=> s = {})
           /\ s # {} => /\ Pick(s) \in s /\ s \ {Pick(s)} \in SUBSET S
                        /\ Cardinality(s) >= 1 /\ Cardinality(s \ {Pick(s)}) = Cardinality(s) - 1
<1>1. IsFiniteSet(s) /\ Cardinality(s) \in Nat /\ (Cardinality(s) = 0 <=> s = {})
    BY FS_Subset, FS_CardinalityType, FS_EmptySet
<1>2. ASSUME s # {} PROVE Pick(s) \in s
    BY <1>2 DEF Pick
<1>3. ASSUME s # {} PROVE Cardinality(s \ {Pick(s)}) = Cardinality(s) - 1
    BY <1>1, <1>2, <1>3, FS_RemoveElement
<1> QED BY <1>1, <1>2, <1>3

\* Whatever the order, there is such a fold.
LEMMA FoldExists ==
    ASSUME NEW S, IsFiniteSet(S), NEW f, \A x \in S : f[x] \in Nat
    PROVE  \E h \in [SUBSET S -> Nat] : IsFold(S, f, h)
<1> DEFINE N == Cardinality(S)
           H == [SUBSET S -> Nat]
           Turn(h) == [s \in SUBSET S |-> IF s = {} THEN 0 ELSE f[Pick(s)] + h[s \ {Pick(s)}]]
           F == [p \in H \X (1..N + 1) |-> Turn(p[1])]
           zero == [s \in SUBSET S |-> 0]
<1>1. N \in Nat /\ \A s \in SUBSET S : Cardinality(s) <= N
    BY FS_CardinalityType, FS_Subset
<1>2. \A h \in H : Turn(h) \in H
  <2> SUFFICES ASSUME NEW h \in H, NEW s \in SUBSET S, s # {} PROVE f[Pick(s)] + h[s \ {Pick(s)}] \in Nat
      OBVIOUS
  <2>0. Pick(s) \in s /\ s \ {Pick(s)} \in SUBSET S
      BY DEF Pick
  <2>1. f[Pick(s)] \in Nat /\ h[s \ {Pick(s)}] \in Nat
      BY <2>0
  <2> QED BY <2>1
<1>3. zero \in H
    OBVIOUS
<1>a. \A h : \A s \in SUBSET S : Turn(h)[s] = IF s = {} THEN 0 ELSE f[Pick(s)] + h[s \ {Pick(s)}]
    OBVIOUS
<1>b. \A h : IsFold(S, f, h) <=> h = Turn(h)
    BY DEF IsFold
<1> HIDE DEF Turn, H, zero
<1>4. F \in [H \X (1..N + 1) -> H] /\ \A h \in H, i \in 1..N + 1 : F[<<h, i>>] = Turn(h)
    BY <1>2
<1> HIDE DEF F, N
<1>5. PICK g \in [0..N + 1 -> H] : IsLoop(N + 1, zero, F, g)
  <2>1. N + 1 \in Nat
      BY <1>1
  <2> QED BY <2>1, <1>3, <1>4, LoopExists
<1>6. \A i \in 1..N + 1 : g[i - 1] \in H /\ g[i] = Turn(g[i - 1])
  <2> TAKE i \in 1..N + 1
  <2>1. i - 1 \in 0..N + 1
      BY <1>1
  <2> QED BY <2>1, <1>4, <1>5 DEF IsLoop
<1> DEFINE Settled == {i \in 0..N : \A s \in SUBSET S : Cardinality(s) <= i => g[i + 1][s] = g[i][s]}
<1>7. 0 \in Settled
  <2>1. 1 \in 1..N + 1 /\ 0 \in 0..N /\ 1 - 1 = 0 /\ 0 + 1 = 1
      BY <1>1
  <2>2. g[1] = Turn(g[0]) /\ g[0] = zero
      BY <2>1, <1>5, <1>6 DEF IsLoop
  <2>3. ASSUME NEW s \in SUBSET S, Cardinality(s) <= 0 PROVE g[1][s] = g[0][s]
    <3>0. Cardinality(s) \in Nat /\ (Cardinality(s) = 0 <=> s = {})
        BY PickedOff
    <3>1. s = {}
        BY <2>3, <3>0
    <3>2. g[1][s] = 0
        BY <3>1, <2>2, <1>a
    <3>3. g[0][s] = 0
        BY <2>2 DEF zero
    <3> QED BY <3>2, <3>3
  <2> QED BY <2>1, <2>3
<1>8. ASSUME NEW i \in 1..N, i - 1 \in Settled PROVE i \in Settled
  <2>1. i \in 1..N + 1 /\ i + 1 \in 1..N + 1 /\ i \in 0..N /\ (i - 1) + 1 = i /\ (i + 1) - 1 = i
      BY <1>1
  <2>2. g[i + 1] = Turn(g[i]) /\ g[i] = Turn(g[i - 1])
      BY <2>1, <1>6
  <2>3. ASSUME NEW s \in SUBSET S, Cardinality(s) <= i PROVE g[i + 1][s] = g[i][s]
    <3>1. CASE s = {}
        BY <3>1, <2>2, <1>a
    <3>2. CASE s # {}
      <4> DEFINE t == s \ {Pick(s)}
      <4>1. t \in SUBSET S /\ Cardinality(t) <= i - 1
          BY <3>2, <2>3, PickedOff
      <4>2. g[i][t] = g[i - 1][t]
          BY <4>1, <1>8, <2>1
      <4>3. g[i + 1][s] = f[Pick(s)] + g[i][t] /\ g[i][s] = f[Pick(s)] + g[i - 1][t]
          BY <3>2, <2>2, <1>a
      <4> QED BY <4>2, <4>3
    <3> QED BY <3>1, <3>2
  <2> QED BY <2>1, <2>3
<1>9. N \in Settled
  <2>1. N \in 0..N
      BY <1>1
  <2> HIDE DEF Settled
  <2> QED BY <1>1, <1>7, <1>8, <2>1, LoopInduction
<1>10. N + 1 \in 1..N + 1 /\ (N + 1) - 1 = N /\ N \in 0..N + 1
    BY <1>1
<1>11. g[N + 1] = Turn(g[N]) /\ g[N] \in H
    BY <1>5, <1>6, <1>10
<1>12. g[N] = Turn(g[N])
  <2>1. \A s \in SUBSET S : g[N + 1][s] = g[N][s]
      BY <1>1, <1>9
  <2>2. Turn(g[N]) \in H
      BY <1>2, <1>11
  <2> QED BY <2>1, <2>2, <1>11 DEF H
<1> QED BY <1>11, <1>12, <1>b DEF H
Agree(T, k, h) == \A s \in SUBSET T : k[s] = h[s]
Additive(S, f, h) == \A T \in SUBSET S : \A x \in S \ T : h[T \cup {x}] = f[x] + h[T]

\* A fold over a set agrees with a fold over a larger one.
LEMMA FoldsAgree ==
    ASSUME NEW S, IsFiniteSet(S), NEW T \in SUBSET S, NEW f, NEW e, \A x \in T : e[x] = f[x],
           NEW h, NEW k, IsFold(S, f, h), IsFold(T, e, k)
    PROVE  Agree(T, k, h)
<1> DEFINE N == Cardinality(S)
           P == {n \in 0..N : \A s \in SUBSET T : Cardinality(s) = n => k[s] = h[s]}
<1>1. N \in Nat /\ \A s \in SUBSET T : s \in SUBSET S /\ Cardinality(s) \in 0..N
  <2>1. N \in Nat /\ \A s \in SUBSET S : Cardinality(s) \in Nat /\ Cardinality(s) <= N
      BY FS_CardinalityType, FS_Subset
  <2> QED BY <2>1
<1>2. \A s \in SUBSET S : h[s] = IF s = {} THEN 0 ELSE f[Pick(s)] + h[s \ {Pick(s)}]
    BY DEF IsFold
<1>3. \A s \in SUBSET T : k[s] = IF s = {} THEN 0 ELSE e[Pick(s)] + k[s \ {Pick(s)}]
    BY DEF IsFold
<1>4. 0 \in P
  <2>1. ASSUME NEW s \in SUBSET T, Cardinality(s) = 0 PROVE k[s] = h[s]
    <3>1. s = {} /\ s \in SUBSET S
        BY <2>1, <1>1, PickedOff
    <3> QED BY <3>1, <1>2, <1>3
  <2> QED BY <1>1, <2>1
<1>5. ASSUME NEW n \in 1..N, n - 1 \in P PROVE n \in P
  <2>1. ASSUME NEW s \in SUBSET T, Cardinality(s) = n PROVE k[s] = h[s]
    <3> DEFINE t == s \ {Pick(s)}
    <3>1. s \in SUBSET S /\ s # {}
      <4>1. s \in SUBSET S /\ (Cardinality(s) = 0 <=> s = {})
          BY <1>1, PickedOff
      <4> QED BY <4>1, <2>1
    <3>2. Pick(s) \in s /\ Cardinality(t) = n - 1
        BY <2>1, <3>1, PickedOff
    <3>3. k[t] = h[t]
        BY <1>5, <3>2
    <3>4. k[s] = e[Pick(s)] + k[t] /\ h[s] = f[Pick(s)] + h[t] /\ e[Pick(s)] = f[Pick(s)]
        BY <1>2, <1>3, <3>1, <3>2
    <3> QED BY <3>3, <3>4
  <2>2. n \in 0..N
      BY <1>1
  <2> QED BY <2>1, <2>2
<1>6. \A n \in 0..N : n \in P
  <2> HIDE DEF P, N
  <2> QED BY <1>1, <1>4, <1>5, LoopInduction
<1> QED BY <1>1, <1>6 DEF Agree

\* The order does not matter: an element adds its value, whenever it comes.
LEMMA FoldAdds ==
    ASSUME NEW S, IsFiniteSet(S), NEW f, \A x \in S : f[x] \in Nat,
           NEW h \in [SUBSET S -> Nat], IsFold(S, f, h)
    PROVE  Additive(S, f, h)
<1> DEFINE N == Cardinality(S)
           P == {n \in 0..N : \A T \in SUBSET S : Cardinality(T) = n =>
                                  \A x \in S \ T : h[T \cup {x}] = f[x] + h[T]}
<1>1. N \in Nat /\ \A s \in SUBSET S : Cardinality(s) \in 0..N
  <2>1. N \in Nat /\ \A s \in SUBSET S : Cardinality(s) \in Nat /\ Cardinality(s) <= N
      BY FS_CardinalityType, FS_Subset
  <2> QED BY <2>1
<1>2. \A s \in SUBSET S : h[s] = IF s = {} THEN 0 ELSE f[Pick(s)] + h[s \ {Pick(s)}]
    BY DEF IsFold
<1>3. 0 \in P
  <2>1. ASSUME NEW T \in SUBSET S, Cardinality(T) = 0, NEW x \in S \ T PROVE h[T \cup {x}] = f[x] + h[T]
    <3>1. T = {}
        BY <2>1, PickedOff
    <3>2. Pick({x}) = x /\ T \cup {x} = {x} /\ {x} \in SUBSET S /\ {x} # {} /\ {x} \ {x} = {}
        BY <3>1 DEF Pick
    <3> QED BY <1>2, <3>1, <3>2
  <2> QED BY <1>1, <2>1
<1>4. ASSUME NEW n \in 1..N, n - 1 \in P PROVE n \in P
  <2>1. ASSUME NEW T \in SUBSET S, Cardinality(T) = n, NEW x \in S \ T PROVE h[T \cup {x}] = f[x] + h[T]
    <3> DEFINE U == T \cup {x}
               y == Pick(U)
               V == T \ {y}
    <3>1. U \in SUBSET S /\ U # {} /\ y \in U
        BY DEF Pick
    <3>2. h[U] = f[y] + h[U \ {y}]
        BY <1>2, <3>1
    <3>3. CASE y = x
      <4>1. U \ {y} = T
          BY <3>3
      <4> QED BY <3>2, <3>3, <4>1
    <3>4. CASE y # x
      <4> DEFINE z == Pick(T)
                 W == T \ {z}
      <4>0. y \in T
          BY <3>1, <3>4
      <4> HIDE DEF y
      <4>1. V \in SUBSET S /\ V \cup {y} = T /\ U \ {y} = V \cup {x} /\ x \in S \ V /\ y \in S \ V
          BY <3>4, <4>0
      <4>2. Cardinality(V) = n - 1
        <5>1. IsFiniteSet(T)
            BY FS_Subset
        <5> QED BY <2>1, <4>0, <5>1, FS_RemoveElement
      <4>3. h[V \cup {x}] = f[x] + h[V] /\ h[V \cup {y}] = f[y] + h[V]
          BY <1>4, <4>1, <4>2
      <4>4. f[x] \in Nat /\ f[y] \in Nat /\ h[V] \in Nat
          BY <4>1
      <4> HIDE DEF U, V
      <4>5. h[U] = f[y] + (f[x] + h[V]) /\ h[T] = f[y] + h[V]
          BY <3>2, <4>1, <4>3
      <4> QED BY <4>4, <4>5 DEF U
    <3> QED BY <3>3, <3>4
  <2>2. n \in 0..N
      BY <1>1
  <2> QED BY <2>1, <2>2
<1>5. \A n \in 0..N : n \in P
  <2> HIDE DEF P, N
  <2> QED BY <1>1, <1>3, <1>4, LoopInduction
<1> QED BY <1>1, <1>5 DEF Additive

\* What a sum over the subsets of S does.
IsSum(S, f, g) ==
    /\ g \in [SUBSET S -> Nat]
    /\ g[{}] = 0
    /\ Additive(S, f, g)

\* Sums are sums: whatever function is summed over a part of S, it is the sum
\* of the values there.
LEMMA Sums ==
    ASSUME NEW S, IsFiniteSet(S), NEW f, \A x \in S : f[x] \in Nat
    PROVE  \E g : /\ IsSum(S, f, g)
                  /\ \A T \in SUBSET S : \A e : (\A x \in T : e[x] = f[x]) => SumFunctionOnSet(e, T) = g[T]
<1>1. PICK g \in [SUBSET S -> Nat] : IsFold(S, f, g)
    BY FoldExists
<1>2. g[{}] = 0
    BY <1>1 DEF IsFold
<1>3. IsSum(S, f, g)
  <2>1. Additive(S, f, g)
      BY <1>1, FoldAdds
  <2> QED BY <1>1, <1>2, <2>1 DEF IsSum
<1>4. ASSUME NEW T \in SUBSET S, NEW e, \A x \in T : e[x] = f[x] PROVE SumFunctionOnSet(e, T) = g[T]
  <2> DEFINE k == CHOOSE h : IsFold(T, e, h)
  <2>1. IsFiniteSet(T) /\ \A x \in T : e[x] \in Nat
      BY <1>4, FS_Subset
  <2>2. \E h : IsFold(T, e, h)
      BY <2>1, FoldExists
  <2>3. IsFold(T, e, k)
      BY <2>2
  <2>4. SumFunctionOnSet(e, T) = k[T]
      BY DEF SumFunctionOnSet, FoldFunctionOnSet, MapThenFoldSet, IsFold, Pick
  <2> HIDE DEF k
  <2>5. Agree(T, k, g)
      BY <1>1, <1>4, <2>3, FoldsAgree
  <2> QED BY <2>4, <2>5 DEF Agree
<1> QED BY <1>3, <1>4
-----------------------------------------------------------------------------
\* Finite sets.

\* What holds of the empty set and is kept by each element added holds of all.
LEMMA SetInduction ==
    ASSUME NEW S, IsFiniteSet(S), NEW P, {} \in P,
           \A U \in SUBSET S : \A x \in S \ U : U \in P => U \cup {x} \in P
    PROVE  \A U \in SUBSET S : U \in P
<1> DEFINE N == Cardinality(S)
           Q == {n \in 0..N : \A U \in SUBSET S : Cardinality(U) = n => U \in P}
<1>1. N \in Nat /\ \A s \in SUBSET S : Cardinality(s) \in 0..N
  <2>1. N \in Nat /\ \A s \in SUBSET S : Cardinality(s) \in Nat /\ Cardinality(s) <= N
      BY FS_CardinalityType, FS_Subset
  <2> QED BY <2>1
<1>2. 0 \in Q
  <2>1. ASSUME NEW U \in SUBSET S, Cardinality(U) = 0 PROVE U \in P
      BY <2>1, PickedOff
  <2> QED BY <1>1, <2>1
<1>3. ASSUME NEW n \in 1..N, n - 1 \in Q PROVE n \in Q
  <2>1. ASSUME NEW U \in SUBSET S, Cardinality(U) = n PROVE U \in P
    <3> DEFINE V == U \ {Pick(U)}
    <3>1. U # {}
      <4>1. Cardinality(U) = 0 <=> U = {}
          BY PickedOff
      <4> QED BY <2>1, <4>1
    <3>2. Pick(U) \in U /\ V \in SUBSET S /\ Cardinality(V) = n - 1
        BY <2>1, <3>1, PickedOff
    <3>3. V \in P
        BY <1>3, <3>2
    <3>4. Pick(U) \in S \ V /\ V \cup {Pick(U)} = U
        BY <3>2
    <3> QED BY <3>2, <3>3, <3>4
  <2>2. n \in 0..N
      BY <1>1
  <2> QED BY <2>1, <2>2
<1>4. \A n \in 0..N : n \in Q
  <2> HIDE DEF Q, N
  <2> QED BY <1>1, <1>2, <1>3, LoopInduction
<1> QED BY <1>1, <1>4

\* A strict total order on S, as a set of pairs.
IsOrder(S, R) ==
    /\ \A x \in S : <<x, x>> \notin R
    /\ \A x, y, z \in S : <<x, y>> \in R /\ <<y, z>> \in R => <<x, z>> \in R
    /\ \A x, y \in S : x = y \/ <<x, y>> \in R \/ <<y, x>> \in R

\* A finite set has a first element in any order, and a last one.
LEMMA FirstExists ==
    ASSUME NEW S, IsFiniteSet(S), S # {}, NEW R, IsOrder(S, R)
    PROVE  \E m \in S : \A x \in S \ {m} : <<m, x>> \in R
<1> DEFINE P == {U \in SUBSET S : U # {} => \E m \in U : \A x \in U \ {m} : <<m, x>> \in R}
<1>1. {} \in P
    OBVIOUS
<1>2. ASSUME NEW U \in SUBSET S, NEW y \in S \ U, U \in P PROVE U \cup {y} \in P
  <2>1. CASE U = {}
    <3>1. y \in U \cup {y} /\ \A x \in (U \cup {y}) \ {y} : <<y, x>> \in R
        BY <2>1
    <3> QED BY <3>1
  <2>2. CASE U # {}
    <3>1. PICK m \in U : \A x \in U \ {m} : <<m, x>> \in R
        BY <1>2, <2>2
    <3>2. CASE <<m, y>> \in R
      <4>1. m \in U \cup {y} /\ \A x \in (U \cup {y}) \ {m} : <<m, x>> \in R
          BY <3>1, <3>2
      <4> QED BY <4>1
    <3>3. CASE <<y, m>> \in R
      <4>1. ASSUME NEW x \in U, x # m PROVE <<y, x>> \in R
        <5>1. <<m, x>> \in R /\ m \in S /\ x \in S /\ y \in S
            BY <3>1, <4>1
        <5> QED BY <3>3, <5>1 DEF IsOrder
      <4>2. y \in U \cup {y} /\ \A x \in (U \cup {y}) \ {y} : <<y, x>> \in R
          BY <3>3, <4>1
      <4> QED BY <4>2
    <3> QED BY <3>2, <3>3 DEF IsOrder
  <2> QED BY <2>1, <2>2
<1>3. S \in P
  <2> HIDE DEF P
  <2>1. \A U \in SUBSET S : U \in P
      BY <1>1, <1>2, SetInduction
  <2> QED BY <2>1
<1> QED BY <1>3

LEMMA LastExists ==
    ASSUME NEW S, IsFiniteSet(S), S # {}, NEW R, IsOrder(S, R)
    PROVE  \E m \in S : \A x \in S \ {m} : <<x, m>> \in R
<1> DEFINE Q == {p \in S \X S : <<p[2], p[1]>> \in R}
<1>1. \A x, y \in S : <<x, y>> \in Q <=> <<y, x>> \in R
    OBVIOUS
<1> HIDE DEF Q
<1>2. IsOrder(S, Q)
    BY <1>1 DEF IsOrder
<1>3. PICK m \in S : \A x \in S \ {m} : <<m, x>> \in Q
    BY <1>2, FirstExists
<1> QED BY <1>1, <1>3

\* An order is one on any part of its set.
LEMMA OrderOnPart ==
    ASSUME NEW S, NEW R, IsOrder(S, R), NEW T \in SUBSET S
    PROVE  IsOrder(T, R)
  BY DEF IsOrder

\* A sum splits, and grows with its set.
Splits(S, g) == \A T, U \in SUBSET S : T \cap U = {} => g[T \cup U] = g[T] + g[U]
LEMMA SumSplits ==
    ASSUME NEW S, IsFiniteSet(S), NEW f, NEW g, IsSum(S, f, g), \A x \in S : f[x] \in Nat
    PROVE  Splits(S, g)
<1> SUFFICES ASSUME NEW T \in SUBSET S, NEW U \in SUBSET S, T \cap U = {}
             PROVE  g[T \cup U] = g[T] + g[U]
    BY DEF Splits
<1> DEFINE P == {V \in SUBSET S : T \cap V = {} => g[T \cup V] = g[T] + g[V]}
<1>1. {} \in P
  <2>1. T \cup {} = T /\ g[T] \in Nat /\ g[{}] = 0
      BY DEF IsSum
  <2> QED BY <2>1
<1>2. ASSUME NEW V \in SUBSET S, NEW y \in S \ V, V \in P PROVE V \cup {y} \in P
  <2> SUFFICES ASSUME T \cap (V \cup {y}) = {} PROVE g[T \cup (V \cup {y})] = g[T] + g[V \cup {y}]
      OBVIOUS
  <2>1. T \cap V = {} /\ y \in S \ (T \cup V) /\ T \cup V \in SUBSET S
        /\ T \cup (V \cup {y}) = (T \cup V) \cup {y}
      OBVIOUS
  <2>2. g[T \cup V] = g[T] + g[V]
      BY <1>2, <2>1
  <2>3. g[(T \cup V) \cup {y}] = f[y] + g[T \cup V] /\ g[V \cup {y}] = f[y] + g[V]
      BY <2>1 DEF IsSum, Additive
  <2>4. f[y] \in Nat /\ g[T] \in Nat /\ g[V] \in Nat
      BY DEF IsSum
  <2>5. g[T \cup (V \cup {y})] = f[y] + (g[T] + g[V])
      BY <2>1, <2>2, <2>3
  <2> QED BY <2>3, <2>4, <2>5
<1>3. U \in P
  <2> HIDE DEF P
  <2> QED BY <1>1, <1>2, SetInduction
<1> QED BY <1>3

LEMMA SumGrows ==
    ASSUME NEW S, IsFiniteSet(S), NEW f, NEW g, IsSum(S, f, g), \A x \in S : f[x] \in Nat,
           NEW T \in SUBSET S, NEW U \in SUBSET T
    PROVE  g[U] <= g[T]
<1>1. g[U \cup (T \ U)] = g[U] + g[T \ U]
  <2>1. U \in SUBSET S /\ T \ U \in SUBSET S /\ U \cap (T \ U) = {}
      OBVIOUS
  <2> QED BY <2>1, SumSplits DEF Splits
<1>2. U \cup (T \ U) = T /\ g[U] \in Nat /\ g[T \ U] \in Nat
    BY DEF IsSum
<1>3. g[T] = g[U] + g[T \ U]
    BY <1>1, <1>2
<1> QED BY <1>2, <1>3

\* What is summed by groups is summed.
Grouping(S, T, g, e, group) ==
    /\ \A x \in S : group[x] \in T
    /\ \A t \in T : e[t] = g[{x \in S : group[x] = t}]
LEMMA SumByGroups ==
    ASSUME NEW S, IsFiniteSet(S), NEW f, NEW g, IsSum(S, f, g), \A x \in S : f[x] \in Nat,
           NEW T, IsFiniteSet(T), NEW e, NEW k, IsSum(T, e, k),
           NEW group, Grouping(S, T, g, e, group)
    PROVE  k[T] = g[S]
<1> USE DEF Grouping
<1>0. Splits(S, g)
    BY SumSplits
<1> DEFINE Of(U) == {x \in S : group[x] \in U}
           P == {U \in SUBSET T : k[U] = g[Of(U)]}
<1>1. {} \in P
  <2>1. Of({}) = {}
      OBVIOUS
  <2> QED BY <2>1 DEF IsSum
<1>2. ASSUME NEW U \in SUBSET T, NEW t \in T \ U, U \in P PROVE U \cup {t} \in P
  <2> DEFINE V == {x \in S : group[x] = t}
  <2>1. Of(U \cup {t}) = Of(U) \cup V /\ Of(U) \cap V = {} /\ Of(U) \in SUBSET S /\ V \in SUBSET S
      OBVIOUS
  <2>2. k[U] = g[Of(U)] /\ e[t] = g[V]
      BY <1>2
  <2>0. U \cup {t} \in SUBSET T
      OBVIOUS
  <2> SUFFICES k[U \cup {t}] = g[Of(U \cup {t})]
      BY <2>0
  <2> HIDE DEF Of, V, P
  <2>3. g[Of(U) \cup V] = g[Of(U)] + g[V]
      BY <2>1, <1>0 DEF Splits
  <2>4. k[U \cup {t}] = e[t] + k[U]
      BY DEF IsSum, Additive
  <2>5. g[Of(U)] \in Nat /\ g[V] \in Nat
      BY <2>1 DEF IsSum
  <2>6. g[Of(U \cup {t})] = g[Of(U)] + g[V]
      BY <2>1, <2>3
  <2> QED BY <2>2, <2>4, <2>5, <2>6
<1>3. T \in P
  <2> HIDE DEF P
  <2>1. \A U \in SUBSET T : U \in P
      BY <1>1, <1>2, SetInduction
  <2> QED BY <2>1
<1>4. Of(T) = S
    OBVIOUS
<1> QED BY <1>3, <1>4

-----------------------------------------------------------------------------
\* Claims, their sizes and their orders.

BlockSpec(Projects) == BlockInit(Projects) /\ [][BlockNext]_blockVars

\* A claim over any words, and a scanned file.
ClaimTypes == ChoiceTypes \cup {GraveyardType, "THREAD_OPEN", "COMPONENT_STATUS"}
Claim(Words) ==
    [id : Nat, at : Nat, session : Words, type : ClaimTypes, who : Words, size : Nat,
     text : Words \X Words, key : Words, subject : Words, path : Words, status : Words,
     mentions : Nat \ {0}, quality : Nat, handoff : BOOLEAN, merged : Nat \ {0}, lineage : Nat,
     weight : Nat]
File(Words) ==
    [path : Words, place : Nat, classes : Nat, methods : Nat, routes : Nat, public : Nat,
     private : Nat, central : Nat, support : BOOLEAN]

\* Finitely many claims, each with an id of its own.
Claims(E, Words) ==
    /\ E \in SUBSET Claim(Words) /\ IsFiniteSet(E)
    /\ \A c, d \in E : c.id = d.id => c = d

LEMMA ClaimsPart == ASSUME NEW Words, NEW E, Claims(E, Words), NEW T \in SUBSET E PROVE Claims(T, Words)
<1>1. IsFiniteSet(T)
    BY FS_Subset DEF Claims
<1> QED BY <1>1 DEF Claims

LEMMA ClaimFields ==
    ASSUME NEW Words, NEW c \in Claim(Words)
    PROVE  /\ c.id \in Nat /\ c.at \in Nat /\ c.session \in Words /\ c.type \in ClaimTypes
           /\ c.who \in Words /\ c.size \in Nat /\ c.key \in Words /\ c.subject \in Words
           /\ c.path \in Words /\ c.status \in Words /\ c.mentions \in Nat \ {0} /\ c.quality \in Nat
           /\ c.handoff \in BOOLEAN /\ c.merged \in Nat \ {0} /\ c.lineage \in Nat /\ c.weight \in Nat
           /\ Estimate(c) \in Nat /\ Authority(c) \in 0..3 /\ ThreadPriority(c) \in 0..5
<1>1. c.size \in Nat
    BY DEF Claim
<1>2. Estimate(c) \in Nat
    BY <1>1 DEF Estimate
<1>3. Authority(c) \in 0..3
    BY DEF Authority
<1>4. ThreadPriority(c) \in 0..5
    BY DEF ThreadPriority
<1> QED BY <1>2, <1>3, <1>4 DEF Claim

\* By weight, and by authority then weight, claims are in a strict total order.
LEMMA WeightOrders ==
    ASSUME NEW Words, NEW S, Claims(S, Words)
    PROVE  IsOrder(S, ByWeight(S))
<1>1. \A c \in S : c.weight \in Nat /\ c.id \in Nat
    BY ClaimFields DEF Claims
<1>2. \A c, d \in S : <<c, d>> \in ByWeight(S) <=> Heavier(c, d)
    BY DEF ByWeight
<1> QED BY <1>1, <1>2 DEF IsOrder, Heavier, Claims

LEMMA TrustOrders ==
    ASSUME NEW Words, NEW S, Claims(S, Words)
    PROVE  IsOrder(S, ByTrust(S))
<1>1. \A c \in S : c.weight \in Nat /\ c.id \in Nat /\ Authority(c) \in 0..3
    BY ClaimFields DEF Claims
<1>2. \A c, d \in S : <<c, d>> \in ByTrust(S) <=> Precedes(c, d)
    BY DEF ByTrust
<1> QED BY <1>1, <1>2 DEF IsOrder, Precedes, Heavier, Claims

ThreadOrder(S) == {p \in S \X S : ThreadPrecedes(p[1], p[2])}
LEMMA ThreadsOrder ==
    ASSUME NEW Words, NEW S, Claims(S, Words)
    PROVE  IsOrder(S, ThreadOrder(S))
<1>1. \A c \in S : c.weight \in Nat /\ c.id \in Nat /\ ThreadPriority(c) \in 0..5 /\ c.handoff \in BOOLEAN
    BY ClaimFields DEF Claims
<1>2. \A c, d \in S : <<c, d>> \in ThreadOrder(S) <=> ThreadPrecedes(c, d)
    BY DEF ThreadOrder
<1> QED BY <1>1, <1>2 DEF IsOrder, ThreadPrecedes, Heavier, Claims

\* One thread comes first, if there is any.
LEMMA FirstThread ==
    ASSUME NEW Words, NEW S, Claims(S, Words)
    PROVE  /\ First(S) \in SUBSET S
           /\ S # {} => First(S) # {}
           /\ \A c, d \in First(S) : c = d
           /\ \A c \in First(S) : \A d \in S \ {c} : ThreadPrecedes(c, d)
           /\ First(First(S)) = First(S)
<1>1. First(S) \in SUBSET S /\ \A c \in First(S) : \A d \in S \ {c} : ThreadPrecedes(c, d)
    BY DEF First
<1>2. \A c, d \in S : <<c, d>> \in ThreadOrder(S) <=> ThreadPrecedes(c, d)
    BY DEF ThreadOrder
<1>3. IsOrder(S, ThreadOrder(S))
    BY ThreadsOrder
<1>4. ASSUME S # {} PROVE First(S) # {}
  <2>1. PICK m \in S : \A x \in S \ {m} : <<m, x>> \in ThreadOrder(S)
      BY <1>3, <1>4, FirstExists DEF Claims
  <2> QED BY <1>2, <2>1 DEF First
<1>5. \A c, d \in First(S) : c = d
    BY <1>1, <1>2, <1>3 DEF IsOrder
<1>6. First(First(S)) = First(S)
    BY <1>1 DEF First
<1> QED BY <1>1, <1>4, <1>5, <1>6

\* Sizes are sums.
Adds(S) ==
    \A T \in SUBSET S :
        /\ Tokens(T) \in Nat
        /\ \A U \in SUBSET T : Tokens(U) <= Tokens(T)
        /\ \A c \in S \ T : Tokens(T \cup {c}) = Estimate(c) + Tokens(T)
        /\ \A U \in SUBSET S : T \cap U = {} => Tokens(T \cup U) = Tokens(T) + Tokens(U)

LEMMA TokensAdd ==
    ASSUME NEW S, IsFiniteSet(S), \A c \in S : Estimate(c) \in Nat
    PROVE  Adds(S) /\ Tokens({}) = 0
<1> DEFINE f == [c \in S |-> Estimate(c)]
<1>1. \A c \in S : f[c] = Estimate(c) /\ f[c] \in Nat
    OBVIOUS
<1> HIDE DEF f
<1>2. PICK g : /\ IsSum(S, f, g)
               /\ \A T \in SUBSET S : \A e : (\A x \in T : e[x] = f[x]) => SumFunctionOnSet(e, T) = g[T]
    BY <1>1, Sums
<1>3. ASSUME NEW T \in SUBSET S PROVE Tokens(T) = g[T]
  <2> DEFINE e == [c \in T |-> Estimate(c)]
  <2>1. \A c \in T : e[c] = f[c]
      BY <1>1
  <2>2. Tokens(T) = SumFunctionOnSet(e, T)
      BY DEF Tokens
  <2> HIDE DEF e
  <2> QED BY <1>2, <2>1, <2>2
<1>4. Splits(S, g) /\ g[{}] = 0 /\ \A T \in SUBSET S : g[T] \in Nat
    BY <1>1, <1>2, SumSplits DEF IsSum
<1>5. \A T \in SUBSET S : \A c \in S \ T : g[T \cup {c}] = f[c] + g[T]
    BY <1>2 DEF IsSum, Additive
<1>6. \A T \in SUBSET S : \A U \in SUBSET T : g[U] <= g[T]
    BY <1>1, <1>2, SumGrows
<1>7. ASSUME NEW T \in SUBSET S
      PROVE  /\ Tokens(T) \in Nat
             /\ \A U \in SUBSET T : Tokens(U) <= Tokens(T)
             /\ \A c \in S \ T : Tokens(T \cup {c}) = Estimate(c) + Tokens(T)
             /\ \A U \in SUBSET S : T \cap U = {} => Tokens(T \cup U) = Tokens(T) + Tokens(U)
  <2>1. Tokens(T) \in Nat /\ \A U \in SUBSET T : Tokens(U) <= Tokens(T)
      BY <1>3, <1>4, <1>6
  <2>2. \A c \in S \ T : Tokens(T \cup {c}) = Estimate(c) + Tokens(T)
    <3> TAKE c \in S \ T
    <3>1. T \cup {c} \in SUBSET S
        OBVIOUS
    <3> QED BY <3>1, <1>1, <1>3, <1>5
  <2>3. ASSUME NEW U \in SUBSET S, T \cap U = {} PROVE Tokens(T \cup U) = Tokens(T) + Tokens(U)
    <3>1. T \cup U \in SUBSET S
        OBVIOUS
    <3> QED BY <3>1, <2>3, <1>3, <1>4 DEF Splits
  <2> QED BY <2>1, <2>2, <2>3
<1>8. {} \in SUBSET S
    OBVIOUS
<1> QED BY <1>3, <1>4, <1>7, <1>8 DEF Adds

LEMMA ClaimTokens ==
    ASSUME NEW Words, NEW S, Claims(S, Words)
    PROVE  Adds(S) /\ Tokens({}) = 0 /\ \A c \in S : Estimate(c) \in Nat
<1>1. \A c \in S : Estimate(c) \in Nat
    BY ClaimFields DEF Claims
<1> QED BY <1>1, TokensAdd DEF Claims

-----------------------------------------------------------------------------
\* The fill.

\* K is what is admitted from S: each one that still fits after those ahead of it.
Admitted(S, R, used, limit, K) ==
    /\ K \in SUBSET S
    /\ \A c \in S : c \in K <=> used + Tokens(Ahead(c, K, R)) + Estimate(c) <= limit

LEMMA SomeAdmitted ==
    ASSUME NEW S, IsFiniteSet(S), \A c \in S : Estimate(c) \in Nat,
           NEW R, IsOrder(S, R), NEW used, NEW limit
    PROVE  \E K : Admitted(S, R, used, limit, K)
<1> DEFINE N == Cardinality(S)
           P == {n \in 0..N : \A T \in SUBSET S : Cardinality(T) = n => \E K : Admitted(T, R, used, limit, K)}
<1>1. N \in Nat /\ \A s \in SUBSET S : Cardinality(s) \in 0..N
  <2>1. N \in Nat /\ \A s \in SUBSET S : Cardinality(s) \in Nat /\ Cardinality(s) <= N
      BY FS_CardinalityType, FS_Subset
  <2> QED BY <2>1
<1>2. 0 \in P
  <2>1. ASSUME NEW T \in SUBSET S, Cardinality(T) = 0 PROVE \E K : Admitted(T, R, used, limit, K)
    <3>1. T = {}
        BY <2>1, PickedOff
    <3>2. Admitted(T, R, used, limit, {})
        BY <3>1 DEF Admitted
    <3> QED BY <3>2
  <2> QED BY <1>1, <2>1
<1>3. ASSUME NEW n \in 1..N, n - 1 \in P PROVE n \in P
  <2>1. ASSUME NEW T \in SUBSET S, Cardinality(T) = n PROVE \E K : Admitted(T, R, used, limit, K)
    <3>1. IsFiniteSet(T) /\ T # {} /\ IsOrder(T, R)
      <4>1. IsFiniteSet(T) /\ (Cardinality(T) = 0 <=> T = {})
          BY PickedOff
      <4>2. IsOrder(T, R)
          BY OrderOnPart
      <4> QED BY <4>1, <4>2, <2>1
    <3>2. PICK m \in T : \A x \in T \ {m} : <<x, m>> \in R
        BY <3>1, LastExists
    <3> DEFINE U == T \ {m}
    <3>3. U \in SUBSET S /\ Cardinality(U) = n - 1
        BY <2>1, <3>1, FS_RemoveElement
    <3>4. PICK K : Admitted(U, R, used, limit, K)
        BY <1>3, <3>3
    <3>5. \A x \in T : <<m, x>> \notin R
        BY <3>1, <3>2 DEF IsOrder
    <3> DEFINE fits == used + Tokens(Ahead(m, K, R)) + Estimate(m) <= limit
               L == IF fits THEN K \cup {m} ELSE K
    <3>6. \A c \in T : Ahead(c, L, R) = Ahead(c, K, R)
        BY <3>5 DEF Ahead
    <3>7. m \notin K /\ L \in SUBSET T /\ (m \in L <=> fits) /\ \A c \in U : c \in L <=> c \in K
        BY <3>4 DEF Admitted
    <3> HIDE DEF L
    <3>8. \A c \in T : c \in L <=> used + Tokens(Ahead(c, L, R)) + Estimate(c) <= limit
      <4> SUFFICES ASSUME NEW c \in T
                   PROVE  c \in L <=> used + Tokens(Ahead(c, K, R)) + Estimate(c) <= limit
          BY <3>6
      <4>1. CASE c = m
          BY <4>1, <3>7
      <4>2. CASE c # m
          BY <4>2, <3>4, <3>7 DEF Admitted
      <4> QED BY <4>1, <4>2
    <3>9. Admitted(T, R, used, limit, L)
        BY <3>7, <3>8 DEF Admitted
    <3> QED BY <3>9
  <2>2. n \in 0..N
      BY <1>1
  <2> QED BY <2>1, <2>2
<1>4. \A n \in 0..N : n \in P
  <2> HIDE DEF P, N
  <2> QED BY <1>1, <1>2, <1>3, LoopInduction
<1>5. S \in SUBSET S
    OBVIOUS
<1> QED BY <1>1, <1>4, <1>5

LEMMA AdmitAdmits ==
    ASSUME NEW S, IsFiniteSet(S), \A c \in S : Estimate(c) \in Nat,
           NEW R, IsOrder(S, R), NEW used, NEW limit
    PROVE  Admitted(S, R, used, limit, Admit(S, R, used, limit))
<1>1. PICK K : Admitted(S, R, used, limit, K)
    BY SomeAdmitted
<1> QED BY <1>1 DEF Admitted, Admit

\* What is admitted respects the limit.
LEMMA AdmittedFit ==
    ASSUME NEW S, IsFiniteSet(S), \A c \in S : Estimate(c) \in Nat,
           NEW R, IsOrder(S, R), NEW used \in Nat, NEW limit \in Int, NEW K, Admitted(S, R, used, limit, K),
           K # {}
    PROVE  used + Tokens(K) <= limit
<1>1. K \in SUBSET S /\ IsFiniteSet(K) /\ IsOrder(K, R)
    BY OrderOnPart, FS_Subset DEF Admitted
<1>2. PICK m \in K : \A x \in K \ {m} : <<x, m>> \in R
    BY <1>1, LastExists
<1>3. Ahead(m, K, R) = K \ {m}
    BY <1>1, <1>2 DEF Ahead, IsOrder
<1>4. Adds(S)
    BY TokensAdd
<1>5. K \ {m} \in SUBSET S /\ m \in S \ (K \ {m}) /\ (K \ {m}) \cup {m} = K
    BY <1>1
<1>6. Tokens(K) = Estimate(m) + Tokens(K \ {m})
    BY <1>4, <1>5 DEF Adds
<1>7. Tokens(K \ {m}) \in Nat /\ Estimate(m) \in Nat
    BY <1>4, <1>5 DEF Adds
<1>8. used + Tokens(K \ {m}) + Estimate(m) <= limit
    BY <1>1, <1>3 DEF Admitted
<1> QED BY <1>6, <1>7, <1>8

\* What is left out would not fit beside what is admitted.
LEMMA LeftOutNotFit ==
    ASSUME NEW S, IsFiniteSet(S), \A c \in S : Estimate(c) \in Nat,
           NEW R, NEW used \in Nat, NEW limit \in Int, NEW K, Admitted(S, R, used, limit, K),
           NEW c \in S, c \notin K
    PROVE  used + Tokens(K) + Estimate(c) > limit
<1>1. K \in SUBSET S /\ Ahead(c, K, R) \in SUBSET K
    BY DEF Admitted, Ahead
<1>2. Adds(S)
    BY TokensAdd
<1>3. Tokens(K) \in Nat /\ Tokens(Ahead(c, K, R)) <= Tokens(K)
    BY <1>1, <1>2 DEF Adds
<1>4. Tokens(Ahead(c, K, R)) \in Nat
    BY <1>1, <1>2 DEF Adds
<1>5. ~(used + Tokens(Ahead(c, K, R)) + Estimate(c) <= limit)
    BY DEF Admitted
<1> QED BY <1>3, <1>4, <1>5
-----------------------------------------------------------------------------
\* Two of the claims that must be shown: the first goes only if it is the larger.
LEMMA MandatoryFair ==
    ASSUME NEW Words, NEW S, Claims(S, Words), NEW limit \in Int
    PROVE  /\ CompressMandatory(S, limit) \in SUBSET S
           /\ \A c, d \in S : c.who = "user_stated" /\ c \notin CompressMandatory(S, limit)
                              /\ d.who # "user_stated" /\ d \in CompressMandatory(S, limit)
                              => Estimate(d) < Estimate(c)
<1> DEFINE R == ByTrust(S)
           K == Admit(S, R, 0, limit)
           C == CompressMandatory(S, limit)
<1>1. IsOrder(S, R) /\ IsFiniteSet(S) /\ \A c \in S : Estimate(c) \in Nat
    BY TrustOrders, ClaimTokens DEF Claims
<1> HIDE DEF R
<1>2. Admitted(S, R, 0, limit, K)
    BY <1>1, AdmitAdmits
<1>3. C = IF Tokens(S) <= limit THEN S ELSE IF K = {} THEN {c \in S : Ahead(c, S, R) = {}} ELSE K
    BY DEF CompressMandatory, R
<1> HIDE DEF K, C
<1>4. C \in SUBSET S
    BY <1>2, <1>3 DEF Admitted
<1>5. \A c, d \in S : c.who = "user_stated" /\ d.who # "user_stated" => <<c, d>> \in R
  <2> TAKE c, d \in S
  <2>1. c.who = "user_stated" /\ d.who # "user_stated" => Authority(c) = 3 /\ Authority(d) < 3
      BY DEF Authority, Answer
  <2> QED BY <2>1 DEF R, ByTrust, Precedes
<1>6. ASSUME NEW c \in S, NEW d \in S, c.who = "user_stated", c \notin C, d.who # "user_stated", d \in C
      PROVE  Estimate(d) < Estimate(c)
  <2>1. <<c, d>> \in R
      BY <1>5, <1>6
  <2>2. K # {} /\ C = K
    <3>1. Ahead(d, S, R) # {}
        BY <2>1 DEF Ahead
    <3> QED BY <1>3, <1>6, <3>1
  <2>3. /\ Tokens(Ahead(d, K, R)) + Estimate(d) <= limit
        /\ ~(Tokens(Ahead(c, K, R)) + Estimate(c) <= limit)
        /\ Estimate(c) \in Nat /\ Estimate(d) \in Nat
    <3>1. 0 + Tokens(Ahead(d, K, R)) + Estimate(d) <= limit /\ ~(0 + Tokens(Ahead(c, K, R)) + Estimate(c) <= limit)
        BY <1>2, <1>6, <2>2 DEF Admitted
    <3>2. \A x \in SUBSET S : Tokens(x) \in Nat
        BY <1>1, TokensAdd DEF Adds
    <3>3. Ahead(c, K, R) \in SUBSET S /\ Ahead(d, K, R) \in SUBSET S
        BY <1>2 DEF Admitted, Ahead
    <3> QED BY <1>1, <3>1, <3>2, <3>3
  <2>4. Ahead(c, K, R) \in SUBSET Ahead(d, K, R) /\ Ahead(d, K, R) \in SUBSET S
    <3>1. \A x \in K : <<x, c>> \in R => <<x, d>> \in R
        BY <1>1, <1>2, <2>1 DEF IsOrder, Admitted
    <3> QED BY <1>2, <3>1 DEF Admitted, Ahead
  <2>5. Tokens(Ahead(c, K, R)) <= Tokens(Ahead(d, K, R)) /\ Tokens(Ahead(c, K, R)) \in Nat
        /\ Tokens(Ahead(d, K, R)) \in Nat
    <3>1. Adds(S)
        BY <1>1, TokensAdd
    <3>2. Ahead(c, K, R) \in SUBSET S
        BY <2>4
    <3> QED BY <2>4, <3>1, <3>2 DEF Adds
  <2> QED BY <2>3, <2>5
<1> QED BY <1>4, <1>6 DEF C

-----------------------------------------------------------------------------
\* What greedy_fill takes.

LEMMA ScaledDown == ASSUME NEW n \in Nat, NEW limit \in Nat PROVE (n * limit) \div 1500 \in Nat
<1>1. n * limit \in Nat
    OBVIOUS
<1> DEFINE m == n * limit
<1> HIDE DEF m
<1>2. m \in Nat => m \div 1500 \in Nat
    OBVIOUS
<1> QED BY <1>1, <1>2 DEF m

\* The components that are guaranteed a place.
LEMMA GuaranteedShape ==
    ASSUME NEW Words, NEW E, Claims(E, Words), NEW limit \in Int
    PROVE  GuaranteedComponents(E, limit) \in SUBSET {c \in E : c.type = "COMPONENT_STATUS" /\ ~Mandatory(c)}
<1> DEFINE comps == {c \in E : c.type = "COMPONENT_STATUS" /\ ~Mandatory(c)}
           best  == {c \in comps : \A d \in comps \ {c} : d.path = c.path => Heavier(c, d)}
           five  == {c \in best : Cardinality(Ahead(c, best, ByWeight(best))) < 5}
<1>1. GuaranteedComponents(E, limit) = Admit(five, ByWeight(five), 0, limit)
    BY DEF GuaranteedComponents
<1>2. five \in SUBSET E /\ five \in SUBSET comps
    OBVIOUS
<1> HIDE DEF five
<1>3. Claims(five, Words)
    BY <1>2, ClaimsPart
<1>4. Admitted(five, ByWeight(five), 0, limit, Admit(five, ByWeight(five), 0, limit))
    BY <1>3, WeightOrders, ClaimTokens, AdmitAdmits DEF Claims
<1> QED BY <1>1, <1>2, <1>4 DEF Admitted

\* The zones are apart, nothing that still fits is left out, and what is taken
\* for its weight leaves what was reserved.
FillOf(E, limit, reserve, F) ==
    LET all == F.kept \cup F.comps \cup F.rest
    IN  /\ F.kept \in SUBSET {c \in E : Mandatory(c)}
        /\ F.comps \in SUBSET {c \in E : ~Mandatory(c) /\ c.type = "COMPONENT_STATUS"}
        /\ F.rest \in SUBSET {c \in E : ~Mandatory(c) /\ c \notin F.comps}
        /\ \A c \in E \ all : Mandatory(c) \/ Tokens(all) + reserve + Estimate(c) > limit
        /\ F.rest # {} => Tokens(all) + reserve <= limit
        /\ \A c, d \in E : Mandatory(c) /\ c.who = "user_stated" /\ c \notin all
                           /\ Mandatory(d) /\ d.who # "user_stated" /\ d \in all => Estimate(d) < Estimate(c)

LEMMA FillShape ==
    ASSUME NEW Words, NEW E, Claims(E, Words), NEW limit \in Nat, NEW reserve \in Nat
    PROVE  FillOf(E, limit, reserve, GreedyFill(E, limit, reserve))
<1> DEFINE must  == {c \in E : Mandatory(c)}
           kept  == CompressMandatory(must, (500 * limit) \div 1500)
           comps == GuaranteedComponents(E, (150 * limit) \div 1500)
           rest  == {c \in E : ~Mandatory(c) /\ c \notin comps}
           used  == Tokens(kept \cup comps) + reserve
           taken == Admit(rest, ByWeight(rest), used, limit)
           all   == kept \cup comps \cup taken
           F     == GreedyFill(E, limit, reserve)
<1>1. F.kept = kept /\ F.comps = comps /\ F.rest = taken
    BY DEF GreedyFill
<1>2. kept \in SUBSET must /\ \A c, d \in must :
          c.who = "user_stated" /\ c \notin kept /\ d.who # "user_stated" /\ d \in kept => Estimate(d) < Estimate(c)
  <2>1. must \in SUBSET E
      OBVIOUS
  <2> HIDE DEF must
  <2>2. Claims(must, Words)
      BY <2>1, ClaimsPart
  <2> QED BY <2>2, ScaledDown, MandatoryFair
<1>3. comps \in SUBSET {c \in E : c.type = "COMPONENT_STATUS" /\ ~Mandatory(c)}
    BY ScaledDown, GuaranteedShape
<1> HIDE DEF kept, comps, F
<1>4. Adds(E) /\ Tokens({}) = 0 /\ \A c \in E : Estimate(c) \in Nat
    BY ClaimTokens
<1>5. kept \cup comps \in SUBSET E /\ rest \in SUBSET E /\ rest \cap (kept \cup comps) = {}
    BY <1>2, <1>3
<1>6. used \in Nat
    BY <1>4, <1>5 DEF Adds
<1>7. Admitted(rest, ByWeight(rest), used, limit, taken) /\ Claims(rest, Words) /\ IsOrder(rest, ByWeight(rest))
  <2> HIDE DEF rest, used
  <2>1. Claims(rest, Words)
      BY <1>5, ClaimsPart
  <2> QED BY <2>1, WeightOrders, ClaimTokens, AdmitAdmits DEF Claims
<1>8. taken \in SUBSET rest
    BY <1>7 DEF Admitted
<1> HIDE DEF taken, used
<1>9. Tokens(all) + reserve = used + Tokens(taken)
  <2>1. (kept \cup comps) \cap taken = {} /\ taken \in SUBSET E
      BY <1>5, <1>8
  <2>2. Tokens(all) = Tokens(kept \cup comps) + Tokens(taken)
      BY <1>4, <1>5, <2>1 DEF Adds
  <2>3. Tokens(taken) \in Nat /\ Tokens(kept \cup comps) \in Nat
      BY <1>4, <1>5, <2>1 DEF Adds
  <2> QED BY <2>2, <2>3 DEF used
<1>10. \A c \in rest \ taken : used + Tokens(taken) + Estimate(c) > limit
  <2>1. IsFiniteSet(rest) /\ \A c \in rest : Estimate(c) \in Nat
      BY <1>4, <1>7 DEF Claims
  <2> HIDE DEF rest
  <2>2. ASSUME NEW c \in rest, c \notin taken PROVE used + Tokens(taken) + Estimate(c) > limit
      BY <1>6, <1>7, <2>1, <2>2, LeftOutNotFit
  <2> QED BY <2>2
<1>11. taken # {} => used + Tokens(taken) <= limit
  <2>1. IsFiniteSet(rest) /\ \A c \in rest : Estimate(c) \in Nat
      BY <1>4, <1>7 DEF Claims
  <2> HIDE DEF rest
  <2> QED BY <1>6, <1>7, <2>1, AdmittedFit
<1>12. \A c \in E \ all : Mandatory(c) \/ Tokens(all) + reserve + Estimate(c) > limit
  <2> SUFFICES ASSUME NEW c \in E, c \notin all, ~Mandatory(c) PROVE Tokens(all) + reserve + Estimate(c) > limit
      OBVIOUS
  <2>1. c \in rest \ taken
      OBVIOUS
  <2> QED BY <2>1, <1>9, <1>10
<1>13. taken # {} => Tokens(all) + reserve <= limit
    BY <1>9, <1>11
<1>14. \A c, d \in E : Mandatory(c) /\ c.who = "user_stated" /\ c \notin all
                       /\ Mandatory(d) /\ d.who # "user_stated" /\ d \in all => Estimate(d) < Estimate(c)
    BY <1>2, <1>3, <1>8
<1>15. /\ kept \in SUBSET {c \in E : Mandatory(c)}
       /\ comps \in SUBSET {c \in E : ~Mandatory(c) /\ c.type = "COMPONENT_STATUS"}
       /\ taken \in SUBSET {c \in E : ~Mandatory(c) /\ c \notin comps}
    BY <1>2, <1>3, <1>8
<1>16. F.kept \cup F.comps \cup F.rest = all
    BY <1>1
<1> SUFFICES FillOf(E, limit, reserve, F)
    BY DEF F
<1> HIDE DEF must, rest, all
<1>17. /\ F.kept \in SUBSET {c \in E : Mandatory(c)}
       /\ F.comps \in SUBSET {c \in E : ~Mandatory(c) /\ c.type = "COMPONENT_STATUS"}
       /\ F.rest \in SUBSET {c \in E : ~Mandatory(c) /\ c \notin F.comps}
    BY <1>1, <1>15
<1>18. F.rest # {} => Tokens(all) + reserve <= limit
    BY <1>1, <1>13
<1> QED BY <1>12, <1>14, <1>16, <1>17, <1>18, Zenon DEF FillOf

-----------------------------------------------------------------------------
\* Weights.

\* What a function makes of a finite set is finite.
LEMMA FiniteImage ==
    ASSUME NEW S, IsFiniteSet(S), NEW f, NEW T, \A t \in T : \E x \in S : t = f[x]
    PROVE  IsFiniteSet(T)
<1> DEFINE Of(U) == {f[x] : x \in U}
           P == {U \in SUBSET S : IsFiniteSet(Of(U))}
<1>1. {} \in P
  <2>1. Of({}) = {}
      OBVIOUS
  <2> QED BY <2>1, FS_EmptySet
<1>2. ASSUME NEW U \in SUBSET S, NEW x \in S \ U, U \in P PROVE U \cup {x} \in P
  <2>1. Of(U \cup {x}) = Of(U) \cup {f[x]}
      OBVIOUS
  <2>2. IsFiniteSet(Of(U))
      BY <1>2
  <2> HIDE DEF Of
  <2>3. IsFiniteSet(Of(U) \cup {f[x]})
      BY <2>2, FS_AddElement
  <2> QED BY <2>1, <2>3
<1>3. S \in P
  <2> HIDE DEF P
  <2>1. \A U \in SUBSET S : U \in P
      BY <1>1, <1>2, SetInduction
  <2> QED BY <2>1
<1>4. IsFiniteSet(Of(S)) /\ T \in SUBSET Of(S)
    BY <1>3
<1> QED BY <1>4, FS_Subset

LEMMA DividedDown == ASSUME NEW n \in Nat, NEW d \in Nat \ {0} PROVE n \div d \in Nat
  OBVIOUS

LEMMA PercentNat == ASSUME NEW w \in Nat, NEW p \in Nat PROVE Percent(w, p) \in Nat
<1>1. w * p \in Nat
    OBVIOUS
<1> QED BY <1>1, DividedDown DEF Percent

LEMMA RecencyNat == ASSUME NEW ago \in Nat PROVE Recency(ago) \in Nat
<1>1. 100 + 15 * ago \in Nat \ {0} /\ 10000 \in Nat
    OBVIOUS
<1> QED BY <1>1, DividedDown DEF Recency

LEMMA RepetitionNat == ASSUME NEW n \in Nat \ {0} PROVE Repetition(n) \in Nat
<1>1. Least(n, 12) \in 1..12
    BY DEF Least
<1>2. \A i \in 1..12 : <<100, 121, 133, 142, 148, 154, 158, 162, 166, 169, 172, 175>>[i] \in Nat
    OBVIOUS
<1> QED BY <1>1, <1>2 DEF Repetition

\* Sessions since the one a claim comes from.
LEMMA AgeNat ==
    ASSUME NEW cs, IsFiniteSet(cs), NEW s
    PROVE  Cardinality({d.session : d \in cs}) - Ordinal(cs, s) \in Nat
<1> DEFINE all == {d.session : d \in cs}
           first(x) == CHOOSE c \in cs : c.session = x /\ \A d \in cs : d.session = x => c.id <= d.id
           upto == {x \in all : first(x).id <= first(s).id}
<1>1. IsFiniteSet(all)
  <2> DEFINE f == [d \in cs |-> d.session]
  <2>1. \A t \in all : \E d \in cs : t = f[d]
      OBVIOUS
  <2> HIDE DEF all, f
  <2> QED BY <2>1, FiniteImage
<1>2. upto \in SUBSET all
    OBVIOUS
<1>3. Ordinal(cs, s) = Cardinality(upto)
    BY DEF Ordinal
<1> HIDE DEF all, upto
<1>4. IsFiniteSet(upto) /\ Cardinality(upto) <= Cardinality(all)
    BY <1>1, <1>2, FS_Subset
<1>5. Cardinality(upto) \in Nat /\ Cardinality(all) \in Nat
    BY <1>1, <1>4, FS_CardinalityType
<1>6. Cardinality(all) - Cardinality(upto) \in Nat
    BY <1>4, <1>5
<1> QED BY <1>3, <1>6 DEF all

LEMMA CentralNat ==
    ASSUME NEW files, \A f \in files : f.central \in Nat, NEW path
    PROVE  Central(files, path) \in Nat
<1>1. ASSUME \E f \in files : f.path = path PROVE (CHOOSE f \in files : f.path = path).central \in Nat
    BY <1>1
<1> QED BY <1>1 DEF Central

LEMMA WeighNat ==
    ASSUME NEW Words, NEW cs, IsFiniteSet(cs), NEW comps, NEW files, \A f \in files : f.central \in Nat,
           NEW c \in Claim(Words)
    PROVE  Weigh(c, cs, comps, files) \in Nat
<1> DEFINE path   == Canonical(c.path)
           status == IF \E d \in comps : d.path = path THEN (CHOOSE d \in comps : d.path = path).status ELSE "unknown"
           ago    == Cardinality({d.session : d \in cs}) - Ordinal(cs, c.session)
           base   == BaseTimesType(c.type)
           recent == Percent(base, Recency(ago))
           aged   == Percent(recent, Repetition(c.mentions))
           central == Central(files, path)
           active == IF path = None THEN 100 ELSE Activity(status)
           placed == Percent(aged, central)
           moving == Percent(placed, active)
<1>1. Weigh(c, cs, comps, files) = Percent(moving, c.quality)
    BY DEF Weigh
<1>2. c.type \in ClaimTypes /\ c.mentions \in Nat \ {0} /\ c.quality \in Nat
    BY ClaimFields
<1>3. base \in Nat
    BY <1>2 DEF BaseTimesType, ClaimTypes, ChoiceTypes, DecisionTypes, GraveyardType
<1>4. active \in Nat
    BY DEF Activity
<1>5. Recency(ago) \in Nat
    BY AgeNat, RecencyNat
<1>6. central \in Nat
    BY CentralNat
<1> HIDE DEF base, active, ago, central
<1>7. recent \in Nat
    BY <1>3, <1>5, PercentNat
<1> HIDE DEF recent
<1>8. aged \in Nat
    BY <1>2, <1>7, RepetitionNat, PercentNat
<1> HIDE DEF aged
<1>9. placed \in Nat
    BY <1>6, <1>8, PercentNat
<1> HIDE DEF placed
<1>10. moving \in Nat
    BY <1>4, <1>9, PercentNat
<1> HIDE DEF moving
<1> QED BY <1>1, <1>2, <1>10, PercentNat

-----------------------------------------------------------------------------
\* What the projection holds.

\* x is c, with its counts or its weight changed.
From(x, c) ==
    /\ x.id = c.id /\ x.at = c.at /\ x.type = c.type /\ x.who = c.who /\ x.session = c.session
    /\ x.key = c.key /\ x.subject = c.subject /\ x.text = c.text /\ x.handoff = c.handoff

\* Claims made of claims, no two of the same one, are claims.
LEMMA MadeOfClaims ==
    ASSUME NEW Words, NEW S, Claims(S, Words), NEW T \in SUBSET Claim(Words),
           \A x \in T : \E c \in S : x.id = c.id, \A x, y \in T : x.id = y.id => x = y
    PROVE  Claims(T, Words)
<1> DEFINE f == [c \in S |-> CHOOSE x \in T : x.id = c.id]
<1>1. \A x \in T : \E c \in S : x = f[c]
  <2> TAKE x \in T
  <2>1. PICK c \in S : x.id = c.id
      OBVIOUS
  <2>2. f[c] = CHOOSE y \in T : y.id = c.id
      OBVIOUS
  <2>3. f[c] \in T /\ f[c].id = c.id
      BY <2>1, <2>2
  <2> QED BY <2>1, <2>3
<1> HIDE DEF f
<1>2. IsFiniteSet(T)
    BY <1>1, FiniteImage DEF Claims
<1> QED BY <1>2 DEF Claims

\* One of finitely many claims is the newest.
LEMMA NewestIn ==
    ASSUME NEW Words, NEW S, Claims(S, Words), S # {}
    PROVE  Newest(S) \in S
<1> DEFINE R == {p \in S \X S : p[1].id > p[2].id}
<1>1. \A c \in S : c.id \in Nat
    BY ClaimFields DEF Claims
<1>2. \A c, d \in S : <<c, d>> \in R <=> c.id > d.id
    OBVIOUS
<1> HIDE DEF R
<1>3. IsOrder(S, R)
    BY <1>1, <1>2 DEF IsOrder, Claims
<1>4. PICK m \in S : \A c \in S \ {m} : <<m, c>> \in R
    BY <1>3, FirstExists DEF Claims
<1>5. ASSUME NEW c \in S PROVE c.id <= m.id
  <2>1. c = m \/ m.id > c.id
      BY <1>2, <1>4
  <2> QED BY <1>1, <2>1
<1> QED BY <1>5 DEF Newest

\* Mentions are counted.
MentionsAdd(S, g) ==
    /\ IsSum(S, [c \in S |-> c.mentions], g)
    /\ \A T \in SUBSET S : MentionsIn(T) = g[T]
LEMMA MentionsSum ==
    ASSUME NEW Words, NEW S, Claims(S, Words)
    PROVE  \E g : MentionsAdd(S, g)
<1> DEFINE f == [c \in S |-> c.mentions]
<1>1. \A c \in S : f[c] = c.mentions /\ f[c] \in Nat
    BY ClaimFields DEF Claims
<1>2. IsFiniteSet(S)
    BY DEF Claims
<1> HIDE DEF f
<1>3. PICK g : /\ IsSum(S, f, g)
               /\ \A T \in SUBSET S : \A e : (\A x \in T : e[x] = f[x]) => SumFunctionOnSet(e, T) = g[T]
    BY <1>1, <1>2, Sums
<1>4. ASSUME NEW T \in SUBSET S PROVE MentionsIn(T) = g[T]
  <2> DEFINE e == [c \in T |-> c.mentions]
  <2>1. \A c \in T : e[c] = f[c]
      BY <1>1
  <2>2. MentionsIn(T) = SumFunctionOnSet(e, T)
      BY DEF MentionsIn
  <2> HIDE DEF e
  <2> QED BY <1>3, <2>1, <2>2
<1> QED BY <1>3, <1>4 DEF MentionsAdd, f

LEMMA SomeMention ==
    ASSUME NEW Words, NEW S, Claims(S, Words), S # {}
    PROVE  MentionsIn(S) \in Nat \ {0}
<1>1. PICK g : MentionsAdd(S, g)
    BY MentionsSum
<1>2. PICK c \in S : TRUE
    OBVIOUS
<1>3. S \ {c} \in SUBSET S /\ c \in S \ (S \ {c}) /\ (S \ {c}) \cup {c} = S
    OBVIOUS
<1>4. g[S] = c.mentions + g[S \ {c}] /\ g[S \ {c}] \in Nat
  <2>1. g[(S \ {c}) \cup {c}] = [x \in S |-> x.mentions][c] + g[S \ {c}] /\ g[S \ {c}] \in Nat
      BY <1>1, <1>3 DEF MentionsAdd, IsSum, Additive
  <2> QED BY <1>3, <2>1
<1>5. c.mentions \in Nat \ {0}
    BY ClaimFields DEF Claims
<1>6. MentionsIn(S) = g[S]
    BY <1>1 DEF MentionsAdd
<1> QED BY <1>4, <1>5, <1>6

\* A claim with another path, count or weight is a claim.
LEMMA Repathed ==
    ASSUME NEW Words, NEW c \in Claim(Words), NEW p \in Words, NEW d, d = [c EXCEPT !.path = p]
    PROVE  d \in Claim(Words) /\ From(d, c) /\ d.path = p
  BY DEF Claim, From

LEMMA Recounted ==
    ASSUME NEW Words, NEW c \in Claim(Words), NEW n \in Nat \ {0}, NEW d, d = [c EXCEPT !.mentions = n]
    PROVE  d \in Claim(Words) /\ From(d, c) /\ d.path = c.path /\ d.mentions = n
  BY DEF Claim, From

LEMMA Reweighted ==
    ASSUME NEW Words, NEW c \in Claim(Words), NEW n \in Nat, NEW d, d = [c EXCEPT !.weight = n]
    PROVE  d \in Claim(Words) /\ From(d, c) /\ d.mentions = c.mentions
  BY DEF Claim, From

\* The component collapse yields claims about components, each with an id of its own.
Whole(E, S) == \A x \in E : \E c \in S : From(x, c)
LEMMA ComponentsMade ==
    ASSUME NEW Words, \A w \in Words : Canonical(w) \in Words, NEW cs, Claims(cs, Words)
    PROVE  /\ Claims(Components(cs), Words)
           /\ Whole(Components(cs), {c \in cs : c.type = "COMPONENT_STATUS"})
<1> DEFINE old   == {d \in cs : d.type = "COMPONENT_STATUS" /\ d.path # None /\ ~BareBasename(Canonical(d.path))}
           known == {[c EXCEPT !.path = Canonical(@)] : c \in old}
           at(p) == {c \in known : c.path = p}
           paths == {c.path : c \in known}
           new(p) == [Newest(at(p)) EXCEPT !.mentions = MentionsIn(at(p))]
           stated == {c \in cs : c.type = "COMPONENT_STATUS"}
<1>1. Components(cs) = {new(p) : p \in paths}
    BY DEF Components
<1>2. \A x \in known : x \in Claim(Words) /\ \E c \in old : From(x, c) /\ x = [c EXCEPT !.path = Canonical(@)]
  <2> TAKE x \in known
  <2>1. PICK c \in old : x = [c EXCEPT !.path = Canonical(@)]
      OBVIOUS
  <2>2. c \in Claim(Words) /\ Canonical(c.path) \in Words
      BY ClaimFields DEF Claims
  <2>3. x \in Claim(Words) /\ From(x, c)
      BY <2>1, <2>2, Repathed
  <2> QED BY <2>1, <2>3
<1>3. old \in SUBSET cs /\ old \in SUBSET stated
    OBVIOUS
<1> HIDE DEF known, old, stated
<1>4. Claims(known, Words)
  <2>1. \A x \in known : \E c \in cs : x.id = c.id
      BY <1>2, <1>3 DEF From
  <2>2. \A x, y \in known : x.id = y.id => x = y
    <3> TAKE x, y \in known
    <3>1. PICK c \in old : From(x, c) /\ x = [c EXCEPT !.path = Canonical(@)]
        BY <1>2
    <3>2. PICK d \in old : From(y, d) /\ y = [d EXCEPT !.path = Canonical(@)]
        BY <1>2
    <3>3. c.id = d.id => c = d
        BY <1>3 DEF Claims
    <3>4. x.id = c.id /\ y.id = d.id
        BY <3>1, <3>2 DEF From
    <3> QED BY <3>1, <3>2, <3>3, <3>4
  <2>3. known \in SUBSET Claim(Words)
      BY <1>2
  <2> QED BY <2>1, <2>2, <2>3, MadeOfClaims
<1>5. ASSUME NEW p \in paths
      PROVE  /\ Newest(at(p)) \in known /\ Newest(at(p)).path = p
             /\ new(p) \in Claim(Words) /\ From(new(p), Newest(at(p))) /\ new(p).path = p
  <2>1. at(p) \in SUBSET known /\ at(p) # {}
      OBVIOUS
  <2> DEFINE group == at(p)
  <2> HIDE DEF group
  <2>2. Claims(group, Words)
      BY <1>4, <2>1, ClaimsPart DEF group
  <2>3. Newest(group) \in group /\ MentionsIn(group) \in Nat \ {0}
      BY <2>1, <2>2, NewestIn, SomeMention DEF group
  <2>4. Newest(group) \in known /\ Newest(group).path = p
      BY <2>3 DEF group
  <2> DEFINE x == [Newest(group) EXCEPT !.mentions = MentionsIn(group)]
             c == Newest(group)
  <2>5. c \in Claim(Words)
      BY <1>2, <2>4
  <2>6. x \in Claim(Words) /\ From(x, c) /\ x.path = c.path
    <3> HIDE DEF c
    <3>1. x = [c EXCEPT !.mentions = MentionsIn(group)]
        BY DEF c
    <3> HIDE DEF x
    <3> QED BY <2>3, <2>5, <3>1, Recounted
  <2> QED BY <2>4, <2>6 DEF group
<1> HIDE DEF at, paths, new
<1> DEFINE comps == Components(cs)
<1> HIDE DEF comps
<1>6. ASSUME NEW x \in comps
      PROVE  /\ x \in Claim(Words)
             /\ \E p \in paths : x = new(p)
             /\ \E c \in stated : From(x, c)
  <2>1. PICK p \in paths : x = new(p)
      BY <1>1 DEF comps
  <2>2. PICK c \in old : From(Newest(at(p)), c)
      BY <1>2, <1>5
  <2>3. From(x, Newest(at(p)))
      BY <1>5, <2>1
  <2>4. From(x, c)
      BY <2>2, <2>3 DEF From
  <2> QED BY <1>3, <1>5, <2>1, <2>4
<1>7. ASSUME NEW x \in comps, NEW y \in comps, x.id = y.id PROVE x = y
  <2>1. PICK p \in paths : x = new(p)
      BY <1>6
  <2>2. PICK q \in paths : y = new(q)
      BY <1>6
  <2>3. Newest(at(p)).id = Newest(at(q)).id
      BY <1>5, <1>7, <2>1, <2>2 DEF From
  <2>4. Newest(at(p)) = Newest(at(q))
      BY <1>4, <1>5, <2>3 DEF Claims
  <2>5. p = q
      BY <1>5, <2>4
  <2> QED BY <2>1, <2>2, <2>5
<1>8. stated \in SUBSET cs
    BY DEF stated
<1>9. Claims(comps, Words)
  <2>1. \A x \in comps : \E c \in cs : x.id = c.id
      BY <1>6, <1>8 DEF From
  <2>2. comps \in SUBSET Claim(Words)
      BY <1>6
  <2> QED BY <1>7, <2>1, <2>2, MadeOfClaims
<1>10. Whole(comps, stated)
    BY <1>6 DEF Whole
<1> QED BY <1>9, <1>10 DEF comps, stated

-----------------------------------------------------------------------------
\* Consolidation.

\* The golden record's own: in any group some claim outranks the others.
LEMMA HeadOutranks ==
    ASSUME NEW Words, NEW G, Claims(G, Words), G # {}
    PROVE  Head0(G) \in G /\ \A d \in G \ {Head0(G)} : Outranks(Head0(G), d)
<1> DEFINE R == {p \in G \X G : Outranks(p[1], p[2])}
<1>1. \A c \in G : c.id \in Nat /\ c.at \in Nat /\ Authority(c) \in 0..3
    BY ClaimFields DEF Claims
<1>2. \A c, d \in G : <<c, d>> \in R <=> Outranks(c, d)
    OBVIOUS
<1> HIDE DEF R
<1>3. IsOrder(G, R)
    BY <1>1, <1>2 DEF IsOrder, Outranks, Later, Claims
<1>4. PICK m \in G : \A c \in G \ {m} : <<m, c>> \in R
    BY <1>3, FirstExists DEF Claims
<1>5. \A d \in G \ {m} : Outranks(m, d)
    BY <1>2, <1>4
<1> QED BY <1>5 DEF Head0

LEMMA JoinedPart ==
    ASSUME NEW Words, NEW G, Claims(G, Words), G # {}, NEW k
    PROVE  Joined(G, k) \in SUBSET G /\ Joined(G, k) # {} /\ Claims(Joined(G, k), Words)
<1>1. Head0(G) \in G
    BY HeadOutranks
<1>2. Joined(G, k) \in SUBSET G /\ Joined(G, k) # {}
    BY <1>1 DEF Joined
<1> QED BY <1>2, ClaimsPart

LEMMA OneMention ==
    ASSUME NEW Words, NEW S, Claims(S, Words), NEW c \in S
    PROVE  MentionsIn({c}) = c.mentions
<1>1. PICK g : MentionsAdd(S, g)
    BY MentionsSum
<1>2. {} \cup {c} = {c} /\ {} \in SUBSET S /\ c \in S \ {} /\ {c} \in SUBSET S
    OBVIOUS
<1>3. g[{} \cup {c}] = [x \in S |-> x.mentions][c] + g[{}] /\ g[{}] = 0
    BY <1>1, <1>2 DEF MentionsAdd, IsSum, Additive
<1>4. c.mentions \in Nat
    BY ClaimFields DEF Claims
<1>5. g[{c}] = c.mentions
    BY <1>2, <1>3, <1>4
<1>6. MentionsIn({c}) = g[{c}]
    BY <1>1, <1>2 DEF MentionsAdd
<1> QED BY <1>5, <1>6

LEMMA GoldenMade ==
    ASSUME NEW Words, NEW G, Claims(G, Words), G # {}
    PROVE  /\ Golden(G) \in Claim(Words) /\ From(Golden(G), Head0(G))
           /\ Golden(G).mentions = MentionsIn(G)
<1> DEFINE head  == Head0(G)
           texts == {c.text : c \in G}
           older == texts \ {head.text}
           x == [head EXCEPT !.mentions = MentionsIn(G), !.merged = Cardinality(G),
                             !.lineage = Least(Cardinality(older), 2)]
<1>1. Golden(G) = IF Cardinality(G) = 1 THEN head ELSE x
    BY DEF Golden
<1>2. head \in G /\ IsFiniteSet(G) /\ head \in Claim(Words)
    BY HeadOutranks DEF Claims
<1>3. Cardinality(G) \in Nat \ {0} /\ MentionsIn(G) \in Nat \ {0}
  <2>1. Cardinality(G) \in Nat /\ Cardinality(G) # 0
      BY <1>2, FS_EmptySet, FS_CardinalityType
  <2> QED BY <2>1, SomeMention
<1>4. Least(Cardinality(older), 2) \in Nat
  <2> DEFINE f == [c \in G |-> c.text]
  <2>1. \A t \in texts : \E c \in G : t = f[c]
      OBVIOUS
  <2> HIDE DEF texts, f
  <2>2. IsFiniteSet(texts)
      BY <1>2, <2>1, FiniteImage
  <2>3. older \in SUBSET texts
      OBVIOUS
  <2> HIDE DEF older
  <2>4. Cardinality(older) \in Nat
      BY <2>2, <2>3, FS_Subset, FS_CardinalityType
  <2> QED BY <2>4 DEF Least
<1>5. x \in Claim(Words) /\ From(x, head) /\ x.mentions = MentionsIn(G)
  <2> DEFINE n == MentionsIn(G)
             m == Cardinality(G)
             k == Least(Cardinality(older), 2)
  <2>1. x = [head EXCEPT !.mentions = n, !.merged = m, !.lineage = k]
      OBVIOUS
  <2>2. n \in Nat \ {0} /\ m \in Nat \ {0} /\ k \in Nat
      BY <1>3, <1>4
  <2> HIDE DEF head, n, m, k, x
  <2>3. head \in Claim(Words)
      BY <1>2
  <2>4. x \in Claim(Words) /\ From(x, head) /\ x.mentions = n
      BY <2>1, <2>2, <2>3 DEF Claim, From
  <2> QED BY <2>4 DEF n
<1>6. CASE Cardinality(G) = 1
  <2>1. G = {head}
    <3>1. \E m : G = {m}
        BY <1>2, <1>6, FS_Singleton
    <3> QED BY <1>2, <3>1
  <2>2. MentionsIn({head}) = head.mentions
      BY <1>2, OneMention
  <2> HIDE DEF x
  <2> QED BY <1>1, <1>2, <1>6, <2>1, <2>2 DEF From
<1> HIDE DEF x, head
<1>7. CASE Cardinality(G) # 1
    BY <1>1, <1>5, <1>7 DEF head
<1> QED BY <1>6, <1>7

\* Who speaks for a claim: itself, or the golden record of those it joins.
Group(C, k) == Joined({c \in C : c.key = k}, k)
Speaker(C, c) == IF c.key # None /\ c \in Group(C, c.key) THEN Golden(Group(C, c.key)) ELSE c

LEMMA Groups ==
    ASSUME NEW Words, NEW C, Claims(C, Words), NEW c \in C
    PROVE  LET G == Group(C, c.key)
           IN  /\ G \in SUBSET {d \in C : d.key = c.key} /\ G # {} /\ Claims(G, Words)
               /\ Head0(G) \in G /\ \A d \in G \ {Head0(G)} : Outranks(Head0(G), d)
               /\ Golden(G) \in Claim(Words) /\ From(Golden(G), Head0(G)) /\ Golden(G).mentions = MentionsIn(G)
<1> DEFINE keyed == {d \in C : d.key = c.key}
           G == Joined(keyed, c.key)
<1>1. Group(C, c.key) = G
    BY DEF Group
<1>2. keyed \in SUBSET C /\ keyed # {}
    OBVIOUS
<1> HIDE DEF keyed
<1>3. G \in SUBSET keyed /\ G # {} /\ Claims(G, Words)
    BY <1>2, ClaimsPart, JoinedPart
<1> HIDE DEF G
<1>4. Head0(G) \in G /\ \A d \in G \ {Head0(G)} : Outranks(Head0(G), d)
    BY <1>3, HeadOutranks
<1>5. Golden(G) \in Claim(Words) /\ From(Golden(G), Head0(G)) /\ Golden(G).mentions = MentionsIn(G)
    BY <1>3, GoldenMade
<1> QED BY <1>1, <1>3, <1>4, <1>5 DEF keyed

\* The claim a speaker is made of.
Origin(C, c) == IF c.key # None /\ c \in Group(C, c.key) THEN Head0(Group(C, c.key)) ELSE c
LEMMA Origins ==
    ASSUME NEW Words, NEW C, Claims(C, Words), NEW c \in C
    PROVE  /\ Speaker(C, c) \in Claim(Words) /\ From(Speaker(C, c), Origin(C, c))
           /\ Origin(C, c) \in C /\ Origin(C, c).key = c.key
           /\ Origin(C, c) = c \/ Outranks(Origin(C, c), c)
           /\ c.key # None /\ c \in Group(C, c.key) => Origin(C, c) \in Group(C, c.key)
<1> DEFINE G == Group(C, c.key)
<1>1. /\ G \in SUBSET {d \in C : d.key = c.key}
      /\ Head0(G) \in G /\ \A d \in G \ {Head0(G)} : Outranks(Head0(G), d)
      /\ Golden(G) \in Claim(Words) /\ From(Golden(G), Head0(G))
    BY Groups
<1> HIDE DEF G
<1>2. Speaker(C, c) = IF c.key # None /\ c \in G THEN Golden(G) ELSE c
    BY DEF Speaker, G
<1>3. Origin(C, c) = IF c.key # None /\ c \in G THEN Head0(G) ELSE c
    BY DEF Origin, G
<1>4. c \in Claim(Words) /\ From(c, c)
    BY DEF Claims, From
<1> QED BY <1>1, <1>2, <1>3, <1>4 DEF G

LEMMA SpeakersDiffer ==
    ASSUME NEW Words, NEW C, Claims(C, Words), NEW c \in C, NEW d \in C,
           Speaker(C, c).id = Speaker(C, d).id
    PROVE  /\ Speaker(C, c) = Speaker(C, d)
           /\ c = d \/ (c.key = d.key /\ c.key # None /\ c \in Group(C, c.key) /\ d \in Group(C, c.key))
<1>1. Origin(C, c) = Origin(C, d)
    BY Origins DEF From, Claims
<1>2. c.key = d.key
    BY <1>1, Origins
<1> DEFINE G == Group(C, c.key)
<1>3. c.key # None /\ c \in G <=> d.key # None /\ d \in G
    BY <1>1, <1>2, Origins DEF Origin
<1>4. CASE c.key # None /\ c \in G
    BY <1>2, <1>3, <1>4 DEF Speaker
<1>5. CASE ~(c.key # None /\ c \in G)
    BY <1>1, <1>2, <1>3, <1>5 DEF Speaker, Origin
<1> QED BY <1>4, <1>5

Alone(C, k) == {c \in C : c.key = k} \ Group(C, k)
LEMMA SpeakersConsolidate ==
    ASSUME NEW Words, NEW C, Claims(C, Words)
    PROVE  ConsolidateByKey(C) = {Speaker(C, c) : c \in C}
<1> DEFINE keys == {c.key : c \in C} \ {None}
           D == ConsolidateByKey(C)
<1>1. D = {c \in C : c.key = None} \cup {Golden(Group(C, k)) : k \in keys} \cup UNION {Alone(C, k) : k \in keys}
    BY DEF ConsolidateByKey, Group, Alone
<1>2. \A k \in keys : \E c \in C : c.key = k /\ k # None
    OBVIOUS
<1>3. \A c \in C : c.key # None => c.key \in keys
    OBVIOUS
<1> HIDE DEF keys, D
<1>4. \A t : t \in D <=> \/ t \in C /\ t.key = None
                         \/ \E k \in keys : t \in C /\ t.key = k /\ t \notin Group(C, k)
                         \/ \E k \in keys : t = Golden(Group(C, k))
  <2> TAKE t
  <2>1. t \in {c \in C : c.key = None} <=> t \in C /\ t.key = None
      OBVIOUS
  <2>2. t \in UNION {Alone(C, k) : k \in keys} <=> \E k \in keys : t \in C /\ t.key = k /\ t \notin Group(C, k)
    <3>1. t \in UNION {Alone(C, k) : k \in keys} <=> \E k \in keys : t \in Alone(C, k)
        BY Zenon
    <3>2. \A k : t \in Alone(C, k) <=> t \in C /\ t.key = k /\ t \notin Group(C, k)
        BY DEF Alone
    <3> QED BY <3>1, <3>2, Zenon
  <2>3. t \in {Golden(Group(C, k)) : k \in keys} <=> \E k \in keys : t = Golden(Group(C, k))
      BY Zenon
  <2>4. t \in D <=> \/ t \in {c \in C : c.key = None}
                    \/ t \in UNION {Alone(C, k) : k \in keys}
                    \/ t \in {Golden(Group(C, k)) : k \in keys}
      BY <1>1, Zenon
  <2> QED BY <2>1, <2>2, <2>3, <2>4, Zenon
<1>5. ASSUME NEW t \in D PROVE \E c \in C : t = Speaker(C, c)
  <2>1. CASE t \in C /\ t.key = None
      BY <2>1 DEF Speaker
  <2>2. ASSUME NEW k \in keys, t \in C, t.key = k, t \notin Group(C, k) PROVE \E c \in C : t = Speaker(C, c)
      BY <2>2 DEF Speaker
  <2>3. ASSUME NEW k \in keys, t = Golden(Group(C, k)) PROVE \E c \in C : t = Speaker(C, c)
    <3>1. PICK c \in C : c.key = k /\ k # None
        BY <1>2
    <3> DEFINE h == Head0(Group(C, k))
    <3>2. h \in Group(C, k) /\ Group(C, k) \in SUBSET {d \in C : d.key = k}
        BY <3>1, Groups
    <3>3. h \in C /\ h.key = k
        BY <3>2
    <3> HIDE DEF h
    <3>4. Speaker(C, h) = Golden(Group(C, k))
        BY <3>1, <3>2, <3>3 DEF Speaker
    <3> QED BY <2>3, <3>3, <3>4
  <2> QED BY <1>4, <2>1, <2>2, <2>3
<1>6. ASSUME NEW c \in C PROVE Speaker(C, c) \in D
  <2> DEFINE k == c.key
  <2>0. c.key # None => k \in keys
      BY <1>3
  <2> HIDE DEF k
  <2>1. CASE c.key = None
      BY <1>4, <2>1 DEF Speaker
  <2>2. CASE c.key # None /\ c \in Group(C, c.key)
    <3>1. Speaker(C, c) = Golden(Group(C, k)) /\ k \in keys
        BY <2>0, <2>2 DEF Speaker, k
    <3> QED BY <1>4, <3>1
  <2>3. CASE c.key # None /\ c \notin Group(C, c.key)
    <3>1. Speaker(C, c) = c /\ k \in keys /\ c.key = k /\ c \notin Group(C, k)
        BY <2>0, <2>3 DEF Speaker, k
    <3> QED BY <1>4, <3>1
  <2> QED BY <2>1, <2>2, <2>3
<1> QED BY <1>5, <1>6 DEF D

\* Consolidation yields claims, with all the mentions of those they speak for.
LEMMA ConsolidatedMade ==
    ASSUME NEW Words, NEW C, Claims(C, Words)
    PROVE  /\ Claims(ConsolidateByKey(C), Words) /\ Whole(ConsolidateByKey(C), C)
           /\ \A t \in ConsolidateByKey(C) : t.mentions = MentionsIn({c \in C : Speaker(C, c) = t})
<1> DEFINE D == ConsolidateByKey(C)
<1>1. D = {Speaker(C, c) : c \in C}
    BY SpeakersConsolidate
<1> HIDE DEF D
<1>2. \A t \in D : \E c \in C : t = Speaker(C, c) /\ t \in Claim(Words) /\ From(t, Origin(C, c)) /\ Origin(C, c) \in C
    BY <1>1, Origins
<1>3. \A t, u \in D : t.id = u.id => t = u
    BY <1>2, SpeakersDiffer
<1>4. Claims(D, Words)
  <2>1. \A t \in D : \E c \in C : t.id = c.id
      BY <1>2 DEF From
  <2> QED BY <1>2, <1>3, <2>1, MadeOfClaims
<1>5. Whole(D, C)
    BY <1>2 DEF Whole
<1>6. ASSUME NEW t \in D PROVE t.mentions = MentionsIn({c \in C : Speaker(C, c) = t})
  <2>1. PICK c \in C : t = Speaker(C, c)
      BY <1>2
  <2> DEFINE fiber == {d \in C : Speaker(C, d) = t}
  <2>2. CASE c.key # None /\ c \in Group(C, c.key)
    <3>1. fiber \in SUBSET Group(C, c.key)
        BY <2>1, <2>2, SpeakersDiffer
    <3>2. Group(C, c.key) \in SUBSET {d \in C : d.key = c.key} /\ t.mentions = MentionsIn(Group(C, c.key))
        BY <2>1, <2>2, Groups DEF Speaker
    <3>3. Group(C, c.key) \in SUBSET fiber
        BY <2>1, <2>2, <3>2 DEF Speaker
    <3>4. fiber = Group(C, c.key)
        BY <3>1, <3>3
    <3> QED BY <3>2, <3>4
  <2>3. CASE ~(c.key # None /\ c \in Group(C, c.key))
    <3>1. fiber = {c}
        BY <2>1, <2>3, SpeakersDiffer
    <3>2. t = c
        BY <2>1, <2>3 DEF Speaker
    <3>3. MentionsIn({c}) = c.mentions
        BY OneMention
    <3> QED BY <3>1, <3>2, <3>3
  <2> QED BY <2>2, <2>3
<1> QED BY <1>4, <1>5, <1>6 DEF D

-----------------------------------------------------------------------------
\* The projection.

\* The claims of types of their own, and what is made of them.
ChoicesAmong(S) == {c \in S : c.type \in ChoiceTypes}
Chosen(cs) == ConsolidateByKey(ChoicesAmong(cs))
Others(cs) == {c \in cs : c.type \in {GraveyardType, "THREAD_OPEN"}}
Unweighed(cs) == Components(cs) \cup Chosen(cs) \cup Others(cs)
Weighed(c, cs, files) == [c EXCEPT !.weight = Weigh(c, cs, Components(cs), files)]

LEMMA Projected ==
    ASSUME NEW Words, \A w \in Words : Canonical(w) \in Words, NEW cs, Claims(cs, Words), NEW files
    PROVE  /\ Claims(Unweighed(cs), Words)
           /\ \A x \in Unweighed(cs) : \E c \in cs : From(x, c) /\ (x.type \in ChoiceTypes <=> x \in Chosen(cs))
           /\ BuildProjection(cs, files) = {Weighed(c, cs, files) : c \in Unweighed(cs)}
<1> DEFINE comps == Components(cs)
           choice == Chosen(cs)
           rest == Others(cs)
           U == comps \cup choice \cup rest
<1>1. Claims(comps, Words) /\ \A x \in comps : \E c \in cs : From(x, c) /\ x.type = "COMPONENT_STATUS"
  <2>1. Claims(comps, Words) /\ Whole(comps, {c \in cs : c.type = "COMPONENT_STATUS"})
      BY ComponentsMade
  <2> HIDE DEF comps
  <2> QED BY <2>1 DEF Whole, From
<1>2. Claims(choice, Words) /\ \A x \in choice : \E c \in cs : From(x, c) /\ x.type \in ChoiceTypes
  <2> DEFINE C == ChoicesAmong(cs)
  <2>1. C \in SUBSET cs /\ \A c \in C : c.type \in ChoiceTypes
      BY DEF ChoicesAmong
  <2> HIDE DEF C
  <2>2. Claims(C, Words)
      BY <2>1, ClaimsPart
  <2>3. Claims(choice, Words) /\ Whole(choice, C)
      BY <2>2, ConsolidatedMade DEF Chosen, C
  <2> HIDE DEF choice
  <2>4. \A x \in choice : \E c \in C : From(x, c)
      BY <2>3 DEF Whole
  <2>5. \A x \in choice : \E c \in C : From(x, c) /\ x.type = c.type
      BY <2>4 DEF From
  <2> QED BY <2>1, <2>3, <2>5
<1>3. Claims(rest, Words) /\ \A x \in rest : \E c \in cs : From(x, c) /\ x.type \in {GraveyardType, "THREAD_OPEN"}
  <2>1. rest \in SUBSET cs
      BY DEF Others
  <2>2. \A x \in rest : From(x, x) /\ x.type \in {GraveyardType, "THREAD_OPEN"}
      BY DEF Others, From
  <2> HIDE DEF rest
  <2> QED BY <2>1, <2>2, ClaimsPart
<1>4. BuildProjection(cs, files) = {Weighed(c, cs, files) : c \in U}
    BY DEF BuildProjection, Weighed, Chosen, ChoicesAmong, Others
<1> HIDE DEF comps, choice, rest
<1>5. "COMPONENT_STATUS" \notin ChoiceTypes \cup {GraveyardType, "THREAD_OPEN"}
      /\ GraveyardType \notin ChoiceTypes /\ "THREAD_OPEN" \notin ChoiceTypes
    BY DEF ChoiceTypes, DecisionTypes, GraveyardType
<1>6. \A x \in U : \E c \in cs : From(x, c) /\ (x.type \in ChoiceTypes <=> x \in choice)
  <2>1. \A x \in comps : x.type \notin ChoiceTypes /\ x \notin choice /\ x \notin rest
      BY <1>1, <1>2, <1>3, <1>5
  <2>2. \A x \in rest : x.type \notin ChoiceTypes /\ x \notin choice /\ x \notin comps
      BY <1>1, <1>2, <1>3, <1>5
  <2>3. ASSUME NEW x \in U PROVE \E c \in cs : From(x, c) /\ (x.type \in ChoiceTypes <=> x \in choice)
    <3>1. CASE x \in comps
        BY <1>1, <2>1, <3>1
    <3>2. CASE x \in choice
        BY <1>2, <3>2
    <3>3. CASE x \in rest
        BY <1>3, <2>2, <3>3
    <3> QED BY <3>1, <3>2, <3>3
  <2> QED BY <2>3
<1>7. \A x, y \in U : x.id = y.id => x = y
  <2>1. \A x \in comps, y \in choice \cup rest : x.id # y.id
    <3> TAKE x \in comps, y \in choice \cup rest
    <3>1. PICK c \in cs : From(x, c) /\ x.type = "COMPONENT_STATUS"
        BY <1>1
    <3>2. PICK d \in cs : From(y, d) /\ y.type # "COMPONENT_STATUS"
        BY <1>2, <1>3, <1>5
    <3> QED BY <3>1, <3>2 DEF Claims, From
  <2>2. \A x \in choice, y \in rest : x.id # y.id
    <3> TAKE x \in choice, y \in rest
    <3>1. PICK c \in cs : From(x, c) /\ x.type \in ChoiceTypes
        BY <1>2
    <3>2. PICK d \in cs : From(y, d) /\ y.type \notin ChoiceTypes
        BY <1>3, <1>5
    <3> QED BY <3>1, <3>2 DEF Claims, From
  <2> QED BY <1>1, <1>2, <1>3, <2>1, <2>2 DEF Claims
<1>8. Claims(U, Words)
  <2>1. U \in SUBSET Claim(Words)
      BY <1>1, <1>2, <1>3 DEF Claims
  <2>2. \A x \in U : \E c \in cs : x.id = c.id
      BY <1>6 DEF From
  <2> HIDE DEF U
  <2> QED BY <1>7, <2>1, <2>2, MadeOfClaims
<1> QED BY <1>4, <1>6, <1>8 DEF Unweighed, comps, choice, rest

\* What is weighed is the claim it was but for the weight, and no two become one.
ScannedFiles(files) == \A f \in files : f.central \in Nat
LEMMA WeighedClaims ==
    ASSUME NEW Words, NEW cs, IsFiniteSet(cs), NEW files, ScannedFiles(files), NEW c \in Claim(Words)
    PROVE  /\ Weighed(c, cs, files) \in Claim(Words) /\ From(Weighed(c, cs, files), c)
           /\ Weighed(c, cs, files).mentions = c.mentions
<1> DEFINE n == Weigh(c, cs, Components(cs), files)
<1>1. n \in Nat
    BY WeighNat DEF ScannedFiles
<1> HIDE DEF n
<1>2. Weighed(c, cs, files) = [c EXCEPT !.weight = n]
    BY DEF Weighed, n
<1> QED BY <1>1, <1>2, Reweighted

\* The projection's claims are claims made of those of the store.
LEMMA ProjectionMade ==
    ASSUME NEW Words, \A w \in Words : Canonical(w) \in Words, NEW cs, Claims(cs, Words),
           NEW files, ScannedFiles(files)
    PROVE  /\ Claims(BuildProjection(cs, files), Words)
           /\ Whole(BuildProjection(cs, files), cs)
           /\ \A c \in cs : c.type = "THREAD_OPEN" => \E x \in BuildProjection(cs, files) : From(x, c)
<1> DEFINE U == Unweighed(cs)
           P == BuildProjection(cs, files)
<1>1. /\ Claims(U, Words) /\ P = {Weighed(c, cs, files) : c \in U}
      /\ \A x \in U : \E c \in cs : From(x, c)
    BY Projected
<1>2. \A c \in cs : c.type = "THREAD_OPEN" => c \in U
    BY DEF Unweighed, Others
<1> HIDE DEF U, P
<1>3. IsFiniteSet(cs)
    BY DEF Claims
<1>4. \A c \in U : Weighed(c, cs, files) \in Claim(Words) /\ From(Weighed(c, cs, files), c)
    BY <1>1, <1>3, WeighedClaims DEF Claims
<1>5. \A x \in P : \E c \in U : x = Weighed(c, cs, files) /\ x \in Claim(Words) /\ From(x, c)
    BY <1>1, <1>4
<1>6. Claims(P, Words)
  <2>1. \A x \in P : \E c \in U : x.id = c.id
      BY <1>5 DEF From
  <2>2. \A x, y \in P : x.id = y.id => x = y
      BY <1>1, <1>5 DEF From, Claims
  <2>3. P \in SUBSET Claim(Words)
      BY <1>5
  <2> QED BY <1>1, <2>1, <2>2, <2>3, MadeOfClaims
<1>7. \A x \in P : \E c \in cs : From(x, c)
  <2> TAKE x \in P
  <2>1. PICK u \in U : From(x, u)
      BY <1>5
  <2>2. PICK c \in cs : From(u, c)
      BY <1>1
  <2> QED BY <2>1, <2>2 DEF From
<1>8. ASSUME NEW c \in cs, c.type = "THREAD_OPEN" PROVE \E x \in P : From(x, c)
    BY <1>1, <1>2, <1>4, <1>8
<1> QED BY <1>6, <1>7, <1>8 DEF Whole, P

\* What the projection shows of the choices: the speakers of the claims, weighed.
LEMMA ChoicesShown ==
    ASSUME NEW Words, \A w \in Words : Canonical(w) \in Words, NEW cs, Claims(cs, Words),
           NEW files, ScannedFiles(files)
    PROVE  /\ Claims(ChoicesAmong(cs), Words) /\ Claims(ChoicesAmong(BuildProjection(cs, files)), Words)
           /\ \A x \in ChoicesAmong(BuildProjection(cs, files)) : \E c \in ChoicesAmong(cs) :
                  x = Weighed(Speaker(ChoicesAmong(cs), c), cs, files)
           /\ \A c \in ChoicesAmong(cs) :
                  /\ Weighed(Speaker(ChoicesAmong(cs), c), cs, files) \in ChoicesAmong(BuildProjection(cs, files))
                  /\ From(Weighed(Speaker(ChoicesAmong(cs), c), cs, files), Origin(ChoicesAmong(cs), c))
                  /\ Weighed(Speaker(ChoicesAmong(cs), c), cs, files).mentions = Speaker(ChoicesAmong(cs), c).mentions
                  /\ Weighed(Speaker(ChoicesAmong(cs), c), cs, files).id = Speaker(ChoicesAmong(cs), c).id
<1> DEFINE U == Unweighed(cs)
           P == BuildProjection(cs, files)
           C == ChoicesAmong(cs)
           W(c) == Weighed(c, cs, files)
<1>1. /\ Claims(U, Words) /\ P = {W(c) : c \in U}
      /\ \A x \in U : \E c \in cs : x.type \in ChoiceTypes <=> x \in Chosen(cs)
    BY Projected
<1>2. Claims(P, Words)
    BY ProjectionMade
<1>3. C \in SUBSET cs /\ ChoicesAmong(P) \in SUBSET P /\ \A c \in C : c.type \in ChoiceTypes
    BY DEF ChoicesAmong
<1>4. Chosen(cs) = {Speaker(C, c) : c \in C} /\ Chosen(cs) \in SUBSET U
  <2>1. Claims(C, Words)
      BY <1>3, ClaimsPart
  <2>2. ConsolidateByKey(C) = {Speaker(C, c) : c \in C}
      BY <2>1, SpeakersConsolidate
  <2> QED BY <2>2 DEF Chosen, Unweighed
<1> HIDE DEF U, P, C
<1>5. Claims(C, Words) /\ Claims(ChoicesAmong(P), Words)
    BY <1>2, <1>3, ClaimsPart
<1>6. \A c \in U : W(c) \in Claim(Words) /\ From(W(c), c) /\ W(c).mentions = c.mentions
  <2>1. IsFiniteSet(cs) /\ \A c \in U : c \in Claim(Words)
      BY <1>1 DEF Claims
  <2> QED BY <2>1, WeighedClaims
<1> HIDE DEF W
<1>7. ASSUME NEW x \in ChoicesAmong(P) PROVE \E c \in C : x = W(Speaker(C, c))
  <2>1. x \in P /\ x.type \in ChoiceTypes
      BY DEF ChoicesAmong
  <2>2. PICK u \in U : x = W(u)
      BY <1>1, <2>1
  <2>3. u.type \in ChoiceTypes
      BY <1>6, <2>1, <2>2 DEF From
  <2>4. u \in Chosen(cs)
      BY <1>1, <2>3
  <2>5. PICK c \in C : u = Speaker(C, c)
      BY <1>4, <2>4
  <2> QED BY <2>2, <2>5
<1>8. ASSUME NEW c \in C
      PROVE  /\ W(Speaker(C, c)) \in ChoicesAmong(P) /\ From(W(Speaker(C, c)), Origin(C, c))
             /\ W(Speaker(C, c)).mentions = Speaker(C, c).mentions
             /\ W(Speaker(C, c)).id = Speaker(C, c).id
  <2> DEFINE s == Speaker(C, c)
  <2>1. From(s, Origin(C, c)) /\ Origin(C, c) \in C
      BY <1>5, Origins
  <2>2. s \in U
      BY <1>4
  <2> HIDE DEF s
  <2>3. From(W(s), s) /\ W(s).mentions = s.mentions /\ W(s) \in P
      BY <1>1, <1>6, <2>2
  <2>4. From(W(s), Origin(C, c)) /\ W(s).id = s.id
      BY <2>1, <2>3 DEF From
  <2>5. W(s) \in ChoicesAmong(P)
      BY <1>3, <2>1, <2>3, <2>4 DEF ChoicesAmong, From
  <2> QED BY <2>3, <2>4, <2>5 DEF s
<1> QED BY <1>5, <1>7, <1>8 DEF C, P, W

\* One claim speaks for a topic, the latest of the most trusted, with all its mentions.
Speaks(choice, shown) ==
    LET topic(S) == {c \in S : c.key \notin OneToken \cup {None}}
    IN  /\ \A c, d \in topic(shown) : c.key = d.key => c = d
        /\ \A c \in topic(shown), d \in topic(choice) : c.key = d.key =>
               Authority(d) <= Authority(c) /\ (Authority(d) = Authority(c) => d.at <= c.at)
        /\ MentionsIn(shown) = MentionsIn(choice)

LEMMA OneSpeaks ==
    ASSUME NEW Words, \A w \in Words : Canonical(w) \in Words, NEW cs, Claims(cs, Words),
           NEW files, ScannedFiles(files)
    PROVE  Speaks(ChoicesAmong(cs), ChoicesAmong(BuildProjection(cs, files)))
<1> DEFINE C == ChoicesAmong(cs)
           T == ChoicesAmong(BuildProjection(cs, files))
           W(c) == Weighed(Speaker(C, c), cs, files)
<1>1. Claims(C, Words) /\ Claims(T, Words) /\ \A x \in T : \E c \in C : x = W(c)
    BY ChoicesShown
<1>2. \A c \in C : /\ W(c) \in T /\ From(W(c), Origin(C, c)) /\ W(c).mentions = Speaker(C, c).mentions
                   /\ W(c).id = Speaker(C, c).id
    BY ChoicesShown
<1>3. \A c, d \in C : Speaker(C, c) = Speaker(C, d) => W(c) = W(d)
    OBVIOUS
<1> HIDE DEF C, T, W
<1> DEFINE Topic(k) == k \notin OneToken \cup {None}
<1>4. ASSUME NEW c \in C, Topic(c.key)
      PROVE  /\ Group(C, c.key) = {d \in C : d.key = c.key}
             /\ Speaker(C, c) = Golden(Group(C, c.key)) /\ Origin(C, c) = Head0(Group(C, c.key))
    BY <1>4 DEF Group, Joined, Speaker, Origin
<1>5. ASSUME NEW c \in T, NEW d \in T, Topic(c.key), c.key = d.key PROVE c = d
  <2>1. PICK a \in C : c = W(a)
      BY <1>1
  <2>2. PICK b \in C : d = W(b)
      BY <1>1
  <2>3. a.key = c.key /\ b.key = d.key
      BY <1>1, <1>2, <2>1, <2>2, Origins DEF From
  <2>4. Speaker(C, a) = Speaker(C, b)
      BY <1>4, <1>5, <2>3
  <2> QED BY <1>3, <2>1, <2>2, <2>4
<1>6. ASSUME NEW c \in T, NEW d \in C, Topic(c.key), c.key = d.key
      PROVE  Authority(d) <= Authority(c) /\ (Authority(d) = Authority(c) => d.at <= c.at)
  <2>1. PICK a \in C : c = W(a)
      BY <1>1
  <2>2. a.key = c.key
      BY <1>1, <1>2, <2>1, Origins DEF From
  <2> DEFINE o == Origin(C, a)
  <2>3. o = Origin(C, d)
      BY <1>4, <1>6, <2>2
  <2>4. o = d \/ Outranks(o, d)
      BY <1>1, <2>3, Origins
  <2>5. o \in C
      BY <1>1, Origins
  <2>6. c.who = o.who /\ c.at = o.at
      BY <1>2, <2>1 DEF From
  <2> HIDE DEF o
  <2>7. Authority(c) = Authority(o)
      BY <2>6 DEF Authority
  <2>8. Authority(o) \in 0..3 /\ Authority(d) \in 0..3 /\ o.at \in Nat /\ d.at \in Nat
      BY <1>1, <2>5, ClaimFields DEF Claims
  <2> QED BY <2>4, <2>6, <2>7, <2>8 DEF Outranks, Later
<1>7. MentionsIn(T) = MentionsIn(C)
  <2> DEFINE f == [c \in C |-> c.mentions]
             e == [c \in T |-> c.mentions]
             group == [c \in C |-> W(c)]
  <2>1. PICK g : MentionsAdd(C, g)
      BY <1>1, MentionsSum
  <2>2. PICK k : MentionsAdd(T, k)
      BY <1>1, MentionsSum
  <2>3. IsSum(C, f, g) /\ IsSum(T, e, k) /\ MentionsIn(T) = k[T] /\ MentionsIn(C) = g[C]
        /\ \A V \in SUBSET C : MentionsIn(V) = g[V]
      BY <2>1, <2>2 DEF MentionsAdd
  <2>4. IsFiniteSet(C) /\ IsFiniteSet(T) /\ (\A c \in C : f[c] \in Nat) /\ \A c \in C : group[c] \in T
      BY <1>1, <1>2, ClaimFields DEF Claims
  <2>5. ASSUME NEW t \in T PROVE e[t] = g[{c \in C : group[c] = t}]
    <3>1. PICK a \in C : t = W(a)
        BY <1>1
    <3> DEFINE s == Speaker(C, a)
               fiber == {c \in C : Speaker(C, c) = s}
    <3>2. \A c \in C : group[c] = t <=> Speaker(C, c) = s
      <4> TAKE c \in C
      <4>1. group[c] = W(c)
          OBVIOUS
      <4>2. W(c) = W(a) => Speaker(C, c) = s
          BY <1>1, <1>2, SpeakersDiffer
      <4> QED BY <1>3, <3>1, <4>1, <4>2
    <3>3. {c \in C : group[c] = t} = fiber
        BY <3>2
    <3>4. s.mentions = MentionsIn(fiber)
      <4>1. s \in ConsolidateByKey(C)
          BY <1>1, SpeakersConsolidate
      <4> HIDE DEF s
      <4> QED BY <1>1, <4>1, ConsolidatedMade
    <3>5. t.mentions = s.mentions
        BY <1>2, <3>1
    <3>6. MentionsIn(fiber) = g[fiber]
        BY <2>3
    <3> HIDE DEF fiber, s, group
    <3> QED BY <3>3, <3>4, <3>5, <3>6
  <2> HIDE DEF f, e, group
  <2>6. Grouping(C, T, g, e, group)
      BY <2>4, <2>5 DEF Grouping
  <2>7. k[T] = g[C]
      BY <2>3, <2>4, <2>6, SumByGroups
  <2> QED BY <2>3, <2>7
<1> QED BY <1>5, <1>6, <1>7 DEF Speaks, C, T

-----------------------------------------------------------------------------
\* A project: its claims, its files, each of its path and its place, and its budgets.

Files(F, Words) ==
    /\ F \in SUBSET File(Words) /\ IsFiniteSet(F)
    /\ \A f, g \in F : f.path = g.path \/ f.place = g.place => f = g
IsProject(p, Words) ==
    /\ Claims(p.claims, Words) /\ Files(p.files, Words)
    /\ p.budget \in Nat /\ p.skeletonBudget \in Nat

\* The projection of a project, and the claims made of its own.
IsProjection(P, p, Words) ==
    /\ P = BuildProjection(p.claims, p.files)
    /\ Claims(P, Words) /\ Whole(P, p.claims)
    /\ \A c \in p.claims : c.type = "THREAD_OPEN" => \E x \in P : From(x, c)
    /\ Speaks(ChoicesAmong(p.claims), ChoicesAmong(P))

LEMMA ProjectionIs ==
    ASSUME NEW Words, \A w \in Words : Canonical(w) \in Words, NEW p, IsProject(p, Words)
    PROVE  IsProjection(BuildProjection(p.claims, p.files), p, Words)
<1> DEFINE cs == p.claims
           files == p.files
<1>1. Claims(cs, Words)
    BY DEF IsProject
<1>2. ScannedFiles(files)
    BY DEF IsProject, Files, File, ScannedFiles
<1> HIDE DEF cs, files
<1> DEFINE P == BuildProjection(cs, files)
<1>3. /\ Claims(P, Words) /\ Whole(P, cs)
      /\ \A c \in cs : c.type = "THREAD_OPEN" => \E x \in P : From(x, c)
    BY <1>1, <1>2, ProjectionMade
<1>4. Speaks(ChoicesAmong(cs), ChoicesAmong(P))
    BY <1>1, <1>2, OneSpeaks
<1> HIDE DEF P
<1>5. P = BuildProjection(cs, files)
    BY DEF P
<1> QED BY <1>3, <1>4, <1>5 DEF IsProjection, cs, files

\* The active thread: one open thread, and the room its section takes.
LEMMA ActiveIsFirst ==
    ASSUME NEW Words, NEW P, Claims(P, Words)
    PROVE  /\ ActiveThread(P) \in SUBSET {c \in P : c.type = "THREAD_OPEN" /\ c.who # Answer}
           /\ First(ActiveThread(P)) = ActiveThread(P)
           /\ (\E c \in P : c.type = "THREAD_OPEN" /\ c.who # Answer) => ActiveThread(P) # {}
           /\ \A c \in ActiveThread(P) : \A d \in P :
                  d.type = "THREAD_OPEN" /\ d.who # Answer => c = d \/ ThreadPrecedes(c, d)
<1> DEFINE S == OfTypes(P, {"THREAD_OPEN"})
<1>1. S = {c \in P : c.type = "THREAD_OPEN" /\ c.who # Answer} /\ S \in SUBSET P
    BY DEF OfTypes
<1>2. ActiveThread(P) = First(S)
    BY DEF ActiveThread
<1> HIDE DEF S
<1>3. Claims(S, Words)
    BY <1>1, ClaimsPart
<1>4. /\ First(S) \in SUBSET S /\ (S # {} => First(S) # {})
      /\ \A c \in First(S) : \A d \in S \ {c} : ThreadPrecedes(c, d)
      /\ First(First(S)) = First(S)
    BY <1>3, FirstThread
<1> QED BY <1>1, <1>2, <1>4

LEMMA SectionOfThread ==
    ASSUME NEW Words, NEW T \in SUBSET Claim(Words), NEW carried
    PROVE  /\ ThreadSection(T, carried) \in Nat
           /\ T # {} => TheSize(T) \in Nat
<1>1. T # {} => TheSize(T) \in Nat
  <2>1. T # {} => (CHOOSE c \in T : TRUE) \in T
      OBVIOUS
  <2>2. \A c \in T : c.size \in Nat
      BY ClaimFields
  <2> QED BY <2>1, <2>2 DEF TheSize
<1> QED BY <1>1 DEF ThreadSection
-----------------------------------------------------------------------------
\* The states of a session start.

SelectedFrom(S, P, budget, reserve) ==
    /\ S.thread = ActiveThread(P)
    /\ FillOf(Contenders(P), budget, reserve, S)

Everything(S) == S.kept \cup S.comps \cup S.rest \cup S.thread

LEMMA FillSelects ==
    ASSUME NEW Words, NEW p, IsProject(p, Words), live = p, Claims(projection, Words), Fill
    PROVE  SelectedFrom(selected', projection, live.budget, Reserve)
<1> DEFINE E == Contenders(projection)
           F == GreedyFill(E, live.budget, Reserve)
<1>1. /\ selected'.kept = F.kept /\ selected'.comps = F.comps /\ selected'.rest = F.rest
      /\ selected'.thread = ActiveThread(projection)
    BY DEF Fill
<1>2. Claims(E, Words)
    BY ClaimsPart DEF Contenders
<1>3. Reserve \in Nat /\ live.budget \in Nat
  <2>1. ActiveThread(projection) \in SUBSET Claim(Words)
      BY ActiveIsFirst DEF Claims
  <2> QED BY <2>1, SectionOfThread DEF Reserve, IsProject
<1> HIDE DEF E
<1>4. FillOf(E, live.budget, Reserve, F)
    BY <1>2, <1>3, FillShape
<1> HIDE DEF F
<1>5. FillOf(E, live.budget, Reserve, selected')
    BY <1>1, <1>4, Zenon DEF FillOf
<1> QED BY <1>1, <1>5 DEF SelectedFrom, E

\* A skeleton keeps its budget, and its files their detail, while it has two of them.
Thin(E, p) ==
    LET detail(path) == Least(5, (CHOOSE f \in p.files : f.path = path).methods)
    IN  /\ Cardinality(E) > 1 => TokensOf(E) <= p.skeletonBudget
        /\ \A e \in E : e.methods < detail(e.path) => Cardinality(E) = 1

\* What render_state makes of what was selected.
GoodBlock(b, p, S) ==
    /\ Survivors(b) \subseteq Everything(S) /\ b.tokens \in Nat
    /\ b.threads = S.thread /\ b.pending = Pending(Everything(S))
    /\ \A c, d \in b.hard \cup b.grave \cup b.decs : c.text = d.text /\ c.text[1] # None => c = d
    /\ b.tokens > p.budget => /\ b.decs = {} /\ b.skeleton = {}
                              /\ \A c \in b.comps : c.status # "stable"
    /\ Thin(b.skeleton, p)

SessionInv(Words) ==
    /\ IsProject(live, Words)
    /\ rendered \in {"nothing", "projected", "filled", "rendered"}
    /\ IF rendered = "nothing" THEN projection = {} ELSE IsProjection(projection, live, Words)
    /\ IF Filled THEN SelectedFrom(selected, projection, live.budget, Reserve) ELSE selected = NothingSelected
    /\ IF rendered = "rendered" THEN GoodBlock(block, live, selected) ELSE block = NoBlock

\* What is selected is of the projection, and its threads are the active one.
LEMMA SelectedOf ==
    ASSUME NEW Words, SessionInv(Words), Filled
    PROVE  /\ Selected = Everything(selected) /\ FillOnly = Taken
           /\ Selected \in SUBSET projection /\ Claims(projection, Words) /\ Claims(Selected, Words)
           /\ selected.thread = ActiveThread(projection)
           /\ selected.thread \in SUBSET {c \in projection : c.type = "THREAD_OPEN" /\ c.who # Answer}
           /\ OfTypes(Selected, {"THREAD_OPEN"}) = selected.thread
           /\ FillOf(Contenders(projection), live.budget, ThreadCost, selected)
           /\ Taken \in SUBSET Contenders(projection)
<1>1. IsProjection(projection, live, Words) /\ SelectedFrom(selected, projection, live.budget, Reserve)
    BY DEF SessionInv, Filled
<1>2. Claims(projection, Words)
    BY <1>1 DEF IsProjection
<1>3. /\ selected.thread = ActiveThread(projection)
      /\ FillOf(Contenders(projection), live.budget, ThreadCost, selected)
    BY <1>1 DEF SelectedFrom, Reserve, ThreadCost
<1>4. selected.thread \in SUBSET {c \in projection : c.type = "THREAD_OPEN" /\ c.who # Answer}
    BY <1>2, <1>3, ActiveIsFirst
<1>5. Taken \in SUBSET Contenders(projection)
  <2> DEFINE E == Contenders(projection)
  <2> HIDE DEF E
  <2>1. /\ selected.kept \in SUBSET {c \in E : Mandatory(c)}
        /\ selected.comps \in SUBSET {c \in E : ~Mandatory(c) /\ c.type = "COMPONENT_STATUS"}
        /\ selected.rest \in SUBSET {c \in E : ~Mandatory(c) /\ c \notin selected.comps}
      BY <1>3, Zenon DEF FillOf, E
  <2>2. Taken \in SUBSET E
      BY <2>1 DEF Taken
  <2> QED BY <2>2 DEF E
<1>6. \A c \in Taken : c.type # "THREAD_OPEN" /\ c \in projection
    BY <1>5 DEF Contenders
<1>7. Selected \in SUBSET projection /\ FillOnly = Taken /\ OfTypes(Selected, {"THREAD_OPEN"}) = selected.thread
    BY <1>4, <1>6 DEF Selected, FillOnly, OfTypes
<1>8. Claims(Selected, Words)
    BY <1>2, <1>7, ClaimsPart
<1> QED BY <1>2, <1>3, <1>4, <1>5, <1>7, <1>8 DEF Selected, Taken, Everything

\* The fill is fair and wastes no room.
LEMMA FillIsFair ==
    ASSUME NEW Words, SessionInv(Words)
    PROVE  UserOutlivesAssistant /\ NothingFittingLeftOut /\ FillLeavesRoomForThread
<1> SUFFICES ASSUME Filled PROVE UserOutlivesAssistant /\ NothingFittingLeftOut /\ FillLeavesRoomForThread
    BY DEF UserOutlivesAssistant, NothingFittingLeftOut, FillLeavesRoomForThread
<1> DEFINE E == Contenders(projection)
           all == selected.kept \cup selected.comps \cup selected.rest
<1>1. /\ FillOnly = all /\ Taken \in SUBSET E /\ Selected = Everything(selected)
      /\ selected.thread \in SUBSET {c \in projection : c.type = "THREAD_OPEN" /\ c.who # Answer}
      /\ FillOf(E, live.budget, ThreadCost, selected)
    BY SelectedOf DEF Taken
<1>2. \A c \in E : c \in Selected <=> c \in all
    BY <1>1 DEF Everything, Contenders
<1> HIDE DEF E
<1>3. /\ selected.kept \in SUBSET {c \in E : Mandatory(c)}
      /\ selected.comps \in SUBSET {c \in E : ~Mandatory(c) /\ c.type = "COMPONENT_STATUS"}
    BY <1>1, Zenon DEF FillOf
<1>4. \A c \in E \ all : Mandatory(c) \/ Tokens(all) + ThreadCost + Estimate(c) > live.budget
    BY <1>1, Zenon DEF FillOf
<1>5. selected.rest # {} => Tokens(all) + ThreadCost <= live.budget
    BY <1>1, Zenon DEF FillOf
<1>6. \A c, d \in E : Mandatory(c) /\ c.who = "user_stated" /\ c \notin all
                      /\ Mandatory(d) /\ d.who # "user_stated" /\ d \in all => Estimate(d) < Estimate(c)
    BY <1>1, Zenon DEF FillOf
<1>7. UserOutlivesAssistant
  <2> HIDE DEF all
  <2> QED BY <1>2, <1>6 DEF UserOutlivesAssistant, E
<1>8. NothingFittingLeftOut
  <2> SUFFICES ASSUME NEW c \in E \ Selected
               PROVE  Mandatory(c) \/ Tokens(FillOnly) + ThreadCost + Estimate(c) > live.budget
      BY DEF NothingFittingLeftOut, E
  <2>1. c \in E \ all
      BY <1>2
  <2> HIDE DEF all
  <2> QED BY <1>1, <1>4, <2>1
<1>9. FillLeavesRoomForThread
  <2>1. (\E c \in FillOnly : ~Mandatory(c) /\ c.type # "COMPONENT_STATUS") => selected.rest # {}
      BY <1>1, <1>3
  <2> HIDE DEF all
  <2> QED BY <1>1, <1>5, <2>1 DEF FillLeavesRoomForThread
<1> QED BY <1>7, <1>8, <1>9

\* Whatever is rendered is of what was selected; the active thread leads.
LEMMA UserLeads ==
    ASSUME NEW Words, SessionInv(Words)
    PROVE  UserThreadLeads
<1> SUFFICES ASSUME rendered = "rendered"
             PROVE  LET open == {c \in live.claims : c.type = "THREAD_OPEN" /\ c.who # Answer}
                    IN  /\ open # {} => First(block.threads) # {}
                        /\ (\E c \in open : c.who = "user_stated")
                           => \A c \in First(block.threads) : c.who = "user_stated"
    BY DEF UserThreadLeads
<1> DEFINE open == {c \in live.claims : c.type = "THREAD_OPEN" /\ c.who # Answer}
           T == ActiveThread(projection)
<1>1. Filled /\ IsProjection(projection, live, Words) /\ GoodBlock(block, live, selected)
    BY DEF SessionInv, Filled
<1>2. selected.thread = T /\ block.threads = selected.thread
    BY <1>1, SelectedOf DEF GoodBlock
<1>3. /\ First(T) = T
      /\ (\E c \in projection : c.type = "THREAD_OPEN" /\ c.who # Answer) => T # {}
      /\ \A c \in T : \A d \in projection : d.type = "THREAD_OPEN" /\ d.who # Answer => c = d \/ ThreadPrecedes(c, d)
      /\ T \in SUBSET projection
    BY <1>1, ActiveIsFirst DEF IsProjection
<1> HIDE DEF T
<1>4. \A c \in open : \E x \in projection : x.type = "THREAD_OPEN" /\ x.who = c.who
    BY <1>1 DEF IsProjection, From
<1>5. open # {} => First(block.threads) # {}
    BY <1>2, <1>3, <1>4
<1>6. ASSUME NEW c \in open, c.who = "user_stated", NEW t \in T PROVE t.who = "user_stated"
  <2>1. PICK x \in projection : x.type = "THREAD_OPEN" /\ x.who = "user_stated"
      BY <1>4, <1>6
  <2>2. t = x \/ ThreadPrecedes(t, x)
      BY <1>3, <2>1 DEF Answer
  <2>3. ThreadPriority(x) = 0 /\ ThreadPriority(t) \in 0..5
      BY <2>1 DEF ThreadPriority, Answer
  <2>4. t = x \/ ThreadPriority(t) = 0
      BY <2>2, <2>3 DEF ThreadPrecedes
  <2> QED BY <2>1, <2>4 DEF ThreadPriority, Answer
<1> QED BY <1>2, <1>3, <1>5, <1>6

LEMMA VoiceRight ==
    ASSUME NEW Words, SessionInv(Words)
    PROVE  TheRightVoice
<1>1. LatestSpeaks
  <2> SUFFICES ASSUME rendered # "nothing" PROVE Speaks(ChoicesAmong(live.claims), ChoicesAmong(projection))
      BY DEF LatestSpeaks, Speaks, ChoicesAmong
  <2> QED BY DEF SessionInv, IsProjection
<1>2. NoPendingOnceConfirmed
  <2>1. CASE rendered = "rendered"
    <3>1. /\ Survivors(block) \subseteq Everything(selected)
          /\ block.pending = Pending(Everything(selected))
        BY <2>1 DEF SessionInv, GoodBlock
    <3> QED BY <3>1 DEF NoPendingOnceConfirmed, Pending, Confirmed
  <2>2. CASE rendered # "rendered"
    <3>1. block.pending = {}
        BY <2>2 DEF SessionInv, NoBlock
    <3> QED BY <3>1 DEF NoPendingOnceConfirmed
  <2> QED BY <2>1, <2>2
<1> QED BY <1>1, <1>2, FillIsFair, UserLeads DEF TheRightVoice

LEMMA BudgetKept ==
    ASSUME NEW Words, SessionInv(Words)
    PROVE  WithinBudget
<1>1. BlockFits
    BY DEF SessionInv, GoodBlock, BlockFits
<1>2. SkeletonDropsBeforeItDegrades
  <2>1. CASE rendered = "rendered"
    <3>1. Thin(block.skeleton, live)
        BY <2>1 DEF SessionInv, GoodBlock
    <3> QED BY <3>1 DEF Thin, SkeletonDropsBeforeItDegrades
  <2>2. CASE rendered # "rendered"
    <3>1. block.skeleton = {} /\ Cardinality({}) = 0
        BY <2>2, FS_EmptySet DEF SessionInv, NoBlock
    <3> QED BY <3>1 DEF SkeletonDropsBeforeItDegrades
  <2> QED BY <2>1, <2>2
<1> QED BY <1>1, <1>2, FillIsFair DEF WithinBudget

LEMMA OnceShown ==
    ASSUME NEW Words, SessionInv(Words)
    PROVE  ShownOnce
<1>1. CASE Filled
  <2>1. /\ Selected = Everything(selected) /\ Selected \in SUBSET projection /\ Claims(projection, Words)
        /\ selected.thread = ActiveThread(projection)
      BY <1>1, SelectedOf
  <2>2. \A c \in projection : c.weight \in Nat /\ c.merged \in Nat \ {0}
      BY <2>1, ClaimFields DEF Claims
  <2>3. First(selected.thread) = selected.thread
      BY <2>1, ActiveIsFirst
  <2>4. CASE rendered = "rendered"
    <3>1. GoodBlock(block, live, selected)
        BY <2>4 DEF SessionInv
    <3>2. /\ Survivors(block) \subseteq Selected /\ block.tokens \in Nat /\ block.threads = selected.thread
          /\ OneLinePerText
        BY <2>1, <3>1 DEF GoodBlock, OneLinePerText
    <3> QED BY <2>1, <2>2, <2>3, <2>4, <3>2 DEF ShownOnce, BlockTypeOK, LedgerIsShown, Survivors
  <2>5. CASE rendered = "filled"
    <3>1. block = NoBlock /\ rendered \in {"nothing", "projected", "filled", "rendered"}
        BY <2>5 DEF SessionInv
    <3>2. Survivors(block) = {} /\ block.tokens = 0 /\ block.threads = {} /\ OneLinePerText /\ LedgerIsShown
        BY <3>1 DEF NoBlock, Survivors, OneLinePerText, LedgerIsShown, First
    <3> QED BY <2>1, <2>2, <3>1, <3>2 DEF ShownOnce, BlockTypeOK
  <2> QED BY <1>1, <2>4, <2>5 DEF Filled
<1>2. CASE ~Filled
  <2>1. block = NoBlock /\ selected = NothingSelected /\ rendered \in {"nothing", "projected", "filled", "rendered"}
      BY <1>2 DEF SessionInv, Filled
  <2>2. Survivors(block) = {} /\ block.tokens = 0 /\ OneLinePerText /\ LedgerIsShown
      BY <2>1 DEF NoBlock, Survivors, OneLinePerText, LedgerIsShown, First
  <2>3. Selected = {}
      BY <2>1 DEF Selected, Taken, NothingSelected
  <2>4. \A c \in projection : c.weight \in Nat /\ c.merged \in Nat \ {0}
    <3>1. projection = {} \/ Claims(projection, Words)
        BY DEF SessionInv, IsProjection
    <3> QED BY <3>1, ClaimFields DEF Claims
  <2> QED BY <2>1, <2>2, <2>3, <2>4 DEF ShownOnce, BlockTypeOK
<1> QED BY <1>1, <1>2

-----------------------------------------------------------------------------
\* The skeleton.

Entry(Words) ==
    [path : Words, place : Nat, central : Nat, support : BOOLEAN, classes : Nat, methods : Nat,
     exported : Nat, hidden : Nat, classes_omitted : Nat, functions_omitted : Nat]

LEMMA EntryBuilt ==
    ASSUME NEW Words, NEW f \in File(Words)
    PROVE  /\ BuildEntry(f, DefaultCaps) \in Entry(Words)
           /\ BuildEntry(f, DefaultCaps).path = f.path /\ BuildEntry(f, DefaultCaps).place = f.place
           /\ BuildEntry(f, DefaultCaps).methods = Least(5, f.methods)
<1> DEFINE routes  == Least(f.routes, 10)
           public  == Least(f.public, 10 - routes)
           private == Least(f.private, 10 - routes - public)
           e == BuildEntry(f, DefaultCaps)
<1>1. /\ f.path \in Words /\ f.place \in Nat /\ f.central \in Nat /\ f.support \in BOOLEAN
      /\ f.classes \in Nat /\ f.methods \in Nat /\ f.routes \in Nat /\ f.public \in Nat /\ f.private \in Nat
    BY DEF File
<1>2. routes \in 0..10 /\ f.routes - routes \in Nat
    BY <1>1 DEF Least
<1>3. public \in 0..10 - routes /\ f.public - public \in Nat
    BY <1>1, <1>2 DEF Least
<1>4. private \in Nat
    BY <1>1, <1>2, <1>3 DEF Least
<1>5. /\ Least(f.classes, 5) \in Nat /\ f.classes - Least(f.classes, 5) \in Nat
      /\ Least(f.methods, 5) \in Nat /\ Least(f.methods, 5) = Least(5, f.methods)
    BY <1>1 DEF Least
<1>6. e = [path |-> f.path, place |-> f.place, central |-> f.central, support |-> f.support,
           classes |-> Least(f.classes, 5), methods |-> Least(f.methods, 5),
           exported |-> routes + public, hidden |-> private,
           classes_omitted |-> f.classes - Least(f.classes, 5),
           functions_omitted |-> (f.routes - routes) + (f.public - public)]
    BY DEF BuildEntry, DefaultCaps
<1> HIDE DEF routes, public, private, e
<1>7. routes + public \in Nat /\ (f.routes - routes) + (f.public - public) \in Nat
    BY <1>2, <1>3
<1>8. e \in Entry(Words)
    BY <1>1, <1>4, <1>5, <1>6, <1>7 DEF Entry
<1>9. e.path = f.path /\ e.place = f.place /\ e.methods = Least(5, f.methods)
    BY <1>5, <1>6
<1> QED BY <1>8, <1>9 DEF e

LEMMA EntrySize ==
    ASSUME NEW Words, NEW e \in Entry(Words)
    PROVE  /\ RenderEntry(e) \in Nat
           /\ e.place \in Nat /\ e.path \in Words /\ e.central \in Nat /\ e.support \in BOOLEAN
           /\ e.classes \in Nat /\ e.methods \in Nat /\ e.exported \in Nat /\ e.hidden \in Nat
<1>1. e.classes \in Nat /\ e.methods \in Nat /\ e.exported \in Nat /\ e.hidden \in Nat
    BY DEF Entry
<1> DEFINE hint == IF ImportHint(e).listed > 0 THEN 10 ELSE 0
           body == e.classes * (6 + 8 * e.methods)
<1>2. hint \in Nat
    OBVIOUS
<1>3. body \in Nat
    BY <1>1
<1>4. RenderEntry(e) = 12 + hint + body + 8 * (e.exported + e.hidden)
    BY DEF RenderEntry
<1> HIDE DEF hint, body
<1>5. RenderEntry(e) \in Nat
    BY <1>1, <1>2, <1>3, <1>4
<1> QED BY <1>5 DEF Entry

\* The tokens of entries grow with them.
LEMMA EntriesGrow ==
    ASSUME NEW Words, NEW E \in SUBSET Entry(Words), IsFiniteSet(E)
    PROVE  \A T \in SUBSET E : TokensOf(T) \in Nat /\ \A U \in SUBSET T : TokensOf(U) <= TokensOf(T)
<1> DEFINE f == [e \in E |-> RenderEntry(e)]
<1>1. \A e \in E : f[e] = RenderEntry(e) /\ f[e] \in Nat
    BY EntrySize
<1> HIDE DEF f
<1>2. PICK g : /\ IsSum(E, f, g)
               /\ \A T \in SUBSET E : \A e : (\A x \in T : e[x] = f[x]) => SumFunctionOnSet(e, T) = g[T]
    BY <1>1, Sums
<1>3. ASSUME NEW T \in SUBSET E PROVE TokensOf(T) = g[T]
  <2> DEFINE e == [x \in T |-> RenderEntry(x)]
  <2>1. \A x \in T : e[x] = f[x]
      BY <1>1
  <2>2. TokensOf(T) = SumFunctionOnSet(e, T)
      BY DEF TokensOf
  <2> HIDE DEF e
  <2> QED BY <1>2, <2>1, <2>2
<1>4. \A T \in SUBSET E : g[T] \in Nat /\ \A U \in SUBSET T : g[U] <= g[T]
    BY <1>1, <1>2, SumGrows DEF IsSum
<1> SUFFICES ASSUME NEW T \in SUBSET E
             PROVE  TokensOf(T) \in Nat /\ \A U \in SUBSET T : TokensOf(U) <= TokensOf(T)
    OBVIOUS
<1>5. \A U \in SUBSET T : U \in SUBSET E
    OBVIOUS
<1> QED BY <1>3, <1>4, <1>5

\* A finite set of naturals has a greatest one.
LEMMA MaxExists ==
    ASSUME NEW S, IsFiniteSet(S), S # {}, \A x \in S : x \in Nat
    PROVE  Max(S) \in S /\ \A y \in S : Max(S) >= y
<1> DEFINE R == {p \in S \X S : p[1] > p[2]}
<1>1. \A x, y \in S : <<x, y>> \in R <=> x > y
    OBVIOUS
<1> HIDE DEF R
<1>2. IsOrder(S, R)
    BY <1>1 DEF IsOrder
<1>3. PICK m \in S : \A x \in S \ {m} : <<m, x>> \in R
    BY <1>2, FirstExists
<1>4. ASSUME NEW x \in S PROVE m >= x
  <2>1. x = m \/ m > x
      BY <1>1, <1>3
  <2>2. x \in Nat /\ m \in Nat
      OBVIOUS
  <2> QED BY <2>1, <2>2
<1> QED BY <1>4 DEF Max

LEMMA MinExists ==
    ASSUME NEW S \in SUBSET Nat, S # {}
    PROVE  Min(S) \in S
<1>1. PICK m \in S : \A j \in S : m <= j
    BY LeastExists
<1> QED BY <1>1 DEF Min

\* How hot a file is, is a number.
LEMMA HotNat ==
    ASSUME NEW Words, NEW P, Claims(P, Words), NEW files, NEW f \in files
    PROVE  HotWeights(P, files)[f.path] \in Nat
<1> DEFINE status == {c \in P : c.type = "COMPONENT_STATUS"}
           ago(c) == Cardinality({d.session : d \in status}) - Ordinal(status, c.session)
           at(p)  == {c \in status : c.path = p}
           heat(c) == Percent(Repetition(c.mentions), Recency(ago(c)))
           raw(p) == SumFunctionOnSet([c \in at(p) |-> heat(c)], at(p))
           raws   == {raw(c.path) : c \in status}
           peak   == Max({1} \cup raws)
<1>1. HotWeights(P, files)[f.path] = (100 * raw(f.path)) \div peak
    BY DEF HotWeights
<1>2. status \in SUBSET P /\ IsFiniteSet(status)
    BY FS_Subset DEF Claims
<1>3. \A c \in status : c.mentions \in Nat \ {0}
    BY ClaimFields DEF Claims
<1> HIDE DEF status
<1>4. ASSUME NEW c \in status PROVE heat(c) \in Nat
  <2>1. ago(c) \in Nat
      BY <1>2, AgeNat
  <2> HIDE DEF ago
  <2> QED BY <1>3, <2>1, RepetitionNat, RecencyNat, PercentNat
<1> HIDE DEF heat
<1>5. ASSUME NEW p PROVE raw(p) \in Nat
  <2> DEFINE S == at(p)
             h == [c \in S |-> heat(c)]
  <2>1. IsFiniteSet(S) /\ \A c \in S : h[c] \in Nat
      BY <1>2, <1>4, FS_Subset
  <2>2. raw(p) = SumFunctionOnSet(h, S)
      OBVIOUS
  <2> HIDE DEF S, h, raw
  <2>3. PICK g : /\ IsSum(S, h, g)
                 /\ \A T \in SUBSET S : \A e : (\A x \in T : e[x] = h[x]) => SumFunctionOnSet(e, T) = g[T]
      BY <2>1, Sums
  <2>4. S \in SUBSET S /\ g[S] \in Nat
      BY <2>3 DEF IsSum
  <2> QED BY <2>2, <2>3, <2>4
<1> HIDE DEF raw
<1>6. IsFiniteSet({1} \cup raws)
  <2> DEFINE h == [c \in status |-> raw(c.path)]
  <2>1. \A t \in raws : \E c \in status : t = h[c]
      OBVIOUS
  <2> HIDE DEF h, raws
  <2>2. IsFiniteSet(raws) /\ IsFiniteSet({1})
      BY <1>2, <2>1, FiniteImage, FS_Singleton
  <2> QED BY <2>2, FS_Union
<1>7. {1} \cup raws \in SUBSET Nat /\ 1 \in {1} \cup raws
    BY <1>5
<1> HIDE DEF raws
<1>8. peak \in Nat /\ peak >= 1
    BY <1>6, <1>7, MaxExists
<1> HIDE DEF peak
<1>9. 100 * raw(f.path) \in Nat /\ peak \in Nat \ {0}
    BY <1>5, <1>8
<1> QED BY <1>1, <1>9, DividedDown

\* By score the entries of a skeleton are in a strict total order.
Entries(E, Words) ==
    /\ E \in SUBSET Entry(Words) /\ IsFiniteSet(E)
    /\ \A d, e \in E : d.place = e.place => d = e
IsHot(E, hot) == \A e \in E : hot[e.path] \in Nat
ScoreOrder(E, hot) == {p \in E \X E : Scores(p[1], p[2], hot)}

LEMMA ScoreNat ==
    ASSUME NEW Words, NEW E, Entries(E, Words), NEW hot, IsHot(E, hot), NEW e \in E
    PROVE  FileScore(e, hot) \in Nat
<1> DEFINE density == 3 * e.classes + e.exported + e.hidden + 1
           score   == 100 * density + 15 * e.central + 20 * hot[e.path]
<1>1. /\ e.classes \in Nat /\ e.exported \in Nat /\ e.hidden \in Nat /\ e.central \in Nat
      /\ hot[e.path] \in Nat
    BY EntrySize DEF Entries, IsHot
<1>2. density \in Nat
    BY <1>1
<1> HIDE DEF density
<1>3. score \in Nat
    BY <1>1, <1>2
<1>4. FileScore(e, hot) = IF e.support THEN (score * 35) \div 100 ELSE score
    BY DEF FileScore, density
<1> HIDE DEF score
<1>5. score * 35 \in Nat
    BY <1>3
<1> QED BY <1>3, <1>4, <1>5, DividedDown

LEMMA ScoresOrder ==
    ASSUME NEW Words, NEW E, Entries(E, Words), NEW hot, IsHot(E, hot)
    PROVE  IsOrder(E, ScoreOrder(E, hot))
<1>1. \A e \in E : FileScore(e, hot) \in Nat /\ e.place \in Nat
    BY ScoreNat, EntrySize DEF Entries
<1>2. \A d, e \in E : <<d, e>> \in ScoreOrder(E, hot) <=> Scores(d, e, hot)
    BY DEF ScoreOrder
<1>3. \A d, e \in E : d.place = e.place => d = e
    BY DEF Entries
<1> QED BY <1>1, <1>2, <1>3 DEF IsOrder, Scores

\* An entry with another place or with less detail is an entry.
LEMMA Placed ==
    ASSUME NEW Words, NEW e \in Entry(Words), NEW n \in Nat, NEW d, d = [e EXCEPT !.place = n]
    PROVE  d \in Entry(Words) /\ d.path = e.path /\ d.methods = e.methods /\ d.place = n
  BY DEF Entry
LEMMA Degraded ==
    ASSUME NEW Words, NEW e \in Entry(Words), NEW n \in Nat, NEW d, d = [e EXCEPT !.methods = n]
    PROVE  d \in Entry(Words)
  BY DEF Entry

\* Ranked, each entry is what it was, and only one is the best.
LEMMA Ranked ==
    ASSUME NEW Words, NEW E, Entries(E, Words), NEW hot, IsHot(E, hot)
    PROVE  /\ ByScore(E, hot) \in SUBSET Entry(Words) /\ IsFiniteSet(ByScore(E, hot))
           /\ \A r \in ByScore(E, hot) : \E e \in E : r.path = e.path /\ r.methods = e.methods
           /\ \A r, q \in ByScore(E, hot) : r.place = 0 /\ q.place = 0 => r = q
<1> DEFINE better(e) == {d \in E : Scores(d, e, hot)}
           rank(e) == Cardinality(better(e))
           R == ByScore(E, hot)
           f == [e \in E |-> [e EXCEPT !.place = rank(e)]]
<1>1. R = {[e EXCEPT !.place = rank(e)] : e \in E}
    BY DEF ByScore
<1>2. \A e \in E : f[e] = [e EXCEPT !.place = rank(e)]
    OBVIOUS
<1>3. \A e \in E : rank(e) \in Nat /\ (rank(e) = 0 => better(e) = {})
  <2> TAKE e \in E
  <2>1. better(e) \in SUBSET E /\ IsFiniteSet(E)
      BY DEF Entries
  <2> HIDE DEF better
  <2> QED BY <2>1, FS_Subset, FS_EmptySet, FS_CardinalityType
<1>4. \A r \in R : \E e \in E : r = f[e]
    BY <1>1, <1>2
<1> HIDE DEF f, R, rank
<1>5. ASSUME NEW e \in E
      PROVE f[e] \in Entry(Words) /\ f[e].path = e.path /\ f[e].methods = e.methods /\ f[e].place = rank(e)
  <2>1. e \in Entry(Words)
      BY DEF Entries
  <2> DEFINE n == rank(e)
  <2>2. n \in Nat /\ f[e] = [e EXCEPT !.place = n]
      BY <1>2, <1>3
  <2> HIDE DEF n
  <2>3. f[e] \in Entry(Words) /\ f[e].path = e.path /\ f[e].methods = e.methods /\ f[e].place = n
      BY <2>1, <2>2, Placed
  <2> QED BY <2>3 DEF n
<1>6. IsFiniteSet(R)
    BY <1>4, FiniteImage DEF Entries
<1>7. ASSUME NEW r \in R, NEW q \in R, r.place = 0, q.place = 0 PROVE r = q
  <2>1. PICK d \in E : r = f[d]
      BY <1>4
  <2>2. PICK e \in E : q = f[e]
      BY <1>4
  <2>3. better(d) = {} /\ better(e) = {}
      BY <1>3, <1>5, <1>7, <2>1, <2>2
  <2>4. d = e \/ Scores(d, e, hot) \/ Scores(e, d, hot)
    <3>1. \A x, y \in E : <<x, y>> \in ScoreOrder(E, hot) <=> Scores(x, y, hot)
        BY DEF ScoreOrder
    <3> QED BY <3>1, ScoresOrder DEF IsOrder
  <2>5. d = e
      BY <2>3, <2>4
  <2> QED BY <2>1, <2>2, <2>5
<1> QED BY <1>4, <1>5, <1>6, <1>7 DEF R

\* What is kept of the ranked keeps the budget, or is the best alone.
LEMMA WorstDropped ==
    ASSUME NEW Words, NEW R \in SUBSET Entry(Words), IsFiniteSet(R), NEW budget
    PROVE  /\ DropWorst(R, budget) \in SUBSET R
           /\ TokensOf(DropWorst(R, budget)) <= budget \/ \A e \in DropWorst(R, budget) : e.place = 0
<1> DEFINE first(n) == {e \in R : e.place < n}
           fits(n)  == n <= 1 \/ TokensOf(first(n)) <= budget
           N == Cardinality(R)
           K == {n \in 0..N : fits(n)}
           m == Max(K)
<1>1. DropWorst(R, budget) = first(m)
    BY DEF DropWorst
<1>2. N \in Nat
    BY FS_CardinalityType
<1>3. 0 \in K /\ \A n \in K : n \in Nat /\ n \in 0..N /\ fits(n)
    BY <1>2
<1>4. IsFiniteSet(K)
  <2>1. IsFiniteSet(0..N)
      BY <1>2, FS_Interval
  <2>2. K \in SUBSET (0..N)
      OBVIOUS
  <2> HIDE DEF K, N
  <2> QED BY <2>1, <2>2, FS_Subset
<1> HIDE DEF K, fits, N
<1>5. m \in K
    BY <1>3, <1>4, MaxExists
<1> HIDE DEF m
<1>6. m \in Nat /\ (m <= 1 \/ TokensOf(first(m)) <= budget)
    BY <1>3, <1>5 DEF fits
<1>7. m <= 1 => \A e \in first(m) : e.place = 0
  <2>1. \A e \in R : e.place \in Nat
      BY EntrySize
  <2> QED BY <1>6, <2>1
<1>8. first(m) \in SUBSET R
    OBVIOUS
<1> HIDE DEF first
<1> QED BY <1>1, <1>6, <1>7, <1>8

\* No file has lost detail, or only one is left.
FullDetail(E, p) == \A e \in E : e.methods = Least(5, (CHOOSE f \in p.files : f.path = e.path).methods)
LEMMA Compressed ==
    ASSUME NEW Words, NEW p, IsProject(p, Words), NEW hot, \A f \in p.files : hot[f.path] \in Nat
    PROVE  LET K == CompressToSkeleton(p.files, p.skeletonBudget, hot, DefaultCaps)
           IN  /\ K \in SUBSET Entry(Words) /\ IsFiniteSet(K)
               /\ \/ FullDetail(K, p) /\ TokensOf(K) <= p.skeletonBudget
                  \/ \A d, e \in K : d = e
<1> DEFINE F == p.files
           budget == p.skeletonBudget
           built == [f \in F |-> BuildEntry(f, DefaultCaps)]
           E == {BuildEntry(f, DefaultCaps) : f \in F}
           R == ByScore(E, hot)
           kept == DropWorst(R, budget)
           K == CompressToSkeleton(F, budget, hot, DefaultCaps)
<1>1. /\ F \in SUBSET File(Words) /\ IsFiniteSet(F)
      /\ \A f, g \in F : f.path = g.path \/ f.place = g.place => f = g
    BY DEF IsProject, Files
<1>2. \A e \in E : \E f \in F : e = built[f]
    OBVIOUS
<1>3. \A f \in F : /\ built[f] \in Entry(Words) /\ built[f].path = f.path /\ built[f].place = f.place
                   /\ built[f].methods = Least(5, f.methods)
    BY <1>1, EntryBuilt
<1>4. K = IF TokensOf(E) <= budget THEN E ELSE DropBeforeDegrade(R, budget)
    BY DEF CompressToSkeleton
<1>5. ASSUME NEW e, NEW g \in F, e.path = g.path, e.methods = Least(5, g.methods)
      PROVE  e.methods = Least(5, (CHOOSE f \in p.files : f.path = e.path).methods)
  <2>1. (CHOOSE f \in F : f.path = e.path) = g
      BY <1>1, <1>5
  <2> QED BY <1>5, <2>1
<1> HIDE DEF F, E, built
<1>6. Entries(E, Words) /\ IsHot(E, hot) /\ FullDetail(E, p)
  <2>1. E \in SUBSET Entry(Words) /\ \A d, e \in E : d.place = e.place => d = e
      BY <1>1, <1>2, <1>3
  <2>2. IsFiniteSet(E)
      BY <1>1, <1>2, FiniteImage
  <2>3. IsHot(E, hot)
      BY <1>2, <1>3 DEF IsHot, F
  <2>4. FullDetail(E, p)
      BY <1>2, <1>3, <1>5 DEF FullDetail
  <2> QED BY <2>1, <2>2, <2>3, <2>4 DEF Entries
<1>7. /\ R \in SUBSET Entry(Words) /\ IsFiniteSet(R)
      /\ \A r \in R : \E e \in E : r.path = e.path /\ r.methods = e.methods
      /\ \A r, q \in R : r.place = 0 /\ q.place = 0 => r = q
    BY <1>6, Ranked
<1> HIDE DEF R
<1>8. kept \in SUBSET R /\ (TokensOf(kept) <= budget \/ \A e \in kept : e.place = 0)
    BY <1>7, WorstDropped
<1> HIDE DEF kept
<1>9. kept \in SUBSET Entry(Words) /\ IsFiniteSet(kept) /\ FullDetail(kept, p)
  <2>1. FullDetail(kept, p)
      BY <1>6, <1>7, <1>8 DEF FullDetail
  <2> QED BY <1>7, <1>8, <2>1, FS_Subset
<1>10. \A limit \in Nat : /\ DegradeAll(kept, limit) \in SUBSET Entry(Words)
                          /\ IsFiniteSet(DegradeAll(kept, limit))
                          /\ (\A d, e \in kept : d = e) => \A d, e \in DegradeAll(kept, limit) : d = e
  <2> TAKE limit \in Nat
  <2> DEFINE worse == [e \in kept |-> [e EXCEPT !.methods = Least(@, limit)]]
             D == DegradeAll(kept, limit)
  <2>1. \A d \in D : \E e \in kept : d = worse[e]
      BY DEF DegradeAll
  <2>2. \A e \in kept : worse[e] \in Entry(Words)
    <3> TAKE e \in kept
    <3> DEFINE n == Least(e.methods, limit)
    <3>1. e \in Entry(Words) /\ e.methods \in Nat
        BY <1>9, EntrySize
    <3>2. n \in Nat
        BY <3>1 DEF Least
    <3>3. worse[e] = [e EXCEPT !.methods = n]
        OBVIOUS
    <3> HIDE DEF n, worse
    <3> QED BY <3>1, <3>2, <3>3, Degraded
  <2> HIDE DEF D, worse
  <2>3. IsFiniteSet(D)
      BY <1>9, <2>1, FiniteImage
  <2> QED BY <2>1, <2>2, <2>3 DEF D
<1>11. CASE TokensOf(E) <= budget
    BY <1>4, <1>6, <1>11 DEF Entries, F
<1>12. CASE ~(TokensOf(E) <= budget) /\ TokensOf(kept) <= budget
  <2>1. K = kept
      BY <1>4, <1>12 DEF DropBeforeDegrade, kept
  <2> QED BY <1>9, <1>12, <2>1 DEF F
<1>13. CASE ~(TokensOf(E) <= budget) /\ ~(TokensOf(kept) <= budget)
  <2>1. \E limit \in Nat : K = DegradeAll(kept, limit)
      BY <1>4, <1>13 DEF DropBeforeDegrade, kept
  <2>2. \A d, e \in kept : d = e
      BY <1>7, <1>8, <1>13
  <2> HIDE DEF K
  <2> QED BY <1>10, <2>1, <2>2 DEF K, F
<1> QED BY <1>11, <1>12, <1>13

\* Whatever part of such a skeleton is shown keeps to that.
LEMMA PartThin ==
    ASSUME NEW Words, NEW p, NEW K \in SUBSET Entry(Words), IsFiniteSet(K), p.skeletonBudget \in Nat,
           \/ FullDetail(K, p) /\ TokensOf(K) <= p.skeletonBudget
           \/ \A d, e \in K : d = e,
           NEW T \in SUBSET K
    PROVE  Thin(T, p)
<1>1. CASE FullDetail(K, p) /\ TokensOf(K) <= p.skeletonBudget
  <2>1. TokensOf(T) <= p.skeletonBudget
    <3>1. K \in SUBSET K /\ TokensOf(K) \in Nat /\ TokensOf(T) \in Nat /\ TokensOf(T) <= TokensOf(K)
        BY EntriesGrow
    <3> QED BY <1>1, <3>1
  <2>2. \A e \in T : e.methods \in Nat /\ e.methods = Least(5, (CHOOSE f \in p.files : f.path = e.path).methods)
      BY <1>1, EntrySize DEF FullDetail
  <2> QED BY <2>1, <2>2 DEF Thin
<1>2. CASE \A d, e \in K : d = e
  <2>1. \A e \in T : T = {e}
      BY <1>2
  <2>2. \A e \in T : Cardinality(T) = 1
      BY <2>1, FS_Singleton
  <2>3. T = {} => Cardinality(T) = 0
      BY FS_EmptySet
  <2>4. ~(Cardinality(T) > 1)
      BY <2>2, <2>3
  <2> QED BY <2>2, <2>4 DEF Thin
<1> QED BY <1>1, <1>2

-----------------------------------------------------------------------------
\* The rendering.

\* What is rendered shows claims of L and entries of K.
Contexts(L, K) ==
    [hard : SUBSET L, grave : SUBSET L, comps : SUBSET L, decs : SUBSET L, threads : SUBSET L,
     pending : SUBSET L, carried : BOOLEAN, hot : Nat, skeleton : SUBSET K, budget : Nat]

LEMMA ContextFields ==
    ASSUME NEW L, NEW K, NEW ctx \in Contexts(L, K)
    PROVE  /\ ctx.hard \in SUBSET L /\ ctx.grave \in SUBSET L /\ ctx.comps \in SUBSET L /\ ctx.decs \in SUBSET L
           /\ ctx.threads \in SUBSET L /\ ctx.pending \in SUBSET L /\ ctx.carried \in BOOLEAN /\ ctx.hot \in Nat
           /\ ctx.skeleton \in SUBSET K /\ ctx.budget \in Nat
  BY DEF Contexts

LEMMA SectionNat ==
    ASSUME NEW Words, NEW L, Claims(L, Words), NEW S \in SUBSET L
    PROVE  Section(S) \in Nat
<1> DEFINE f == [c \in S |-> 4 + c.size + 20 * c.lineage]
<1>1. IsFiniteSet(S) /\ \A c \in S : f[c] \in Nat
  <2>1. \A c \in S : c.size \in Nat /\ c.lineage \in Nat
      BY ClaimFields DEF Claims
  <2> QED BY <2>1, FS_Subset DEF Claims
<1>2. Section(S) = IF S = {} THEN 0 ELSE 8 + SumFunctionOnSet(f, S)
    BY DEF Section
<1> HIDE DEF f
<1>3. PICK g : /\ IsSum(S, f, g)
               /\ \A T \in SUBSET S : \A e : (\A x \in T : e[x] = f[x]) => SumFunctionOnSet(e, T) = g[T]
    BY <1>1, Sums
<1>4. S \in SUBSET S /\ g[S] \in Nat
    BY <1>3 DEF IsSum
<1>5. SumFunctionOnSet(f, S) \in Nat
    BY <1>3, <1>4
<1> QED BY <1>2, <1>5

\* Neither the filter nor a section's budget adds to a section.
LEMMA FilterTakes ==
    ASSUME NEW ctx
    PROVE  /\ FilterDefects(ctx).hard \in SUBSET ctx.hard /\ FilterDefects(ctx).grave \in SUBSET ctx.grave
           /\ FilterDefects(ctx).comps \in SUBSET ctx.comps /\ FilterDefects(ctx).decs \in SUBSET ctx.decs
  BY DEF FilterDefects
LEMMA EnforceTakes == ASSUME NEW S, NEW cap PROVE EnforceSection(S, cap) \in SUBSET S
  BY DEF EnforceSection

\* What is rendered of a context is of the context.
LEMMA RenderedOf ==
    ASSUME NEW Words, NEW L, Claims(L, Words), NEW K \in SUBSET Entry(Words), IsFiniteSet(K),
           NEW ctx \in Contexts(L, K)
    PROVE  LET b == RenderInjection(ctx)
           IN  /\ b.hard \in SUBSET FilterDefects(ctx).hard /\ b.grave \in SUBSET FilterDefects(ctx).grave
               /\ b.comps \in SUBSET ctx.comps /\ b.decs \in SUBSET FilterDefects(ctx).decs
               /\ b.threads = ctx.threads /\ b.pending = ctx.pending /\ b.skeleton = ctx.skeleton
               /\ b.tokens \in Nat
<1> DEFINE clean == FilterDefects(ctx)
           hard  == EnforceSection(clean.hard, Scaled(150, ctx.budget))
           grave == EnforceSection(clean.grave, Scaled(120, ctx.budget))
           comps == EnforceSection(clean.comps, Scaled(80, ctx.budget))
           decs  == EnforceSection(clean.decs, Scaled(150, ctx.budget))
           shown == First(ctx.threads)
           b     == RenderInjection(ctx)
           drawn == IF ctx.skeleton = {} THEN 0 ELSE 8 + TokensOf(ctx.skeleton) + 6 * ctx.hot
           head  == IF shown = {} THEN 10 ELSE 4 + TheSize(shown)
           open  == ThreadSection(shown, ctx.carried)
<1>1. /\ b.hard = hard /\ b.grave = grave /\ b.comps = comps /\ b.decs = decs
      /\ b.threads = ctx.threads /\ b.pending = ctx.pending /\ b.skeleton = ctx.skeleton
      /\ b.tokens = 60 + Section(hard) + open + Section(ctx.pending) + Section(grave) + Section(comps)
                    + Section(decs) + drawn + head
    BY DEF RenderInjection
<1>2. /\ ctx.hard \in SUBSET L /\ ctx.grave \in SUBSET L /\ ctx.comps \in SUBSET L /\ ctx.decs \in SUBSET L
      /\ ctx.threads \in SUBSET L /\ ctx.pending \in SUBSET L /\ ctx.hot \in Nat
      /\ ctx.skeleton \in SUBSET K
    BY ContextFields
<1>3. /\ clean.hard \in SUBSET ctx.hard /\ clean.grave \in SUBSET ctx.grave
      /\ clean.comps \in SUBSET ctx.comps /\ clean.decs \in SUBSET ctx.decs
    BY FilterTakes
<1> HIDE DEF clean
<1>4. /\ hard \in SUBSET clean.hard /\ grave \in SUBSET clean.grave
      /\ comps \in SUBSET clean.comps /\ decs \in SUBSET clean.decs
    BY EnforceTakes
<1>5. shown \in SUBSET Claim(Words)
    BY <1>2 DEF First, Claims
<1> HIDE DEF hard, grave, comps, decs, shown, b
<1>6. /\ Section(hard) \in Nat /\ Section(grave) \in Nat /\ Section(comps) \in Nat /\ Section(decs) \in Nat
      /\ Section(ctx.pending) \in Nat
  <2>1. hard \in SUBSET L /\ grave \in SUBSET L /\ comps \in SUBSET L /\ decs \in SUBSET L
      BY <1>2, <1>3, <1>4
  <2> QED BY <1>2, <2>1, SectionNat
<1>7. open \in Nat /\ head \in Nat
    BY <1>5, SectionOfThread
<1>8. drawn \in Nat
  <2>1. K \in SUBSET K
      OBVIOUS
  <2>2. TokensOf(ctx.skeleton) \in Nat
      BY <1>2, EntriesGrow
  <2> QED BY <1>2, <2>2
<1> HIDE DEF open, head, drawn
<1>9. b.tokens \in Nat
    BY <1>1, <1>6, <1>7, <1>8
<1>10. b.comps \in SUBSET ctx.comps
    BY <1>1, <1>3, <1>4
<1> QED BY <1>1, <1>4, <1>9, <1>10 DEF b, clean

\* The claims of a block are listed one after the other.
LEMMA ListedOrder ==
    ASSUME NEW Words, NEW L, Claims(L, Words), NEW c \in L, NEW d \in L
    PROVE  ~Listed(c, c) /\ (c = d \/ Listed(c, d) \/ Listed(d, c))
<1>1. /\ c.weight \in Nat /\ c.id \in Nat /\ Authority(c) \in 0..3
      /\ d.weight \in Nat /\ d.id \in Nat /\ Authority(d) \in 0..3
    BY ClaimFields DEF Claims
<1>2. c.id = d.id => c = d
    BY DEF Claims
<1>3. Zone(c) \in 1..3 /\ Zone(d) \in 1..3
    BY DEF Zone
<1> QED BY <1>1, <1>2, <1>3 DEF Listed, Heavier, Precedes

\* Of two claims with one text the filter keeps the first.
LEMMA FilteredOnce ==
    ASSUME NEW Words, NEW L, Claims(L, Words), NEW K, NEW ctx \in Contexts(L, K),
           NEW c \in FilterDefects(ctx).hard \cup FilterDefects(ctx).grave \cup FilterDefects(ctx).decs,
           NEW d \in FilterDefects(ctx).hard \cup FilterDefects(ctx).grave \cup FilterDefects(ctx).decs,
           c.text = d.text, c.text[1] # None
    PROVE  c = d
<1> DEFINE all == ctx.hard \cup ctx.grave \cup ctx.comps \cup ctx.decs
           turn(x) == IF x \in ctx.hard THEN 1 ELSE IF x \in ctx.grave THEN 2 ELSE IF x \in ctx.comps THEN 3 ELSE 4
           before(x, y) == turn(x) < turn(y) \/ (turn(x) = turn(y) /\ Listed(x, y))
           seen(x) == \E y \in all \ {x} : y.text = x.text /\ before(y, x)
<1>1. \A x \in FilterDefects(ctx).hard \cup FilterDefects(ctx).grave \cup FilterDefects(ctx).decs :
          x \in all /\ (x.text[1] = None \/ ~seen(x))
    BY DEF FilterDefects
<1>2. all \in SUBSET L
    BY ContextFields
<1>3. turn(c) \in 1..4 /\ turn(d) \in 1..4
    OBVIOUS
<1> HIDE DEF all, turn
<1>4. c \in all /\ d \in all /\ ~seen(c) /\ ~seen(d)
    BY <1>1
<1>5. c = d \/ Listed(c, d) \/ Listed(d, c)
    BY <1>2, <1>4, ListedOrder
<1>6. c = d \/ before(c, d) \/ before(d, c)
    BY <1>3, <1>5
<1> HIDE DEF before
<1> QED BY <1>4, <1>6

\* As few as it takes, or all.
LEMMA FewestIs ==
    ASSUME NEW most \in Nat, NEW enough \in SUBSET (0..most)
    PROVE  /\ Fewest(most, enough) \in 0..most
           /\ IF enough = {} THEN Fewest(most, enough) = most ELSE Fewest(most, enough) \in enough
<1>1. CASE enough = {}
  <2>1. Fewest(most, enough) = most /\ most \in 0..most
      BY <1>1 DEF Fewest
  <2> QED BY <1>1, <2>1
<1>2. CASE enough # {}
  <2>1. enough \in SUBSET Nat
      OBVIOUS
  <2>2. Min(enough) \in enough
      BY <1>2, <2>1, MinExists
  <2>3. Fewest(most, enough) = Min(enough)
      BY <1>2 DEF Fewest
  <2> QED BY <1>2, <2>2, <2>3
<1> QED BY <1>1, <1>2

\* Not all of a finite set come before one of it.
LEMMA NotAllBefore ==
    ASSUME NEW S, IsFiniteSet(S), NEW B \in SUBSET S
    PROVE  /\ Cardinality(B) \in Nat /\ Cardinality(S) \in Nat
           /\ \A c \in S \ B : ~(Cardinality(B) >= Cardinality(S))
<1>1. /\ IsFiniteSet(B) /\ Cardinality(B) <= Cardinality(S)
      /\ Cardinality(S) = Cardinality(B) => S = B
    BY FS_Subset
<1>2. Cardinality(B) \in Nat /\ Cardinality(S) \in Nat
    BY <1>1, FS_CardinalityType
<1> QED BY <1>1, <1>2

\* Dropping decisions stops when the block fits, or when none is left.
LEMMA DecisionsDropped ==
    ASSUME NEW Words, NEW L, Claims(L, Words), NEW K, NEW ctx \in Contexts(L, K)
    PROVE  /\ DropDecisions(ctx) \in Contexts(L, K)
           /\ DropDecisions(ctx) = [ctx EXCEPT !.decs = DropDecisions(ctx).decs]
           /\ ~Fits(DropDecisions(ctx)) => DropDecisions(ctx).decs = {}
<1> DEFINE behind(c)  == {d \in ctx.decs : Listed(c, d)}
           left(n)    == {c \in ctx.decs : Cardinality(behind(c)) >= n}
           without(n) == [ctx EXCEPT !.decs = left(n)]
           most       == Cardinality(ctx.decs)
           enough     == {n \in 0..most : Fits(without(n))}
           n0         == Fewest(most, enough)
           r          == DropDecisions(ctx)
<1>1. r = without(n0)
    BY DEF DropDecisions
<1>2. ctx.decs \in SUBSET L /\ IsFiniteSet(ctx.decs)
  <2>1. ctx.decs \in SUBSET L
      BY ContextFields
  <2> QED BY <2>1, FS_Subset DEF Claims
<1>3. \A c \in ctx.decs : c \notin behind(c) /\ behind(c) \in SUBSET ctx.decs
    BY <1>2, ListedOrder
<1>4. most \in Nat
    BY <1>2, FS_CardinalityType
<1>5. \A n : left(n) \in SUBSET ctx.decs
    OBVIOUS
<1>6. left(most) = {}
  <2> SUFFICES ASSUME NEW c \in ctx.decs PROVE ~(Cardinality(behind(c)) >= most)
      OBVIOUS
  <2> HIDE DEF behind
  <2> QED BY <1>2, <1>3, NotAllBefore
<1>7. r = [ctx EXCEPT !.decs = left(n0)]
    BY <1>1
<1>8. \A n : without(n) = [ctx EXCEPT !.decs = left(n)]
    OBVIOUS
<1> HIDE DEF left, r, most, without
<1>9. r \in Contexts(L, K) /\ r.decs = left(n0)
    BY <1>2, <1>5, <1>7 DEF Contexts
<1>10. ASSUME ~Fits(r) PROVE r.decs = {}
  <2>1. enough \in SUBSET (0..most)
      OBVIOUS
  <2>2. IF enough = {} THEN n0 = most ELSE n0 \in enough
    <3> HIDE DEF enough
    <3> QED BY <1>4, <2>1, FewestIs
  <2>3. n0 \in enough => Fits(without(n0))
      OBVIOUS
  <2> HIDE DEF n0, enough
  <2>4. n0 = most
      BY <1>7, <1>8, <1>10, <2>2, <2>3
  <2> QED BY <1>6, <1>9, <2>4
<1> HIDE DEF n0
<1>11. r = [ctx EXCEPT !.decs = r.decs]
    BY <1>7, <1>9
<1> QED BY <1>9, <1>10, <1>11 DEF r

\* Dropping components stops when the block fits, or when no stable one is left.
LEMMA ComponentsDropped ==
    ASSUME NEW Words, NEW L, Claims(L, Words), NEW K, NEW ctx \in Contexts(L, K)
    PROVE  /\ DropComponents(ctx) \in Contexts(L, K)
           /\ DropComponents(ctx) = [ctx EXCEPT !.comps = DropComponents(ctx).comps]
           /\ DropComponents(ctx).comps \in SUBSET ctx.comps
           /\ ~Fits(DropComponents(ctx)) => /\ ~Fits(ctx)
                                            /\ \A c \in DropComponents(ctx).comps : c.status # "stable"
<1> DEFINE stable     == {c \in ctx.comps : c.status = "stable"}
           ahead(c)   == {d \in stable : Listed(d, c)}
           left(n)    == {c \in ctx.comps : c \in stable => Cardinality(ahead(c)) >= n}
           without(n) == [ctx EXCEPT !.comps = left(n)]
           most       == Cardinality(stable)
           enough     == {n \in 0..most : Fits(without(n))}
           n0         == Fewest(most, enough)
           r          == DropComponents(ctx)
<1>1. r = without(n0)
    BY DEF DropComponents
<1>2. stable \in SUBSET L /\ IsFiniteSet(stable) /\ ctx.comps \in SUBSET L
  <2>1. ctx.comps \in SUBSET L /\ stable \in SUBSET L
      BY ContextFields
  <2> HIDE DEF stable
  <2> QED BY <2>1, FS_Subset DEF Claims
<1>3. \A c \in ctx.comps : c.status = "stable" <=> c \in stable
    OBVIOUS
<1> HIDE DEF stable
<1>4. \A c \in stable : c \notin ahead(c) /\ ahead(c) \in SUBSET stable
    BY <1>2, ListedOrder
<1>5. most \in Nat
    BY <1>2, FS_CardinalityType
<1>6. \A n : left(n) \in SUBSET ctx.comps
    OBVIOUS
<1>7. \A c \in left(most) : c.status # "stable"
  <2> SUFFICES ASSUME NEW c \in stable PROVE ~(Cardinality(ahead(c)) >= most)
      BY <1>3
  <2> HIDE DEF ahead
  <2> QED BY <1>2, <1>4, NotAllBefore
<1>8. left(0) = ctx.comps
  <2> SUFFICES ASSUME NEW c \in stable PROVE Cardinality(ahead(c)) >= 0
      OBVIOUS
  <2>1. Cardinality(ahead(c)) \in Nat
    <3> HIDE DEF ahead
    <3> QED BY <1>2, <1>4, NotAllBefore
  <2> QED BY <2>1
<1>9. r = [ctx EXCEPT !.comps = left(n0)]
    BY <1>1
<1>10. \A n : without(n) = [ctx EXCEPT !.comps = left(n)]
    OBVIOUS
<1> HIDE DEF left, r, most, without
<1>11. r \in Contexts(L, K) /\ r.comps = left(n0)
    BY <1>2, <1>6, <1>9 DEF Contexts
<1>12. without(0) = ctx
    BY <1>8, <1>10 DEF Contexts
<1>13. ASSUME ~Fits(r) PROVE ~Fits(ctx) /\ \A c \in r.comps : c.status # "stable"
  <2>1. enough \in SUBSET (0..most)
      OBVIOUS
  <2>2. IF enough = {} THEN n0 = most ELSE n0 \in enough
    <3> HIDE DEF enough
    <3> QED BY <1>5, <2>1, FewestIs
  <2>3. n0 \in enough => Fits(without(n0))
      OBVIOUS
  <2>4. 0 \notin enough => ~Fits(without(0))
      BY <1>5
  <2> HIDE DEF n0, enough
  <2>5. enough = {} /\ n0 = most
      BY <1>9, <1>10, <1>13, <2>2, <2>3
  <2> QED BY <1>7, <1>11, <1>12, <2>4, <2>5
<1> HIDE DEF n0
<1>14. r = [ctx EXCEPT !.comps = r.comps] /\ r.comps \in SUBSET ctx.comps
    BY <1>6, <1>9, <1>11
<1> QED BY <1>11, <1>13, <1>14 DEF r

\* Dropping files stops when the block fits, or when none is left.
LEMMA SkeletonDropped ==
    ASSUME NEW Words, NEW L, NEW K \in SUBSET Entry(Words), IsFiniteSet(K), NEW ctx \in Contexts(L, K)
    PROVE  /\ DropSkeleton(ctx) \in Contexts(L, K)
           /\ DropSkeleton(ctx) = [ctx EXCEPT !.skeleton = DropSkeleton(ctx).skeleton]
           /\ DropSkeleton(ctx).skeleton \in SUBSET ctx.skeleton
           /\ ~Fits(DropSkeleton(ctx)) => ~Fits(ctx) /\ DropSkeleton(ctx).skeleton = {}
<1> DEFINE symbols(e)    == e.classes + e.exported + e.hidden
           smaller(e, f) == symbols(e) < symbols(f) \/ (symbols(e) = symbols(f) /\ e.place < f.place)
           ahead(e)      == {f \in ctx.skeleton : smaller(f, e)}
           left(n)       == {e \in ctx.skeleton : Cardinality(ahead(e)) >= n}
           without(n)    == [ctx EXCEPT !.skeleton = left(n)]
           most          == Cardinality(ctx.skeleton)
           enough        == {n \in 0..most : Fits(without(n))}
           n0            == Fewest(most, enough)
           r             == DropSkeleton(ctx)
<1>1. r = without(n0)
    BY DEF DropSkeleton
<1>2. ctx.skeleton \in SUBSET K /\ IsFiniteSet(ctx.skeleton)
  <2>1. ctx.skeleton \in SUBSET K
      BY ContextFields
  <2> QED BY <2>1, FS_Subset
<1>3. \A e \in ctx.skeleton : e.classes \in Nat /\ e.exported \in Nat /\ e.hidden \in Nat /\ e.place \in Nat
    BY <1>2, EntrySize
<1>4. \A e \in ctx.skeleton : e \notin ahead(e) /\ ahead(e) \in SUBSET ctx.skeleton
    BY <1>3
<1>5. most \in Nat
    BY <1>2, FS_CardinalityType
<1>6. \A n : left(n) \in SUBSET ctx.skeleton
    OBVIOUS
<1>7. left(most) = {}
  <2> SUFFICES ASSUME NEW e \in ctx.skeleton PROVE ~(Cardinality(ahead(e)) >= most)
      OBVIOUS
  <2> HIDE DEF ahead
  <2> QED BY <1>2, <1>4, NotAllBefore
<1>8. left(0) = ctx.skeleton
  <2> SUFFICES ASSUME NEW e \in ctx.skeleton PROVE Cardinality(ahead(e)) >= 0
      OBVIOUS
  <2>1. Cardinality(ahead(e)) \in Nat
    <3> HIDE DEF ahead
    <3> QED BY <1>2, <1>4, NotAllBefore
  <2> QED BY <2>1
<1>9. r = [ctx EXCEPT !.skeleton = left(n0)]
    BY <1>1
<1>10. \A n : without(n) = [ctx EXCEPT !.skeleton = left(n)]
    OBVIOUS
<1> HIDE DEF left, r, most, without
<1>11. r \in Contexts(L, K) /\ r.skeleton = left(n0)
    BY <1>2, <1>6, <1>9 DEF Contexts
<1>12. without(0) = ctx
    BY <1>8, <1>10 DEF Contexts
<1>13. ASSUME ~Fits(r) PROVE ~Fits(ctx) /\ r.skeleton = {}
  <2>1. enough \in SUBSET (0..most)
      OBVIOUS
  <2>2. IF enough = {} THEN n0 = most ELSE n0 \in enough
    <3> HIDE DEF enough
    <3> QED BY <1>5, <2>1, FewestIs
  <2>3. n0 \in enough => Fits(without(n0))
      OBVIOUS
  <2>4. 0 \notin enough => ~Fits(without(0))
      BY <1>5
  <2> HIDE DEF n0, enough
  <2>5. enough = {} /\ n0 = most
      BY <1>9, <1>10, <1>13, <2>2, <2>3
  <2> QED BY <1>7, <1>11, <1>12, <2>4, <2>5
<1> HIDE DEF n0
<1>14. r = [ctx EXCEPT !.skeleton = r.skeleton] /\ r.skeleton \in SUBSET ctx.skeleton
    BY <1>6, <1>9, <1>11
<1> QED BY <1>11, <1>13, <1>14 DEF r

-----------------------------------------------------------------------------
\* The steps of a session start.

LEMMA ContextMade ==
    ASSUME NEW Words, SessionInv(Words), Filled,
           NEW K, K = CompressToSkeleton(live.files, live.skeletonBudget,
                                         HotWeights(projection, live.files), DefaultCaps)
    PROVE  /\ Context \in Contexts(Selected, K) /\ Context.budget = live.budget
           /\ Context.threads = selected.thread /\ Context.pending = Pending(Selected)
<1>1. /\ Claims(projection, Words) /\ OfTypes(Selected, {"THREAD_OPEN"}) = selected.thread
    BY SelectedOf
<1>2. live.budget \in Nat
    BY DEF SessionInv, IsProject
<1>3. Cardinality(HotFiles(projection)) \in Nat
  <2>1. HotFiles(projection) \in SUBSET projection /\ IsFiniteSet(projection)
      BY <1>1 DEF HotFiles, Claims
  <2> QED BY <2>1, FS_Subset, FS_CardinalityType
<1>4. \A types : OfTypes(Selected, types) \in SUBSET Selected
    BY DEF OfTypes
<1>5. Pending(Selected) \in SUBSET Selected
    BY DEF Pending
<1> DEFINE carried == Carried(ActiveThread(projection), live.claims)
           hot == Cardinality(HotFiles(projection))
<1>6. carried \in BOOLEAN
    BY Zenon DEF Carried
<1>7. Context =
        [hard |-> OfTypes(Selected, {"CONSTRAINT_HARD"}), grave |-> OfTypes(Selected, {GraveyardType}),
         comps |-> OfTypes(Selected, {"COMPONENT_STATUS"}), decs |-> OfTypes(Selected, DecisionTypes),
         threads |-> OfTypes(Selected, {"THREAD_OPEN"}), pending |-> Pending(Selected),
         carried |-> carried, hot |-> hot, skeleton |-> K, budget |-> live.budget]
    BY DEF Context
<1> HIDE DEF carried, hot
<1>8. hot \in Nat
    BY <1>3 DEF hot
<1> QED BY <1>1, <1>2, <1>4, <1>5, <1>6, <1>7, <1>8 DEF Contexts

\* What is rendered is within what was selected, says nothing twice, and keeps its budgets.
LEMMA BlockIsGood ==
    ASSUME NEW Words, SessionInv(Words), Filled
    PROVE  GoodBlock(RenderWithBudget(Context), live, selected)
<1> DEFINE hot == HotWeights(projection, live.files)
           K == CompressToSkeleton(live.files, live.skeletonBudget, hot, DefaultCaps)
           L == Selected
           c0 == Context
           c1 == DropDecisions(c0)
           c2 == DropComponents(c1)
           c3 == DropSkeleton(c2)
           b == RenderInjection(c3)
<1>1. Claims(L, Words) /\ L = Everything(selected) /\ Claims(projection, Words)
    BY SelectedOf
<1>2. IsProject(live, Words)
    BY DEF SessionInv
<1>3. /\ K \in SUBSET Entry(Words) /\ IsFiniteSet(K)
      /\ \/ FullDetail(K, live) /\ TokensOf(K) <= live.skeletonBudget
         \/ \A d, e \in K : d = e
  <2>1. \A f \in live.files : hot[f.path] \in Nat
      BY <1>1, HotNat
  <2> HIDE DEF hot
  <2> QED BY <1>2, <2>1, Compressed
<1>4. c0 \in Contexts(L, K) /\ c0.budget = live.budget /\ c0.threads = selected.thread /\ c0.pending = Pending(L)
    BY ContextMade
<1>5. RenderWithBudget(Context) = b
    BY DEF RenderWithBudget
<1> HIDE DEF K, L, c0
<1>6. /\ c1 \in Contexts(L, K) /\ c1 = [c0 EXCEPT !.decs = c1.decs]
      /\ ~Fits(c1) => c1.decs = {}
    BY <1>1, <1>4, DecisionsDropped
<1> HIDE DEF c1
<1>7. /\ c2 \in Contexts(L, K) /\ c2 = [c1 EXCEPT !.comps = c2.comps]
      /\ ~Fits(c2) => ~Fits(c1) /\ \A c \in c2.comps : c.status # "stable"
    BY <1>1, <1>6, ComponentsDropped
<1> HIDE DEF c2
<1>8. /\ c3 \in Contexts(L, K) /\ c3 = [c2 EXCEPT !.skeleton = c3.skeleton]
      /\ ~Fits(c3) => ~Fits(c2) /\ c3.skeleton = {}
    BY <1>3, <1>7, SkeletonDropped
<1> HIDE DEF c3
<1>9. /\ c3.budget = live.budget /\ c3.threads = selected.thread /\ c3.pending = Pending(L)
      /\ c3.decs = c1.decs /\ c3.comps = c2.comps
  <2>1. c1.budget = c0.budget /\ c1.threads = c0.threads /\ c1.pending = c0.pending
      BY <1>4, <1>6 DEF Contexts
  <2>2. c2.budget = c1.budget /\ c2.threads = c1.threads /\ c2.pending = c1.pending /\ c2.decs = c1.decs
      BY <1>6, <1>7 DEF Contexts
  <2>3. /\ c3.budget = c2.budget /\ c3.threads = c2.threads /\ c3.pending = c2.pending
        /\ c3.decs = c2.decs /\ c3.comps = c2.comps
      BY <1>7, <1>8 DEF Contexts
  <2> QED BY <1>4, <2>1, <2>2, <2>3
<1>10. /\ b.hard \in SUBSET FilterDefects(c3).hard /\ b.grave \in SUBSET FilterDefects(c3).grave
       /\ b.comps \in SUBSET c3.comps /\ b.decs \in SUBSET FilterDefects(c3).decs
       /\ b.threads = c3.threads /\ b.pending = c3.pending /\ b.skeleton = c3.skeleton
       /\ b.tokens \in Nat
    BY <1>1, <1>3, <1>8, RenderedOf
<1>11. /\ c3.hard \in SUBSET L /\ c3.grave \in SUBSET L /\ c3.comps \in SUBSET L /\ c3.decs \in SUBSET L
       /\ c3.threads \in SUBSET L /\ c3.pending \in SUBSET L /\ c3.skeleton \in SUBSET K
    BY <1>8, ContextFields
<1>12. /\ FilterDefects(c3).hard \in SUBSET c3.hard /\ FilterDefects(c3).grave \in SUBSET c3.grave
       /\ FilterDefects(c3).decs \in SUBSET c3.decs
    BY FilterTakes
<1>13. Fits(c3) <=> b.tokens <= live.budget
    BY <1>9 DEF Fits
<1> HIDE DEF b
<1>14. Survivors(b) \subseteq L
    BY <1>10, <1>11, <1>12 DEF Survivors
<1>15. ASSUME NEW c \in b.hard \cup b.grave \cup b.decs, NEW d \in b.hard \cup b.grave \cup b.decs,
              c.text = d.text, c.text[1] # None
       PROVE  c = d
  <2>1. /\ c \in FilterDefects(c3).hard \cup FilterDefects(c3).grave \cup FilterDefects(c3).decs
        /\ d \in FilterDefects(c3).hard \cup FilterDefects(c3).grave \cup FilterDefects(c3).decs
      BY <1>10
  <2> QED BY <1>1, <1>8, <1>15, <2>1, FilteredOnce
<1>16. ASSUME b.tokens > live.budget
       PROVE  b.decs = {} /\ b.skeleton = {} /\ \A c \in b.comps : c.status # "stable"
  <2>1. ~Fits(c3)
    <3>1. live.budget \in Nat
        BY <1>2 DEF IsProject
    <3> QED BY <1>10, <1>13, <1>16, <3>1
  <2>2. c3.skeleton = {} /\ c3.decs = {} /\ \A c \in c3.comps : c.status # "stable"
      BY <1>6, <1>7, <1>8, <1>9, <2>1
  <2> QED BY <1>10, <1>12, <2>2
<1>17. Thin(b.skeleton, live)
  <2>1. b.skeleton \in SUBSET K /\ live.skeletonBudget \in Nat
      BY <1>2, <1>10, <1>11 DEF IsProject
  <2> QED BY <1>3, <2>1, PartThin
<1> HIDE DEF b
<1>18. GoodBlock(b, live, selected)
    BY <1>1, <1>9, <1>10, <1>14, <1>15, <1>16, <1>17 DEF GoodBlock
<1> QED BY <1>5, <1>18

\* The state of a session start is what it should be.
LEMMA SessionStarts ==
    ASSUME NEW Words, NEW Projects, \A p \in Projects : IsProject(p, Words)
    PROVE  BlockInit(Projects) => SessionInv(Words)
  BY DEF BlockInit, SessionInv, Filled

LEMMA SessionStep ==
    ASSUME NEW Words, \A w \in Words : Canonical(w) \in Words
    PROVE  SessionInv(Words) /\ [BlockNext]_blockVars => SessionInv(Words)'
<1> SUFFICES ASSUME SessionInv(Words), [BlockNext]_blockVars PROVE SessionInv(Words)'
    OBVIOUS
<1>1. CASE Rebuild
  <2>1. /\ rendered = "nothing" /\ rendered' = "projected" /\ live' = live /\ selected' = selected /\ block' = block
        /\ projection' = BuildProjection(live.claims, live.files)
      BY <1>1 DEF Rebuild
  <2>2. IsProject(live, Words) /\ selected = NothingSelected /\ block = NoBlock
      BY <2>1 DEF SessionInv, Filled
  <2>3. IsProjection(projection', live, Words)
      BY <2>1, <2>2, ProjectionIs
  <2>4. IsProject(live', Words) /\ IsProjection(projection', live', Words)
      BY <2>1, <2>2, <2>3
  <2>5. ~Filled' /\ selected' = NothingSelected /\ block' = NoBlock
      BY <2>1, <2>2 DEF Filled
  <2> QED BY <2>1, <2>4, <2>5 DEF SessionInv
<1>2. CASE Fill
  <2>1. /\ rendered = "projected" /\ rendered' = "filled" /\ live' = live /\ projection' = projection /\ block' = block
      BY <1>2 DEF Fill
  <2>2. IsProject(live, Words) /\ IsProjection(projection, live, Words) /\ block = NoBlock
      BY <2>1 DEF SessionInv
  <2>3. SelectedFrom(selected', projection, live.budget, Reserve)
      BY <1>2, <2>2, FillSelects DEF IsProjection
  <2>4. Reserve' = Reserve
      BY <2>1 DEF Reserve
  <2>5. SelectedFrom(selected', projection', live'.budget, Reserve')
      BY <2>1, <2>3, <2>4
  <2>6. Filled' /\ IsProject(live', Words) /\ IsProjection(projection', live', Words)
      BY <2>1, <2>2 DEF Filled
  <2> QED BY <2>1, <2>2, <2>5, <2>6 DEF SessionInv
<1>3. CASE Render
  <2>1. /\ rendered = "filled" /\ rendered' = "rendered" /\ live' = live /\ projection' = projection
        /\ selected' = selected /\ block' = RenderWithBudget(Context)
      BY <1>3 DEF Render
  <2>2. /\ IsProject(live, Words) /\ IsProjection(projection, live, Words) /\ Filled
        /\ SelectedFrom(selected, projection, live.budget, Reserve)
      BY <2>1 DEF SessionInv, Filled
  <2>3. GoodBlock(block', live, selected)
      BY <2>1, <2>2, BlockIsGood
  <2>4. Reserve' = Reserve
      BY <2>1 DEF Reserve
  <2>5. /\ Filled' /\ IsProject(live', Words) /\ IsProjection(projection', live', Words)
        /\ SelectedFrom(selected', projection', live'.budget, Reserve') /\ GoodBlock(block', live', selected')
      BY <2>1, <2>2, <2>3, <2>4 DEF Filled
  <2> QED BY <2>1, <2>5 DEF SessionInv
<1>4. CASE UNCHANGED blockVars
  <2>1. /\ live' = live /\ projection' = projection /\ selected' = selected /\ block' = block
        /\ rendered' = rendered
      BY <1>4 DEF blockVars
  <2>2. Reserve' = Reserve /\ (Filled' <=> Filled)
      BY <2>1 DEF Reserve, Filled
  <2> QED BY <2>1, <2>2 DEF SessionInv
<1> QED BY <1>1, <1>2, <1>3, <1>4 DEF BlockNext

\* A session starts with the right voice: for every project, whatever its claims and
\* files, one claim speaks for a topic, the latest of the most trusted, no mention is
\* lost, a claim of the user yields only to a smaller one, the user's thread leads and
\* an answer that is confirmed is no longer pending.
THEOREM BlockSpeaksRight ==
    ASSUME NEW Words, \A w \in Words : Canonical(w) \in Words,
           NEW Projects, \A p \in Projects : IsProject(p, Words)
    PROVE  BlockSpec(Projects) => []TheRightVoice
<1>1. SessionInv(Words) => TheRightVoice
    BY VoiceRight
<1> QED BY <1>1, SessionStarts, SessionStep, PTL DEF BlockSpec

\* The fill leaves out nothing that fits and keeps room for the thread, and a block or
\* a skeleton over its budget is down to what may not be dropped.
THEOREM BlockKeepsBudget ==
    ASSUME NEW Words, \A w \in Words : Canonical(w) \in Words,
           NEW Projects, \A p \in Projects : IsProject(p, Words)
    PROVE  BlockSpec(Projects) => []WithinBudget
<1>1. SessionInv(Words) => WithinBudget
    BY BudgetKept
<1> QED BY <1>1, SessionStarts, SessionStep, PTL DEF BlockSpec

\* A block shows claims of the projection, each text once, and the ledger of the
\* session records exactly these.
THEOREM BlockShowsOnce ==
    ASSUME NEW Words, \A w \in Words : Canonical(w) \in Words,
           NEW Projects, \A p \in Projects : IsProject(p, Words)
    PROVE  BlockSpec(Projects) => []ShownOnce
<1>1. SessionInv(Words) => ShownOnce
    BY OnceShown
<1> QED BY <1>1, SessionStarts, SessionStep, PTL DEF BlockSpec

-----------------------------------------------------------------------------
\* The cost of a session.

TelemetrySpec(Conversations) == TelemetryInit(Conversations) /\ [][TelemetryNext]_telemetryVars

Lines == [kind : {"assistant", "user"}, id : Nat, call : Nat, usage : BOOLEAN]
Place(k) == <<lines[k].id, lines[k].call>>

\* The file tells the conversation in order: a prefix of its blocks, each line but
\* the last of a response possibly truncated, and results of denied calls.
FileIsPrefix ==
    /\ lines \in Seq(Lines)
    /\ \A k \in DOMAIN lines : Place(k) \in AllBlocks
    /\ \A k \in BlockPlaces, s \in Missing : Earlier(Place(k), s)
    /\ \A j, k \in BlockPlaces : j < k => lines[j].id <= lines[k].id
    /\ \A k \in BlockPlaces : lines[k].usage \/ lines[k].call + 1 \in BlockNumbers(lines[k].id)
    /\ DeniedIds \subseteq AllDenied

\* The row is none, a legacy one or a report, and the file's report when the file
\* has not grown since the last ingestion.
IsReport(row) ==
    /\ row.basis = "per_response"
    /\ row.responses \in 0..Len(conversation)
    /\ row.denied + row.retried + row.memory \in 0..row.responses
RowIsReport ==
    /\ ingested \in 0..Len(lines)
    /\ telemetry \in {NoTelemetry, LegacyRow} \/ IsReport(telemetry)
    /\ lines # <<>> /\ ingested = Len(lines) => telemetry = Report

TelemetryInv(Calls) == conversation \in Seq(Seq(Calls)) /\ FileIsPrefix /\ RowIsReport

\* A block has a number, and a response has one after another.
LEMMA BlocksTyped ==
    ASSUME NEW Calls, conversation \in Seq(Seq(Calls))
    PROVE  /\ DOMAIN conversation = 1..Len(conversation) /\ Len(conversation) \in Nat
           /\ \A r \in DOMAIN conversation : BlockNumbers(r) \subseteq Nat /\ DOMAIN conversation[r] \subseteq Nat
           /\ \A t \in AllBlocks : /\ t = <<t[1], t[2]>> /\ t[1] \in DOMAIN conversation /\ t[1] \in Nat
                                   /\ t[2] \in BlockNumbers(t[1]) /\ t[2] \in Nat
                                   /\ t[2] > 0 => t[2] \in DOMAIN conversation[t[1]]
           /\ \A r \in DOMAIN conversation : \A n \in BlockNumbers(r) : <<r, n>> \in AllBlocks
<1>1. DOMAIN conversation = 1..Len(conversation) /\ Len(conversation) \in Nat
    OBVIOUS
<1>2. ASSUME NEW r \in DOMAIN conversation
      PROVE  DOMAIN conversation[r] \subseteq Nat /\ BlockNumbers(r) \subseteq Nat
  <2>1. conversation[r] \in Seq(Calls)
      OBVIOUS
  <2>2. DOMAIN conversation[r] = 1..Len(conversation[r]) /\ Len(conversation[r]) \in Nat
      BY <2>1
  <2> QED BY <2>2 DEF BlockNumbers
<1>3. ASSUME NEW t \in AllBlocks
      PROVE  /\ t = <<t[1], t[2]>> /\ t[1] \in DOMAIN conversation /\ t[1] \in Nat
             /\ t[2] \in BlockNumbers(t[1]) /\ t[2] \in Nat
             /\ t[2] > 0 => t[2] \in DOMAIN conversation[t[1]]
  <2>1. PICK r \in DOMAIN conversation : t \in {r} \X BlockNumbers(r)
      BY DEF AllBlocks
  <2>2. t = <<t[1], t[2]>> /\ t[1] = r /\ t[2] \in BlockNumbers(r)
      BY <2>1
  <2>3. t[2] > 0 => t[2] \in DOMAIN conversation[r]
      BY <2>2 DEF BlockNumbers
  <2> QED BY <1>1, <1>2, <2>2, <2>3
<1>4. \A r \in DOMAIN conversation : \A n \in BlockNumbers(r) : <<r, n>> \in AllBlocks
    BY DEF AllBlocks
<1> QED BY <1>1, <1>2, <1>3, <1>4

\* What a line adds to the file.
LEMMA LineAppended ==
    ASSUME lines \in Seq(Lines), NEW l \in Lines, lines' = Append(lines, l)
    PROVE  /\ lines' \in Seq(Lines) /\ Len(lines') = Len(lines) + 1 /\ Len(lines) \in Nat
           /\ DOMAIN lines' = DOMAIN lines \cup {Len(lines) + 1} /\ DOMAIN lines = 1..Len(lines)
           /\ lines'[Len(lines) + 1] = l
           /\ \A k \in DOMAIN lines : lines'[k] = lines[k] /\ k < Len(lines) + 1
    OBVIOUS

\* The places of the file are numbers, and each response has a first one.
LEMMA PlacesTyped ==
    ASSUME lines \in Seq(Lines)
    PROVE  /\ BlockPlaces \subseteq 1..Len(lines) /\ Counted \subseteq BlockPlaces
           /\ \A r : OfResponse(r) \subseteq BlockPlaces
           /\ IsFiniteSet(BlockPlaces) /\ IsFiniteSet(Counted)
           /\ \A k \in DOMAIN lines : lines[k] \in Lines
<1>1. BlockPlaces \subseteq 1..Len(lines) /\ Len(lines) \in Nat
    BY DEF BlockPlaces
<1>2. Counted \subseteq BlockPlaces /\ \A r : OfResponse(r) \subseteq BlockPlaces
    BY DEF Counted, OfResponse
<1>3. IsFiniteSet(1..Len(lines))
    BY <1>1, FS_Interval
<1>4. \A k \in DOMAIN lines : lines[k] \in Lines
    OBVIOUS
<1> QED BY <1>1, <1>2, <1>3, <1>4, FS_Subset

LEMMA FirstAppearance ==
    ASSUME lines \in Seq(Lines), NEW k \in BlockPlaces
    PROVE  \E j \in BlockPlaces : lines[j].id = lines[k].id /\ \A i \in OfResponse(lines[k].id) : j <= i
<1> DEFINE S == OfResponse(lines[k].id)
<1>1. S \in SUBSET Nat /\ k \in S /\ S \subseteq BlockPlaces /\ \A i \in S : lines[i].id = lines[k].id
    BY PlacesTyped DEF OfResponse
<1>2. PICK j \in S : \A i \in S : j <= i
  <2> HIDE DEF S
  <2> QED BY <1>1, LeastExists
<1> QED BY <1>1, <1>2

\* Counted places stand for different responses.
LEMMA CountedDiffer ==
    ASSUME lines \in Seq(Lines), NEW j \in Counted, NEW k \in Counted, lines[j].id = lines[k].id
    PROVE  j = k
<1>1. j \in OfResponse(lines[k].id) /\ k \in OfResponse(lines[j].id) /\ j \in Nat /\ k \in Nat
    BY PlacesTyped DEF Counted, OfResponse
<1>2. j <= k /\ k <= j
    BY <1>1 DEF Counted
<1> QED BY <1>1, <1>2

\* Disjoint finite sets count together.
LEMMA DisjointUnion ==
    ASSUME NEW A, NEW B, IsFiniteSet(A), IsFiniteSet(B), A \cap B = {}
    PROVE  IsFiniteSet(A \cup B) /\ Cardinality(A \cup B) = Cardinality(A) + Cardinality(B)
<1>1. IsFiniteSet(A \cup B) /\ Cardinality(A \cup B) = Cardinality(A) + Cardinality(B) - Cardinality(A \cap B)
    BY FS_Union
<1>2. Cardinality(A \cap B) = 0
    BY FS_EmptySet
<1>3. Cardinality(A) \in Nat /\ Cardinality(B) \in Nat
    BY FS_CardinalityType
<1> QED BY <1>1, <1>2, <1>3

\* Sets that part a finite set are no larger together.
LEMMA ThreeParts ==
    ASSUME NEW S, IsFiniteSet(S), NEW A \in SUBSET S, NEW B \in SUBSET S, NEW C \in SUBSET S,
           A \cap B = {}, A \cap C = {}, B \cap C = {}
    PROVE  Cardinality(A) + Cardinality(B) + Cardinality(C) \in 0..Cardinality(S)
<1>1. IsFiniteSet(A) /\ IsFiniteSet(B) /\ IsFiniteSet(C)
    BY FS_Subset
<1>2. IsFiniteSet(A \cup B) /\ Cardinality(A \cup B) = Cardinality(A) + Cardinality(B)
    BY <1>1, DisjointUnion
<1>3. (A \cup B) \cap C = {}
    OBVIOUS
<1>4. Cardinality((A \cup B) \cup C) = Cardinality(A \cup B) + Cardinality(C)
    BY <1>1, <1>2, <1>3, DisjointUnion
<1>5. Cardinality((A \cup B) \cup C) <= Cardinality(S)
  <2>1. (A \cup B) \cup C \in SUBSET S
      OBVIOUS
  <2> QED BY <2>1, FS_Subset
<1>6. Cardinality(A) \in Nat /\ Cardinality(B) \in Nat /\ Cardinality(C) \in Nat /\ Cardinality(S) \in Nat
    BY <1>1, FS_CardinalityType
<1> QED BY <1>2, <1>4, <1>5, <1>6

\* A set numbered injectively by 1..n has at most n members.
LEMMA NumberedSet ==
    ASSUME NEW S, NEW n \in Nat, NEW f \in [S -> 1..n], \A a, b \in S : f[a] = f[b] => a = b
    PROVE  IsFiniteSet(S) /\ Cardinality(S) \in 0..n
<1>1. f \in Injection(S, 1..n)
    BY DEF Injection, IsInjective
<1>2. IsFiniteSet(1..n) /\ Cardinality(1..n) = n
    BY FS_Interval
<1> QED BY <1>1, <1>2, FS_Injection, FS_CardinalityType

\* A report never counts more responses than there are, nor a response in two classes.
LEMMA ReportBounded ==
    ASSUME NEW Calls, conversation \in Seq(Seq(Calls)), FileIsPrefix
    PROVE  IsReport(Report)
<1>1. lines \in Seq(Lines) /\ \A k \in DOMAIN lines : Place(k) \in AllBlocks
    BY DEF FileIsPrefix
<1>2. \A k \in Counted : lines[k].id \in 1..Len(conversation)
    BY <1>1, BlocksTyped, PlacesTyped DEF Place, BlockPlaces
<1>3. Cardinality(Counted) \in 0..Len(conversation)
  <2> DEFINE f == [k \in Counted |-> lines[k].id]
  <2>1. f \in [Counted -> 1..Len(conversation)]
      BY <1>2
  <2>2. \A a, b \in Counted : f[a] = f[b] => a = b
      BY <1>1, CountedDiffer
  <2> HIDE DEF f
  <2> QED BY <2>1, <2>2, BlocksTyped, NumberedSet
<1>4. IsFiniteSet(Counted)
    BY <1>1, PlacesTyped
<1>5. Number("denied") + Number("retried") + Number("memory") \in 0..Cardinality(Counted)
  <2> DEFINE K(class) == {k \in Counted : ClassOf(k) = class}
  <2>1. /\ K("denied") \in SUBSET Counted /\ K("retried") \in SUBSET Counted /\ K("memory") \in SUBSET Counted
        /\ K("denied") \cap K("retried") = {} /\ K("denied") \cap K("memory") = {}
        /\ K("retried") \cap K("memory") = {}
      OBVIOUS
  <2>2. \A class : Number(class) = Cardinality(K(class))
      BY DEF Number
  <2> HIDE DEF K
  <2> QED BY <1>4, <2>1, <2>2, ThreeParts
<1> QED BY <1>3, <1>5 DEF IsReport, Report

\* A finite set and its image under an injection have equally many members.
LEMMA SameNumber ==
    ASSUME NEW S, NEW T, IsFiniteSet(S), NEW f \in [S -> T],
           \A a, b \in S : f[a] = f[b] => a = b, \A t \in T : \E a \in S : f[a] = t
    PROVE  Cardinality(S) = Cardinality(T)
<1>1. f \in Bijection(S, T)
    BY DEF Bijection, Injection, Surjection, IsInjective
<1>2. ExistsBijection(S, T)
    BY <1>1 DEF ExistsBijection
<1> QED BY <1>2, FS_Bijection

\* Once the file is complete it has every block and the result of every denied call.
LEMMA FileIsWhole ==
    ASSUME NEW Calls, conversation \in Seq(Seq(Calls)), FileIsPrefix, Complete
    PROVE  /\ Written = AllBlocks /\ DeniedIds = AllDenied
           /\ \A r : Tools(r) = {t \in AllBlocks : t[1] = r /\ t[2] > 0}
           /\ \A r \in DOMAIN conversation : \E k \in Counted : lines[k].id = r
           /\ \A j, k \in Counted : j < k <=> lines[j].id < lines[k].id
<1>0. lines \in Seq(Lines) /\ \A k \in BlockPlaces : k \in DOMAIN lines
    BY DEF FileIsPrefix, BlockPlaces
<1>1. Written = AllBlocks
  <2>1. \A k \in BlockPlaces : Place(k) \in AllBlocks
      BY <1>0 DEF FileIsPrefix
  <2>2. AllBlocks \subseteq Written
      BY DEF Complete, Missing
  <2> QED BY <2>1, <2>2 DEF Written, Place
<1>2. DeniedIds = AllDenied
    BY <1>1 DEF FileIsPrefix, Complete, Unanswered, AllDenied
<1>3. ASSUME NEW r PROVE Tools(r) = {t \in AllBlocks : t[1] = r /\ t[2] > 0}
  <2>1. ASSUME NEW t \in Tools(r) PROVE t \in AllBlocks /\ t[1] = r /\ t[2] > 0
    <3>1. PICK k \in OfResponse(r) : lines[k].call > 0 /\ t = <<r, lines[k].call>>
        BY DEF Tools
    <3>2. k \in BlockPlaces /\ lines[k].id = r
        BY DEF OfResponse
    <3> QED BY <1>1, <3>1, <3>2 DEF Written
  <2>2. ASSUME NEW t \in AllBlocks, t[1] = r, t[2] > 0 PROVE t \in Tools(r)
    <3>1. PICK k \in BlockPlaces : t = <<lines[k].id, lines[k].call>>
        BY <1>1 DEF Written
    <3>2. k \in OfResponse(r) /\ lines[k].call > 0 /\ t = <<r, lines[k].call>>
        BY <2>2, <3>1 DEF OfResponse
    <3> QED BY <3>2 DEF Tools
  <2> QED BY <2>1, <2>2
<1>4. ASSUME NEW r \in DOMAIN conversation PROVE \E k \in Counted : lines[k].id = r
  <2> DEFINE last == IF conversation[r] = <<>> THEN 0 ELSE Len(conversation[r])
  <2>1. last \in BlockNumbers(r) /\ last + 1 \notin BlockNumbers(r)
    <3>1. conversation[r] \in Seq(Calls)
        OBVIOUS
    <3>2. CASE conversation[r] = <<>>
        BY <3>2 DEF BlockNumbers
    <3>3. CASE conversation[r] # <<>>
        BY <3>1, <3>3 DEF BlockNumbers
    <3> QED BY <3>2, <3>3
  <2> HIDE DEF last
  <2>2. <<r, last>> \in Written
      BY <1>1, <2>1, BlocksTyped
  <2>3. PICK k \in BlockPlaces : lines[k].id = r /\ lines[k].call = last
      BY <2>2 DEF Written
  <2>4. lines[k].usage
      BY <2>1, <2>3 DEF FileIsPrefix
  <2>5. PICK j \in BlockPlaces : lines[j].id = lines[k].id /\ \A i \in OfResponse(lines[k].id) : j <= i
      BY <1>0, FirstAppearance
  <2>6. k \in OfResponse(r)
      BY <2>3 DEF OfResponse
  <2>7. j \in Counted
      BY <2>3, <2>4, <2>5, <2>6 DEF Counted
  <2> QED BY <2>3, <2>5, <2>7
<1>5. ASSUME NEW j \in Counted, NEW k \in Counted PROVE j < k <=> lines[j].id < lines[k].id
  <2>1. j \in BlockPlaces /\ k \in BlockPlaces /\ j \in Nat /\ k \in Nat
        /\ lines[j] \in Lines /\ lines[k] \in Lines
      BY <1>0, PlacesTyped
  <2>2. lines[j].id \in Nat /\ lines[k].id \in Nat
      BY <2>1 DEF Lines
  <2>3. (j < k => lines[j].id <= lines[k].id) /\ (k < j => lines[k].id <= lines[j].id)
      BY <2>1 DEF FileIsPrefix
  <2>4. lines[j].id = lines[k].id => j = k
      BY <1>0, CountedDiffer
  <2> QED BY <2>1, <2>2, <2>3, <2>4
<1> QED BY <1>1, <1>2, <1>3, <1>4, <1>5

\* A complete file gives each response the class it deserves.
LEMMA ClassIsTrue ==
    ASSUME NEW Calls, conversation \in Seq(Seq(Calls)), FileIsPrefix, Complete, NEW k \in Counted
    PROVE  ClassOf(k) = TrueClass(lines[k].id) /\ lines[k].id \in DOMAIN conversation
<1> DEFINE r == lines[k].id
           calls == {t \in AllBlocks : t[1] = r /\ t[2] > 0}
           before == {t \in AllDenied : t[1] < r}
<1>1. lines \in Seq(Lines) /\ k \in BlockPlaces /\ k \in DOMAIN lines
    BY DEF FileIsPrefix, Counted, BlockPlaces
<1>2. r \in DOMAIN conversation
    BY <1>1, BlocksTyped DEF FileIsPrefix, Place
<1>3. Tools(r) = calls /\ DeniedIds = AllDenied
    BY FileIsWhole
<1>4. DeniedCalls(k) = KeysOf(before)
  <2>1. ASSUME NEW x \in DeniedCalls(k) PROVE x \in KeysOf(before)
    <3>1. PICK j \in Counted : j < k /\ x \in KeysOf(Tools(lines[j].id) \cap DeniedIds)
        BY DEF DeniedCalls
    <3>2. PICK t \in Tools(lines[j].id) \cap DeniedIds : x = CallKey(CallOf(t))
        BY <3>1 DEF KeysOf
    <3>3. t[1] = lines[j].id /\ lines[j].id < r /\ t \in AllDenied
        BY <3>1, <3>2, FileIsWhole
    <3> QED BY <3>2, <3>3 DEF KeysOf
  <2>2. ASSUME NEW x \in KeysOf(before) PROVE x \in DeniedCalls(k)
    <3>1. PICK t \in before : x = CallKey(CallOf(t))
        BY DEF KeysOf
    <3>2. t \in AllBlocks /\ t[2] > 0 /\ t[1] < r /\ t \in DeniedIds
        BY <1>3 DEF AllDenied
    <3>3. PICK j \in Counted : lines[j].id = t[1]
        BY <3>2, BlocksTyped, FileIsWhole
    <3>4. j < k /\ t \in Tools(lines[j].id)
        BY <3>2, <3>3, FileIsWhole
    <3>5. x \in KeysOf(Tools(lines[j].id) \cap DeniedIds)
        BY <3>1, <3>2, <3>4 DEF KeysOf
    <3> QED BY <3>4, <3>5 DEF DeniedCalls
  <2> QED BY <2>1, <2>2
<1>5. ClassOf(k) = TrueClass(r)
  <2>1. Tools(lines[k].id) = calls
      BY <1>3
  <2> QED BY <2>1, <1>3, <1>4 DEF ClassOf, TrueClass
<1> QED BY <1>2, <1>5

\* However the responses were split into lines, a complete file gives the true report.
LEMMA ReportIsTrue ==
    ASSUME NEW Calls, conversation \in Seq(Seq(Calls)), FileIsPrefix, Complete
    PROVE  Report = TrueReport
<1>0. lines \in Seq(Lines) /\ IsFiniteSet(Counted)
    BY PlacesTyped DEF FileIsPrefix
<1>1. ASSUME NEW K \in SUBSET Counted, NEW R \in SUBSET DOMAIN conversation,
             \A k \in Counted : k \in K <=> lines[k].id \in R
      PROVE  Cardinality(K) = Cardinality(R)
  <2> DEFINE f == [k \in K |-> lines[k].id]
  <2>1. f \in [K -> R]
      BY <1>1
  <2>2. \A a, b \in K : f[a] = f[b] => a = b
      BY <1>0, CountedDiffer
  <2>3. \A r \in R : \E a \in K : f[a] = r
      BY <1>1, FileIsWhole
  <2>4. IsFiniteSet(K)
      BY <1>0, FS_Subset
  <2> HIDE DEF f
  <2> QED BY <2>1, <2>2, <2>3, <2>4, SameNumber
<1>2. Cardinality(Counted) = Len(conversation)
  <2>1. Cardinality(Counted) = Cardinality(DOMAIN conversation)
    <3>1. \A k \in Counted : lines[k].id \in DOMAIN conversation
        BY ClassIsTrue
    <3> QED BY <3>1, <1>1
  <2>2. Cardinality(1..Len(conversation)) = Len(conversation)
    <3> DEFINE n == Len(conversation)
    <3>1. n \in Nat
        BY BlocksTyped
    <3> HIDE DEF n
    <3>2. Cardinality(1..n) = n
        BY <3>1, FS_Interval
    <3> QED BY <3>2 DEF n
  <2> QED BY <2>1, <2>2, BlocksTyped
<1>3. ASSUME NEW class PROVE Number(class) = TrueNumber(class)
  <2> DEFINE K == {k \in Counted : ClassOf(k) = class}
             R == {r \in DOMAIN conversation : TrueClass(r) = class}
  <2>1. K \in SUBSET Counted /\ R \in SUBSET DOMAIN conversation
      OBVIOUS
  <2>2. \A k \in Counted : k \in K <=> lines[k].id \in R
      BY ClassIsTrue
  <2>3. Cardinality(K) = Cardinality(R)
    <3> HIDE DEF K, R
    <3> QED BY <2>1, <2>2, <1>1
  <2> QED BY <2>3 DEF Number, TrueNumber
<1> QED BY <1>2, <1>3 DEF Report, TrueReport

-----------------------------------------------------------------------------
\* The steps.

LEMMA FileInit == ASSUME NEW Conversations PROVE TelemetryInit(Conversations) => FileIsPrefix
<1> SUFFICES ASSUME TelemetryInit(Conversations) PROVE FileIsPrefix
    OBVIOUS
<1>1. lines = <<>> /\ DOMAIN lines = {} /\ lines \in Seq(Lines)
    BY DEF TelemetryInit
<1> QED BY <1>1 DEF FileIsPrefix, BlockPlaces, DeniedIds

\* The agent writes the first block that is missing.
LEMMA BlockKeepsFile ==
    ASSUME NEW Calls, conversation \in Seq(Seq(Calls)), FileIsPrefix, WriteBlock
    PROVE  FileIsPrefix' /\ conversation' = conversation /\ Len(lines') = Len(lines) + 1
<1>0. conversation' = conversation
    BY DEF WriteBlock
<1>1. PICK t \in Missing, usage \in BOOLEAN :
          /\ \A s \in Missing \ {t} : Earlier(t, s)
          /\ usage \/ t[2] + 1 \in BlockNumbers(t[1])
          /\ lines' = Append(lines, BlockLine(t[1], t[2], usage))
    BY DEF WriteBlock
<1> DEFINE l == BlockLine(t[1], t[2], usage)
           m == Len(lines) + 1
<1>2. t \in AllBlocks /\ t = <<t[1], t[2]>> /\ t[1] \in Nat /\ t[2] \in Nat
    BY BlocksTyped DEF Missing
<1>3. l \in Lines /\ l.kind = "assistant" /\ l.id = t[1] /\ l.call = t[2] /\ l.usage = usage
    BY <1>2 DEF BlockLine, Lines
<1> HIDE DEF l
<1>4. /\ lines' \in Seq(Lines) /\ Len(lines') = m /\ DOMAIN lines' = DOMAIN lines \cup {m}
      /\ lines'[m] = l /\ DOMAIN lines = 1..Len(lines) /\ Len(lines) \in Nat
      /\ \A k \in DOMAIN lines : lines'[k] = lines[k] /\ k < m
    BY <1>1, <1>3, LineAppended DEF FileIsPrefix, l
<1> HIDE DEF m
<1>5. BlockPlaces' = BlockPlaces \cup {m} /\ BlockPlaces \subseteq DOMAIN lines
    BY <1>3, <1>4 DEF BlockPlaces
<1>6. AllBlocks' = AllBlocks /\ \A r : BlockNumbers(r)' = BlockNumbers(r)
    BY <1>0 DEF AllBlocks, BlockNumbers
<1>7. Written' = Written \cup {t}
  <2>1. Written' = {<<lines'[k].id, lines'[k].call>> : k \in BlockPlaces \cup {m}}
      BY <1>5 DEF Written
  <2>2. <<lines'[m].id, lines'[m].call>> = t
      BY <1>2, <1>3, <1>4
  <2>3. \A k \in BlockPlaces : lines'[k] = lines[k]
      BY <1>4, <1>5
  <2> QED BY <2>1, <2>2, <2>3 DEF Written
<1>8. Missing' = Missing \ {t}
    BY <1>6, <1>7 DEF Missing
<1>9. DeniedIds' = DeniedIds /\ AllDenied' = AllDenied
  <2>1. DOMAIN lines' \ BlockPlaces' = DOMAIN lines \ BlockPlaces
      BY <1>4, <1>5
  <2>2. \A k \in DOMAIN lines \ BlockPlaces : lines'[k] = lines[k]
      BY <1>4
  <2>3. DeniedIds' = {<<lines'[k].id, lines'[k].call>> : k \in DOMAIN lines \ BlockPlaces}
      BY <2>1 DEF DeniedIds
  <2> QED BY <1>0, <1>6, <2>2, <2>3 DEF DeniedIds, AllDenied, CallOf
<1>10. \A k \in DOMAIN lines' : Place(k)' \in AllBlocks'
    BY <1>2, <1>3, <1>4, <1>6 DEF Place, FileIsPrefix
<1>11. ASSUME NEW k \in BlockPlaces', NEW s \in Missing' PROVE Earlier(Place(k)', s)
  <2>1. CASE k = m
      BY <2>1, <1>1, <1>2, <1>3, <1>4, <1>8 DEF Place
  <2>2. CASE k \in BlockPlaces
    <3>1. Place(k)' = Place(k)
        BY <2>2, <1>4, <1>5 DEF Place
    <3> QED BY <2>2, <3>1, <1>8 DEF FileIsPrefix
  <2> QED BY <2>1, <2>2, <1>5
<1>12. ASSUME NEW j \in BlockPlaces', NEW k \in BlockPlaces', j < k PROVE lines'[j].id <= lines'[k].id
  <2>1. CASE k \in BlockPlaces
    <3>1. j \in BlockPlaces
        BY <2>1, <1>4, <1>5, <1>12
    <3> QED BY <2>1, <3>1, <1>4, <1>5, <1>12 DEF FileIsPrefix
  <2>2. CASE k = m
    <3>1. j \in BlockPlaces /\ lines'[j] = lines[j] /\ lines[j] \in Lines
        BY <2>2, <1>4, <1>5, <1>12 DEF FileIsPrefix
    <3>2. Earlier(Place(j), t)
        BY <3>1 DEF FileIsPrefix
    <3>3. lines[j].id <= t[1]
        BY <3>1, <3>2, <1>2 DEF Earlier, Place, Lines
    <3> QED BY <2>2, <3>1, <3>3, <1>3, <1>4
  <2> QED BY <2>1, <2>2, <1>5
<1>13. \A k \in BlockPlaces' : lines'[k].usage \/ lines'[k].call + 1 \in BlockNumbers(lines'[k].id)
  <2> SUFFICES ASSUME NEW k \in BlockPlaces'
               PROVE  lines'[k].usage \/ lines'[k].call + 1 \in BlockNumbers(lines'[k].id)
      OBVIOUS
  <2>1. CASE k = m
      BY <2>1, <1>1, <1>3, <1>4
  <2>2. CASE k \in BlockPlaces
      BY <2>2, <1>4, <1>5 DEF FileIsPrefix
  <2> QED BY <2>1, <2>2, <1>5
<1>14. DeniedIds' \subseteq AllDenied'
    BY <1>9 DEF FileIsPrefix
<1> QED BY <1>0, <1>4, <1>6, <1>10, <1>11, <1>12, <1>13, <1>14 DEF FileIsPrefix, m, BlockNumbers

\* The result of a denied call changes nothing else.
LEMMA DenialKeepsFile ==
    ASSUME NEW Calls, conversation \in Seq(Seq(Calls)), FileIsPrefix, WriteDenial
    PROVE  FileIsPrefix' /\ conversation' = conversation /\ Len(lines') = Len(lines) + 1
<1>0. conversation' = conversation
    BY DEF WriteDenial
<1>1. PICK t \in Unanswered : lines' = Append(lines, DenialLine(t[1], t[2]))
    BY DEF WriteDenial
<1> DEFINE l == DenialLine(t[1], t[2])
           m == Len(lines) + 1
<1>2. t \in AllDenied /\ t \in AllBlocks /\ t = <<t[1], t[2]>> /\ t[1] \in Nat /\ t[2] \in Nat
    BY BlocksTyped DEF Unanswered, AllDenied
<1>3. l \in Lines /\ l.kind = "user" /\ l.id = t[1] /\ l.call = t[2]
    BY <1>2 DEF DenialLine, Lines
<1> HIDE DEF l
<1>4. /\ lines' \in Seq(Lines) /\ Len(lines') = m /\ DOMAIN lines' = DOMAIN lines \cup {m}
      /\ lines'[m] = l /\ DOMAIN lines = 1..Len(lines) /\ Len(lines) \in Nat
      /\ \A k \in DOMAIN lines : lines'[k] = lines[k] /\ k < m
    BY <1>1, <1>3, LineAppended DEF FileIsPrefix, l
<1> HIDE DEF m
<1>5. BlockPlaces' = BlockPlaces /\ BlockPlaces \subseteq DOMAIN lines
    BY <1>3, <1>4 DEF BlockPlaces
<1>6. AllBlocks' = AllBlocks /\ \A r : BlockNumbers(r)' = BlockNumbers(r)
    BY <1>0 DEF AllBlocks, BlockNumbers
<1>7. \A k \in BlockPlaces : lines'[k] = lines[k] /\ Place(k)' = Place(k)
    BY <1>4, <1>5 DEF Place
<1>8. Missing' = Missing /\ AllDenied' = AllDenied
    BY <1>0, <1>5, <1>6, <1>7 DEF Missing, Written, AllDenied, CallOf
<1>9. DeniedIds' \subseteq AllDenied'
  <2> SUFFICES ASSUME NEW k \in DOMAIN lines' \ BlockPlaces'
               PROVE  <<lines'[k].id, lines'[k].call>> \in AllDenied
      BY <1>8 DEF DeniedIds
  <2>1. CASE k = m
      BY <2>1, <1>2, <1>3, <1>4
  <2>2. CASE k \in DOMAIN lines
      BY <2>2, <1>4, <1>5 DEF FileIsPrefix, DeniedIds
  <2> QED BY <2>1, <2>2, <1>4
<1>10. \A k \in DOMAIN lines' : Place(k)' \in AllBlocks'
    BY <1>2, <1>3, <1>4, <1>6 DEF Place, FileIsPrefix
<1>11. \A k \in BlockPlaces', s \in Missing' : Earlier(Place(k)', s)
    BY <1>5, <1>7, <1>8 DEF FileIsPrefix
<1>12. \A j, k \in BlockPlaces' : j < k => lines'[j].id <= lines'[k].id
    BY <1>5, <1>7 DEF FileIsPrefix
<1>13. \A k \in BlockPlaces' : lines'[k].usage \/ lines'[k].call + 1 \in BlockNumbers(lines'[k].id)
    BY <1>5, <1>7 DEF FileIsPrefix
<1> QED BY <1>0, <1>4, <1>6, <1>9, <1>10, <1>11, <1>12, <1>13 DEF FileIsPrefix, m, BlockNumbers

\* The inductive invariant holds all along.
LEMMA TelemetryInvInit ==
    ASSUME NEW Calls, NEW Conversations \in SUBSET Seq(Seq(Calls))
    PROVE  TelemetryInit(Conversations) => TelemetryInv(Calls)
<1> SUFFICES ASSUME TelemetryInit(Conversations) PROVE TelemetryInv(Calls)
    OBVIOUS
<1>1. conversation \in Seq(Seq(Calls)) /\ RowIsReport
    BY DEF TelemetryInit, RowIsReport
<1> QED BY <1>1, FileInit DEF TelemetryInv

\* What is read off the file changes only with it.
LEMMA SameFile ==
    ASSUME FileIsPrefix, conversation' = conversation, lines' = lines
    PROVE  FileIsPrefix' /\ Report' = Report
<1>1. AllBlocks' = AllBlocks /\ BlockPlaces' = BlockPlaces /\ DeniedIds' = DeniedIds
      /\ (\A r : BlockNumbers(r)' = BlockNumbers(r) /\ OfResponse(r)' = OfResponse(r))
    BY DEF AllBlocks, BlockNumbers, BlockPlaces, DeniedIds, OfResponse
<1>2. Written' = Written /\ AllDenied' = AllDenied /\ Counted' = Counted /\ (\A r : Tools(r)' = Tools(r))
    BY <1>1 DEF Written, AllDenied, CallOf, Counted, Tools
<1>3. FileIsPrefix'
    BY <1>1, <1>2 DEF FileIsPrefix, Missing, Place, BlockNumbers
<1>4. \A k : ClassOf(k)' = ClassOf(k)
    BY <1>1, <1>2 DEF ClassOf, KeysOf, CallOf, DeniedCalls
<1>5. \A class : Number(class)' = Number(class)
    BY <1>2, <1>4 DEF Number
<1> QED BY <1>2, <1>3, <1>5 DEF Report

LEMMA TelemetryInvStep ==
    ASSUME NEW Calls
    PROVE  TelemetryInv(Calls) /\ [TelemetryNext]_telemetryVars => TelemetryInv(Calls)'
<1> SUFFICES ASSUME TelemetryInv(Calls), [TelemetryNext]_telemetryVars PROVE TelemetryInv(Calls)'
    OBVIOUS
<1>0. conversation \in Seq(Seq(Calls)) /\ FileIsPrefix /\ RowIsReport /\ Len(lines) \in Nat
    BY DEF TelemetryInv, FileIsPrefix
<1>1. ASSUME WriteBlock \/ WriteDenial PROVE TelemetryInv(Calls)'
  <2>1. FileIsPrefix' /\ conversation' = conversation /\ Len(lines') = Len(lines) + 1
      BY <1>0, <1>1, BlockKeepsFile, DenialKeepsFile
  <2>2. telemetry' = telemetry /\ ingested' = ingested
      BY <1>1 DEF WriteBlock, WriteDenial
  <2>3. RowIsReport'
      BY <1>0, <2>1, <2>2 DEF RowIsReport, IsReport
  <2> QED BY <1>0, <2>1, <2>3 DEF TelemetryInv
<1>2. ASSUME Ingest PROVE TelemetryInv(Calls)'
  <2>1. conversation' = conversation /\ lines' = lines /\ telemetry' = Report /\ ingested' = Len(lines)
      BY <1>2 DEF Ingest, Upserted
  <2>2. FileIsPrefix' /\ Report' = Report /\ (IsReport(Report) => IsReport(telemetry)')
      BY <1>0, <2>1, SameFile DEF IsReport
  <2>3. IsReport(Report)
      BY <1>0, ReportBounded
  <2>4. RowIsReport'
      BY <1>0, <2>1, <2>2, <2>3 DEF RowIsReport
  <2> QED BY <1>0, <2>1, <2>2, <2>4 DEF TelemetryInv
<1>3. CASE UNCHANGED telemetryVars
  <2>1. conversation' = conversation /\ lines' = lines /\ telemetry' = telemetry /\ ingested' = ingested
      BY <1>3 DEF telemetryVars
  <2>2. FileIsPrefix' /\ Report' = Report
      BY <1>0, <2>1, SameFile
  <2> QED BY <1>0, <2>1, <2>2 DEF TelemetryInv, RowIsReport, IsReport
<1> QED BY <1>1, <1>2, <1>3 DEF TelemetryNext

-----------------------------------------------------------------------------
\* The bypass report.

BlindUpto(k) == {i \in Blind : i <= k}
ReadUpto(k)  == {LineCall(i).input : i \in {j \in FileCalls : j <= k /\ LineCall(j).tool \in ReadTools}}

Inputs  == {LineCall(i).input : i \in FileCalls}
Tallies == [reads : SUBSET Inputs, written : SUBSET Inputs, modifications : Nat, bypass : Nat,
            edits : Nat, firstWrites : Nat]

\* The tallies of the pass, line by line.
BypassRun(g) ==
    /\ Bypass = g[Len(lines)]
    /\ g[0] = NothingJudged
    /\ \A k \in 1..Len(lines) : g[k] = JudgedLine(g[k - 1], k)

LEMMA JudgedTyped ==
    ASSUME lines \in Seq(Lines), NEW b \in Tallies, NEW k \in 1..Len(lines)
    PROVE  JudgedLine(b, k) \in Tallies
<1>1. CASE k \notin FileCalls
    BY <1>1 DEF JudgedLine
<1>2. CASE k \in FileCalls
  <2>1. LineCall(k).input \in Inputs
      BY <1>2 DEF Inputs
  <2> DEFINE c == LineCall(k)
  <2> HIDE DEF c
  <2>2. c.input \in Inputs => Judged(b, c) \in Tallies
      BY DEF Judged, ReadsAfter, Tallies
  <2> QED BY <1>2, <2>1, <2>2 DEF JudgedLine, c
<1> QED BY <1>1, <1>2

LEMMA BypassRuns ==
    ASSUME lines \in Seq(Lines)
    PROVE  \E g : BypassRun(g)
<1> DEFINE N == Len(lines)
           B(f, k) == IF k = 0 THEN NothingJudged ELSE JudgedLine(f[k - 1], k)
           Is(f) == f = [k \in 0..N |-> B(f, k)]
           F == [p \in Tallies \X (1..N) |-> JudgedLine(p[1], p[2])]
<1>1. N \in Nat /\ NothingJudged \in Tallies
    BY DEF NothingJudged, Tallies
<1>2. Bypass = (CHOOSE f : Is(f))[N]
    BY DEF Bypass
<1>3. (\A g : B(g, 0) = NothingJudged) /\ \A g : \A k \in 1..N : B(g, k) = JudgedLine(g[k - 1], k)
    BY <1>1
<1> HIDE DEF B
<1>4. F \in [Tallies \X (1..N) -> Tallies] /\ \A b \in Tallies, k \in 1..N : F[<<b, k>>] = JudgedLine(b, k)
    BY JudgedTyped
<1> HIDE DEF F, N
<1>5. PICK f \in [0..N -> Tallies] : IsLoop(N, NothingJudged, F, f)
    BY <1>1, <1>4, LoopExists
<1>6. 0 \in 0..N /\ N \in 0..N /\ (\A k \in 1..N : k \in 0..N /\ k - 1 \in 0..N) /\ \A k \in 0..N : k = 0 \/ k \in 1..N
    BY <1>1
<1>7. \A k \in 1..N : f[k] = JudgedLine(f[k - 1], k)
    BY <1>4, <1>5, <1>6 DEF IsLoop
<1>8. Is(f)
  <2>1. \A k \in 0..N : f[k] = B(f, k)
      BY <1>3, <1>5, <1>6, <1>7 DEF IsLoop
  <2>2. f = [k \in 0..N |-> f[k]]
      BY <1>5
  <2> QED BY <2>1, <2>2
<1> DEFINE g == CHOOSE h : Is(h)
<1>9. Is(g)
  <2> HIDE DEF Is
  <2> QED BY <1>8
<1>10. Bypass = g[N]
    BY <1>2
<1> HIDE DEF g
<1>11. \A k \in 0..N : g[k] = B(g, k)
    BY <1>9
<1>12. g[0] = NothingJudged /\ \A k \in 1..N : g[k] = JudgedLine(g[k - 1], k)
    BY <1>3, <1>6, <1>11
<1> QED BY <1>10, <1>12 DEF BypassRun, N

\* One line further, one more blind change at most.
LEMMA BlindGrows ==
    ASSUME lines \in Seq(Lines), NEW k \in 1..Len(lines)
    PROVE  /\ BlindUpto(k) = BlindUpto(k - 1) \cup (IF k \in Blind THEN {k} ELSE {})
           /\ k \notin BlindUpto(k - 1)
           /\ k \in Blind <=> /\ k \in FileCalls /\ LineCall(k).tool \notin ReadTools
                              /\ LineCall(k).input \notin ReadUpto(k - 1)
           /\ ReadUpto(k) = ReadUpto(k - 1) \cup (IF k \in FileCalls /\ LineCall(k).tool \in ReadTools
                                                  THEN {LineCall(k).input} ELSE {})
<1>1. FileCalls \subseteq 1..Len(lines) /\ Blind \subseteq FileCalls /\ Len(lines) \in Nat
    BY PlacesTyped DEF FileCalls, Blind
<1>2. \A i \in FileCalls : i \in Int /\ (i <= k <=> i <= k - 1 \/ i = k) /\ (i <= k - 1 <=> i < k)
    BY <1>1
<1>3. BlindUpto(k) = BlindUpto(k - 1) \cup (IF k \in Blind THEN {k} ELSE {}) /\ k \notin BlindUpto(k - 1)
  <2>1. \A i \in Blind : i \in Int /\ (i <= k <=> i <= k - 1 \/ i = k) /\ (i <= k - 1 <=> i < k)
      BY <1>1, <1>2
  <2>2. ~(k <= k - 1) /\ k <= k
      BY <1>1
  <2>3. \A i : i \in BlindUpto(k) <=> i \in BlindUpto(k - 1) \/ (i = k /\ k \in Blind)
      BY <2>1, <2>2 DEF BlindUpto
  <2> QED BY <2>2, <2>3 DEF BlindUpto
<1>4. ReadUpto(k) = ReadUpto(k - 1) \cup (IF k \in FileCalls /\ LineCall(k).tool \in ReadTools
                                          THEN {LineCall(k).input} ELSE {})
  <2> DEFINE R(n) == {j \in FileCalls : j <= n /\ LineCall(j).tool \in ReadTools}
  <2>1. R(k) = R(k - 1) \cup (IF k \in FileCalls /\ LineCall(k).tool \in ReadTools THEN {k} ELSE {})
      BY <1>2
  <2>2. \A n : ReadUpto(n) = {LineCall(i).input : i \in R(n)}
      BY DEF ReadUpto
  <2> HIDE DEF R
  <2> QED BY <2>1, <2>2
<1>5. k \in Blind <=> /\ k \in FileCalls /\ LineCall(k).tool \notin ReadTools
                      /\ LineCall(k).input \notin ReadUpto(k - 1)
    BY <1>2 DEF Blind, ReadUpto
<1> QED BY <1>3, <1>4, <1>5

\* However the calls follow each other, the pass counts the blind changes.
LEMMA BypassSound == ASSUME lines \in Seq(Lines) PROVE BypassIsBlind
<1>1. PICK g : BypassRun(g)
    BY BypassRuns
<1>2. Len(lines) \in Nat /\ IsFiniteSet(Blind) /\ BlindUpto(Len(lines)) = Blind
  <2>1. Blind \subseteq BlockPlaces /\ BlockPlaces \subseteq 1..Len(lines) /\ IsFiniteSet(BlockPlaces) /\ Len(lines) \in Nat
      BY PlacesTyped DEF Blind, FileCalls
  <2>2. \A i \in Blind : i <= Len(lines)
      BY <2>1
  <2>3. BlindUpto(Len(lines)) = Blind
      BY <2>2 DEF BlindUpto
  <2> QED BY <2>1, <2>3, FS_Subset
<1> DEFINE Counts(b, k) == /\ b.reads = ReadUpto(k) /\ b.bypass = Cardinality(BlindUpto(k))
                           /\ b.edits \in Nat /\ b.firstWrites \in Nat /\ b.bypass \in Nat
                           /\ b.edits + b.firstWrites <= b.bypass
           P == {k \in 0..Len(lines) : Counts(g[k], k)}
<1>3. 0 \in P
  <2>1. FileCalls \subseteq 1..Len(lines) /\ Blind \subseteq FileCalls
      BY PlacesTyped DEF FileCalls, Blind
  <2>2. \A i \in FileCalls : ~(i <= 0)
      BY <1>2, <2>1
  <2>3. BlindUpto(0) = {} /\ ReadUpto(0) = {}
      BY <2>1, <2>2 DEF BlindUpto, ReadUpto
  <2>4. Cardinality(BlindUpto(0)) = 0
      BY <2>3, FS_EmptySet
  <2>5. g[0].reads = {} /\ g[0].bypass = 0 /\ g[0].edits = 0 /\ g[0].firstWrites = 0
      BY <1>1 DEF BypassRun, NothingJudged
  <2>6. Counts(g[0], 0)
      BY <2>3, <2>4, <2>5
  <2>7. 0 \in 0..Len(lines)
      BY <1>2
  <2> HIDE DEF Counts
  <2> QED BY <2>6, <2>7
<1>4. ASSUME NEW k \in 1..Len(lines), k - 1 \in P PROVE k \in P
  <2> DEFINE a == g[k - 1]
             c == LineCall(k)
  <2>0. k \in 0..Len(lines) /\ Counts(a, k - 1) /\ g[k] = JudgedLine(a, k)
      BY <1>1, <1>2, <1>4 DEF BypassRun
  <2>1. /\ BlindUpto(k) = BlindUpto(k - 1) \cup (IF k \in Blind THEN {k} ELSE {})
        /\ k \notin BlindUpto(k - 1)
        /\ k \in Blind <=> k \in FileCalls /\ c.tool \notin ReadTools /\ c.input \notin ReadUpto(k - 1)
        /\ ReadUpto(k) = ReadUpto(k - 1) \cup (IF k \in FileCalls /\ c.tool \in ReadTools THEN {c.input} ELSE {})
      BY BlindGrows
  <2>2. Cardinality(BlindUpto(k)) = Cardinality(BlindUpto(k - 1)) + (IF k \in Blind THEN 1 ELSE 0)
    <3>1. IsFiniteSet(BlindUpto(k - 1))
        BY <1>2, FS_Subset DEF BlindUpto
    <3>2. CASE k \in Blind
        BY <2>1, <3>1, <3>2, FS_AddElement
    <3>3. CASE k \notin Blind
      <4>1. BlindUpto(k) = BlindUpto(k - 1)
          BY <2>1, <3>3
      <4> QED BY <3>1, <3>3, <4>1, FS_CardinalityType
    <3> QED BY <3>2, <3>3
  <2> HIDE DEF a, c
  <2>3. CASE k \notin FileCalls
    <3>1. JudgedLine(a, k) = a /\ k \notin Blind /\ ReadUpto(k) = ReadUpto(k - 1)
        BY <2>1, <2>3 DEF JudgedLine
    <3> QED BY <2>0, <2>2, <3>1
  <2>4. CASE k \in FileCalls
    <3> DEFINE blind == c.tool \notin ReadTools /\ c.input \notin a.reads
               b == Judged(a, c)
    <3>1. blind <=> k \in Blind
        BY <2>0, <2>1, <2>4
    <3>2. /\ b.reads = ReadsAfter(a.reads, c)
          /\ b.bypass = a.bypass + IF blind THEN 1 ELSE 0
          /\ b.edits = a.edits + IF blind /\ c.tool \in EditTools THEN 1 ELSE 0
          /\ b.firstWrites = a.firstWrites + IF blind /\ c.tool \in WriteTools /\ c.input \notin a.written THEN 1 ELSE 0
        BY DEF Judged
    <3>3. g[k] = b
        BY <2>0, <2>4 DEF JudgedLine, c
    <3>4. ~(c.tool \in EditTools /\ c.tool \in WriteTools)
        BY DEF EditTools, WriteTools
    <3>5. b.reads = ReadUpto(k)
        BY <2>0, <2>1, <2>4, <3>2 DEF ReadsAfter
    <3> HIDE DEF b, blind
    <3>6. b.bypass = Cardinality(BlindUpto(k)) /\ b.edits \in Nat /\ b.firstWrites \in Nat /\ b.bypass \in Nat
          /\ b.edits + b.firstWrites <= b.bypass
        BY <2>0, <2>2, <3>1, <3>2, <3>4
    <3> QED BY <2>0, <3>3, <3>5, <3>6
  <2> QED BY <2>3, <2>4
<1>5. Len(lines) \in P
  <2> HIDE DEF P
  <2>1. \A k \in 0..Len(lines) : k \in P
      BY <1>2, <1>3, <1>4, LoopInduction
  <2> QED BY <1>2, <2>1
<1> QED BY <1>1, <1>2, <1>5 DEF BypassIsBlind, BypassRun

-----------------------------------------------------------------------------
\* The account of a session is right for every conversation, however its lines were
\* cut and whenever it was ingested: each response counts once and in its class when the
\* file is complete, the statistics never speak of more than there is, and the bypass
\* report counts the blind changes.
THEOREM CostAlwaysSound ==
    ASSUME NEW Calls, NEW Conversations \in SUBSET Seq(Seq(Calls))
    PROVE  TelemetrySpec(Conversations) => []CostIsSound
<1>1. TelemetryInv(Calls) => CostIsSound
  <2> SUFFICES ASSUME TelemetryInv(Calls) PROVE CostIsSound
      OBVIOUS
  <2>0. conversation \in Seq(Seq(Calls)) /\ FileIsPrefix /\ RowIsReport /\ Len(lines) \in Nat
        /\ lines \in Seq(Lines) /\ Len(conversation) \in Nat
      BY DEF TelemetryInv, FileIsPrefix
  <2>1. telemetry \in {NoTelemetry, LegacyRow} \/ IsReport(telemetry)
      BY <2>0 DEF RowIsReport
  <2>6. /\ NoTelemetry.basis = "none" /\ NoTelemetry.responses = 0 /\ NoTelemetry.denied = 0
        /\ NoTelemetry.retried = 0 /\ NoTelemetry.memory = 0
        /\ LegacyRow.basis = LegacyBasis /\ LegacyRow.responses = 9 /\ LegacyRow.denied = 0
        /\ LegacyRow.retried = 0 /\ LegacyRow.memory = 0
      BY DEF NoTelemetry, LegacyRow
  <2>2. TelemetryTypeOK
      BY <2>0, <2>1, <2>6 DEF RowIsReport, TelemetryTypeOK, IsReport
  <2>3. CountedPerResponse
      BY <2>0, ReportIsTrue DEF CountedPerResponse, RowIsReport
  <2>4. StatsAreSound
      BY <2>0, <2>1, <2>6 DEF StatsAreSound, CacheStats, LegacyBasis, IsReport
  <2> QED BY <2>0, <2>2, <2>3, <2>4, BypassSound DEF CostIsSound
<1> QED BY <1>1, TelemetryInvInit, TelemetryInvStep, PTL DEF TelemetrySpec

-----------------------------------------------------------------------------
\* The events of a transcript.

\* What the text heuristics make of a sentence.
IsSentence(s) ==
    /\ s.role \in Roles /\ s.marks \subseteq Marks /\ s.code \in BOOLEAN
    /\ s.signals \in Seq([type : STRING, sure : 0..100])
    /\ s.lines \in Seq([kind : STRING, name : STRING, key : STRING])
IsTranscript(T) ==
    /\ T \in Seq(Range(T))
    /\ \A i \in DOMAIN T : IsSentence(T[i])

\* An event still tells what another one told: the head and the rules change its
\* type, the head how sure it is, the head and git add themselves to what found it.
Tells(d, e) ==
    /\ d.place = e.place /\ d.from = e.from /\ d.who = e.who /\ d.role = e.role
    /\ d.what = e.what /\ e.by \subseteq d.by

\* A list has one event at a place, and each is made of sentences.
IsListing(E, T) ==
    /\ \A e \in E : e.from \subseteq DOMAIN T
    /\ \A d, e \in E : d.place = e.place => d = e

\* Each reply is captured once, right after its question.
AnswersOnce(E, T) ==
    \A e \in {c \in E : c.who = CoAuthority} :
        /\ \A d \in {c \in E : c.who = CoAuthority} \ {e} : d.from \cap e.from = {}
        /\ e.from \subseteq Prose(T) /\ Cardinality(e.from) <= 2
        /\ \A i, j \in e.from : \A k \in i..j : T[k].role = "assistant"
        /\ \E q \in Asked(T) : \A i \in e.from :
               q < i /\ \A k \in (q + 2)..(i - 1) : T[k].role = "assistant"

\* What a list becomes when each event goes on telling what it told.
LEMMA RetoldListing ==
    ASSUME NEW E, NEW T, NEW f, \A e \in E : Tells(f[e], e), IsListing(E, T)
    PROVE  IsListing({f[e] : e \in E}, T)
<1>1. \A e \in E : f[e].from \subseteq DOMAIN T
    BY DEF IsListing, Tells
<1>2. ASSUME NEW d \in E, NEW e \in E, f[d].place = f[e].place PROVE f[d] = f[e]
  <2>1. d.place = e.place
      BY <1>2 DEF Tells
  <2> QED BY <2>1 DEF IsListing
<1> QED BY <1>1, <1>2 DEF IsListing

LEMMA RetoldAnswers ==
    ASSUME NEW E, NEW T, NEW f, \A e \in E : Tells(f[e], e), AnswersOnce(E, T)
    PROVE  AnswersOnce({f[e] : e \in E}, T)
<1> DEFINE A(S) == {c \in S : c.who = CoAuthority}
<1> SUFFICES ASSUME NEW e \in E, f[e].who = CoAuthority
             PROVE  /\ \A d \in E : f[d].who = CoAuthority /\ f[d] # f[e] => f[d].from \cap f[e].from = {}
                    /\ f[e].from \subseteq Prose(T) /\ Cardinality(f[e].from) <= 2
                    /\ \A i, j \in f[e].from : \A k \in i..j : T[k].role = "assistant"
                    /\ \E q \in Asked(T) : \A i \in f[e].from :
                           q < i /\ \A k \in (q + 2)..(i - 1) : T[k].role = "assistant"
    BY DEF AnswersOnce
<1>1. e \in A(E) /\ f[e].from = e.from
    BY DEF Tells
<1>2. /\ e.from \subseteq Prose(T) /\ Cardinality(e.from) <= 2
      /\ \A i, j \in e.from : \A k \in i..j : T[k].role = "assistant"
      /\ \E q \in Asked(T) : \A i \in e.from :
             q < i /\ \A k \in (q + 2)..(i - 1) : T[k].role = "assistant"
    BY <1>1, Zenon DEF AnswersOnce
<1>3. ASSUME NEW d \in E, f[d].who = CoAuthority, f[d] # f[e] PROVE f[d].from \cap f[e].from = {}
  <2>1. d \in A(E) \ {e} /\ f[d].from = d.from
      BY <1>3 DEF Tells
  <2> QED BY <1>1, <2>1, Zenon DEF AnswersOnce
<1> QED BY <1>1, <1>2, <1>3

\* The candidates: who said them and where they stand.
Answer0(T, j) ==
    Ev(<<3, j, 1, 1>>, "CONSTRAINT_SOFT", Reply(T, j), CoAuthority, "assistant", 50, {"co_capture"})

LEMMA TrieShape ==
    ASSUME NEW T, IsTranscript(T), NEW e \in TrieEvents(T)
    PROVE  \E i \in Prose(T) : \E k \in DOMAIN T[i].signals :
               /\ e = TrieEvent(T, i, k) /\ e.place = <<1, i, k, 1>> /\ e.from = {i}
               /\ e.who = SpokenBy(T[i].role) /\ e.role = T[i].role /\ e.sure \in 0..100 /\ e.what = <<>>
<1>0. PICK i \in Prose(T) : \E k \in DOMAIN T[i].signals : e = TrieEvent(T, i, k)
    BY DEF TrieEvents
<1>1. PICK k \in DOMAIN T[i].signals : e = TrieEvent(T, i, k)
    BY <1>0
<1>2. i \in DOMAIN T /\ IsSentence(T[i])
    BY DEF Prose, IsTranscript
<1>3. T[i].signals[k] \in [type : STRING, sure : 0..100]
  <2> DEFINE g == T[i].signals
             S == [type : STRING, sure : 0..100]
  <2>1. g \in Seq(S) /\ k \in DOMAIN g
      BY <1>2 DEF IsSentence
  <2> HIDE DEF g, S
  <2>2. g[k] \in S
      BY <2>1
  <2> QED BY <2>2 DEF g, S
<1>4. Downgraded(T[i], T[i].signals[k]).sure \in 0..100
    BY <1>3 DEF Downgraded
<1>5. /\ e.place = <<1, i, k, 1>> /\ e.from = {i} /\ e.who = SpokenBy(T[i].role) /\ e.role = T[i].role
      /\ e.sure = Downgraded(T[i], T[i].signals[k]).sure /\ e.what = <<>>
    BY <1>1 DEF TrieEvent, Ev
<1> QED BY <1>1, <1>4, <1>5

LEMMA PatternSure ==
    ASSUME NEW n \in DOMAIN Patterns
    PROVE  Patterns[n].sure \in 0..100
BY DEF Patterns, Pat

LEMMA PatternShape ==
    ASSUME NEW T, NEW e \in ScanPatterns(T)
    PROVE  \E i \in Prose(T), n \in DOMAIN Patterns, s \in 1..2 :
               /\ e = PatternEvent(T, i, n, s) /\ e.place = <<2, i, n, s>> /\ e.from = {i}
               /\ e.who = SpokenBy(T[i].role) /\ e.role = T[i].role /\ e.sure \in 0..100 /\ e.what = <<>>
<1>1. PICK w \in Prose(T) \X (DOMAIN Patterns) \X (1..2) : e = PatternEvent(T, w[1], w[2], w[3])
    BY DEF ScanPatterns
<1>2. w[1] \in Prose(T) /\ w[2] \in DOMAIN Patterns /\ w[3] \in 1..2
    OBVIOUS
<1>3. /\ e.place = <<2, w[1], w[2], w[3]>> /\ e.from = {w[1]} /\ e.who = SpokenBy(T[w[1]].role)
      /\ e.role = T[w[1]].role /\ e.sure = Patterns[w[2]].sure /\ e.what = <<>>
    BY <1>1 DEF PatternEvent, Ev
<1> QED BY <1>1, <1>2, <1>3, PatternSure

LEMMA AnswerShape ==
    ASSUME NEW T, NEW e \in CoCaptures(T)
    PROVE  \E q \in Asked(T) :
               /\ NextAssistantStart(T, q) # 0 /\ e = Answer0(T, NextAssistantStart(T, q))
               /\ e.place = <<3, NextAssistantStart(T, q), 1, 1>> /\ e.from = Reply(T, NextAssistantStart(T, q))
               /\ e.who = CoAuthority /\ e.role = "assistant" /\ e.sure = 50 /\ e.what = <<>>
<1>1. PICK q \in Asked(T) : NextAssistantStart(T, q) # 0 /\ e = Answer0(T, NextAssistantStart(T, q))
    BY DEF CoCaptures, PerReply, Answer0
<1> QED BY <1>1 DEF Answer0, Ev

\* The reply to a question: after it, with nobody else's words between, and prose.
LEMMA ReplyStarts ==
    ASSUME NEW T, IsTranscript(T), NEW q \in Asked(T), NEW j, j = NextAssistantStart(T, q), j # 0
    PROVE  /\ j \in Prose(T) /\ j \in 1..Len(T) /\ q < j /\ T[j].role = "assistant"
           /\ \A k \in (q + 2)..(j - 1) : T[k].role = "assistant"
           /\ \A k \in (q + 1)..(j - 1) : T[k].role = "assistant" => T[k].code
<1> DEFINE ends == {k \in (q + 1)..Len(T) : \/ T[k].role = "assistant" /\ ~T[k].code
                                            \/ T[k].role = "user" /\ k > q + 1}
<1>1. Len(T) \in Nat /\ DOMAIN T = 1..Len(T) /\ q \in 1..Len(T)
    BY DEF IsTranscript, Asked, Prose
<1>2. j = IF ends = {} THEN 0 ELSE IF T[Min(ends)].role = "assistant" THEN Min(ends) ELSE 0
    BY DEF NextAssistantStart
<1>3. ends # {} /\ j = Min(ends) /\ T[j].role = "assistant"
    BY <1>2
<1>4. ends \in SUBSET Nat
    BY <1>1
<1>5. PICK m \in ends : \A k \in ends : m <= k
    BY <1>3, <1>4, LeastExists
<1>6. j \in ends /\ \A k \in ends : j <= k
    BY <1>3, <1>5 DEF Min
<1>7. j \in (q + 1)..Len(T) /\ ~T[j].code
    BY <1>3, <1>6
<1>8. ASSUME NEW k \in (q + 1)..(j - 1) PROVE k \notin ends /\ k \in DOMAIN T /\ T[k].role \in Roles
    BY <1>1, <1>6, <1>7 DEF IsTranscript, IsSentence
<1>9. ASSUME NEW k \in (q + 2)..(j - 1) PROVE T[k].role = "assistant"
  <2>1. k \in (q + 1)..(j - 1) /\ k > q + 1 /\ k \in (q + 1)..Len(T)
      BY <1>1, <1>7
  <2> QED BY <1>8, <2>1 DEF Roles
<1>10. ASSUME NEW k \in (q + 1)..(j - 1), T[k].role = "assistant" PROVE T[k].code
  <2>1. k \in (q + 1)..Len(T)
      BY <1>1, <1>7
  <2> QED BY <1>8, <1>10, <2>1
<1>11. j \in 1..Len(T) /\ q < j
    BY <1>1, <1>7
<1> QED BY <1>1, <1>3, <1>7, <1>9, <1>10, <1>11 DEF Prose

\* A reply is at most two sentences of one turn.
LEMMA ReplyIs ==
    ASSUME NEW T, IsTranscript(T), NEW j \in 1..Len(T)
    PROVE  /\ Reply(T, j) \in SUBSET Prose(T) /\ Reply(T, j) \subseteq j..Len(T)
           /\ \A i \in Reply(T, j) : \A l \in j..i : T[l].role = "assistant"
           /\ Cardinality(Reply(T, j)) <= 2
<1> DEFINE turn  == {k \in j..Len(T) : \A l \in j..k : T[l].role = "assistant"}
           prose == turn \cap Prose(T)
           R     == {k \in prose : Cardinality({l \in prose : l < k}) < 2}
<1>1. R = Reply(T, j)
    BY DEF Reply
<1>2. Len(T) \in Nat
    BY DEF IsTranscript
<1>3. IsFiniteSet(prose) /\ prose \subseteq j..Len(T) /\ \A k \in prose : k \in Nat
  <2>0. j \in Int /\ Len(T) \in Int
      BY <1>2
  <2>1. prose \subseteq j..Len(T) /\ IsFiniteSet(j..Len(T)) /\ \A k \in j..Len(T) : k \in Nat
    <3>1. IsFiniteSet(j..Len(T))
        BY <2>0, FS_Interval
    <3>2. prose \subseteq j..Len(T) /\ \A k \in j..Len(T) : k \in Nat
        BY <1>2
    <3> QED BY <3>1, <3>2
  <2> HIDE DEF prose
  <2> QED BY <2>1, FS_Subset
<1>4. R \subseteq prose /\ IsFiniteSet(R)
  <2>1. R \subseteq prose
      OBVIOUS
  <2> HIDE DEF prose, R
  <2> QED BY <1>3, <2>1, FS_Subset
<1> HIDE DEF R
<1>5. Cardinality(R) <= 2
  <2>1. CASE R = {}
      BY <2>1, FS_EmptySet
  <2>2. CASE R # {}
    <3> DEFINE less == {p \in R \X R : p[1] < p[2]}
    <3>1. \A x, y \in R : <<x, y>> \in less <=> x < y
        OBVIOUS
    <3>2. \A x \in R : x \in Nat
        BY <1>3, <1>4
    <3> HIDE DEF less
    <3>3. IsOrder(R, less)
        BY <3>1, <3>2 DEF IsOrder
    <3>4. PICK m \in R : \A x \in R \ {m} : <<x, m>> \in less
      <4> HIDE DEF prose
      <4>1. IsFiniteSet(R) /\ R # {}
          BY <1>4, <2>2
      <4> QED BY <3>3, <4>1, LastExists
    <3>5. \A x \in R \ {m} : x < m
        BY <3>1, <3>4
    <3> DEFINE B == {l \in prose : l < m}
    <3>6. R \ {m} \subseteq B /\ IsFiniteSet(B) /\ Cardinality(B) < 2
        BY <1>3, <1>4, <3>5, FS_Subset DEF R
    <3> HIDE DEF B, prose
    <3>7. Cardinality(R \ {m}) <= Cardinality(B) /\ Cardinality(R \ {m}) = Cardinality(R) - 1
        BY <1>4, <3>4, <3>6, FS_Subset, FS_RemoveElement
    <3> QED BY <1>4, <3>6, <3>7, FS_CardinalityType
  <2> QED BY <2>1, <2>2
<1>6. \A i \in R : i \in Prose(T) /\ i \in j..Len(T) /\ \A l \in j..i : T[l].role = "assistant"
    BY DEF R
<1> QED BY <1>1, <1>5, <1>6

\* Two replies share no sentence: the later one's question would lie in the earlier one.
LEMMA RepliesApart ==
    ASSUME NEW T, IsTranscript(T), NEW p \in Asked(T), NEW q \in Asked(T),
           NEW i, i = NextAssistantStart(T, p), i # 0,
           NEW j, j = NextAssistantStart(T, q), j # 0, i < j
    PROVE  Reply(T, i) \cap Reply(T, j) = {}
<1> SUFFICES ASSUME NEW k \in Reply(T, i), k \in Reply(T, j) PROVE FALSE
    OBVIOUS
<1>1. /\ i \in Prose(T) /\ i \in 1..Len(T) /\ T[i].role = "assistant"
      /\ j \in 1..Len(T) /\ q < j
      /\ \A l \in (q + 1)..(j - 1) : T[l].role = "assistant" => T[l].code
    BY ReplyStarts, Zenon
<1>2. k \in i..Len(T) /\ k \in j..Len(T) /\ \A l \in i..k : T[l].role = "assistant"
    BY <1>1, ReplyIs
<1>3. q \in 1..Len(T) /\ T[q].role = "user" /\ Len(T) \in Nat
    BY DEF Asked, Prose, IsTranscript
<1>4. q \notin i..k
    BY <1>2, <1>3
<1>5. q < i
    BY <1>1, <1>2, <1>3, <1>4
<1>6. i \in (q + 1)..(j - 1)
    BY <1>1, <1>3, <1>5
<1> QED BY <1>1, <1>6 DEF Prose

LEMMA CandidatesListed ==
    ASSUME NEW T, IsTranscript(T)
    PROVE  IsListing(Candidates0(T), T)
<1> DEFINE C == Candidates0(T)
<1>1. ASSUME NEW e \in TrieEvents(T) PROVE e.from \subseteq DOMAIN T /\ e.place[1] = 1
    BY <1>1, TrieShape DEF Prose
<1>2. ASSUME NEW e \in ScanPatterns(T) PROVE e.from \subseteq DOMAIN T /\ e.place[1] = 2
    BY <1>2, PatternShape DEF Prose
<1>3. ASSUME NEW e \in CoCaptures(T) PROVE e.from \subseteq DOMAIN T /\ e.place[1] = 3
  <2>1. PICK q \in Asked(T) : /\ NextAssistantStart(T, q) # 0
                              /\ e.place = <<3, NextAssistantStart(T, q), 1, 1>>
                              /\ e.from = Reply(T, NextAssistantStart(T, q))
      BY <1>3, AnswerShape
  <2>2. Reply(T, NextAssistantStart(T, q)) \subseteq Prose(T)
      BY <2>1, ReplyStarts, ReplyIs
  <2> QED BY <2>1, <2>2 DEF Prose
<1>4. ASSUME NEW d \in TrieEvents(T), NEW e \in TrieEvents(T), d.place = e.place PROVE d = e
  <2>1. PICK i \in Prose(T) : \E k \in DOMAIN T[i].signals : d = TrieEvent(T, i, k) /\ d.place = <<1, i, k, 1>>
      BY TrieShape
  <2>2. PICK k \in DOMAIN T[i].signals : d = TrieEvent(T, i, k) /\ d.place = <<1, i, k, 1>>
      BY <2>1
  <2>3. PICK j \in Prose(T) : \E l \in DOMAIN T[j].signals : e = TrieEvent(T, j, l) /\ e.place = <<1, j, l, 1>>
      BY TrieShape
  <2>4. PICK l \in DOMAIN T[j].signals : e = TrieEvent(T, j, l) /\ e.place = <<1, j, l, 1>>
      BY <2>3
  <2>5. i = j /\ k = l
      BY <1>4, <2>2, <2>4
  <2> QED BY <2>2, <2>4, <2>5
<1>5. ASSUME NEW d \in ScanPatterns(T), NEW e \in ScanPatterns(T), d.place = e.place PROVE d = e
  <2>1. PICK i \in Prose(T), k \in DOMAIN Patterns, s \in 1..2 :
            d = PatternEvent(T, i, k, s) /\ d.place = <<2, i, k, s>>
      BY PatternShape
  <2>2. PICK j \in Prose(T), l \in DOMAIN Patterns, t \in 1..2 :
            e = PatternEvent(T, j, l, t) /\ e.place = <<2, j, l, t>>
      BY PatternShape
  <2>3. i = j /\ k = l /\ s = t
      BY <1>5, <2>1, <2>2
  <2> QED BY <2>1, <2>2, <2>3
<1>6. ASSUME NEW d \in CoCaptures(T), NEW e \in CoCaptures(T), d.place = e.place PROVE d = e
  <2>1. PICK p \in Asked(T) : /\ d = Answer0(T, NextAssistantStart(T, p))
                              /\ d.place = <<3, NextAssistantStart(T, p), 1, 1>>
      BY AnswerShape
  <2>2. PICK q \in Asked(T) : /\ e = Answer0(T, NextAssistantStart(T, q))
                              /\ e.place = <<3, NextAssistantStart(T, q), 1, 1>>
      BY AnswerShape
  <2>3. NextAssistantStart(T, p) = NextAssistantStart(T, q)
      BY <1>6, <2>1, <2>2
  <2> QED BY <2>1, <2>2, <2>3
<1>7. \A e \in C : e.from \subseteq DOMAIN T
    BY <1>1, <1>2, <1>3 DEF Candidates0
<1>8. ASSUME NEW d \in C, NEW e \in C, d.place = e.place PROVE d = e
  <2>1. d.place[1] = e.place[1]
      BY <1>8
  <2>2. /\ \A x \in {d, e} : x \in TrieEvents(T) => x.place[1] = 1
        /\ \A x \in {d, e} : x \in ScanPatterns(T) => x.place[1] = 2
        /\ \A x \in {d, e} : x \in CoCaptures(T) => x.place[1] = 3
      BY <1>1, <1>2, <1>3
  <2>3. d \in TrieEvents(T) \cup ScanPatterns(T) \cup CoCaptures(T)
        /\ e \in TrieEvents(T) \cup ScanPatterns(T) \cup CoCaptures(T)
      BY DEF Candidates0
  <2>4. CASE d \in TrieEvents(T)
      BY <1>4, <1>8, <2>1, <2>2, <2>3, <2>4
  <2>5. CASE d \in ScanPatterns(T)
      BY <1>5, <1>8, <2>1, <2>2, <2>3, <2>5
  <2>6. CASE d \in CoCaptures(T)
      BY <1>6, <1>8, <2>1, <2>2, <2>3, <2>6
  <2> QED BY <2>3, <2>4, <2>5, <2>6
<1> QED BY <1>7, <1>8 DEF IsListing

\* Only a co-capture speaks as an answer.
LEMMA AnswersAreCaptures ==
    ASSUME NEW T, IsTranscript(T), NEW e \in Candidates0(T), e.who = CoAuthority
    PROVE  e \in CoCaptures(T)
<1>1. \A r : SpokenBy(r) # CoAuthority
    BY DEF SpokenBy, CoAuthority
<1>2. e \notin TrieEvents(T)
    BY <1>1, TrieShape
<1>3. e \notin ScanPatterns(T)
    BY <1>1, PatternShape
<1> QED BY <1>2, <1>3 DEF Candidates0

LEMMA CandidatesAnswer ==
    ASSUME NEW T, IsTranscript(T)
    PROVE  AnswersOnce(Candidates0(T), T)
<1> DEFINE A == {c \in Candidates0(T) : c.who = CoAuthority}
           Start(q) == NextAssistantStart(T, q)
<1>1. ASSUME NEW e \in A
      PROVE  \E q \in Asked(T) : Start(q) # 0 /\ e = Answer0(T, Start(q)) /\ e.from = Reply(T, Start(q))
    BY AnswersAreCaptures, AnswerShape
<1> SUFFICES ASSUME NEW e \in A
             PROVE  /\ \A d \in A \ {e} : d.from \cap e.from = {}
                    /\ e.from \subseteq Prose(T) /\ Cardinality(e.from) <= 2
                    /\ \A i, j \in e.from : \A k \in i..j : T[k].role = "assistant"
                    /\ \E q \in Asked(T) : \A i \in e.from :
                           q < i /\ \A k \in (q + 2)..(i - 1) : T[k].role = "assistant"
    BY Zenon DEF AnswersOnce
<1>2. PICK q \in Asked(T) : Start(q) # 0 /\ e = Answer0(T, Start(q)) /\ e.from = Reply(T, Start(q))
    BY <1>1
<1> DEFINE j == Start(q)
<1>3. /\ j \in 1..Len(T) /\ q < j /\ Len(T) \in Nat /\ q \in Nat
      /\ \A k \in (q + 2)..(j - 1) : T[k].role = "assistant"
    BY <1>2, ReplyStarts DEF IsTranscript, Asked, Prose
<1>4. /\ e.from \subseteq Prose(T) /\ e.from \subseteq j..Len(T) /\ Cardinality(e.from) <= 2
      /\ \A i \in e.from : \A k \in j..i : T[k].role = "assistant"
    BY <1>2, <1>3, ReplyIs
<1>5. ASSUME NEW d \in A, d # e PROVE d.from \cap e.from = {}
  <2>1. PICK p \in Asked(T) : Start(p) # 0 /\ d = Answer0(T, Start(p)) /\ d.from = Reply(T, Start(p))
      BY <1>1
  <2>2. Start(p) # j /\ Start(p) \in 1..Len(T)
      BY <1>2, <1>5, <2>1, ReplyStarts
  <2>3. Start(p) < j \/ j < Start(p)
      BY <1>3, <2>2
  <2>4. CASE Start(p) < j
      BY <1>2, <2>1, <2>4, RepliesApart
  <2>5. CASE j < Start(p)
    <3>1. Reply(T, j) \cap Reply(T, Start(p)) = {}
        BY <1>2, <2>1, <2>5, RepliesApart
    <3> QED BY <1>2, <2>1, <3>1
  <2> QED BY <2>3, <2>4, <2>5
<1> HIDE DEF j
<1>6. ASSUME NEW i \in e.from, NEW l \in e.from, NEW k \in i..l PROVE T[k].role = "assistant"
  <2>1. k \in j..l
      BY <1>3, <1>4
  <2> QED BY <1>4, <2>1
<1>7. ASSUME NEW i \in e.from PROVE q < i /\ \A k \in (q + 2)..(i - 1) : T[k].role = "assistant"
  <2>1. i \in j..Len(T)
      BY <1>4
  <2>2. ASSUME NEW k \in (q + 2)..(i - 1) PROVE T[k].role = "assistant"
    <3>1. k \in (q + 2)..(j - 1) \/ k \in j..i
        BY <1>3, <2>1
    <3> QED BY <1>3, <1>4, <3>1
  <2> QED BY <1>3, <2>1, <2>2
<1> QED BY <1>4, <1>5, <1>6, <1>7

IsEvent(e) ==
    e = [place |-> e.place, type |-> e.type, from |-> e.from, who |-> e.who, role |-> e.role,
         sure |-> e.sure, by |-> e.by, what |-> e.what]

\* A list in order, up to the kind of event numbered n.
InOrder(E, T, n) ==
    /\ IsListing(E, T) /\ AnswersOnce(E, T)
    /\ \A e \in E : IsEvent(e) /\ e.place[1] \in 1..n

\* How far the head, the rules and git can change an event.
TypedAs(e, t) == [e EXCEPT !.type = t]
FoundBy(e, b) == [e EXCEPT !.by = @ \cup b]
SureOf(e, n)  == [e EXCEPT !.sure = n]

LEMMA RetoldTells ==
    ASSUME NEW e, IsEvent(e), NEW t, NEW b, NEW n
    PROVE  /\ Tells(TypedAs(e, t), e) /\ IsEvent(TypedAs(e, t)) /\ TypedAs(e, t).type = t
           /\ TypedAs(e, t).sure = e.sure
           /\ Tells(SureOf(e, n), e) /\ IsEvent(SureOf(e, n))
           /\ Tells(FoundBy(e, b), e) /\ IsEvent(FoundBy(e, b)) /\ FoundBy(e, b).type = e.type
           /\ FoundBy(e, b).by = e.by \cup b /\ FoundBy(e, b).sure = e.sure
<1> DEFINE R(type, sure, by) == [place |-> e.place, type |-> type, from |-> e.from, who |-> e.who,
                                 role |-> e.role, sure |-> sure, by |-> by, what |-> e.what]
<1>1. TypedAs(e, t) = R(t, e.sure, e.by)
    BY DEF IsEvent, TypedAs
<1>2. FoundBy(e, b) = R(e.type, e.sure, e.by \cup b)
    BY DEF IsEvent, FoundBy
<1>3. SureOf(e, n) = R(e.type, n, e.by)
    BY DEF IsEvent, SureOf
<1>4. \A type, sure, by : e.by \subseteq by =>
          /\ Tells(R(type, sure, by), e) /\ IsEvent(R(type, sure, by))
          /\ R(type, sure, by).type = type /\ R(type, sure, by).sure = sure /\ R(type, sure, by).by = by
    BY DEF Tells, IsEvent
<1> HIDE DEF R
<1> QED BY <1>1, <1>2, <1>3, <1>4

LEMMA TellsOn ==
    ASSUME NEW c, NEW d, NEW e, Tells(c, d), Tells(d, e)
    PROVE  Tells(c, e)
BY DEF Tells

LEMMA RetoldInOrder ==
    ASSUME NEW E, NEW T, NEW n, InOrder(E, T, n), NEW f, \A e \in E : Tells(f[e], e) /\ IsEvent(f[e])
    PROVE  InOrder({f[e] : e \in E}, T, n)
<1>1. IsListing({f[e] : e \in E}, T)
    BY RetoldListing DEF InOrder
<1>2. AnswersOnce({f[e] : e \in E}, T)
    BY RetoldAnswers DEF InOrder
<1>3. \A e \in E : IsEvent(f[e]) /\ f[e].place[1] \in 1..n
    BY DEF InOrder, Tells
<1> QED BY <1>1, <1>2, <1>3 DEF InOrder

LEMMA PartInOrder ==
    ASSUME NEW E, NEW T, NEW n, InOrder(E, T, n), NEW D \in SUBSET E
    PROVE  InOrder(D, T, n)
<1>1. IsListing(D, T) /\ \A e \in D : IsEvent(e) /\ e.place[1] \in 1..n
    BY DEF InOrder, IsListing
<1>2. AnswersOnce(D, T)
  <2> DEFINE A(S) == {c \in S : c.who = CoAuthority}
  <2> SUFFICES ASSUME NEW e \in A(D)
               PROVE  /\ \A d \in A(D) \ {e} : d.from \cap e.from = {}
                      /\ e.from \subseteq Prose(T) /\ Cardinality(e.from) <= 2
                      /\ \A i, j \in e.from : \A k \in i..j : T[k].role = "assistant"
                      /\ \E q \in Asked(T) : \A i \in e.from :
                             q < i /\ \A k \in (q + 2)..(i - 1) : T[k].role = "assistant"
      BY Zenon DEF AnswersOnce
  <2>1. e \in A(E) /\ \A d \in A(D) \ {e} : d \in A(E) \ {e}
      OBVIOUS
  <2>2. /\ \A d \in A(E) \ {e} : d.from \cap e.from = {}
        /\ e.from \subseteq Prose(T) /\ Cardinality(e.from) <= 2
        /\ \A i, j \in e.from : \A k \in i..j : T[k].role = "assistant"
        /\ \E q \in Asked(T) : \A i \in e.from :
               q < i /\ \A k \in (q + 2)..(i - 1) : T[k].role = "assistant"
      BY <2>1, Zenon DEF InOrder, AnswersOnce
  <2> QED BY <2>1, <2>2, Zenon
<1> QED BY <1>1, <1>2 DEF InOrder

\* Events of the next kind can be added that speak for no answer.
Additions(G, T, n) ==
    /\ \A e \in G : IsEvent(e) /\ e.place[1] = n /\ e.from \subseteq DOMAIN T /\ e.who # CoAuthority
    /\ \A d, e \in G : d.place = e.place => d = e

LEMMA AddedInOrder ==
    ASSUME NEW E, NEW T, NEW m \in Nat, InOrder(E, T, m), NEW n \in Nat, m < n, NEW G, Additions(G, T, n)
    PROVE  InOrder(E \cup G, T, n)
<1>1. \A e \in E \cup G : e.from \subseteq DOMAIN T /\ IsEvent(e) /\ e.place[1] \in 1..n
    BY DEF InOrder, IsListing, Additions
<1>2. ASSUME NEW d \in E \cup G, NEW e \in E \cup G, d.place = e.place PROVE d = e
  <2>1. \A x \in E : x.place[1] # n
      BY DEF InOrder
  <2>2. \A x \in G : x.place[1] = n
      BY DEF Additions
  <2>3. d \in G <=> e \in G
      BY <1>2, <2>1, <2>2
  <2> QED BY <1>2, <2>3 DEF InOrder, IsListing, Additions
<1>3. {c \in E \cup G : c.who = CoAuthority} = {c \in E : c.who = CoAuthority}
    BY DEF Additions
<1>4. AnswersOnce(E \cup G, T)
    BY <1>3 DEF InOrder, AnswersOnce
<1>5. IsListing(E \cup G, T)
    BY <1>1, <1>2 DEF IsListing
<1> QED BY <1>1, <1>4, <1>5 DEF InOrder

\* The candidates, and what the rules and the head make of them.
LEMMA CandidatesInOrder ==
    ASSUME NEW T, IsTranscript(T)
    PROVE  InOrder(Candidates0(T), T, 3)
<1>1. ASSUME NEW e \in TrieEvents(T) PROVE IsEvent(e) /\ e.place[1] = 1
  <2>1. e.place[1] = 1
      BY TrieShape
  <2>2. PICK i \in Prose(T) : \E k \in DOMAIN T[i].signals : e = TrieEvent(T, i, k)
      BY TrieShape
  <2> QED BY <2>1, <2>2 DEF TrieEvent, Ev, IsEvent
<1>2. ASSUME NEW e \in ScanPatterns(T) PROVE IsEvent(e) /\ e.place[1] = 2
  <2>1. e.place[1] = 2
      BY PatternShape
  <2>2. PICK i \in Prose(T), k \in DOMAIN Patterns, s \in 1..2 : e = PatternEvent(T, i, k, s)
      BY PatternShape
  <2> QED BY <2>1, <2>2 DEF PatternEvent, Ev, IsEvent
<1>3. ASSUME NEW e \in CoCaptures(T) PROVE IsEvent(e) /\ e.place[1] = 3
  <2>1. PICK q \in Asked(T) : e = Answer0(T, NextAssistantStart(T, q))
      BY AnswerShape
  <2> QED BY <2>1 DEF Answer0, Ev, IsEvent
<1> QED BY <1>1, <1>2, <1>3, CandidatesListed, CandidatesAnswer DEF InOrder, Candidates0

LEMMA ClassifiedTells ==
    ASSUME NEW T, NEW E, NEW n, InOrder(E, T, n)
    PROVE  /\ InOrder(Classified(T, E), T, n)
           /\ \A e \in E : Tells(ClassifyEvent(T, e), e)
<1> DEFINE f == [e \in E |-> ClassifyEvent(T, e)]
<1>1. \A e \in E : f[e] = ClassifyEvent(T, e)
    OBVIOUS
<1>2. Classified(T, E) = {f[e] : e \in E}
    BY <1>1 DEF Classified
<1>3. ASSUME NEW e \in E PROVE Tells(f[e], e) /\ IsEvent(f[e])
  <2>1. IsEvent(e)
      BY DEF InOrder
  <2>2. f[e] = e \/ \E t : f[e] = TypedAs(e, t)
      BY <1>1 DEF ClassifyEvent, TypedAs
  <2>3. Tells(e, e)
      BY DEF Tells
  <2> QED BY <2>1, <2>2, <2>3, RetoldTells
<1> HIDE DEF f
<1>4. InOrder({f[e] : e \in E}, T, n)
    BY <1>3, RetoldInOrder
<1> QED BY <1>1, <1>2, <1>3, <1>4

\* What the head makes of one of the candidates.
RetypedOr(x, E, e) == IF e \in Scored(x, E) /\ LabelOf(x, e) # "NOISE" THEN Retyped(x, e) ELSE e

LEMMA RetypedTells ==
    ASSUME NEW x, NEW T, NEW E, NEW n, InOrder(E, T, n)
    PROVE  /\ InOrder(RetypedInPlace(x, E), T, n) /\ InOrder(Kept(x, E), T, n)
           /\ \A e \in E : /\ RetypedOr(x, E, e) \in RetypedInPlace(x, E)
                           /\ Tells(RetypedOr(x, E, e), e)
                           /\ RetypedOr(x, E, e) = e \/ "head" \in RetypedOr(x, E, e).by
<1> DEFINE f == [e \in E |-> RetypedOr(x, E, e)]
<1>1. \A e \in E : f[e] = RetypedOr(x, E, e)
    OBVIOUS
<1>2. RetypedInPlace(x, E) = {f[e] : e \in E}
    BY <1>1 DEF RetypedInPlace, RetypedOr
<1>3. ASSUME NEW e \in E PROVE Tells(f[e], e) /\ IsEvent(f[e]) /\ (f[e] = e \/ "head" \in f[e].by)
  <2>1. IsEvent(e)
      BY DEF InOrder
  <2>2. f[e] = e \/ \E t : f[e] = FoundBy(SureOf(TypedAs(e, t), HeadSure), {"head"})
      BY <1>1 DEF RetypedOr, Retyped, FoundBy, SureOf, TypedAs
  <2>3. Tells(e, e)
      BY DEF Tells
  <2>4. ASSUME NEW t, f[e] = FoundBy(SureOf(TypedAs(e, t), HeadSure), {"head"})
        PROVE  Tells(f[e], e) /\ IsEvent(f[e]) /\ "head" \in f[e].by
    <3> DEFINE c == TypedAs(e, t)
               d == SureOf(c, HeadSure)
    <3>1. Tells(c, e) /\ IsEvent(c)
        BY <2>1, RetoldTells
    <3> HIDE DEF c
    <3>2. Tells(d, c) /\ IsEvent(d)
        BY <3>1, RetoldTells
    <3>3. f[e] = FoundBy(d, {"head"})
        BY <2>4 DEF c
    <3> HIDE DEF d
    <3>4. Tells(FoundBy(d, {"head"}), d) /\ IsEvent(FoundBy(d, {"head"}))
        BY <3>2, RetoldTells
    <3>5. "head" \in FoundBy(d, {"head"}).by
        BY <3>2, RetoldTells
    <3> QED BY <3>1, <3>2, <3>3, <3>4, <3>5, TellsOn
  <2> QED BY <2>1, <2>2, <2>3, <2>4
<1> HIDE DEF f
<1>4. InOrder({f[e] : e \in E}, T, n)
    BY <1>3, RetoldInOrder
<1>5. \A e \in E : f[e] \in RetypedInPlace(x, E)
    BY <1>2
<1>6. Kept(x, E) \in SUBSET RetypedInPlace(x, E)
    BY DEF Kept
<1>7. InOrder(RetypedInPlace(x, E), T, n) /\ InOrder(Kept(x, E), T, n)
    BY <1>2, <1>4, <1>6, PartInOrder
<1> QED BY <1>1, <1>3, <1>5, <1>7

LEMMA CrossReferenceTells ==
    ASSUME NEW T, NEW E, NEW n, InOrder(E, T, n), NEW diff
    PROVE  /\ InOrder(CrossReference(T, E, diff), T, n)
           /\ \A e \in E : \E d \in CrossReference(T, E, diff) :
                  Tells(d, e) /\ d.type = e.type /\ (e.type \notin Abandoned => d = e)
           /\ \A d \in CrossReference(T, E, diff) : \E e \in E : Tells(d, e) /\ d.type = e.type /\ d.sure = e.sure
<1> DEFINE f == [e \in E |-> IF e.type \in Abandoned /\ \E i \in e.from : T[i].path \in Range(diff)
                             THEN [e EXCEPT !.by = @ \cup {"git"}] ELSE e]
<1>1. \A e \in E : f[e] = IF e.type \in Abandoned /\ \E i \in e.from : T[i].path \in Range(diff)
                          THEN [e EXCEPT !.by = @ \cup {"git"}] ELSE e
    OBVIOUS
<1>2. CrossReference(T, E, diff) = {f[e] : e \in E}
    BY <1>1 DEF CrossReference
<1>3. ASSUME NEW e \in E
      PROVE  /\ Tells(f[e], e) /\ IsEvent(f[e]) /\ f[e].type = e.type /\ f[e].sure = e.sure
             /\ e.type \notin Abandoned => f[e] = e
  <2>1. IsEvent(e)
      BY DEF InOrder
  <2>2. f[e] = e \/ f[e] = FoundBy(e, {"git"})
      BY <1>1 DEF FoundBy
  <2>3. e.type \notin Abandoned => f[e] = e
      BY <1>1
  <2>4. Tells(e, e)
      BY DEF Tells
  <2>5. /\ Tells(FoundBy(e, {"git"}), e) /\ IsEvent(FoundBy(e, {"git"}))
        /\ FoundBy(e, {"git"}).type = e.type /\ FoundBy(e, {"git"}).sure = e.sure
      BY <2>1, RetoldTells
  <2> HIDE DEF f
  <2> QED BY <2>1, <2>2, <2>3, <2>4, <2>5
<1> HIDE DEF f
<1>4. InOrder({f[e] : e \in E}, T, n)
    BY <1>3, RetoldInOrder
<1> QED BY <1>2, <1>3, <1>4

\* What is added whatever the mode: mentions of files, schema decisions, the diff.
MentionOf(T, i) ==
    [place |-> <<4, i, 1, 1>>, type |-> "COMPONENT_STATUS", from |-> {i}, who |-> "inferred_from_code",
     role |-> "assistant", sure |-> 0, by |-> {"file_mention"},
     what |-> <<T[i].path, IF "write" \in Verbs(T, i) THEN "modified" ELSE "referenced">>]
DecisionOf(T, i, k) ==
    [place |-> <<5, i, k, 1>>, type |-> "DECISION", from |-> {i}, who |-> SpokenBy(T[i].role),
     role |-> T[i].role, sure |-> 75, by |-> {"schema_ddl"}, what |-> Decided(T[i].lines, k)]
ChangeOf(diff, k) ==
    [place |-> <<6, k, 1, 1>>, type |-> "COMPONENT_STATUS", from |-> {}, who |-> "", role |-> "",
     sure |-> 0, by |-> {"git"}, what |-> <<diff[k], "in_flux">>]
FactOf(x, i) ==
    [place |-> <<1, i, 1, 1>>, type |-> Typed(BroadLabel(x, i), x.sentences[i].marks), from |-> {i},
     who |-> SpokenBy(x.sentences[i].role), role |-> x.sentences[i].role, sure |-> HeadSure,
     by |-> {"head"}, what |-> <<>>]

LEMMA SayingOf ==
    ASSUME NEW place, NEW type, NEW from, NEW who, NEW role, NEW sure, NEW by, NEW what
    PROVE  Saying(Ev(place, type, from, who, role, sure, by), what) =
               [place |-> place, type |-> type, from |-> from, who |-> who, role |-> role,
                sure |-> sure, by |-> by, what |-> what]
BY DEF Saying, Ev

LEMMA MentionsAre ==
    ASSUME NEW T
    PROVE  FileMentions(T) = {MentionOf(T, i) :
                i \in {i \in DOMAIN T : Named(T, i) /\ Verbs(T, i) # {} /\ ~ReportedBefore(T, i)}}
<1> DEFINE M(i) == Saying(Ev(<<4, i, 1, 1>>, "COMPONENT_STATUS", {i}, "inferred_from_code", "assistant", 0,
                         {"file_mention"}),
                      <<T[i].path, IF "write" \in Verbs(T, i) THEN "modified" ELSE "referenced">>)
<1>1. ASSUME NEW i PROVE M(i) = MentionOf(T, i)
  <2> DEFINE place == <<4, i, 1, 1>>
             type  == "COMPONENT_STATUS"
             from  == {i}
             who   == "inferred_from_code"
             role  == "assistant"
             sure  == 0
             by    == {"file_mention"}
             what  == <<T[i].path, IF "write" \in Verbs(T, i) THEN "modified" ELSE "referenced">>
  <2> SUFFICES Saying(Ev(place, type, from, who, role, sure, by), what) =
                   [place |-> place, type |-> type, from |-> from, who |-> who, role |-> role,
                    sure |-> sure, by |-> by, what |-> what]
      BY DEF MentionOf
  <2> HIDE DEF place, type, from, who, role, sure, by, what
  <2> QED BY SayingOf
<1>2. FileMentions(T) = {M(i) : i \in {i \in DOMAIN T : Named(T, i) /\ Verbs(T, i) # {} /\ ~ReportedBefore(T, i)}}
    BY DEF FileMentions
<1> HIDE DEF M
<1> QED BY <1>1, <1>2

LEMMA ChangesAre ==
    ASSUME NEW diff
    PROVE  GitEvents(diff) = {ChangeOf(diff, k) : k \in DOMAIN diff}
<1> DEFINE C(k) == Saying(Ev(<<6, k, 1, 1>>, "COMPONENT_STATUS", {}, "", "", 0, {"git"}), <<diff[k], "in_flux">>)
<1>1. ASSUME NEW k PROVE C(k) = ChangeOf(diff, k)
  <2> DEFINE place == <<6, k, 1, 1>>
             type  == "COMPONENT_STATUS"
             from  == {}
             who   == ""
             role  == ""
             sure  == 0
             by    == {"git"}
             what  == <<diff[k], "in_flux">>
  <2> SUFFICES Saying(Ev(place, type, from, who, role, sure, by), what) =
                   [place |-> place, type |-> type, from |-> from, who |-> who, role |-> role,
                    sure |-> sure, by |-> by, what |-> what]
      BY DEF ChangeOf
  <2> HIDE DEF place, type, from, who, role, sure, by, what
  <2> QED BY SayingOf
<1>2. GitEvents(diff) = {C(k) : k \in DOMAIN diff}
    BY DEF GitEvents
<1> HIDE DEF C
<1> QED BY <1>1, <1>2

\* The lines of DDL that decide something, and which of two comes first.
SchemaLines(T) == UNION {{<<i, k>> : k \in Deciding(T[i].lines)} : i \in SchemaBlocks(T)}
SaidBefore(T, v, w) ==
    /\ v[1] < w[1] \/ (v[1] = w[1] /\ v[2] < w[2])
    /\ Decided(T[v[1]].lines, v[2]) = Decided(T[w[1]].lines, w[2])

LEMMA DecisionsAre ==
    ASSUME NEW T
    PROVE  SchemaDecisions(T) = {DecisionOf(T, w[1], w[2]) :
                w \in {w \in SchemaLines(T) : \A v \in SchemaLines(T) : ~SaidBefore(T, v, w)}}
<1> DEFINE D(i, k) == Saying(Ev(<<5, i, k, 1>>, "DECISION", {i}, SpokenBy(T[i].role), T[i].role, 75, {"schema_ddl"}),
                         Decided(T[i].lines, k))
<1>1. ASSUME NEW i, NEW k PROVE D(i, k) = DecisionOf(T, i, k)
  <2> DEFINE place == <<5, i, k, 1>>
             type  == "DECISION"
             from  == {i}
             who   == SpokenBy(T[i].role)
             role  == T[i].role
             sure  == 75
             by    == {"schema_ddl"}
             what  == Decided(T[i].lines, k)
  <2> SUFFICES Saying(Ev(place, type, from, who, role, sure, by), what) =
                   [place |-> place, type |-> type, from |-> from, who |-> who, role |-> role,
                    sure |-> sure, by |-> by, what |-> what]
      BY DEF DecisionOf
  <2> HIDE DEF place, type, from, who, role, sure, by, what
  <2> QED BY SayingOf
<1>2. SchemaDecisions(T) = {D(w[1], w[2]) :
                w \in {w \in SchemaLines(T) : \A v \in SchemaLines(T) : ~SaidBefore(T, v, w)}}
    BY DEF SchemaDecisions, SchemaLines, SaidBefore
<1> HIDE DEF D
<1> QED BY <1>1, <1>2

\* What the head tells of each sentence, the first that says it.
Telling(x) == {i \in BroadCandidates(x.sentences) : BroadLabel(x, i) # "NOISE"}
Fact(x, i) == HashTyped(BroadLabel(x, i), x.sentences[i])

LEMMA FactsAre ==
    ASSUME NEW x
    PROVE  ViaHead(x) = {FactOf(x, i) :
                i \in {i \in Telling(x) : \A j \in Telling(x) : j < i => Fact(x, j) # Fact(x, i)}}
BY DEF ViaHead, Telling, Fact, FactOf, Ev

LEMMA FactsAdded ==
    ASSUME NEW x, IsTranscript(x.sentences)
    PROVE  Additions(ViaHead(x), x.sentences, 1)
<1> DEFINE I == {i \in Telling(x) : \A j \in Telling(x) : j < i => Fact(x, j) # Fact(x, i)}
<1>1. ViaHead(x) = {FactOf(x, i) : i \in I}
    BY FactsAre
<1>2. I \subseteq DOMAIN x.sentences
    BY DEF Telling, BroadCandidates, Prose
<1>3. ASSUME NEW i \in DOMAIN x.sentences
      PROVE  /\ IsEvent(FactOf(x, i)) /\ FactOf(x, i).place = <<1, i, 1, 1>>
             /\ FactOf(x, i).from \subseteq DOMAIN x.sentences /\ FactOf(x, i).who # CoAuthority
  <2> QED BY DEF FactOf, IsEvent, SpokenBy, CoAuthority
<1> HIDE DEF I
<1> QED BY <1>1, <1>2, <1>3 DEF Additions

LEMMA MentionsAdded ==
    ASSUME NEW T, IsTranscript(T)
    PROVE  Additions(FileMentions(T), T, 4)
<1> DEFINE I == {i \in DOMAIN T : Named(T, i) /\ Verbs(T, i) # {} /\ ~ReportedBefore(T, i)}
<1>1. FileMentions(T) = {MentionOf(T, i) : i \in I}
    BY MentionsAre
<1>2. ASSUME NEW i \in I
      PROVE  /\ IsEvent(MentionOf(T, i)) /\ MentionOf(T, i).place = <<4, i, 1, 1>>
             /\ MentionOf(T, i).from \subseteq DOMAIN T /\ MentionOf(T, i).who # CoAuthority
  <2> QED BY DEF MentionOf, IsEvent, CoAuthority
<1> HIDE DEF I
<1> QED BY <1>1, <1>2 DEF Additions

LEMMA ChangesAdded ==
    ASSUME NEW T, NEW diff
    PROVE  Additions(GitEvents(diff), T, 6)
<1>1. ASSUME NEW k
      PROVE  /\ IsEvent(ChangeOf(diff, k)) /\ ChangeOf(diff, k).place = <<6, k, 1, 1>>
             /\ ChangeOf(diff, k).from \subseteq DOMAIN T /\ ChangeOf(diff, k).who # CoAuthority
  <2> QED BY DEF ChangeOf, IsEvent, CoAuthority
<1> QED BY <1>1, ChangesAre DEF Additions

LEMMA DecisionsAdded ==
    ASSUME NEW T, IsTranscript(T)
    PROVE  Additions(SchemaDecisions(T), T, 5)
<1> DEFINE W == {w \in SchemaLines(T) : \A v \in SchemaLines(T) : ~SaidBefore(T, v, w)}
<1>1. SchemaDecisions(T) = {DecisionOf(T, w[1], w[2]) : w \in W}
    BY DecisionsAre
<1>2. ASSUME NEW w \in W
      PROVE  w = <<w[1], w[2]>> /\ w[1] \in DOMAIN T
    BY DEF SchemaLines, SchemaBlocks
<1>3. ASSUME NEW i \in DOMAIN T, NEW k
      PROVE  /\ IsEvent(DecisionOf(T, i, k)) /\ DecisionOf(T, i, k).place = <<5, i, k, 1>>
             /\ DecisionOf(T, i, k).from \subseteq DOMAIN T /\ DecisionOf(T, i, k).who # CoAuthority
  <2> QED BY DEF DecisionOf, IsEvent, SpokenBy, CoAuthority
<1> HIDE DEF W
<1>4. ASSUME NEW v \in W, NEW w \in W, DecisionOf(T, v[1], v[2]).place = DecisionOf(T, w[1], w[2]).place
      PROVE  DecisionOf(T, v[1], v[2]) = DecisionOf(T, w[1], w[2])
  <2>1. v[1] = w[1] /\ v[2] = w[2]
      BY <1>2, <1>3, <1>4
  <2> QED BY <2>1
<1> QED BY <1>1, <1>2, <1>3, <1>4 DEF Additions

\* No candidate is surer than can be, and user or assistant said it.
LEMMA CandidateSpeaks ==
    ASSUME NEW T, IsTranscript(T), NEW e \in Candidates0(T)
    PROVE  e.sure \in 0..100 /\ e.role \in Roles
<1>1. \A i \in Prose(T) : T[i].role \in Roles
    BY DEF Prose, IsTranscript, IsSentence
<1>2. ASSUME e \in TrieEvents(T) PROVE e.sure \in 0..100 /\ e.role \in Roles
    BY <1>1, <1>2, TrieShape
<1>3. ASSUME e \in ScanPatterns(T) PROVE e.sure \in 0..100 /\ e.role \in Roles
    BY <1>1, <1>3, PatternShape
<1>4. ASSUME e \in CoCaptures(T) PROVE e.sure \in 0..100 /\ e.role \in Roles
    BY <1>4, AnswerShape DEF Roles
<1> QED BY <1>2, <1>3, <1>4 DEF Candidates0

\* A hard rule says so, or comes from a user who says "must", or is beyond doubt.
Forceful(T, e) ==
    \/ e.sure = 100
    \/ "hard!" \in Seen(T, e)
    \/ e.role = "user" /\ "deontic" \in Seen(T, e)

LEMMA ForcefulOn ==
    ASSUME NEW T, NEW d, NEW e, Tells(d, e), d.sure = e.sure, Forceful(T, e)
    PROVE  Forceful(T, d)
BY DEF Tells, Forceful, Seen

LEMMA RulesCap ==
    ASSUME NEW T, IsTranscript(T), NEW e \in Candidates0(T), ClassifyEvent(T, e).type = "CONSTRAINT_HARD"
    PROVE  Forceful(T, ClassifyEvent(T, e))
<1> DEFINE d == ClassifyEvent(T, e)
<1>1. IsEvent(e)
    BY CandidatesInOrder DEF InOrder
<1>2. e.sure \in 0..100 /\ e.role \in Roles
    BY CandidateSpeaks
<1>3. Tells(d, e) /\ d.sure = e.sure
  <2>1. d = e \/ \E t : d = TypedAs(e, t)
      BY DEF ClassifyEvent, TypedAs
  <2>2. Tells(e, e)
      BY DEF Tells
  <2> HIDE DEF d
  <2> QED BY <1>1, <2>1, <2>2, RetoldTells
<1>4. CASE e.type \notin {"CONSTRAINT_HARD", "CONSTRAINT_SOFT"}
    BY <1>4 DEF ClassifyEvent
<1>5. CASE e.type \in {"CONSTRAINT_HARD", "CONSTRAINT_SOFT"} /\ "hard!" \in Seen(T, e)
    BY <1>3, <1>5, ForcefulOn DEF Forceful
<1>6. CASE e.type \in {"CONSTRAINT_HARD", "CONSTRAINT_SOFT"} /\ "hard!" \notin Seen(T, e)
  <2> DEFINE Rule == IF "soft!" \in Seen(T, e) THEN "CONSTRAINT_SOFT"
                     ELSE IF ForceOf(T, e) >= HardThreshold THEN "CONSTRAINT_HARD" ELSE "CONSTRAINT_SOFT"
  <2>1. d = TypedAs(e, Rule)
      BY <1>6 DEF ClassifyEvent, TypedAs
  <2>2. d.type = Rule
    <3> HIDE DEF Rule, d
    <3> QED BY <1>1, <2>1, RetoldTells
  <2>3. ForceOf(T, e) >= HardThreshold
      BY <2>2
  <2>4. Bonus(T, e) \in Int
      BY DEF Bonus
  <2>5. ~Capped80(T, e)
      BY <1>2, <2>3, <2>4 DEF ForceOf, Lesser, HardThreshold
  <2>6. e.sure = 100 \/ (e.role = "user" /\ "deontic" \in Seen(T, e))
      BY <1>2, <2>5 DEF Capped80, Roles
  <2> QED BY <1>3, <2>6, ForcefulOn DEF Forceful
<1> QED BY <1>4, <1>5, <1>6

\* No fact is told twice.
LEMMA FactsDiffer ==
    ASSUME NEW x, IsTranscript(x.sentences), NEW d \in ViaHead(x), NEW e \in ViaHead(x), d # e,
           d.type = e.type, NEW i \in d.from, NEW j \in e.from
    PROVE  x.sentences[i].says # x.sentences[j].says
<1> DEFINE I == {k \in Telling(x) : \A l \in Telling(x) : l < k => Fact(x, l) # Fact(x, k)}
<1>1. PICK p \in I : d = FactOf(x, p)
    BY FactsAre
<1>2. PICK q \in I : e = FactOf(x, q)
    BY FactsAre
<1>3. p # q /\ p \in Nat /\ q \in Nat /\ p \in Telling(x) /\ q \in Telling(x)
    BY <1>1, <1>2 DEF Telling, BroadCandidates, Prose, IsTranscript
<1>4. Fact(x, p) # Fact(x, q)
  <2>1. p < q \/ q < p
      BY <1>3
  <2> QED BY <1>1, <1>2, <1>3, <2>1
<1>5. /\ i = p /\ j = q
      /\ Typed(BroadLabel(x, p), x.sentences[p].marks) = Typed(BroadLabel(x, q), x.sentences[q].marks)
    BY <1>1, <1>2 DEF FactOf
<1> QED BY <1>4, <1>5 DEF Fact, HashTyped

\* A file is mentioned by the first sentence that names it beside a verb.
LEMMA MentionFound ==
    ASSUME NEW T, IsTranscript(T), NEW i \in DOMAIN T, Named(T, i), Verbs(T, i) # {}
    PROVE  \E e \in FileMentions(T) :
               e.by = {"file_mention"} /\ e.what[1] = T[i].path /\ e.type \notin Abandoned
<1> DEFINE S == {j \in DOMAIN T : Named(T, j) /\ T[j].path = T[i].path /\ Verbs(T, j) # {}}
<1>1. DOMAIN T = 1..Len(T) /\ Len(T) \in Nat
    BY DEF IsTranscript
<1>2. S \in SUBSET Nat /\ i \in S
    BY <1>1
<1>3. PICK m \in S : \A j \in S : m <= j
  <2> HIDE DEF S
  <2> QED BY <1>2, LeastExists
<1>4. ~ReportedBefore(T, m)
  <2> SUFFICES ASSUME NEW j \in 1..(m - 1), Named(T, j), T[j].path = T[m].path, Verbs(T, j) # {} PROVE FALSE
      BY DEF ReportedBefore
  <2>1. j \in S /\ j < m
      BY <1>1, <1>3
  <2> QED BY <1>1, <1>3, <2>1
<1>5. MentionOf(T, m) \in FileMentions(T)
    BY <1>3, <1>4, MentionsAre
<1>6. /\ MentionOf(T, m).by = {"file_mention"} /\ MentionOf(T, m).what[1] = T[i].path
      /\ MentionOf(T, m).type \notin Abandoned
    BY <1>3 DEF MentionOf, Abandoned
<1> QED BY <1>5, <1>6

\* The table a line belongs to is the last one before it.
LEMMA TableIs ==
    ASSUME NEW ddl, ddl \in Seq([kind : STRING, name : STRING, key : STRING]), NEW t \in DOMAIN ddl,
           NEW k \in DOMAIN ddl, ddl[t].kind = "table", t < k,
           \A l \in (t + 1)..(k - 1) : ddl[l].kind # "table"
    PROVE  TableOf(ddl, k) = t
<1> DEFINE S == {0} \cup {l \in 1..(k - 1) : ddl[l].kind = "table"}
<1>1. t \in Nat /\ k \in Nat /\ t >= 1
    BY DOMAIN ddl = 1..Len(ddl) /\ Len(ddl) \in Nat
<1>2. t \in S /\ \A l \in S : l \in Nat /\ l <= t
  <2>1. ASSUME NEW l \in S PROVE l \in Nat /\ l <= t
    <3>1. l = 0 \/ (l \in 1..(k - 1) /\ ddl[l].kind = "table")
        OBVIOUS
    <3>2. l \notin (t + 1)..(k - 1)
        BY <1>1, <3>1
    <3> QED BY <1>1, <3>1, <3>2
  <2> QED BY <1>1, <2>1
<1>3. TableOf(ddl, k) = Max(S)
    BY DEF TableOf
<1> HIDE DEF S
<1> QED BY <1>1, <1>2, <1>3 DEF Max

\* A key is decided for its table by the first line that says so.
LEMMA KeyFound ==
    ASSUME NEW T, IsTranscript(T), NEW i \in SchemaBlocks(T), NEW t \in DOMAIN T[i].lines,
           NEW k \in DOMAIN T[i].lines, T[i].lines[t].kind = "table", T[i].lines[k].kind = "pk", t < k,
           \A l \in (t + 1)..(k - 1) : T[i].lines[l].kind \notin {"table", "pk"}
    PROVE  \E e \in SchemaDecisions(T) :
               e.what = <<T[i].lines[t].name, "pk", T[i].lines[k].name>> /\ e.type \notin Abandoned
<1> DEFINE key == <<T[i].lines[t].name, "pk", T[i].lines[k].name>>
           S   == {w \in SchemaLines(T) : Decided(T[w[1]].lines, w[2]) = key}
<1>1. ASSUME NEW j \in DOMAIN T
      PROVE  /\ T[j].lines \in Seq([kind : STRING, name : STRING, key : STRING]) /\ Len(T[j].lines) \in Nat
             /\ DOMAIN T[j].lines = 1..Len(T[j].lines)
    BY DEF IsTranscript, IsSentence
<1>2. i \in DOMAIN T /\ DOMAIN T = 1..Len(T) /\ Len(T) \in Nat
    BY DEF SchemaBlocks, IsTranscript
<1>3. TableOf(T[i].lines, k) = t
    BY <1>1, <1>2, TableIs
<1>4. k \in Deciding(T[i].lines)
    BY <1>3 DEF Deciding, DoneReset
<1>5. Decided(T[i].lines, k) = key
    BY <1>1, <1>2, <1>3 DEF Decided
<1>6. <<i, k>> \in S
    BY <1>4, <1>5 DEF SchemaLines
<1>7. ASSUME NEW w \in S PROVE w = <<w[1], w[2]>> /\ w[1] \in Nat /\ w[2] \in Nat
  <2>1. PICK j \in SchemaBlocks(T) : w \in {<<j, l>> : l \in Deciding(T[j].lines)}
      BY DEF SchemaLines
  <2>2. PICK l \in Deciding(T[j].lines) : w = <<j, l>>
      BY <2>1
  <2>3. j \in DOMAIN T /\ l \in DOMAIN T[j].lines
      BY DEF SchemaBlocks, Deciding
  <2> QED BY <1>1, <1>2, <2>2, <2>3
<1> DEFINE P == {w[1] : w \in S}
<1>8. PICK p \in P : \A q \in P : p <= q
  <2>1. P \in SUBSET Nat /\ P # {}
      BY <1>6, <1>7
  <2> HIDE DEF P
  <2> QED BY <2>1, LeastExists
<1> DEFINE L == {w[2] : w \in {w \in S : w[1] = p}}
<1>9. PICK m \in L : \A l \in L : m <= l
  <2>1. L \in SUBSET Nat /\ L # {}
      BY <1>7, <1>8
  <2> HIDE DEF L
  <2> QED BY <2>1, LeastExists
<1>10. PICK w \in S : w[1] = p /\ w[2] = m
    BY <1>9
<1>11. ASSUME NEW v \in SchemaLines(T) PROVE ~SaidBefore(T, v, w)
  <2> SUFFICES ASSUME SaidBefore(T, v, w) PROVE FALSE
      OBVIOUS
  <2>1. v \in S
      BY <1>10 DEF SaidBefore
  <2>2. v[1] \in P /\ (v[1] = p => v[2] \in L)
      BY <2>1
  <2>3. p <= v[1] /\ (v[1] = p => m <= v[2])
      BY <1>8, <1>9, <2>2
  <2>4. v[1] < w[1] \/ (v[1] = w[1] /\ v[2] < w[2])
      BY DEF SaidBefore
  <2> HIDE DEF S, P, L
  <2> QED BY <1>7, <1>10, <2>1, <2>3, <2>4
<1>12. DecisionOf(T, w[1], w[2]) \in SchemaDecisions(T)
    BY <1>10, <1>11, DecisionsAre
<1>13. DecisionOf(T, w[1], w[2]).what = key /\ DecisionOf(T, w[1], w[2]).type \notin Abandoned
    BY <1>10 DEF DecisionOf, Abandoned
<1> QED BY <1>12, <1>13

-----------------------------------------------------------------------------
\* The extraction.

\* What the head and the rules leave of the candidates.
Sifted(E) ==
    LET T == extraction.sentences
        C == Candidates0(T)
    IN  \/ ~Filter /\ (Broad => HadOutage) /\ E = Classified(T, C)
        \/ Filter /\ HadOutage /\ E = Classified(T, RetypedInPlace(extraction, C))
        \/ Filter /\ ~HadOutage /\ E = Kept(extraction, C)

\* What is left, with the mentions and the decisions.
WithRest(E) == E \cup FileMentions(extraction.sentences) \cup SchemaDecisions(extraction.sentences)
Reported(E) == CrossReference(extraction.sentences, WithRest(E), extraction.diff) \cup GitEvents(extraction.diff)

AtStage ==
    LET C == Candidates0(extraction.sentences)
    IN  /\ stage = "start" => events = {}
        /\ stage = "collect" => Broad /\ HadOutage /\ events = {}
        /\ stage = "judge" => Filter /\ events = C
        /\ stage = "classify" =>
               \/ ~Filter /\ (Broad => HadOutage) /\ events = C
               \/ Filter /\ HadOutage /\ events = RetypedInPlace(extraction, C)
        /\ stage = "add" => Sifted(events)
        /\ stage = "raised" => events = {}
        /\ stage = "done" =>
               \/ Broad /\ ~HadOutage /\ events = WithRest(ViaHead(extraction))
               \/ \E E : Sifted(E) /\ events = Reported(E)

ExtractionInv ==
    /\ stage \in {"start", "collect", "judge", "classify", "add", "done", "raised"}
    /\ IsTranscript(extraction.sentences)
    /\ AtStage

LEMMA StartsExtraction ==
    ASSUME NEW Transcripts, \A x \in Transcripts : IsTranscript(x.sentences), ExtractionInit(Transcripts)
    PROVE  ExtractionInv
BY DEF ExtractionInit, ExtractionInv, AtStage

LEMMA JudgeSentencesKeeps == ExtractionInv /\ JudgeSentences => ExtractionInv'
<1> SUFFICES ASSUME ExtractionInv, JudgeSentences PROVE ExtractionInv'
    OBVIOUS
<1>1. extraction' = extraction /\ Broad /\ stage = "start" /\ events = {}
    BY DEF JudgeSentences, ExtractionInv, AtStage
<1>2. ~Filter
    BY <1>1 DEF Broad, Filter
<1>3. (HadOutage' <=> HadOutage) /\ (Broad' <=> Broad) /\ (Filter' <=> Filter)
    BY <1>1 DEF HadOutage, Broad, Filter
<1>4. CASE HadOutage
  <2>1. stage' = "collect" /\ events' = {}
      BY <1>1, <1>2, <1>4 DEF JudgeSentences, HadOutage
  <2> QED BY <1>1, <1>3, <1>4, <2>1 DEF ExtractionInv, AtStage
<1>5. CASE ~HadOutage
  <2>1. stage' = "done" /\ events' = WithRest(ViaHead(extraction))
      BY <1>1, <1>5 DEF JudgeSentences, HadOutage, WithRest
  <2>2. WithRest(ViaHead(extraction))' = WithRest(ViaHead(extraction))
      BY <1>1 DEF WithRest
  <2> QED BY <1>1, <1>3, <1>5, <2>1, <2>2 DEF ExtractionInv, AtStage
<1> QED BY <1>4, <1>5

LEMMA CollectKeeps == ExtractionInv /\ Collect => ExtractionInv'
<1> SUFFICES ASSUME ExtractionInv, Collect PROVE ExtractionInv'
    OBVIOUS
<1>1. extraction' = extraction /\ events' = Candidates0(extraction.sentences)
    BY DEF Collect
<1>2. (HadOutage' <=> HadOutage) /\ (Broad' <=> Broad) /\ (Filter' <=> Filter)
    BY <1>1 DEF HadOutage, Broad, Filter
<1>3. Broad => HadOutage
    BY DEF Collect, ExtractionInv, AtStage
<1>4. CASE Filter
  <2>1. stage' = "judge"
      BY <1>4 DEF Collect
  <2> QED BY <1>1, <1>2, <1>4, <2>1 DEF ExtractionInv, AtStage
<1>5. CASE ~Filter
  <2>1. stage' = "classify"
      BY <1>5 DEF Collect
  <2> QED BY <1>1, <1>2, <1>3, <1>5, <2>1 DEF ExtractionInv, AtStage
<1> QED BY <1>4, <1>5

LEMMA JudgeCandidatesKeeps == ExtractionInv /\ JudgeCandidates => ExtractionInv'
<1> SUFFICES ASSUME ExtractionInv, JudgeCandidates PROVE ExtractionInv'
    OBVIOUS
<1>1. extraction' = extraction /\ Filter /\ events = Candidates0(extraction.sentences)
    BY DEF JudgeCandidates, ExtractionInv, AtStage
<1>2. (HadOutage' <=> HadOutage) /\ (Broad' <=> Broad) /\ (Filter' <=> Filter)
    BY <1>1 DEF HadOutage, Broad, Filter
<1>3. HadOutage <=> Outage(extraction, Cardinality(events))
    BY <1>1 DEF HadOutage, Broad, Filter
<1>4. CASE HadOutage
  <2>1. stage' = "classify" /\ events' = RetypedInPlace(extraction, events)
      BY <1>3, <1>4 DEF JudgeCandidates, GivenBack
  <2> QED BY <1>1, <1>2, <1>4, <2>1 DEF ExtractionInv, AtStage
<1>5. CASE ~HadOutage
  <2>1. stage' = "add" /\ events' = Kept(extraction, events)
      BY <1>3, <1>5 DEF JudgeCandidates
  <2>2. Sifted(events)'
      BY <1>1, <1>2, <1>5, <2>1 DEF Sifted
  <2> QED BY <1>1, <2>1, <2>2 DEF ExtractionInv, AtStage
<1> QED BY <1>4, <1>5

LEMMA HeadRaisesKeeps == ExtractionInv /\ HeadRaises => ExtractionInv'
BY DEF HeadRaises, ExtractionInv, AtStage

LEMMA ClassifyKeeps == ExtractionInv /\ Classify => ExtractionInv'
<1> SUFFICES ASSUME ExtractionInv, Classify PROVE ExtractionInv'
    OBVIOUS
<1>1. extraction' = extraction /\ stage' = "add" /\ events' = Classified(extraction.sentences, events)
    BY DEF Classify
<1>2. (HadOutage' <=> HadOutage) /\ (Broad' <=> Broad) /\ (Filter' <=> Filter)
    BY <1>1 DEF HadOutage, Broad, Filter
<1>3. \/ ~Filter /\ (Broad => HadOutage) /\ events = Candidates0(extraction.sentences)
      \/ Filter /\ HadOutage /\ events = RetypedInPlace(extraction, Candidates0(extraction.sentences))
    BY DEF Classify, ExtractionInv, AtStage
<1>4. Sifted(events)'
    BY <1>1, <1>2, <1>3 DEF Sifted
<1> QED BY <1>1, <1>4 DEF ExtractionInv, AtStage

LEMMA AddTheRestKeeps == ExtractionInv /\ AddTheRest => ExtractionInv'
<1> SUFFICES ASSUME ExtractionInv, AddTheRest PROVE ExtractionInv'
    OBVIOUS
<1>1. extraction' = extraction /\ stage' = "done" /\ events' = Reported(events) /\ Sifted(events)
    BY DEF AddTheRest, ExtractionInv, AtStage, Reported, WithRest
<1>2. (HadOutage' <=> HadOutage) /\ (Broad' <=> Broad) /\ (Filter' <=> Filter)
    BY <1>1 DEF HadOutage, Broad, Filter
<1>3. \A E : (Sifted(E)' <=> Sifted(E)) /\ Reported(E)' = Reported(E)
    BY <1>1, <1>2 DEF Sifted, Reported, WithRest
<1> QED BY <1>1, <1>3 DEF ExtractionInv, AtStage

LEMMA MoreInOrder ==
    ASSUME NEW E, NEW T, NEW m \in Nat, InOrder(E, T, m), NEW n \in Nat, m <= n
    PROVE  InOrder(E, T, n)
BY DEF InOrder

LEMMA FilledInOrder ==
    ASSUME IsTranscript(extraction.sentences), NEW E, InOrder(E, extraction.sentences, 3)
    PROVE  InOrder(WithRest(E), extraction.sentences, 5)
<1> DEFINE T == extraction.sentences
<1>1. InOrder(E \cup FileMentions(T), T, 4)
    BY MentionsAdded, AddedInOrder
<1> QED BY <1>1, DecisionsAdded, AddedInOrder DEF WithRest

LEMMA ReportedInOrder ==
    ASSUME IsTranscript(extraction.sentences), NEW E, InOrder(E, extraction.sentences, 3)
    PROVE  InOrder(Reported(E), extraction.sentences, 6)
<1> DEFINE T == extraction.sentences
<1>1. InOrder(CrossReference(T, WithRest(E), extraction.diff), T, 5)
    BY FilledInOrder, CrossReferenceTells
<1> QED BY <1>1, ChangesAdded, AddedInOrder DEF Reported

LEMMA JudgedInOrder ==
    ASSUME IsTranscript(extraction.sentences), NEW E, Sifted(E)
    PROVE  InOrder(E, extraction.sentences, 3)
<1> DEFINE T == extraction.sentences
           C == Candidates0(T)
<1>1. InOrder(C, T, 3)
    BY CandidatesInOrder
<1>2. InOrder(RetypedInPlace(extraction, C), T, 3) /\ InOrder(Kept(extraction, C), T, 3)
    BY <1>1, RetypedTells
<1>3. InOrder(Classified(T, C), T, 3) /\ InOrder(Classified(T, RetypedInPlace(extraction, C)), T, 3)
    BY <1>1, <1>2, ClassifiedTells
<1> QED BY <1>2, <1>3 DEF Sifted

\* At every stage the events are a list, and each reply stands in it once.
LEMMA EventsInOrder ==
    ASSUME ExtractionInv
    PROVE  InOrder(events, extraction.sentences, 6)
<1> DEFINE T == extraction.sentences
           C == Candidates0(T)
<1>1. IsTranscript(T)
    BY DEF ExtractionInv
<1>2. InOrder({}, T, 0)
    BY DEF InOrder, IsListing, AnswersOnce
<1>3. InOrder(C, T, 3) /\ InOrder(RetypedInPlace(extraction, C), T, 3)
    BY <1>1, CandidatesInOrder, RetypedTells
<1>4. ASSUME stage \in {"start", "collect", "raised"} PROVE InOrder(events, T, 6)
  <2>1. events = {}
      BY <1>4 DEF ExtractionInv, AtStage
  <2> QED BY <1>2, <2>1, MoreInOrder
<1>5. ASSUME stage \in {"judge", "classify"} PROVE InOrder(events, T, 6)
  <2>1. InOrder(events, T, 3)
      BY <1>3, <1>5 DEF ExtractionInv, AtStage
  <2> QED BY <2>1, MoreInOrder
<1>6. ASSUME stage = "add" PROVE InOrder(events, T, 6)
  <2>1. Sifted(events)
      BY <1>6 DEF ExtractionInv, AtStage
  <2>2. InOrder(events, T, 3)
      BY <1>1, <2>1, JudgedInOrder
  <2> QED BY <2>2, MoreInOrder
<1>7. ASSUME stage = "done" PROVE InOrder(events, T, 6)
  <2>1. CASE events = WithRest(ViaHead(extraction))
    <3>1. InOrder({} \cup ViaHead(extraction), T, 1)
        BY <1>1, <1>2, FactsAdded, AddedInOrder
    <3>2. InOrder(ViaHead(extraction), T, 3)
        BY <3>1, MoreInOrder
    <3>3. InOrder(events, T, 5)
        BY <1>1, <2>1, <3>2, FilledInOrder
    <3> QED BY <3>3, MoreInOrder
  <2>2. CASE \E E : Sifted(E) /\ events = Reported(E)
      BY <1>1, <2>2, JudgedInOrder, ReportedInOrder
  <2> QED BY <1>7, <2>1, <2>2 DEF ExtractionInv, AtStage
<1> QED BY <1>4, <1>5, <1>6, <1>7 DEF ExtractionInv

LEMMA TypeHolds == ExtractionInv => ExtractionTypeOK
<1> SUFFICES ASSUME ExtractionInv PROVE ExtractionTypeOK
    OBVIOUS
<1>1. \A s \in Range(extraction.sentences) : s.role \in Roles /\ s.marks \subseteq Marks
    BY DEF ExtractionInv, IsTranscript, IsSentence, Range
<1> QED BY <1>1, EventsInOrder DEF ExtractionInv, ExtractionTypeOK, InOrder, IsListing

LEMMA AnswersHold == ExtractionInv => OneAnswerPerReply
BY EventsInOrder, Zenon DEF InOrder, AnswersOnce, OneAnswerPerReply

\* What is reported at the end: what was filled in, and the diff.
LEMMA DoneIs ==
    ASSUME ExtractionInv, Done
    PROVE  \/ Broad /\ ~HadOutage /\ events = WithRest(ViaHead(extraction))
           \/ \E E : /\ Sifted(E) /\ events = Reported(E) /\ InOrder(WithRest(E), extraction.sentences, 5)
BY JudgedInOrder, FilledInOrder DEF ExtractionInv, AtStage, Done

\* What the git diff leaves alone is reported as it was found.
LEMMA FilledIsReported ==
    ASSUME ExtractionInv, Done, NEW e, e.type \notin Abandoned,
           e \in FileMentions(extraction.sentences) \cup SchemaDecisions(extraction.sentences)
    PROVE  e \in events
<1>1. \A E : e \in WithRest(E)
    BY DEF WithRest
<1>2. ASSUME NEW E, events = Reported(E), InOrder(WithRest(E), extraction.sentences, 5) PROVE e \in events
  <2>1. e \in CrossReference(extraction.sentences, WithRest(E), extraction.diff)
      BY <1>1, <1>2, CrossReferenceTells
  <2> QED BY <1>2, <2>1 DEF Reported
<1> QED BY <1>1, <1>2, DoneIs

LEMMA ForceHolds == ExtractionInv => RulesCarryForce
<1> SUFFICES ASSUME ExtractionInv, Done, extraction.mode = "legacy",
                    NEW d \in events, d.type = "CONSTRAINT_HARD"
             PROVE  Forceful(extraction.sentences, d)
    BY DEF RulesCarryForce, Forceful
<1> DEFINE T == extraction.sentences
<1>1. ~Filter /\ ~Broad /\ IsTranscript(T)
    BY DEF Filter, Broad, ExtractionInv
<1>2. PICK E : Sifted(E) /\ events = Reported(E) /\ InOrder(WithRest(E), T, 5)
    BY <1>1, DoneIs
<1>3. E = Classified(T, Candidates0(T))
    BY <1>1, <1>2 DEF Sifted
<1>4. d \notin GitEvents(extraction.diff)
  <2>1. \A k : ChangeOf(extraction.diff, k).type = "COMPONENT_STATUS"
      BY DEF ChangeOf
  <2> QED BY <2>1, ChangesAre
<1>5. d \in CrossReference(T, WithRest(E), extraction.diff)
    BY <1>2, <1>4 DEF Reported
<1>6. PICK e \in WithRest(E) : Tells(d, e) /\ d.type = e.type /\ d.sure = e.sure
  <2>1. \A c \in CrossReference(T, WithRest(E), extraction.diff) :
            \E e \in WithRest(E) : Tells(c, e) /\ c.type = e.type /\ c.sure = e.sure
      BY <1>2, CrossReferenceTells
  <2> QED BY <1>5, <2>1
<1>7. e \notin FileMentions(T)
    BY <1>6, MentionsAre DEF MentionOf
<1>8. e \notin SchemaDecisions(T)
    BY <1>6, DecisionsAre DEF DecisionOf
<1>9. PICK c \in Candidates0(T) : e = ClassifyEvent(T, c)
    BY <1>3, <1>6, <1>7, <1>8 DEF WithRest, Classified
<1>10. Forceful(T, e)
    BY <1>1, <1>6, <1>9, RulesCap
<1> QED BY <1>6, <1>10, ForcefulOn

LEMMA FactsHold == ExtractionInv => NoFactTwice
<1> SUFFICES ASSUME ExtractionInv, Done, Broad, ~HadOutage
             PROVE  \A d, e \in {e \in events : e.by = {"head"}} :
                        d # e /\ d.type = e.type =>
                            \A i \in d.from, j \in e.from :
                                extraction.sentences[i].says # extraction.sentences[j].says
    BY DEF NoFactTwice
<1> DEFINE T == extraction.sentences
<1>1. ~Filter /\ IsTranscript(T)
    BY DEF Filter, Broad, ExtractionInv
<1>2. events = WithRest(ViaHead(extraction))
    BY <1>1, DoneIs DEF Sifted
<1>3. \A e \in FileMentions(T) \cup SchemaDecisions(T) : e.by # {"head"}
    BY MentionsAre, DecisionsAre DEF MentionOf, DecisionOf
<1>4. \A e \in events : e.by = {"head"} => e \in ViaHead(extraction)
    BY <1>2, <1>3 DEF WithRest
<1> QED BY <1>1, <1>4, FactsDiffer

\* What the report tells of a candidate: the head or the rules have typed it.
LEMMA OutageHolds == ExtractionInv => OutageLosesNothing
<1> SUFFICES ASSUME ExtractionInv, Done, HadOutage, NEW c \in Candidates0(extraction.sentences)
             PROVE  \E d \in events :
                        /\ d.place = c.place /\ d.from = c.from /\ d.who = c.who /\ c.by \subseteq d.by
                        /\ "head" \notin d.by => d.type = ClassifyEvent(extraction.sentences, c).type
    BY DEF OutageLosesNothing
<1> DEFINE T == extraction.sentences
           C == Candidates0(T)
<1>1. PICK E : Sifted(E) /\ events = Reported(E) /\ InOrder(WithRest(E), T, 5)
    BY DoneIs
<1>2. InOrder(C, T, 3) /\ InOrder(RetypedInPlace(extraction, C), T, 3)
    BY CandidatesInOrder, RetypedTells DEF ExtractionInv
<1>3. \E e \in E : Tells(e, c) /\ ("head" \notin e.by => e.type = ClassifyEvent(T, c).type)
  <2>1. CASE E = Classified(T, C)
    <3>1. ClassifyEvent(T, c) \in E
        BY <2>1 DEF Classified
    <3> QED BY <1>2, <3>1, ClassifiedTells
  <2>2. CASE E = Classified(T, RetypedInPlace(extraction, C))
    <3> DEFINE r == RetypedOr(extraction, C, c)
    <3>1. /\ r \in RetypedInPlace(extraction, C) /\ Tells(r, c)
          /\ r = c \/ "head" \in r.by
        BY <1>2, RetypedTells
    <3> HIDE DEF r
    <3>2. ClassifyEvent(T, r) \in E /\ Tells(ClassifyEvent(T, r), r)
        BY <1>2, <2>2, <3>1, ClassifiedTells DEF Classified
    <3>3. Tells(ClassifyEvent(T, r), c)
        BY <3>1, <3>2, TellsOn
    <3>4. "head" \notin ClassifyEvent(T, r).by => r = c
        BY <3>1, <3>2 DEF Tells
    <3> QED BY <3>2, <3>3, <3>4
  <2> QED BY <1>1, <2>1, <2>2 DEF Sifted, Filter, Broad
<1>4. PICK e \in E : Tells(e, c) /\ ("head" \notin e.by => e.type = ClassifyEvent(T, c).type)
    BY <1>3
<1>5. e \in WithRest(E)
    BY DEF WithRest
<1>6. PICK d \in CrossReference(T, WithRest(E), extraction.diff) : Tells(d, e) /\ d.type = e.type
    BY <1>1, <1>5, CrossReferenceTells
<1>7. Tells(d, c)
    BY <1>4, <1>6, TellsOn
<1>8. "head" \notin d.by => d.type = ClassifyEvent(T, c).type
    BY <1>4, <1>6 DEF Tells
<1>9. d \in events
    BY <1>1, <1>6 DEF Reported
<1> QED BY <1>7, <1>8, <1>9 DEF Tells

LEMMA FilesHold == ExtractionInv => TouchedFilesAreReported
<1> SUFFICES ASSUME ExtractionInv, Done, NEW i \in DOMAIN extraction.sentences,
                    Named(extraction.sentences, i), Verbs(extraction.sentences, i) # {}
             PROVE  \E e \in events :
                        e.by = {"file_mention"} /\ e.what[1] = extraction.sentences[i].path
    BY DEF TouchedFilesAreReported
<1>1. PICK e \in FileMentions(extraction.sentences) :
          /\ e.by = {"file_mention"} /\ e.what[1] = extraction.sentences[i].path
          /\ e.type \notin Abandoned
    BY MentionFound DEF ExtractionInv
<1> QED BY <1>1, FilledIsReported

LEMMA KeysHold == ExtractionInv => TablesKeepTheirKeys
<1> SUFFICES ASSUME ExtractionInv, Done, NEW i \in DOMAIN extraction.sentences,
                    extraction.sentences[i].code, "illustrative" \notin extraction.sentences[i].marks,
                    NEW t \in DOMAIN extraction.sentences[i].lines,
                    NEW k \in DOMAIN extraction.sentences[i].lines,
                    extraction.sentences[i].lines[t].kind = "table",
                    extraction.sentences[i].lines[k].kind = "pk", t < k,
                    \A l \in (t + 1)..(k - 1) : extraction.sentences[i].lines[l].kind \notin {"table", "pk"}
             PROVE  \E e \in events :
                        e.what = <<extraction.sentences[i].lines[t].name, "pk",
                                   extraction.sentences[i].lines[k].name>>
    BY DEF TablesKeepTheirKeys
<1> DEFINE T == extraction.sentences
<1>1. IsTranscript(T) /\ i \in SchemaBlocks(T)
    BY DEF ExtractionInv, SchemaBlocks
<1>2. PICK e \in SchemaDecisions(T) :
          e.what = <<T[i].lines[t].name, "pk", T[i].lines[k].name>> /\ e.type \notin Abandoned
  <2>1. /\ t \in DOMAIN T[i].lines /\ k \in DOMAIN T[i].lines /\ t < k
        /\ T[i].lines[t].kind = "table" /\ T[i].lines[k].kind = "pk"
        /\ \A l \in (t + 1)..(k - 1) : T[i].lines[l].kind \notin {"table", "pk"}
      OBVIOUS
  <2> HIDE DEF T
  <2> QED BY <1>1, <2>1, KeyFound
<1> QED BY <1>2, FilledIsReported

ExtractionSpec(Transcripts) == ExtractionInit(Transcripts) /\ [][ExtractionNext]_extractionVars

\* The extraction pipeline: for every transcript the text heuristics can make of a
\* session, in every mode and wherever the head drops out or raises, each reply is
\* captured once, no bonus makes a hard rule, no fact is told twice, a touched file
\* is reported, a table keeps the key a line of its own declares, and after an outage
\* each candidate is reported, with the head's type or the one the rules give it.
THEOREM ExtractionAlwaysSound ==
    ASSUME NEW Transcripts, \A x \in Transcripts : IsTranscript(x.sentences)
    PROVE  ExtractionSpec(Transcripts) => []ExtractionIsSound
<1>1. ExtractionInit(Transcripts) => ExtractionInv
    BY StartsExtraction
<1>2. ExtractionInv /\ [ExtractionNext]_extractionVars => ExtractionInv'
  <2> SUFFICES ASSUME ExtractionInv, [ExtractionNext]_extractionVars PROVE ExtractionInv'
      OBVIOUS
  <2>1. CASE UNCHANGED extractionVars
    <3>1. extraction' = extraction /\ stage' = stage /\ events' = events
        BY <2>1 DEF extractionVars
    <3>2. (HadOutage' <=> HadOutage) /\ (Broad' <=> Broad) /\ (Filter' <=> Filter)
        BY <3>1 DEF HadOutage, Broad, Filter
    <3>3. \A E : (Sifted(E)' <=> Sifted(E)) /\ Reported(E)' = Reported(E) /\ WithRest(E)' = WithRest(E)
        BY <3>1, <3>2 DEF Sifted, Reported, WithRest
    <3>4. Sifted(events)' <=> Sifted(events)
        BY <3>1, <3>2 DEF Sifted
    <3>5. WithRest(ViaHead(extraction))' = WithRest(ViaHead(extraction))
        BY <3>1 DEF WithRest
    <3> QED BY <3>1, <3>2, <3>3, <3>4, <3>5 DEF ExtractionInv, AtStage
  <2>2. CASE JudgeSentences
      BY <2>2, JudgeSentencesKeeps
  <2>3. CASE Collect
      BY <2>3, CollectKeeps
  <2>4. CASE JudgeCandidates
      BY <2>4, JudgeCandidatesKeeps
  <2>5. CASE Classify
      BY <2>5, ClassifyKeeps
  <2>6. CASE AddTheRest
      BY <2>6, AddTheRestKeeps
  <2>7. CASE HeadRaises
      BY <2>7, HeadRaisesKeeps
  <2> QED BY <2>1, <2>2, <2>3, <2>4, <2>5, <2>6, <2>7 DEF ExtractionNext
<1>3. ExtractionInv => ExtractionIsSound
    BY TypeHolds, AnswersHold, ForceHolds, FactsHold, OutageHolds, FilesHold, KeysHold
       DEF ExtractionIsSound
<1> QED BY <1>1, <1>2, <1>3, PTL DEF ExtractionSpec
=============================================================================
