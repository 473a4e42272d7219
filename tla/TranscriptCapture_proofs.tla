---------------------- MODULE TranscriptCapture_proofs ----------------------
(***************************************************************************)
(* Proofs about the capture of a transcript, for any number of hooks,      *)
(* foreground calls and workers, any faults, any rewrites and any recovery.*)
(*                                                                         *)
(* Memory and the cursor never hold the file, only copies of what it was   *)
(* at one time or another: the Snapshots.  What an anchor of a few lines   *)
(* is good for rests on how the file grows: a new line is new, and a       *)
(* compaction moves every line that it keeps towards the front (History).  *)
(* So a line at the same position in two snapshots has the same lines      *)
(* before it (Agree), and a line that once followed a snapshot cannot      *)
(* follow another (Fresh).  The former makes a delta join its chain, the   *)
(* latter makes equal chunks the same chunk.                               *)
(***************************************************************************)
EXTENDS TranscriptCapture, SequenceTheorems, WellFoundedInduction, NaturalsInduction, TLAPS

-----------------------------------------------------------------------------
\* What a file that grows and is compacted leaves behind.

\* The first n lines are the same.
SamePrefix(s, t, n) == \A i \in 1..n : s[i] = t[i]

Agree(S) ==
    \A t, u \in S : \A i \in DOMAIN t \cap DOMAIN u : t[i] = u[i] => SamePrefix(t, u, i)

\* The line after a snapshot was written there: it is never found further back.
Fresh(S) ==
    \A t, u, v \in S :
        Len(t) < Len(u) /\ SamePrefix(t, u, Len(t))
            => \A k \in DOMAIN v : v[k] = u[Len(t) + 1] => k <= Len(t) + 1

\* Lines of the file were at the same place or further back in every snapshot.
Behind(S, file) ==
    \A t \in S : \A i \in DOMAIN file, k \in DOMAIN t : file[i] = t[k] => i <= k

\* Only the last line can be half written, and nobody has seen the whole of it.
HalfSeen(S, file) ==
    \A i \in DOMAIN file :
        file[i] < 0 => i = Len(file) /\ \A t \in S : \A k \in DOMAIN t : t[k] # -file[i]

\* S are snapshots of a file of which n lines were written so far.
History(S, file, n) ==
    /\ n \in Nat /\ file \in S /\ <<>> \in S
    /\ \A t \in S : t \in Seq(Int) /\ \A i \in DOMAIN t : t[i] \in -n..n
    /\ HalfSeen(S, file) /\ Behind(S, file) /\ Agree(S) /\ Fresh(S)

\* The line "at" of a new file is new to S, the others moved d towards the front.
Moves(S, file, new, at, d) ==
    /\ new \in Seq(Int) /\ at \in DOMAIN new /\ d \in Nat
    /\ \A t \in S : \A k \in DOMAIN t : t[k] # new[at]
    /\ \A i \in DOMAIN new \ {at} : i + d \in DOMAIN file /\ new[i] = file[i + d]
    /\ IF d = 0 THEN at = Len(new) ELSE at = 1

\* A file one line of which is new and the others of which kept their places or,
\* behind a new first line, moved d towards the front, leaves a history.
LEMMA FileMoves ==
    ASSUME NEW S, NEW file, NEW n, History(S, file, n),
           NEW new, NEW at, NEW d, Moves(S, file, new, at, d)
    PROVE  Behind(S \cup {new}, new) /\ Agree(S \cup {new}) /\ Fresh(S \cup {new})
<1> DEFINE All == S \cup {new}
<1>0. /\ new \in Seq(Int) /\ at \in DOMAIN new /\ d \in Nat
      /\ \A t \in S : \A k \in DOMAIN t : t[k] # new[at]
      /\ \A i \in DOMAIN new \ {at} : i + d \in DOMAIN file /\ new[i] = file[i + d]
      /\ IF d = 0 THEN at = Len(new) ELSE at = 1
    BY DEF Moves
<1> USE <1>0
<1>1. file \in S /\ (\A t \in S : t \in Seq(Int)) /\ Behind(S, file) /\ Agree(S) /\ Fresh(S)
    BY DEF History
<1>2. \A t \in All : t \in Seq(Int) /\ Len(t) \in Nat /\ DOMAIN t = 1..Len(t)
    BY <1>1
\* A line of the new file elsewhere: it is the new line itself, or it came forward.
<1>3. ASSUME NEW v \in All, NEW k \in DOMAIN v, NEW i \in DOMAIN new, v[k] = new[i]
      PROVE  IF i = at THEN v = new /\ k = at
             ELSE i + d <= k \/ (v = new /\ i <= k /\ k # at)
  <2>1. CASE v \in S
    <3>1. i # at
        BY <1>3, <2>1
    <3>2. i + d \in DOMAIN file /\ file[i + d] = v[k]
        BY <1>3, <3>1
    <3> QED BY <1>1, <1>2, <2>1, <3>1, <3>2 DEF Behind
  <2>2. CASE v = new
    <3>1. CASE i = at
      <4>1. k = at
        <5> SUFFICES ASSUME k # at PROVE FALSE
            OBVIOUS
        <5>1. k + d \in DOMAIN file /\ file[k + d] = new[at]
            BY <1>3, <2>2, <3>1
        <5> QED BY <1>1, <5>1
      <4> QED BY <2>2, <3>1, <4>1
    <3>2. CASE i # at
      <4>1. i + d \in DOMAIN file /\ file[i + d] = new[i]
          BY <3>2
      <4>2. k # at
          BY <1>1, <1>3, <2>2, <4>1
      <4>3. k + d \in DOMAIN file /\ file[k + d] = new[k]
          BY <2>2, <4>2
      <4>4. i + d <= k + d
          BY <1>1, <1>3, <2>2, <4>1, <4>3 DEF Behind
      <4> QED BY <1>2, <2>2, <3>2, <4>2, <4>4
    <3> QED BY <3>1, <3>2
  <2> QED BY <2>1, <2>2
<1>4. Behind(All, new)
  <2> SUFFICES ASSUME NEW t \in All, NEW i \in DOMAIN new, NEW k \in DOMAIN t, new[i] = t[k]
               PROVE  i <= k
      BY DEF Behind
  <2> QED BY <1>2, <1>3
\* What the new file shares with a snapshot at one place, it shares up to there.
<1>5. ASSUME NEW u \in S, NEW i \in DOMAIN new \cap DOMAIN u, new[i] = u[i]
      PROVE  d = 0 /\ i < at /\ SamePrefix(new, u, i)
  <2>1. i # at
      BY <1>5
  <2>2. i + d \in DOMAIN file /\ file[i + d] = u[i]
      BY <1>5, <2>1
  <2>3. i + d <= i
      BY <1>1, <2>2 DEF Behind
  <2>4. d = 0 /\ i < at
      BY <1>2, <2>1, <2>3
  <2>5. SamePrefix(file, u, i)
      BY <1>1, <2>2, <2>4 DEF Agree
  <2>6. \A j \in 1..i : j \in DOMAIN new \ {at} /\ j + d = j
      BY <1>2, <2>4
  <2>7. \A j \in 1..i : new[j] = file[j]
      BY <2>6
  <2> QED BY <2>4, <2>5, <2>7 DEF SamePrefix
<1>6. Agree(All)
  <2> SUFFICES ASSUME NEW t \in All, NEW u \in All,
                      NEW i \in DOMAIN t \cap DOMAIN u, t[i] = u[i]
               PROVE  SamePrefix(t, u, i)
      BY DEF Agree
  <2>1. CASE t \in S /\ u \in S
      BY <1>1, <2>1 DEF Agree
  <2>2. CASE t = new /\ u \in S
      BY <1>5, <2>2
  <2>3. CASE t \in S /\ u = new
      BY <1>5, <2>3 DEF SamePrefix
  <2>4. CASE t = new /\ u = new
      BY <2>4 DEF SamePrefix
  <2> QED BY <2>1, <2>2, <2>3, <2>4
<1>7. Fresh(All)
  <2> SUFFICES ASSUME NEW t \in All, NEW u \in All, NEW v \in All,
                      Len(t) < Len(u), SamePrefix(t, u, Len(t)),
                      NEW k \in DOMAIN v, v[k] = u[Len(t) + 1]
               PROVE  k <= Len(t) + 1
      BY DEF Fresh
  <2> DEFINE i == Len(t) + 1
  <2>0. i \in DOMAIN u /\ i \in Nat
      BY <1>2
  <2>1. CASE t = new
    <3>1. u \in S
        BY <2>1
    <3>2. at \in 1..Len(t) /\ at \in 1..Len(u)
      <4>1. at \in 1..Len(t)
          BY <1>2, <2>1
      <4> QED BY <1>2, <4>1
    <3>3. u[at] = new[at] /\ at \in DOMAIN u
        BY <1>2, <2>1, <3>2 DEF SamePrefix
    <3> QED BY <3>1, <3>3
  <2>2. CASE t \in S /\ u \in S
    <3>1. CASE v \in S
        BY <1>1, <2>2, <3>1 DEF Fresh
    <3>2. CASE v = new
      <4>1. k # at
          BY <2>0, <2>2, <3>2
      <4>2. k + d \in DOMAIN file /\ file[k + d] = u[i]
          BY <3>2, <4>1
      <4>3. k + d <= Len(t) + 1
          BY <1>1, <2>2, <4>2 DEF Fresh
      <4> QED BY <1>2, <3>2, <4>3
    <3> QED BY <3>1, <3>2
  <2>3. CASE t \in S /\ u = new
    <3>1. CASE i = at
      <4>1. k = at
          BY <1>3, <2>0, <2>3, <3>1
      <4> QED BY <1>2, <3>1, <4>1
    <3>2. CASE i # at
      <4>1. d = 0
        <5> SUFFICES ASSUME d # 0 PROVE FALSE
            OBVIOUS
        <5>1. at = 1 /\ 1 \in DOMAIN t
            BY <1>2, <2>3, <3>2
        <5>2. t[1] = new[1]
            BY <1>2, <2>3, <5>1 DEF SamePrefix
        <5> QED BY <2>3, <5>1, <5>2
      <4>2. i + d = i /\ i < at
          BY <1>2, <2>0, <2>3, <3>2, <4>1
      <4>3. i \in DOMAIN file /\ file[i] = new[i]
          BY <2>0, <2>3, <3>2, <4>2
      <4>4. \A j \in 1..Len(t) : j \in DOMAIN new \ {at} /\ j + d = j
          BY <1>2, <2>3, <4>1, <4>2
      <4>5. \A j \in 1..Len(t) : file[j] = new[j]
          BY <4>4
      <4>6. SamePrefix(t, file, Len(t)) /\ Len(t) < Len(file)
          BY <1>2, <1>1, <2>3, <4>3, <4>5 DEF SamePrefix
      <4>7. CASE v \in S
          BY <1>1, <2>3, <4>3, <4>6, <4>7 DEF Fresh
      <4>8. CASE v = new
        <5>1. k # at
            BY <1>1, <2>3, <4>3, <4>8
        <5>2. k + d = k
            BY <1>2, <4>1, <4>8
        <5>3. k \in DOMAIN file /\ file[k] = file[i]
            BY <2>3, <4>3, <4>8, <5>1, <5>2
        <5> QED BY <1>1, <2>3, <4>3, <4>6, <5>3 DEF Fresh
      <4> QED BY <4>7, <4>8
    <3> QED BY <3>1, <3>2
  <2> QED BY <2>1, <2>2, <2>3
<1> QED BY <1>4, <1>6, <1>7

\* Fewer snapshots are a history too.
LEMMA FewerSnapshots ==
    ASSUME NEW S, NEW file, NEW n, History(S, file, n),
           NEW T \in SUBSET S, file \in T, <<>> \in T
    PROVE  History(T, file, n)
BY DEF History, HalfSeen, Behind, Agree, Fresh

\* A line is appended, whole or half written.
LEMMA LineAppended ==
    ASSUME NEW S, NEW file, NEW n, History(S, file, n),
           file = <<>> \/ file[Len(file)] >= 0,
           NEW x \in {n + 1, -(n + 1)}
    PROVE  History(S \cup {Append(file, x)}, Append(file, x), n + 1)
<1> DEFINE new == Append(file, x)
           at  == Len(file) + 1
<1>1. /\ file \in S /\ (\A t \in S : t \in Seq(Int)) /\ n \in Nat /\ x \in Int
      /\ file \in Seq(Int) /\ DOMAIN file = 1..Len(file) /\ Len(file) \in Nat
    BY DEF History
<1>2. /\ new \in Seq(Int) /\ Len(new) = at /\ DOMAIN new = 1..at /\ at \in DOMAIN new
      /\ new[at] = x /\ \A i \in 1..Len(file) : new[i] = file[i]
    BY <1>1
<1> HIDE DEF new
<1>3. \A t \in S : \A k \in DOMAIN t : t[k] \in -n..n /\ t[k] \in Int
    BY <1>1 DEF History
<1>4. \A t \in S : \A k \in DOMAIN t : t[k] # new[at] /\ t[k] # -new[at]
    BY <1>1, <1>2, <1>3
<1>5. \A i \in DOMAIN new \ {at} : i \in DOMAIN file /\ i + 0 = i /\ new[i] = file[i]
    BY <1>1, <1>2
<1>6. Behind(S \cup {new}, new) /\ Agree(S \cup {new}) /\ Fresh(S \cup {new})
  <2>1. Moves(S, file, new, at, 0)
      BY <1>2, <1>4, <1>5 DEF Moves
  <2> QED BY <2>1, FileMoves
<1>7. \A i \in DOMAIN file : file[i] >= 0
  <2> SUFFICES ASSUME NEW i \in DOMAIN file, ~(file[i] >= 0) PROVE FALSE
      OBVIOUS
  <2>1. file[i] < 0 /\ i \in 1..Len(file)
      BY <1>1, <1>3
  <2>2. i = Len(file)
      BY <2>1 DEF History, HalfSeen
  <2> QED BY <1>1, <2>1, <2>2
<1>8. HalfSeen(S \cup {new}, new)
  <2> SUFFICES ASSUME NEW i \in DOMAIN new, new[i] < 0
               PROVE  i = Len(new) /\ \A t \in S \cup {new} : \A k \in DOMAIN t : t[k] # -new[i]
      BY DEF HalfSeen
  <2>1. i = at
      BY <1>2, <1>3, <1>1, <1>5, <1>7
  <2>2. \A k \in DOMAIN new : new[k] # -new[i]
    <3>1. \A k \in DOMAIN file : file[k] # -new[at]
        BY <1>1, <1>4
    <3>2. new[at] # -new[at]
        BY <1>1, <1>2, <2>1
    <3> QED BY <1>5, <2>1, <3>1, <3>2
  <2> QED BY <1>2, <1>4, <2>1, <2>2
<1>9. \A t \in S \cup {new} : t \in Seq(Int) /\ \A i \in DOMAIN t : t[i] \in -(n + 1)..(n + 1)
  <2>1. \A z \in -n..n : z \in -(n + 1)..(n + 1)
      BY <1>1
  <2>2. \A i \in DOMAIN new : new[i] \in -(n + 1)..(n + 1)
    <3> SUFFICES ASSUME NEW i \in DOMAIN new PROVE new[i] \in -(n + 1)..(n + 1)
        OBVIOUS
    <3>1. CASE i = at
        BY <1>1, <1>2, <3>1
    <3>2. CASE i # at
        BY <1>1, <1>3, <1>5, <2>1, <3>2
    <3> QED BY <3>1, <3>2
  <2> QED BY <1>1, <1>2, <1>3, <2>1, <2>2
<1>10. new \in S \cup {new} /\ <<>> \in S \cup {new} /\ n + 1 \in Nat
    BY <1>1 DEF History
<1> QED BY <1>6, <1>8, <1>9, <1>10 DEF History, new

\* The last line is completed.
LEMMA LineFinished ==
    ASSUME NEW S, NEW file, NEW n, History(S, file, n),
           file # <<>>, file[Len(file)] < 0
    PROVE  LET new == [file EXCEPT ![Len(file)] = -@]
           IN  History(S \cup {new}, new, n)
<1> DEFINE new == [file EXCEPT ![Len(file)] = -@]
           at  == Len(file)
<1>1. /\ file \in S /\ (\A t \in S : t \in Seq(Int)) /\ n \in Nat /\ at \in 1..Len(file)
      /\ file \in Seq(Int) /\ DOMAIN file = 1..Len(file) /\ Len(file) \in Nat
    BY DEF History
<1>2. /\ new \in Seq(Int) /\ Len(new) = at /\ DOMAIN new = 1..at /\ at \in DOMAIN new
      /\ new[at] = -file[at] /\ \A i \in DOMAIN new \ {at} : new[i] = file[i]
    BY <1>1
<1> HIDE DEF new
<1>3. \A t \in S : \A k \in DOMAIN t : t[k] \in -n..n /\ t[k] \in Int
    BY <1>1 DEF History
<1>4. \A t \in S : \A k \in DOMAIN t : t[k] # new[at]
  <2>1. at \in DOMAIN file
      BY <1>1
  <2> QED BY <1>2, <2>1 DEF History, HalfSeen
<1>5. \A i \in DOMAIN new \ {at} : i \in DOMAIN file /\ i + 0 = i /\ new[i] = file[i]
    BY <1>1, <1>2
<1>6. Behind(S \cup {new}, new) /\ Agree(S \cup {new}) /\ Fresh(S \cup {new})
  <2>1. Moves(S, file, new, at, 0)
      BY <1>2, <1>4, <1>5 DEF Moves
  <2> QED BY <2>1, FileMoves
<1>7. \A i \in DOMAIN new : ~(new[i] < 0)
  <2> SUFFICES ASSUME NEW i \in DOMAIN new, new[i] < 0 PROVE FALSE
      OBVIOUS
  <2>1. i # at
      BY <1>1, <1>2, <1>3
  <2>2. i \in DOMAIN file /\ file[i] < 0
      BY <1>5, <2>1
  <2> QED BY <2>1, <2>2 DEF History, HalfSeen
<1>8. HalfSeen(S \cup {new}, new)
    BY <1>7 DEF HalfSeen
<1>9. \A t \in S \cup {new} : t \in Seq(Int) /\ \A i \in DOMAIN t : t[i] \in -n..n
  <2>1. \A i \in DOMAIN new : new[i] \in -n..n
    <3> SUFFICES ASSUME NEW i \in DOMAIN new PROVE new[i] \in -n..n
        OBVIOUS
    <3>1. CASE i = at
      <4>1. file[at] \in -n..n
          BY <1>1, <1>3
      <4> QED BY <1>1, <1>2, <3>1, <4>1
    <3>2. CASE i # at
        BY <1>1, <1>3, <1>5, <3>2
    <3> QED BY <3>1, <3>2
  <2> QED BY <1>1, <1>2, <1>3, <2>1
<1>10. new \in S \cup {new} /\ <<>> \in S \cup {new} /\ n \in Nat
    BY <1>1 DEF History
<1> QED BY <1>6, <1>8, <1>9, <1>10 DEF History, new

\* A summary takes the place of all but the last lines.
LEMMA FileCompacted ==
    ASSUME NEW S, NEW file, NEW n, History(S, file, n),
           NEW kept \in 0..Len(file) - 2
    PROVE  LET new == <<n + 1>> \o LastOf(file, kept)
           IN  History(S \cup {new}, new, n + 1)
<1> DEFINE tail == LastOf(file, kept)
           new  == <<n + 1>> \o tail
           d    == Len(file) - kept - 1
<1>1. /\ file \in S /\ (\A t \in S : t \in Seq(Int)) /\ n \in Nat /\ kept \in Nat
      /\ file \in Seq(Int) /\ DOMAIN file = 1..Len(file) /\ Len(file) \in Nat
    BY DEF History
<1>2. d \in Nat /\ d >= 1 /\ kept < Len(file)
    BY <1>1
<1>3. tail \in Seq(Int) /\ Len(tail) = kept /\ \A i \in 1..kept : tail[i] = file[i + d + 1]
  <2>1. tail = SubSeq(file, Len(file) - kept + 1, Len(file))
      BY <1>2 DEF LastOf
  <2>2. Len(file) - kept + 1 \in 1..Len(file) + 1
      BY <1>1, <1>2
  <2>3. file \in Seq(Int)
      BY <1>1
  <2>4. /\ tail \in Seq(Int)
        /\ Len(tail) = Len(file) - (Len(file) - kept + 1) + 1
        /\ \A i \in 1..(Len(file) - (Len(file) - kept + 1) + 1) :
               tail[i] = file[(Len(file) - kept + 1) + i - 1]
    <3> DEFINE m == Len(file) - kept + 1
    <3>1. m \in 1..Len(file) + 1 /\ Len(file) \in m - 1..Len(file) /\ tail = SubSeq(file, m, Len(file))
        BY <1>1, <2>1, <2>2
    <3> HIDE DEF m, tail
    <3>2. /\ SubSeq(file, m, Len(file)) \in Seq(Int)
          /\ Len(SubSeq(file, m, Len(file))) = Len(file) - m + 1
          /\ \A i \in 1..(Len(file) - m + 1) : SubSeq(file, m, Len(file))[i] = file[m + i - 1]
        BY <2>3, <3>1, SubSeqProperties
    <3> QED BY <3>1, <3>2 DEF m
  <2>5. Len(file) - (Len(file) - kept + 1) + 1 = kept
      BY <1>1
  <2>6. \A i \in 1..kept : (Len(file) - kept + 1) + i - 1 = i + d + 1
      BY <1>1
  <2> HIDE DEF tail
  <2> QED BY <2>4, <2>5, <2>6
<1> HIDE DEF tail
<1>4. /\ new \in Seq(Int) /\ Len(new) = kept + 1 /\ DOMAIN new = 1..kept + 1
      /\ new[1] = n + 1 /\ \A i \in 2..kept + 1 : new[i] = tail[i - 1]
    BY <1>1, <1>3
<1> HIDE DEF new
<1>5. \A i \in DOMAIN new \ {1} : i + d \in DOMAIN file /\ new[i] = file[i + d]
  <2> SUFFICES ASSUME NEW i \in DOMAIN new \ {1}
               PROVE  i + d \in DOMAIN file /\ new[i] = file[i + d]
      OBVIOUS
  <2>1. i \in 2..kept + 1 /\ i - 1 \in 1..kept
    <3>1. i \in 1..kept + 1 /\ i # 1
        BY <1>4
    <3> QED BY <1>1, <3>1
  <2>2. (i - 1) + d + 1 = i + d /\ i + d \in 1..Len(file)
    <3>1. i \in Nat /\ i - 1 <= kept /\ 1 <= i - 1
        BY <1>1, <2>1
    <3>2. i + (Len(file) - kept - 1) <= Len(file) /\ Len(file) - kept - 1 >= 1
        BY <1>1, <3>1
    <3> QED BY <1>1, <3>1, <3>2 DEF d
  <2>3. new[i] = tail[i - 1] /\ tail[i - 1] = file[(i - 1) + d + 1]
      BY <1>3, <1>4, <2>1
  <2> HIDE DEF d
  <2> QED BY <1>1, <2>1, <2>2, <2>3
<1> HIDE DEF d
<1>6. \A t \in S : \A k \in DOMAIN t : t[k] \in -n..n /\ t[k] \in Int
    BY <1>1 DEF History
<1>7. \A t \in S : \A k \in DOMAIN t : t[k] # new[1]
    BY <1>1, <1>4, <1>6
<1>8. Behind(S \cup {new}, new) /\ Agree(S \cup {new}) /\ Fresh(S \cup {new})
  <2>1. 1 \in DOMAIN new /\ d # 0
      BY <1>1, <1>2, <1>4
  <2>2. Moves(S, file, new, 1, d)
      BY <1>2, <1>4, <1>5, <1>7, <2>1 DEF Moves
  <2> QED BY <2>2, FileMoves
<1>9. HalfSeen(S \cup {new}, new)
  <2> SUFFICES ASSUME NEW i \in DOMAIN new, new[i] < 0
               PROVE  i = Len(new) /\ \A t \in S \cup {new} : \A k \in DOMAIN t : t[k] # -new[i]
      BY DEF HalfSeen
  <2>1. i # 1
      BY <1>1, <1>4
  <2>2. i + d \in DOMAIN file /\ file[i + d] = new[i]
      BY <1>5, <2>1
  <2>3. i + d = Len(file) /\ \A t \in S : \A k \in DOMAIN t : t[k] # -file[i + d]
      BY <2>2 DEF History, HalfSeen
  <2>4. i = Len(new)
    <3>1. i \in 1..kept + 1
        BY <1>4
    <3> QED BY <1>1, <1>4, <2>3, <3>1 DEF d
  <2>5. \A k \in DOMAIN new : new[k] # -new[i]
    <3> SUFFICES ASSUME NEW k \in DOMAIN new, new[k] = -new[i] PROVE FALSE
        OBVIOUS
    <3>1. CASE k = 1
      <4>1. new[i] \in -n..n /\ new[i] \in Int
          BY <1>1, <1>6, <2>2
      <4> QED BY <1>1, <1>4, <3>1, <4>1
    <3>2. CASE k # 1
      <4>1. k + d \in DOMAIN file /\ file[k + d] = new[k]
          BY <1>5, <3>2
      <4> QED BY <1>1, <2>2, <2>3, <4>1
    <3> QED BY <3>1, <3>2
  <2> QED BY <2>2, <2>3, <2>4, <2>5
<1>10. \A t \in S \cup {new} : t \in Seq(Int) /\ \A i \in DOMAIN t : t[i] \in -(n + 1)..(n + 1)
  <2>1. \A z \in -n..n : z \in -(n + 1)..(n + 1)
      BY <1>1
  <2>2. \A i \in DOMAIN new : new[i] \in -(n + 1)..(n + 1)
    <3> SUFFICES ASSUME NEW i \in DOMAIN new PROVE new[i] \in -(n + 1)..(n + 1)
        OBVIOUS
    <3>1. CASE i = 1
        BY <1>1, <1>4, <3>1
    <3>2. CASE i # 1
        BY <1>1, <1>5, <1>6, <2>1, <3>2
    <3> QED BY <3>1, <3>2
  <2> QED BY <1>1, <1>4, <1>6, <2>1, <2>2
<1>11. new \in S \cup {new} /\ <<>> \in S \cup {new} /\ n + 1 \in Nat
    BY <1>1 DEF History
<1> QED BY <1>8, <1>9, <1>10, <1>11 DEF History, new, tail

-----------------------------------------------------------------------------
\* Slices, and what an anchor tells.

\* What follows the first n lines.
LEMMA FromProperties ==
    ASSUME NEW T, NEW s \in Seq(T), NEW n \in 0..Len(s)
    PROVE  /\ From(s, n) \in Seq(T)
           /\ Len(From(s, n)) = Len(s) - n
           /\ \A i \in 1..Len(s) - n : From(s, n)[i] = s[n + i]
<1> DEFINE m == n + 1
<1>1. m \in 1..Len(s) + 1 /\ Len(s) \in m - 1..Len(s) /\ Len(s) - m + 1 = Len(s) - n
    BY LenProperties
<1>2. /\ SubSeq(s, m, Len(s)) \in Seq(T)
      /\ Len(SubSeq(s, m, Len(s))) = Len(s) - m + 1
      /\ \A i \in 1..(Len(s) - m + 1) : SubSeq(s, m, Len(s))[i] = s[m + i - 1]
  <2> HIDE DEF m
  <2> QED BY <1>1, SubSeqProperties
<1>3. \A i \in 1..Len(s) - n : m + i - 1 = n + i
    BY LenProperties
<1> QED
    BY <1>1, <1>2, <1>3 DEF From

\* The first n lines.
LEMMA PrefixProperties ==
    ASSUME NEW T, NEW s \in Seq(T), NEW n \in 0..Len(s)
    PROVE  /\ SubSeq(s, 1, n) \in Seq(T) /\ Len(SubSeq(s, 1, n)) = n
           /\ \A i \in 1..n : SubSeq(s, 1, n)[i] = s[i]
<1>1. 1 \in 1..Len(s) + 1 /\ n \in 1 - 1..Len(s)
    BY LenProperties
<1>2. /\ SubSeq(s, 1, n) \in Seq(T)
      /\ Len(SubSeq(s, 1, n)) = n - 1 + 1
      /\ \A i \in 1..(n - 1 + 1) : SubSeq(s, 1, n)[i] = s[1 + i - 1]
    BY <1>1, SubSeqProperties
<1>3. n - 1 + 1 = n /\ \A i \in 1..n : 1 + i - 1 = i
    OBVIOUS
<1> QED BY <1>2, <1>3

\* The last lines of a sequence are of its type.
LEMMA LastOfTyped ==
    ASSUME NEW T, NEW s \in Seq(T), NEW n \in Nat
    PROVE  LastOf(s, n) \in Seq(T)
<1> DEFINE m == IF n < Len(s) THEN Len(s) - n + 1 ELSE 1
<1>1. m \in 1..Len(s) + 1 /\ Len(s) \in m - 1..Len(s)
    BY LenProperties
<1>2. LastOf(s, n) = SubSeq(s, m, Len(s))
    BY DEF LastOf
<1> HIDE DEF m
<1> QED BY <1>1, <1>2, SubSeqProperties

\* So are the lines an anchor hashes.
LEMMA AnchorTyped ==
    ASSUME NEW T, NEW s \in Seq(T), NEW n \in 0..Len(s)
    PROVE  ComputeAnchor(s, n) \in Seq(T)
<1>1. SubSeq(s, 1, n) \in Seq(T) /\ AnchorLines \in Nat
    BY PrefixProperties, CaptureAssumption
<1> QED BY <1>1, LastOfTyped DEF ComputeAnchor

\* Two pieces joined: first the one, then the other.
LEMMA JoinProperties ==
    ASSUME NEW p \in Seq(Int), NEW q \in Seq(Int)
    PROVE  /\ p \o q \in Seq(Int) /\ Len(p \o q) = Len(p) + Len(q)
           /\ \A k \in 1..Len(p) : (p \o q)[k] = p[k]
           /\ \A k \in 1..Len(q) : (p \o q)[Len(p) + k] = q[k]
<1>1. /\ p \o q \in Seq(Int) /\ Len(p \o q) = Len(p) + Len(q)
      /\ \A k \in 1..Len(p) + Len(q) : (p \o q)[k] = IF k <= Len(p) THEN p[k] ELSE q[k - Len(p)]
    BY ConcatProperties
<1>2. Len(p) \in Nat /\ Len(q) \in Nat
    BY LenProperties
<1>3. ASSUME NEW k \in 1..Len(p) PROVE (p \o q)[k] = p[k]
  <2>1. k \in 1..Len(p) + Len(q) /\ k <= Len(p)
      BY <1>2
  <2> QED BY <1>1, <2>1
<1>4. ASSUME NEW k \in 1..Len(q) PROVE (p \o q)[Len(p) + k] = q[k]
  <2>1. Len(p) + k \in 1..Len(p) + Len(q) /\ ~(Len(p) + k <= Len(p)) /\ (Len(p) + k) - Len(p) = k
      BY <1>2
  <2> QED BY <1>1, <2>1
<1> QED BY <1>1, <1>3, <1>4

\* The last line of an anchor is the last line that the cursor counts.
LEMMA AnchorEnds ==
    ASSUME NEW s \in Seq(Int), NEW n \in 1..Len(s)
    PROVE  LET anchor == ComputeAnchor(s, n)
           IN  Len(anchor) = (IF AnchorLines < n THEN AnchorLines ELSE n) /\ anchor[Len(anchor)] = s[n]
<1> DEFINE t == SubSeq(s, 1, n)
           m == IF AnchorLines < n THEN n - AnchorLines + 1 ELSE 1
<1>1. t \in Seq(Int) /\ Len(t) = n /\ t[n] = s[n]
  <2>1. n \in 0..Len(s) /\ n \in 1..n
      OBVIOUS
  <2> QED BY <2>1, PrefixProperties
<1>2. m \in 1..n + 1 /\ n \in m - 1..n /\ n - m + 1 = (IF AnchorLines < n THEN AnchorLines ELSE n)
    BY CaptureAssumption
<1>3. ComputeAnchor(s, n) = SubSeq(t, m, n)
    BY <1>1 DEF ComputeAnchor, LastOf
<1> HIDE DEF t, m
<1>4. /\ Len(SubSeq(t, m, n)) = n - m + 1
      /\ \A i \in 1..(n - m + 1) : SubSeq(t, m, n)[i] = t[m + i - 1]
    BY <1>1, <1>2, SubSeqProperties
<1>5. n - m + 1 \in 1..n /\ m + (n - m + 1) - 1 = n
    BY <1>2, CaptureAssumption
<1>6. SubSeq(t, m, n)[n - m + 1] = s[n]
  <2>1. n - m + 1 \in 1..(n - m + 1)
      BY <1>5
  <2>2. SubSeq(t, m, n)[n - m + 1] = t[m + (n - m + 1) - 1]
      BY <1>4, <2>1
  <2> QED BY <1>1, <1>5, <2>2
<1> QED BY <1>2, <1>3, <1>4, <1>6

\* The cursor stands for the lines of a snapshot.
Marks(c, lines) == c.count = Len(lines) /\ c.anchor = ComputeAnchor(lines, Len(lines))

\* A cursor that fits a snapshot was taken of its beginning: the anchor, of however
\* few lines, is as good as a hash of all that the cursor counts.
LEMMA FittingIsPrefix ==
    ASSUME NEW S, NEW file, NEW n, History(S, file, n),
           NEW r \in S, NEW old \in S, NEW c, Marks(c, old), CursorFits(r, c)
    PROVE  c.count > 0 /\ c.count <= Len(r) /\ SamePrefix(old, r, c.count)
<1>1. r \in Seq(Int) /\ old \in Seq(Int) /\ Agree(S)
    BY DEF History
<1>2. c.count = Len(old) /\ c.count > 0 /\ c.count <= Len(r) /\ c.count \in Nat
    BY <1>1 DEF Marks, CursorFits
<1>3. ComputeAnchor(r, c.count) = ComputeAnchor(old, c.count)
    BY DEF Marks, CursorFits
<1>4. r[c.count] = old[c.count]
  <2>1. c.count \in 1..Len(r) /\ c.count \in 1..Len(old)
      BY <1>1, <1>2
  <2> DEFINE m == c.count
             anchor == ComputeAnchor(r, m)
  <2>2. m \in 1..Len(r) /\ m \in 1..Len(old) /\ ComputeAnchor(old, m) = anchor
      BY <1>3, <2>1
  <2> HIDE DEF m, anchor
  <2>3. anchor[Len(anchor)] = old[m]
      BY <1>1, <2>2, AnchorEnds
  <2>4. anchor[Len(anchor)] = r[m]
      BY <1>1, <2>2, AnchorEnds DEF anchor
  <2> QED BY <2>3, <2>4 DEF m
<1>5. c.count \in DOMAIN old \cap DOMAIN r
    BY <1>1, <1>2
<1> QED BY <1>1, <1>2, <1>4, <1>5 DEF Agree

\* A snapshot's beginning and what follows it make up the snapshot.
LEMMA JoinGivesBack ==
    ASSUME NEW r \in Seq(Int), NEW old \in Seq(Int),
           Len(old) <= Len(r), SamePrefix(old, r, Len(old))
    PROVE  old \o From(r, Len(old)) = r
<1> DEFINE m == Len(old)
           tail == From(r, m)
<1>1. m \in 0..Len(r) /\ Len(r) \in Nat
    OBVIOUS
<1>2. tail \in Seq(Int) /\ Len(tail) = Len(r) - m /\ \A i \in 1..Len(r) - m : tail[i] = r[m + i]
    BY <1>1, FromProperties
<1> HIDE DEF tail
<1>3. /\ old \o tail \in Seq(Int) /\ Len(old \o tail) = Len(r)
      /\ \A i \in 1..m : (old \o tail)[i] = old[i]
      /\ \A i \in 1..Len(r) - m : (old \o tail)[m + i] = tail[i]
    BY <1>1, <1>2, JoinProperties
<1>4. \A i \in 1..Len(r) : (old \o tail)[i] = r[i]
  <2> SUFFICES ASSUME NEW i \in 1..Len(r) PROVE (old \o tail)[i] = r[i]
      OBVIOUS
  <2>1. CASE i <= m
    <3>1. i \in 1..m
        BY <2>1
    <3> QED BY <1>3, <3>1 DEF SamePrefix
  <2>2. CASE i > m
    <3> DEFINE k == i - m
    <3>1. k \in 1..Len(r) - m /\ m + k = i
        BY <1>1, <2>2
    <3> HIDE DEF k
    <3>2. tail[k] = r[m + k]
        BY <1>2, <3>1
    <3>3. (old \o tail)[m + k] = tail[k]
        BY <1>3, <3>1
    <3> QED BY <3>1, <3>2, <3>3
  <2>3. i <= m \/ i > m
      BY <1>1
  <2> QED BY <2>1, <2>2, <2>3
<1> QED BY <1>3, <1>4, SeqEqual DEF tail

\* Equal contents behind two snapshots are the same content: as the line that
\* follows a snapshot never follows another, UNIQUE (project, content_sha256) does
\* not confuse chunks.
LEMMA SameContent ==
    ASSUME NEW S, NEW file, NEW n, History(S, file, n),
           NEW r \in S, NEW u \in S, NEW t \in S, NEW p \in S,
           Len(t) < Len(r), SamePrefix(t, r, Len(t)),
           u = p \o From(r, Len(t))
    PROVE  u = r
<1>1. /\ r \in Seq(Int) /\ u \in Seq(Int) /\ t \in Seq(Int) /\ p \in Seq(Int)
      /\ Agree(S) /\ Fresh(S)
    BY DEF History
<1> DEFINE i == Len(t) + 1
           j == Len(p) + 1
           chunk == From(r, Len(t))
<1>2. Len(t) \in 0..Len(r) /\ Len(r) \in Nat /\ Len(p) \in Nat /\ i \in 1..Len(r) /\ Len(t) \in Nat
    BY <1>1
<1>3. chunk \in Seq(Int) /\ Len(chunk) = Len(r) - Len(t) /\ \A k \in 1..Len(r) - Len(t) : chunk[k] = r[Len(t) + k]
    BY <1>1, <1>2, FromProperties
<1>0. u = p \o chunk
    OBVIOUS
<1> HIDE DEF chunk
<1>4. /\ Len(u) = Len(p) + (Len(r) - Len(t))
      /\ \A k \in 1..Len(p) : u[k] = p[k]
      /\ \A k \in 1..Len(r) - Len(t) : u[Len(p) + k] = chunk[k]
  <2>1. /\ Len(p \o chunk) = Len(p) + Len(chunk)
        /\ \A k \in 1..Len(p) : (p \o chunk)[k] = p[k]
        /\ \A k \in 1..Len(chunk) : (p \o chunk)[Len(p) + k] = chunk[k]
      BY <1>1, <1>3, JoinProperties
  <2> QED BY <1>0, <1>3, <2>1
<1>5. u[j] = r[i] /\ j \in DOMAIN u /\ i \in DOMAIN r
  <2>1. 1 \in 1..Len(r) - Len(t)
      BY <1>2
  <2>2. u[Len(p) + 1] = chunk[1] /\ chunk[1] = r[Len(t) + 1]
      BY <1>3, <1>4, <2>1
  <2>3. Len(p) + 1 \in 1..Len(u)
      BY <1>2, <1>4
  <2> QED BY <1>1, <1>2, <2>2, <2>3
<1>6. SamePrefix(p, u, Len(p)) /\ Len(p) < Len(u)
    BY <1>2, <1>4 DEF SamePrefix
<1>7. j <= i
    BY <1>1, <1>5 DEF Fresh
<1>8. i <= j
    BY <1>1, <1>5, <1>6 DEF Fresh
<1>9. Len(p) = Len(t) /\ i = j
    BY <1>2, <1>7, <1>8
<1>10. SamePrefix(r, u, i)
    BY <1>1, <1>5, <1>9 DEF Agree
<1>11. \A k \in 1..Len(r) : u[k] = r[k]
  <2> SUFFICES ASSUME NEW k \in 1..Len(r) PROVE u[k] = r[k]
      OBVIOUS
  <2>1. CASE k <= Len(t)
    <3>1. k \in 1..i
        BY <1>2, <2>1
    <3> QED BY <1>10, <3>1 DEF SamePrefix
  <2>2. CASE k > Len(t)
    <3> DEFINE l == k - Len(t)
    <3>1. l \in 1..Len(r) - Len(t) /\ Len(t) + l = k /\ Len(p) + l = k
        BY <1>2, <1>9, <2>2
    <3> HIDE DEF l
    <3>2. chunk[l] = r[Len(t) + l]
        BY <1>3, <3>1
    <3>3. u[Len(p) + l] = chunk[l]
        BY <1>4, <3>1
    <3> QED BY <3>1, <3>2, <3>3
  <2>3. k <= Len(t) \/ k > Len(t)
      BY <1>2
  <2> QED BY <2>1, <2>2, <2>3
<1>12. Len(u) = Len(r)
    BY <1>2, <1>4, <1>9
<1> QED BY <1>1, <1>11, <1>12, SeqEqual

-----------------------------------------------------------------------------
\* Chains of evidence.

\* Every nonempty set of naturals has a least element.
LEMMA LeastExists ==
    ASSUME NEW S \in SUBSET Nat, S # {}
    PROVE  \E m \in S : \A j \in S : m <= j
<1> DEFINE R == OpToRel(<, Nat)
<1>1. PICK m \in S : \A j \in S : ~(<<j, m>> \in R)
  <2>1. IsWellFoundedOn(R, Nat)
      BY NatLessThanWellFounded
  <2> HIDE DEF R
  <2> QED BY <2>1, WFMin
<1>2. \A j \in S : m <= j
  <2> SUFFICES ASSUME NEW j \in S PROVE m <= j
      OBVIOUS
  <2>1. ~(j < m)
      BY <1>1 DEF OpToRel
  <2> QED BY <2>1
<1> QED BY <1>2

Rows == [lines : Seq(Line), prev : Nat]

\* A row points to an older one, and is never empty.
WellChained(rows) ==
    /\ rows \in Seq(Rows)
    /\ \A i \in DOMAIN rows : rows[i].prev < i /\ rows[i].lines # <<>>

\* All the transcripts of a table, f[0] being that of no row.
Chain(rows) ==
    LET upTo[i \in 0..Len(rows)] ==
            IF i = 0 THEN <<>> ELSE upTo[rows[i].prev] \o rows[i].lines
    IN  upTo

\* f joins the chunks of the first n rows.
Joins(rows, n, f) ==
    /\ f = [i \in 0..n |-> f[i]]
    /\ f[0] = <<>>
    /\ \A i \in 1..n : f[i] = f[rows[i].prev] \o rows[i].lines

\* What a row of a well-chained table is made of.
LEMMA RowTyped ==
    ASSUME NEW rows, WellChained(rows), NEW i \in 1..Len(rows)
    PROVE  /\ rows[i].prev \in 0..i - 1 /\ rows[i].prev \in 0..Len(rows)
           /\ rows[i].lines \in Seq(Line) /\ rows[i].lines # <<>> /\ i \in DOMAIN rows
<1>1. rows[i] \in Rows /\ i \in DOMAIN rows /\ Len(rows) \in Nat
    BY DEF WellChained
<1>2. rows[i].prev \in Nat /\ rows[i].lines \in Seq(Line)
    BY <1>1 DEF Rows
<1>3. rows[i].prev < i /\ rows[i].lines # <<>>
    BY <1>1 DEF WellChained
<1> QED BY <1>1, <1>2, <1>3

\* The walk down the chain is defined: it neither breaks nor cycles.
LEMMA ChainExists ==
    ASSUME NEW rows, WellChained(rows)
    PROVE  \E f : Joins(rows, Len(rows), f)
<1> DEFINE Missing == {n \in 0..Len(rows) : ~\E f : Joins(rows, n, f)}
<1>0. Len(rows) \in Nat
    BY DEF WellChained
<1>1. SUFFICES ASSUME Missing # {} PROVE FALSE
    BY <1>0
<1>2. PICK m \in Missing : \A n \in Missing : m <= n
  <2>1. Missing \in SUBSET Nat
      BY <1>0
  <2> HIDE DEF Missing
  <2> QED BY <1>1, <2>1, LeastExists
<1>3. CASE m = 0
  <2> DEFINE f == [i \in 0..0 |-> <<>>]
  <2>1. Joins(rows, 0, f)
    <3>1. f = [i \in 0..0 |-> f[i]] /\ f[0] = <<>> /\ 1..0 = {}
        OBVIOUS
    <3> HIDE DEF f
    <3> QED BY <3>1 DEF Joins
  <2> HIDE DEF f
  <2> QED BY <1>3, <2>1
<1>4. CASE m # 0
  <2>1. m - 1 \in 0..Len(rows) /\ m \in 1..Len(rows) /\ m - 1 \notin Missing
    <3>1. m \in 0..Len(rows)
        OBVIOUS
    <3>2. m - 1 \in 0..Len(rows) /\ m \in 1..Len(rows) /\ ~(m <= m - 1)
        BY <1>0, <1>4, <3>1
    <3> HIDE DEF Missing
    <3> QED BY <1>2, <3>2
  <2>2. PICK f : Joins(rows, m - 1, f)
      BY <2>1
  <2>a. m \in Nat /\ m \in 0..m /\ \A i \in 0..m - 1 : i \in 0..m /\ i # m
      BY <1>0, <2>1
  <2>b. 0 \in 0..m - 1
      BY <1>0, <2>1
  <2> DEFINE g == [i \in 0..m |-> IF i = m THEN f[rows[m].prev] \o rows[m].lines ELSE f[i]]
  <2>3. /\ g = [i \in 0..m |-> g[i]] /\ \A i \in 0..m - 1 : g[i] = f[i]
        /\ g[m] = f[rows[m].prev] \o rows[m].lines
      BY <2>a
  <2> HIDE DEF g
  <2>4. g[0] = <<>>
      BY <2>b, <2>2, <2>3 DEF Joins
  <2>5. ASSUME NEW i \in 1..m PROVE g[i] = g[rows[i].prev] \o rows[i].lines
    <3>1. i \in 1..Len(rows)
        BY <1>0, <2>1
    <3>2. rows[i].prev \in 0..i - 1
        BY <3>1, RowTyped
    <3>3. rows[i].prev \in 0..m - 1
        BY <1>0, <2>1, <3>2
    <3>4. g[rows[i].prev] = f[rows[i].prev]
        BY <2>3, <3>3
    <3>5. CASE i = m
        BY <2>3, <3>4, <3>5
    <3>6. CASE i # m
      <4>1. i \in 1..m - 1 /\ i \in 0..m - 1
          BY <1>0, <2>1, <3>6
      <4> QED BY <2>2, <2>3, <3>4, <4>1 DEF Joins
    <3> QED BY <3>5, <3>6
  <2>6. Joins(rows, m, g)
      BY <2>3, <2>4, <2>5 DEF Joins
  <2> QED BY <2>6
<1> QED BY <1>3, <1>4

\* load_full_transcript walks to the root: the chunk of a row follows its predecessors.
LEMMA ChainJoins ==
    ASSUME NEW rows, WellChained(rows)
    PROVE  /\ Chain(rows)[0] = <<>>
           /\ \A i \in 1..Len(rows) : Chain(rows)[i] = Chain(rows)[rows[i].prev] \o rows[i].lines
<1> DEFINE Body(f, i) == IF i = 0 THEN <<>> ELSE f[rows[i].prev] \o rows[i].lines
           Is(f) == f = [i \in 0..Len(rows) |-> Body(f, i)]
<1>0. Len(rows) \in Nat
    BY DEF WellChained
<1>1. Chain(rows) = CHOOSE f : Is(f)
    BY DEF Chain
<1>2. PICK f : Joins(rows, Len(rows), f)
    BY ChainExists
<1>3. f = [i \in 0..Len(rows) |-> f[i]] /\ \A i \in 0..Len(rows) : f[i] = Body(f, i)
  <2> SUFFICES ASSUME NEW i \in 0..Len(rows) PROVE f[i] = Body(f, i)
      BY <1>2 DEF Joins
  <2>1. CASE i = 0
      BY <1>2, <2>1 DEF Joins
  <2>2. CASE i # 0
    <3>1. i \in 1..Len(rows)
        BY <1>0, <2>2
    <3> QED BY <1>2, <2>2, <3>1 DEF Joins
  <2> QED BY <2>1, <2>2
<1> HIDE DEF Body
<1>4. Is(f)
  <2>1. [i \in 0..Len(rows) |-> f[i]] = [i \in 0..Len(rows) |-> Body(f, i)]
      BY <1>3
  <2> QED BY <1>3, <2>1
<1>5. Is(Chain(rows))
  <2> HIDE DEF Is
  <2> QED BY <1>1, <1>4
<1>6. \A i \in 0..Len(rows) : Chain(rows)[i] = Body(Chain(rows), i)
    BY <1>5
<1>7. 0 \in 0..Len(rows) /\ \A i \in 1..Len(rows) : i \in 0..Len(rows) /\ i # 0
    BY <1>0
<1> QED BY <1>6, <1>7 DEF Body

\* The transcripts are sequences of lines, and only that of no row is empty.
LEMMA ChainTyped ==
    ASSUME NEW rows, WellChained(rows)
    PROVE  \A i \in 0..Len(rows) :
               Chain(rows)[i] \in Seq(Line) /\ (i # 0 => Chain(rows)[i] # <<>>)
<1> DEFINE Good(i) == Chain(rows)[i] \in Seq(Line) /\ (i # 0 => Chain(rows)[i] # <<>>)
           Bad == {i \in 0..Len(rows) : ~Good(i)}
<1>0. Len(rows) \in Nat
    BY DEF WellChained
<1>1. SUFFICES ASSUME Bad # {} PROVE FALSE
    OBVIOUS
<1>2. PICK m \in Bad : \A n \in Bad : m <= n
  <2>1. Bad \in SUBSET Nat
      BY <1>0
  <2> HIDE DEF Bad
  <2> QED BY <1>1, <2>1, LeastExists
<1>3. CASE m = 0
  <2>1. Chain(rows)[0] = <<>>
      BY ChainJoins
  <2>2. <<>> \in Seq(Line)
      BY EmptySeq
  <2> QED BY <1>3, <2>1, <2>2
<1>4. CASE m # 0
  <2>1. m \in 1..Len(rows)
      BY <1>0, <1>4
  <2> DEFINE p == rows[m].prev
             tail == rows[m].lines
  <2>2. p \in 0..m - 1 /\ p \in 0..Len(rows) /\ tail \in Seq(Line) /\ tail # <<>>
      BY <2>1, RowTyped
  <2>3. Chain(rows)[m] = Chain(rows)[p] \o tail
      BY <2>1, ChainJoins
  <2> HIDE DEF p, tail
  <2>4. Chain(rows)[p] \in Seq(Line)
    <3>1. ~(m <= p)
        BY <1>0, <2>1, <2>2
    <3>2. p \notin Bad
      <4> HIDE DEF Bad
      <4> QED BY <1>2, <3>1
    <3> QED BY <2>2, <3>2
  <2>5. Chain(rows)[m] \in Seq(Line) /\ Chain(rows)[m] # <<>>
    <3> DEFINE head == Chain(rows)[p]
    <3>1. head \in Seq(Line) /\ Chain(rows)[m] = head \o tail
        BY <2>3, <2>4
    <3> HIDE DEF head
    <3>2. head \o tail \in Seq(Line) /\ Len(head \o tail) = Len(head) + Len(tail)
        BY <2>2, <3>1, ConcatProperties
    <3>3. Len(head) \in Nat /\ Len(tail) \in Nat /\ Len(tail) # 0
        BY <2>2, <3>1, LenProperties, EmptySeq
    <3>4. Len(head \o tail) # 0
        BY <3>2, <3>3
    <3> QED BY <3>1, <3>2, <3>4, EmptySeq
  <2> QED BY <2>5
<1> QED BY <1>3, <1>4

\* A new row leaves the transcripts of the older ones alone.
LEMMA ChainGrows ==
    ASSUME NEW rows, NEW row \in Rows, WellChained(rows), WellChained(Append(rows, row))
    PROVE  /\ \A i \in 0..Len(rows) : Chain(Append(rows, row))[i] = Chain(rows)[i]
           /\ Chain(Append(rows, row))[Len(rows) + 1] = Chain(rows)[row.prev] \o row.lines
<1> DEFINE new == Append(rows, row)
           Bad == {i \in 0..Len(rows) : Chain(new)[i] # Chain(rows)[i]}
<1>0. /\ Len(rows) \in Nat /\ Len(new) = Len(rows) + 1
      /\ \A i \in 1..Len(rows) : new[i] = rows[i]
      /\ new[Len(rows) + 1] = row
    BY DEF WellChained
<1>a. WellChained(new)
    OBVIOUS
<1> HIDE DEF new
<1>1. Bad = {}
  <2> SUFFICES ASSUME Bad # {} PROVE FALSE
      OBVIOUS
  <2>1. PICK m \in Bad : \A n \in Bad : m <= n
    <3>1. Bad \in SUBSET Nat
        BY <1>0
    <3> HIDE DEF Bad
    <3> QED BY <3>1, LeastExists
  <2>2. m # 0
      BY <1>a, ChainJoins
  <2>3. m \in 1..Len(rows) /\ m \in 1..Len(new) /\ new[m] = rows[m]
      BY <1>0, <2>2
  <2> DEFINE p == rows[m].prev
  <2>4. p \in 0..m - 1 /\ p \in 0..Len(rows)
      BY <2>3, RowTyped
  <2>5. ~(m <= p)
      BY <1>0, <2>3, <2>4
  <2>6. Chain(new)[p] = Chain(rows)[p]
    <3>1. p \notin Bad
      <4> HIDE DEF Bad, p
      <4> QED BY <2>1, <2>5
    <3> QED BY <2>4, <3>1
  <2>7. Chain(new)[m] = Chain(rows)[m]
    <3>1. Chain(new)[m] = Chain(new)[new[m].prev] \o new[m].lines
        BY <1>a, <2>3, ChainJoins
    <3>2. Chain(rows)[m] = Chain(rows)[rows[m].prev] \o rows[m].lines
        BY <2>3, ChainJoins
    <3> QED BY <2>3, <2>6, <3>1, <3>2
  <2> QED BY <2>7
<1>2. \A i \in 0..Len(rows) : Chain(new)[i] = Chain(rows)[i]
    BY <1>1
<1>3. Len(rows) + 1 \in 1..Len(new)
    BY <1>0
<1>4. Chain(new)[Len(rows) + 1] = Chain(new)[row.prev] \o row.lines
    BY <1>0, <1>a, <1>3, ChainJoins
<1>5. row.prev \in 0..Len(rows)
  <2>1. new[Len(rows) + 1].prev \in 0..(Len(rows) + 1) - 1
      BY <1>a, <1>3, RowTyped
  <2> QED BY <1>0, <2>1
<1> QED BY <1>2, <1>4, <1>5 DEF new

\* The model's Reconstruct is the chain of the present table.
LEMMA ReconstructIsChain == \A e : Reconstruct(e) = Chain(evidence)[e]
BY DEF Reconstruct, Chain

-----------------------------------------------------------------------------
\* The invariants.

\* Every copy of the file that anyone has, at some time the whole of it.
Snapshots ==
    {transcript} \cup {raw[a] : a \in Actors}
                 \cup {Chain(evidence)[e] : e \in 0..Len(evidence)}

\* A cursor counts the lines of the chain that it points at.
Counts(c) == c.ev \in 0..Len(evidence) /\ Marks(c, Chain(evidence)[c.ev])

HasEvidence == {"enqueue", "observe", "merge", "merging", "latest", "save", "finish"}

\* What an actor works on is what its evidence joins to.
AtWork(a) ==
    /\ pc[a] \in {"cursor", "store"} => raw[a] # <<>>
    /\ pc[a] = "load" => ev[a] # 0
    /\ pc[a] \in HasEvidence => ev[a] # 0 /\ Chain(evidence)[ev[a]] = raw[a]

StoredInv ==
    /\ TypeOK
    /\ WellChained(evidence)
    /\ History(Snapshots, transcript, written)
    /\ Counts(cursor)
    /\ \A a \in Actors : Counts(cur[a]) /\ AtWork(a)

\* All lines of a transcript went through a merge, but for what a merge that
\* committed in part may have left.
Reached == merged \cup split
IsMerged(lines) == Lines(lines) \subseteq Reached

\* What is marked as merged, counted by a cursor or past its merge, was merged.
MergedInv ==
    /\ \A e \in prov : IsMerged(Chain(evidence)[e])
    /\ \A e \in DOMAIN jobs : jobs[e] = "completed" => IsMerged(Chain(evidence)[e])
    /\ IsMerged(Chain(evidence)[cursor.ev])
    /\ \A a \in Actors : IsMerged(Chain(evidence)[cur[a].ev])
    /\ \A a \in Actors : pc[a] \in {"latest", "save", "finish"} => IsMerged(raw[a])

-----------------------------------------------------------------------------
\* The types.

ActorsTyped ==
    /\ pc \in [Actors -> Places]
    /\ raw \in [Actors -> Seq(Line)]
    /\ cur \in [Actors -> Cursors]
    /\ ev \in [Actors -> 0..Len(evidence)]
    /\ latest \in [Actors -> Nat]

\* The types hold at first.
LEMMA TypeInit == Init => TypeOK
<1> SUFFICES ASSUME Init PROVE TypeOK
    OBVIOUS
<1>1. NoCursor \in Cursors
    BY DEF NoCursor, Cursors
<1>2. jobs \in [DOMAIN evidence -> JobStates] /\ prov \in SUBSET DOMAIN evidence
    BY DEF Init
<1> QED BY <1>1, <1>2, CaptureAssumption DEF Init, TypeOK, Places

\* Who leaves has nothing in hand.
LEMMA LeaveTyped ==
    ASSUME TypeOK, NEW a \in Actors, NEW place \in Places, Leave(a, place), UNCHANGED evidence
    PROVE  ActorsTyped'
<1>1. NoCursor \in Cursors /\ 0 \in 0..Len(evidence) /\ <<>> \in Seq(Line)
    BY DEF NoCursor, Cursors, TypeOK
<1> QED BY <1>1 DEF TypeOK, ActorsTyped, Leave, Goto

\* The same of who returns from a call or from a job.
LEMMA ReturnTyped ==
    ASSUME TypeOK, NEW a \in Actors, Return(a), UNCHANGED evidence
    PROVE  ActorsTyped'
BY LeaveTyped DEF Return, Places

\* Rows of the queue: one is set, some are recovered.
LEMMA SetJobTyped ==
    ASSUME TypeOK, NEW e, NEW state \in JobStates, SetJob(e, state)
    PROVE  jobs' \in [DOMAIN evidence -> JobStates]
BY DEF TypeOK, SetJob

\* Rows that a recovery moves keep their type.
LEMMA RecoverTyped ==
    ASSUME TypeOK, NEW revived, NEW stuck, Recover(revived, stuck)
    PROVE  jobs' \in [DOMAIN evidence -> JobStates]
BY DEF TypeOK, Recover, JobStates

\* What is stored, and what is extracted, are lines.
LEMMA SliceTyped ==
    ASSUME NEW lines \in Seq(Line), NEW c \in Cursors
    PROVE  StorageDelta(lines, c) \in Seq(Line) /\ ExtractionSlice(lines, c) \in Seq(Line)
<1>1. c.count \in Nat /\ Len(lines) \in Nat
    BY DEF Cursors
<1>2. CursorFits(lines, c) => c.count <= Len(lines)
    BY DEF CursorFits
<1>3. StorageDelta(lines, c) \in Seq(Line)
  <2>1. CASE IsDelta(lines, c)
    <3>1. c.count \in 0..Len(lines)
        BY <1>1, <1>2, <2>1 DEF IsDelta
    <3> QED BY <2>1, <3>1, FromProperties DEF StorageDelta
  <2> QED BY <2>1 DEF StorageDelta
<1>4. ExtractionSlice(lines, c) \in Seq(Line)
  <2>1. CASE CursorFits(lines, c)
    <3> DEFINE n == IF c.count > OverlapLines THEN c.count - OverlapLines ELSE 0
    <3>1. n \in 0..Len(lines)
        BY <1>1, <1>2, <2>1, CaptureAssumption
    <3>2. ExtractionSlice(lines, c) = From(lines, n)
        BY <2>1 DEF ExtractionSlice
    <3> HIDE DEF n
    <3> QED BY <3>1, <3>2, FromProperties
  <2> QED BY <2>1 DEF ExtractionSlice
<1> QED BY <1>3, <1>4

\* What joins to a transcript has lines.
LEMMA ReconstructTyped ==
    ASSUME WellChained(evidence), NEW e \in 0..Len(evidence)
    PROVE  Reconstruct(e) \in Seq(Line) /\ (e # 0 => Reconstruct(e) # <<>>)
BY ReconstructIsChain, ChainTyped

\* The file keeps its type.
LEMMA FileTyped ==
    ASSUME TypeOK, AppendLine \/ FinishLine \/ Compact
    PROVE  /\ transcript' \in Seq(Line) /\ written' \in 0..MaxLines
           /\ compactions' \in 0..MaxCompactions /\ torn' \in 0..MaxTorn
<1>1. /\ transcript \in Seq(Line) /\ written \in 0..MaxLines /\ compactions \in 0..MaxCompactions
      /\ torn \in 0..MaxTorn /\ Len(transcript) \in Nat /\ MaxLines \in Nat
      /\ MaxCompactions \in Nat /\ MaxTorn \in Nat
    BY CaptureAssumption DEF TypeOK
<1>2. CASE AppendLine
  <2>1. written + 1 \in Line /\ -(written + 1) \in Line /\ written + 1 \in 0..MaxLines
      BY <1>1, <1>2 DEF AppendLine, Line
  <2>2. \/ transcript' = Append(transcript, written + 1) /\ torn' = torn
        \/ /\ torn < MaxTorn /\ torn' = torn + 1
           /\ transcript' = Append(transcript, -(written + 1))
      BY <1>2 DEF AppendLine
  <2>3. transcript' \in Seq(Line)
      BY <1>1, <2>1, <2>2, AppendProperties
  <2>4. torn' \in 0..MaxTorn
      BY <1>1, <2>2
  <2> QED BY <1>1, <1>2, <2>1, <2>3, <2>4 DEF AppendLine
<1>3. CASE FinishLine
  <2>1. transcript # <<>> /\ transcript' = [transcript EXCEPT ![Len(transcript)] = -@]
      BY <1>3 DEF FinishLine, HalfWritten
  <2>2. Len(transcript) \in DOMAIN transcript
      BY <1>1, <2>1
  <2>3. transcript[Len(transcript)] \in Line
      BY <1>1, <2>2
  <2>4. -transcript[Len(transcript)] \in Line
      BY <1>1, <2>3 DEF Line
  <2>5. transcript' \in Seq(Line)
      BY <1>1, <2>1, <2>2, <2>4, ExceptSeq
  <2> QED BY <1>1, <1>3, <2>5 DEF FinishLine
<1>4. CASE Compact
  <2>1. PICK kept \in 0..Len(transcript) - 2 : transcript' = <<written + 1>> \o LastOf(transcript, kept)
      BY <1>4 DEF Compact
  <2>2. kept \in Nat /\ written + 1 \in Line /\ written + 1 \in 0..MaxLines
      BY <1>1, <1>4 DEF Compact, Line
  <2>3. LastOf(transcript, kept) \in Seq(Line) /\ <<written + 1>> \in Seq(Line)
      BY <1>1, <2>2, LastOfTyped
  <2>4. transcript' \in Seq(Line)
      BY <2>1, <2>3, ConcatProperties
  <2> QED BY <1>1, <1>4, <2>2, <2>4 DEF Compact
<1> QED BY <1>2, <1>3, <1>4

\* What Store leaves: the row it returns to the caller, new or found.
LEMMA StoreTyped ==
    ASSUME TypeOK, WellChained(evidence), NEW a \in Actors, Store(a)
    PROVE  TypeOK'
<1> DEFINE lines == StorageDelta(raw[a], cur[a])
           same  == {e \in DOMAIN evidence : evidence[e].lines = lines}
           row   == [lines |-> lines, prev |-> PrevEvidence(a)]
<1>1. /\ raw[a] \in Seq(Line) /\ cur[a] \in Cursors /\ evidence \in Seq(Rows)
      /\ jobs \in [DOMAIN evidence -> JobStates] /\ prov \in SUBSET DOMAIN evidence
      /\ DOMAIN evidence = 1..Len(evidence) /\ Len(evidence) \in Nat
      /\ ev \in [Actors -> 0..Len(evidence)]
    BY DEF TypeOK, Rows
<1>2. lines \in Seq(Line) /\ PrevEvidence(a) \in Nat
    BY <1>1, SliceTyped DEF PrevEvidence, Cursors
<1>3. row \in Rows
    BY <1>2 DEF Rows
<1>4. pc' \in [Actors -> Places]
    BY DEF TypeOK, Store, Goto, Places
<1>5. \/ /\ \E e \in same : ev' = [ev EXCEPT ![a] = e]
         /\ evidence' = evidence /\ jobs' = jobs
      \/ /\ evidence' = Append(evidence, row)
         /\ jobs' = Append(jobs, "absent")
         /\ ev' = [ev EXCEPT ![a] = Len(evidence) + 1]
    BY DEF Store
<1> HIDE DEF lines, row
<1>6. /\ evidence' \in Seq(Rows) /\ prov' \in SUBSET DOMAIN evidence'
      /\ jobs' \in [DOMAIN evidence' -> JobStates] /\ ev' \in [Actors -> 0..Len(evidence')]
  <2>0. prov' = prov
      BY DEF Store, mergeVars
  <2>1. CASE \E e \in same : ev' = [ev EXCEPT ![a] = e] /\ evidence' = evidence /\ jobs' = jobs
      BY <1>1, <2>0, <2>1
  <2>2. CASE /\ evidence' = Append(evidence, row) /\ jobs' = Append(jobs, "absent")
             /\ ev' = [ev EXCEPT ![a] = Len(evidence) + 1]
    <3>1. evidence' \in Seq(Rows) /\ Len(evidence') = Len(evidence) + 1
        BY <1>1, <1>3, <2>2, AppendProperties
    <3>2. DOMAIN evidence' = 1..Len(evidence) + 1
        BY <3>1
    <3>3. jobs \in Seq(JobStates) /\ Len(jobs) = Len(evidence)
        BY <1>1
    <3>4. "absent" \in JobStates
        BY DEF JobStates
    <3>5. jobs' \in Seq(JobStates) /\ Len(jobs') = Len(evidence) + 1
        BY <2>2, <3>3, <3>4, AppendProperties
    <3>6. jobs' \in [1..Len(evidence) + 1 -> JobStates]
        BY <1>1, <3>5
    <3>7. \A x \in 0..Len(evidence) : x \in 0..Len(evidence) + 1
        BY <1>1
    <3>8. Len(evidence) + 1 \in 0..Len(evidence) + 1
        BY <1>1
    <3>9. ev' \in [Actors -> 0..Len(evidence) + 1]
        BY <1>1, <2>2, <3>7, <3>8
    <3>10. prov \in SUBSET (1..Len(evidence) + 1)
        BY <1>1
    <3> QED BY <2>0, <3>1, <3>2, <3>6, <3>9, <3>10
  <2> QED BY <1>5, <2>1, <2>2
<1>7. /\ UNCHANGED <<transcript, written, compactions, torn, faults, calls, cursor, merged, split>>
      /\ UNCHANGED <<raw, cur, latest>>
    BY DEF Store, fileVars, mergeVars
<1> QED BY <1>4, <1>6, <1>7 DEF TypeOK, Rows

\* A step of an actor but for Store keeps the evidence.
Rest(a) ==
    \/ ReadTranscript(a) \/ ReadCursor(a) \/ Enqueue(a) \/ Foreground(a)
    \/ Drain(a) \/ Process(a) \/ Die(a)

\* Every step is one of the agent's, a Store, or another of some actor.
LEMMA NextSplit ==
    ASSUME Next
    PROVE  \/ AppendLine \/ FinishLine \/ Compact
           \/ \E a \in Actors : Store(a)
           \/ \E a \in Actors : Rest(a)
BY DEF Next, Rest, Capture, Foreground, Drain, Actors, Callers

\* Steps other than Store keep the types.
LEMMA RestTyped ==
    ASSUME TypeOK, WellChained(evidence), NEW a \in Actors, Rest(a),
           pc[a] \in HasEvidence \cup {"load"} => ev[a] # 0
    PROVE  TypeOK'
<1> DEFINE Row(x) == x \in DOMAIN evidence
<1>0. /\ DOMAIN evidence = 1..Len(evidence) /\ Len(evidence) \in Nat
      /\ DOMAIN jobs = DOMAIN evidence /\ raw[a] \in Seq(Line) /\ cur[a] \in Cursors
      /\ cursor \in Cursors /\ ev[a] \in 0..Len(evidence)
      /\ "queued" \in JobStates /\ "running" \in JobStates
      /\ "completed" \in JobStates /\ "dead_lettered" \in JobStates
    BY DEF TypeOK, JobStates
<1>1. CASE ReadTranscript(a)
  <2>1. calls' \in 0..MaxCalls
      BY <1>1, CaptureAssumption DEF TypeOK, ReadTranscript
  <2>2. ActorsTyped'
      BY <1>1 DEF TypeOK, ActorsTyped, ReadTranscript, Goto, Places, storeVars, mergeVars
  <2> QED BY <1>1, <2>1, <2>2 DEF TypeOK, ActorsTyped, ReadTranscript, fileVars, storeVars, mergeVars
<1>2. CASE ReadCursor(a)
  <2>1. jobs' \in [DOMAIN evidence -> JobStates]
      BY <1>2, RecoverTyped DEF ReadCursor, RecoverStuck
  <2>2. ActorsTyped'
    <3>1. CASE HasNew(raw[a], cursor)
        BY <1>0, <1>2, <3>1 DEF TypeOK, ActorsTyped, ReadCursor, Goto, Places
    <3>2. CASE ~HasNew(raw[a], cursor)
        BY <1>2, <3>2, ReturnTyped DEF ReadCursor
    <3> QED BY <3>1, <3>2
  <2> QED BY <1>2, <2>1, <2>2 DEF TypeOK, ActorsTyped, ReadCursor, fileVars, mergeVars
<1>3. CASE Enqueue(a)
  <2>1. jobs' \in [DOMAIN evidence -> JobStates]
      BY <1>0, <1>3, SetJobTyped DEF Enqueue, TypeOK
  <2>2. ActorsTyped'
    <3>1. CASE a \in Hooks
        BY <1>3, <3>1, ReturnTyped DEF Enqueue
    <3>2. CASE a \notin Hooks
        BY <1>3, <3>2 DEF TypeOK, ActorsTyped, Enqueue, Goto, Places
    <3> QED BY <3>1, <3>2
  <2> QED BY <1>3, <2>1, <2>2 DEF TypeOK, ActorsTyped, Enqueue, fileVars, mergeVars
<1>4. CASE Observe(a)
  <2>1. jobs' \in [DOMAIN evidence -> JobStates]
      BY <1>0, <1>4, SetJobTyped DEF Observe, TypeOK
  <2>2. ActorsTyped'
    <3>1. CASE Terminal(jobs[ev[a]])
        BY <1>4, <3>1, ReturnTyped DEF Observe
    <3>2. CASE ~Terminal(jobs[ev[a]])
        BY <1>4, <3>2 DEF TypeOK, ActorsTyped, Observe, Goto, Places
    <3> QED BY <3>1, <3>2
  <2> QED BY <1>4, <2>1, <2>2 DEF TypeOK, ActorsTyped, Observe, fileVars, mergeVars
<1>5. CASE ReplayJob(a)
  <2>1. PICK e \in InState("dead_lettered") :
            /\ SetJob(e, "queued")
            /\ raw' = [raw EXCEPT ![a] = Reconstruct(e)]
            /\ ev' = [ev EXCEPT ![a] = e]
      BY <1>5 DEF ReplayJob
  <2>2. e \in 0..Len(evidence)
      BY <1>0, <2>1 DEF InState
  <2>3. Reconstruct(e) \in Seq(Line)
      BY <2>2, ReconstructTyped
  <2>4. jobs' \in [DOMAIN evidence -> JobStates]
      BY <1>0, <2>1, SetJobTyped
  <2>5. calls' \in 0..MaxCalls
      BY <1>5, CaptureAssumption DEF TypeOK, ReplayJob
  <2>6. UNCHANGED <<fileVars, faults, evidence, cursor, mergeVars, cur, latest>> /\ Goto(a, "cursor")
      BY <1>5 DEF ReplayJob
  <2>7. ActorsTyped'
      BY <2>1, <2>2, <2>3, <2>6 DEF TypeOK, ActorsTyped, Goto, Places
  <2> QED BY <2>4, <2>5, <2>6, <2>7 DEF TypeOK, ActorsTyped, fileVars, mergeVars
<1>6. CASE StartDrain(a)
  <2>1. jobs' \in [DOMAIN evidence -> JobStates]
      BY <1>6, RecoverTyped DEF StartDrain
  <2>2. ActorsTyped'
      BY <1>6 DEF TypeOK, ActorsTyped, StartDrain, Goto, Places
  <2> QED BY <1>6, <2>1, <2>2 DEF TypeOK, ActorsTyped, StartDrain, fileVars, mergeVars
<1>7. CASE Claim(a)
  <2>1. PICK e \in InState("queued") : SetJob(e, "running") /\ ev' = [ev EXCEPT ![a] = e]
      BY <1>7 DEF Claim
  <2>2. e \in 0..Len(evidence)
      BY <1>0, <2>1 DEF InState
  <2>3. jobs' \in [DOMAIN evidence -> JobStates]
      BY <1>0, <2>1, SetJobTyped
  <2>4. ActorsTyped'
      BY <1>7, <2>1, <2>2 DEF TypeOK, ActorsTyped, Claim, Goto, Places
  <2> QED BY <1>7, <2>3, <2>4 DEF TypeOK, ActorsTyped, Claim, fileVars, mergeVars
<1>8. CASE StopDrain(a)
  <2>1. ActorsTyped'
      BY <1>8 DEF TypeOK, ActorsTyped, StopDrain, Goto, Places, storeVars, mergeVars
  <2> QED BY <1>8, <2>1 DEF TypeOK, ActorsTyped, StopDrain, fileVars, storeVars, mergeVars
<1>9. CASE Load(a)
  <2>1. Reconstruct(ev[a]) \in Seq(Line)
      BY <1>0, ReconstructTyped
  <2>2. ActorsTyped'
      BY <1>0, <1>9, <2>1 DEF TypeOK, ActorsTyped, Load, Goto, Places, storeVars, mergeVars
  <2> QED BY <1>9, <2>2 DEF TypeOK, ActorsTyped, Load, fileVars, storeVars, mergeVars
<1>10. CASE Merge(a)
  <2>1. jobs' \in [DOMAIN evidence -> JobStates]
      BY <1>0, <1>10, SetJobTyped DEF Merge
  <2>2. ActorsTyped'
      BY <1>10 DEF TypeOK, ActorsTyped, Merge, Goto, Places
  <2> QED BY <1>10, <2>1, <2>2 DEF TypeOK, ActorsTyped, Merge, fileVars, mergeVars
<1>16. CASE VerdictCommits(a) \/ MergeCommits(a)
  <2>1. ev[a] \in DOMAIN evidence
      BY <1>0, <1>16 DEF VerdictCommits, MergeCommits, HasEvidence
  <2>2. prov' \in SUBSET DOMAIN evidence
      BY <1>16, <2>1 DEF VerdictCommits, MergeCommits, TypeOK
  <2>3. Slice(a) \subseteq Line
    <3> DEFINE slice == ExtractionSlice(raw[a], cur[a])
    <3>1. slice \in Seq(Line)
        BY <1>0, SliceTyped
    <3> HIDE DEF slice
    <3>2. Lines(slice) \subseteq Line
        BY <3>1 DEF Lines
    <3> QED BY <3>2 DEF slice, Slice
  <2>4. merged' \in SUBSET Line /\ split' \in SUBSET Line
    <3>1. CASE VerdictCommits(a)
      <4>1. PICK done \in SUBSET Slice(a) : merged' = merged \cup done
          BY <3>1 DEF VerdictCommits
      <4> QED BY <2>3, <3>1, <4>1 DEF VerdictCommits, TypeOK
    <3>2. CASE MergeCommits(a)
        BY <2>3, <3>2 DEF MergeCommits, TypeOK
    <3> QED BY <1>16, <3>1, <3>2
  <2>5. ActorsTyped'
      BY <1>16 DEF TypeOK, ActorsTyped, VerdictCommits, MergeCommits, Goto, Places, actorVars
  <2> QED BY <1>16, <2>2, <2>4, <2>5 DEF TypeOK, ActorsTyped, VerdictCommits, MergeCommits, fileVars, mergeVars
<1>11. CASE ReadLatest(a)
  <2>1. jobs' \in [DOMAIN evidence -> JobStates]
      BY <1>0, <1>11, SetJobTyped DEF ReadLatest
  <2>2. cursor.count \in Nat
      BY <1>0 DEF Cursors
  <2>3. ActorsTyped'
      BY <1>11, <2>2 DEF TypeOK, ActorsTyped, ReadLatest, Goto, Places
  <2> QED BY <1>11, <2>1, <2>3 DEF TypeOK, ActorsTyped, ReadLatest, fileVars, mergeVars
<1>12. CASE SaveCursor(a)
  <2>1. NewCursor(a) \in Cursors
    <3>1. Len(raw[a]) \in 0..Len(raw[a]) /\ Len(raw[a]) \in Nat /\ ev[a] \in Nat
        BY <1>0
    <3>2. ComputeAnchor(raw[a], Len(raw[a])) \in Seq(Line)
        BY <1>0, <3>1, AnchorTyped
    <3> QED BY <3>1, <3>2 DEF NewCursor, Cursors
  <2>2. cursor' \in Cursors
      BY <1>0, <1>12, <2>1 DEF SaveCursor
  <2>3. ActorsTyped'
      BY <1>12 DEF TypeOK, ActorsTyped, SaveCursor, Goto, Places
  <2> QED BY <1>12, <2>2, <2>3 DEF TypeOK, ActorsTyped, SaveCursor, fileVars, mergeVars
<1>13. CASE Finish(a)
  <2>1. jobs' \in [DOMAIN evidence -> JobStates]
      BY <1>0, <1>13, SetJobTyped DEF Finish
  <2>2. ActorsTyped'
      BY <1>13, ReturnTyped DEF Finish
  <2> QED BY <1>13, <2>1, <2>2 DEF TypeOK, ActorsTyped, Finish, fileVars, mergeVars
<1>14. CASE Fail(a)
  <2>1. jobs' \in [DOMAIN evidence -> JobStates]
      BY <1>0, <1>14, SetJobTyped DEF Fail, TypeOK
  <2>2. faults' \in 0..MaxFaults
      BY <1>14, CaptureAssumption DEF Fail, TypeOK
  <2>3. ActorsTyped'
      BY <1>14, ReturnTyped DEF Fail
  <2> QED BY <1>14, <2>1, <2>2, <2>3 DEF TypeOK, ActorsTyped, Fail, fileVars, mergeVars
<1>15. CASE Die(a)
  <2>1. faults' \in 0..MaxFaults
      BY <1>15, CaptureAssumption DEF Die, TypeOK
  <2>2. ActorsTyped'
      BY <1>15, LeaveTyped DEF Die, storeVars, mergeVars, Places
  <2> QED BY <1>15, <2>1, <2>2 DEF TypeOK, ActorsTyped, Die, fileVars, storeVars, mergeVars
<1> QED BY <1>1, <1>2, <1>3, <1>4, <1>5, <1>6, <1>7, <1>8, <1>9, <1>10, <1>11, <1>12, <1>13,
           <1>14, <1>15, <1>16 DEF Rest, Foreground, Drain, Process, Merging

-----------------------------------------------------------------------------
\* The chain gives back what was read.

\* An empty project is stored well.
LEMMA StoredInit == Init => StoredInv
<1> SUFFICES ASSUME Init PROVE StoredInv
    OBVIOUS
<1>1. TypeOK
    BY TypeInit
<1>2. evidence = <<>> /\ Len(evidence) = 0 /\ WellChained(evidence) /\ 0..Len(evidence) = {0}
  <2>1. <<>> \in Seq(Rows) /\ Len(<<>>) = 0 /\ DOMAIN <<>> = {} /\ 0..0 = {0}
      BY EmptySeq
  <2> QED BY <2>1 DEF Init, WellChained
<1>3. Chain(evidence)[0] = <<>>
    BY <1>2, ChainJoins
<1>4. Snapshots = {<<>>}
    BY <1>2, <1>3 DEF Snapshots, Init
<1>5. History(Snapshots, transcript, written)
  <2>1. transcript = <<>> /\ written = 0 /\ <<>> \in Seq(Int) /\ DOMAIN <<>> = {}
      BY EmptySeq DEF Init
  <2>2. \A t, u \in {<<>>} : ~(Len(t) < Len(u))
      BY EmptySeq
  <2> QED BY <1>4, <2>1, <2>2 DEF History, HalfSeen, Behind, Agree, Fresh
<1>6. Counts(NoCursor)
  <2>1. ComputeAnchor(<<>>, 0) = <<>>
    <3>1. <<>> \in Seq({}) /\ Len(<<>>) = 0 /\ 0 \in 0..Len(<<>>)
        BY EmptySeq
    <3>2. ComputeAnchor(<<>>, 0) \in Seq({})
        BY <3>1, AnchorTyped
    <3> QED BY <3>2
  <2>2. Len(<<>>) = 0
      BY EmptySeq
  <2> QED BY <1>2, <1>3, <2>1, <2>2 DEF Counts, Marks, NoCursor
<1>7. \A a \in Actors : Counts(cur[a]) /\ AtWork(a)
    BY <1>6 DEF Init, AtWork, HasEvidence
<1> QED BY <1>1, <1>2, <1>5, <1>6, <1>7 DEF StoredInv, Init

\* Nothing but the file moves when the agent writes, and its history goes on.
LEMMA FileStep ==
    ASSUME StoredInv, AppendLine \/ FinishLine \/ Compact
    PROVE  StoredInv'
<1>1. TypeOK /\ WellChained(evidence) /\ History(Snapshots, transcript, written)
    BY DEF StoredInv
<1>2. UNCHANGED <<faults, calls, evidence, prov, jobs, cursor, merged, split, pc, raw, cur, ev, latest>>
    BY DEF AppendLine, FinishLine, Compact, storeVars, mergeVars, actorVars
<1>3. TypeOK'
    BY <1>1, <1>2, FileTyped DEF TypeOK
<1>4. Snapshots' \subseteq Snapshots \cup {transcript'} /\ transcript' \in Snapshots'
    BY <1>2 DEF Snapshots
<1>5. <<>> \in Snapshots'
  <2>1. 0 \in 0..Len(evidence)
      BY <1>1 DEF TypeOK
  <2>2. Chain(evidence)[0] = <<>>
      BY <1>1, ChainJoins
  <2> QED BY <1>2, <2>1, <2>2 DEF Snapshots
<1>6. History(Snapshots \cup {transcript'}, transcript', written')
  <2>1. CASE AppendLine
    <3>1. transcript = <<>> \/ transcript[Len(transcript)] >= 0
      <4>1. SUFFICES ASSUME transcript # <<>> PROVE transcript[Len(transcript)] >= 0
          OBVIOUS
      <4>2. ~(transcript[Len(transcript)] < 0)
          BY <2>1, <4>1 DEF AppendLine, HalfWritten
      <4>3. transcript \in Seq(Line) /\ Len(transcript) \in DOMAIN transcript
          BY <1>1, <4>1 DEF TypeOK
      <4>4. transcript[Len(transcript)] \in Int
          BY <4>3, CaptureAssumption DEF Line
      <4> QED BY <4>2, <4>4
    <3>2. PICK x \in {written + 1, -(written + 1)} : transcript' = Append(transcript, x)
        BY <2>1 DEF AppendLine
    <3>3. History(Snapshots \cup {Append(transcript, x)}, Append(transcript, x), written + 1)
        BY <1>1, <3>1, LineAppended
    <3> QED BY <2>1, <3>2, <3>3 DEF AppendLine
  <2>2. CASE FinishLine
    <3>1. transcript # <<>> /\ transcript[Len(transcript)] < 0
        BY <2>2 DEF FinishLine, HalfWritten
    <3>2. History(Snapshots \cup {[transcript EXCEPT ![Len(transcript)] = -@]},
                  [transcript EXCEPT ![Len(transcript)] = -@], written)
        BY <1>1, <3>1, LineFinished
    <3> QED BY <2>2, <3>2 DEF FinishLine
  <2>3. CASE Compact
    <3>1. PICK kept \in 0..Len(transcript) - 2 : transcript' = <<written + 1>> \o LastOf(transcript, kept)
        BY <2>3 DEF Compact
    <3>2. History(Snapshots \cup {<<written + 1>> \o LastOf(transcript, kept)},
                  <<written + 1>> \o LastOf(transcript, kept), written + 1)
        BY <1>1, FileCompacted
    <3> QED BY <2>3, <3>1, <3>2 DEF Compact
  <2> QED BY <2>1, <2>2, <2>3
<1>7. History(Snapshots', transcript', written')
  <2> DEFINE all == Snapshots \cup {transcript'}
             some == Snapshots'
             file == transcript'
             n == written'
  <2>1. History(all, file, n) /\ some \in SUBSET all /\ file \in some /\ <<>> \in some
      BY <1>4, <1>5, <1>6
  <2> HIDE DEF all, some, file, n
  <2>2. History(some, file, n)
      BY <2>1, FewerSnapshots
  <2> QED BY <2>2 DEF some, file, n
<1>8. Counts(cursor)' /\ \A a \in Actors : Counts(cur[a])' /\ AtWork(a)'
  <2>1. Chain(evidence)' = Chain(evidence)
      BY <1>2
  <2> QED BY <1>2, <2>1 DEF StoredInv, Counts, AtWork
<1> QED BY <1>1, <1>2, <1>3, <1>7, <1>8 DEF StoredInv

\* NULL stands for the empty transcript.
LEMMA EmptyChain ==
    ASSUME TypeOK, WellChained(evidence)
    PROVE  0 \in 0..Len(evidence) /\ Chain(evidence)[0] = <<>>
<1>1. 0 \in 0..Len(evidence)
    BY DEF TypeOK
<1> QED BY <1>1, ChainJoins

\* What a step other than Store does: whoever moves goes on with what it has, takes
\* a copy of the file or of a chain, or drops it.
LEMMA RestMoved ==
    ASSUME StoredInv, NEW a \in Actors, Rest(a)
    PROVE  /\ UNCHANGED <<transcript, written, evidence>>
           /\ \A b \in Actors \ {a} :
                  pc'[b] = pc[b] /\ raw'[b] = raw[b] /\ cur'[b] = cur[b] /\ ev'[b] = ev[b]
           /\ raw'[a] \in Snapshots /\ cur'[a] \in {cur[a], cursor, NoCursor}
           /\ \/ cursor' = cursor
              \/ pc[a] = "save" /\ cursor' = NewCursor(a)
           /\ pc'[a] \in {"cursor", "store"} => raw'[a] # <<>>
           /\ pc'[a] = "load" => ev'[a] # 0
           /\ pc'[a] \in HasEvidence => ev'[a] # 0 /\ Chain(evidence)[ev'[a]] = raw'[a]
<1> DEFINE Others == \A b \in Actors \ {a} :
               pc'[b] = pc[b] /\ raw'[b] = raw[b] /\ cur'[b] = cur[b] /\ ev'[b] = ev[b]
           Works == /\ pc'[a] \in {"cursor", "store"} => raw'[a] # <<>>
                    /\ pc'[a] = "load" => ev'[a] # 0
                    /\ pc'[a] \in HasEvidence => ev'[a] # 0 /\ Chain(evidence)[ev'[a]] = raw'[a]
           Moved == Others /\ raw'[a] \in Snapshots /\ cur'[a] \in {cur[a], cursor, NoCursor} /\ Works
<1>0. /\ pc \in [Actors -> Places] /\ raw \in [Actors -> Seq(Line)]
      /\ cur \in [Actors -> Cursors] /\ ev \in [Actors -> 0..Len(evidence)]
      /\ DOMAIN evidence = 1..Len(evidence) /\ Len(evidence) \in Nat
      /\ DOMAIN jobs = DOMAIN evidence /\ WellChained(evidence) /\ AtWork(a)
    BY DEF StoredInv, TypeOK
<1>1. /\ raw[a] \in Snapshots /\ transcript \in Snapshots /\ <<>> \in Snapshots
      /\ \A e \in 0..Len(evidence) : Reconstruct(e) = Chain(evidence)[e] /\ Chain(evidence)[e] \in Snapshots
  <2>1. 0 \in 0..Len(evidence) /\ Chain(evidence)[0] = <<>>
      BY <1>0, EmptyChain DEF StoredInv
  <2> QED BY <2>1, ReconstructIsChain DEF Snapshots
\* Whoever leaves, and whoever goes on with the same evidence.
<1>2. ASSUME NEW place \in {"idle", "pick"}, Leave(a, place) PROVE Moved
    BY <1>0, <1>1, <1>2 DEF Leave, Goto, HasEvidence
<1>3. ASSUME Return(a) PROVE Moved
    BY <1>2, <1>3 DEF Return
<1>4. ASSUME NEW place \in HasEvidence, Goto(a, place), UNCHANGED <<raw, cur, ev>>, pc[a] \in HasEvidence
      PROVE  Moved
    BY <1>0, <1>1, <1>4 DEF Goto, HasEvidence, AtWork
<1>5. CASE ReadTranscript(a)
    BY <1>0, <1>1, <1>5 DEF ReadTranscript, Goto, HasEvidence, fileVars, storeVars, mergeVars
<1>6. CASE ReadCursor(a)
  <2>1. CASE HasNew(raw[a], cursor)
      BY <1>0, <1>1, <1>6, <2>1 DEF ReadCursor, Goto, HasEvidence, AtWork, fileVars, mergeVars
  <2>2. CASE ~HasNew(raw[a], cursor)
      BY <1>3, <1>6, <2>2 DEF ReadCursor, fileVars, mergeVars
  <2> QED BY <2>1, <2>2
<1>7. CASE Enqueue(a)
  <2>1. CASE a \in Hooks
      BY <1>3, <1>7, <2>1 DEF Enqueue, fileVars, mergeVars
  <2>2. CASE a \notin Hooks
      BY <1>4, <1>7, <2>2 DEF Enqueue, fileVars, mergeVars, HasEvidence
  <2> QED BY <2>1, <2>2
<1>8. CASE Observe(a)
  <2>1. CASE Terminal(jobs[ev[a]])
      BY <1>3, <1>8, <2>1 DEF Observe, fileVars, mergeVars
  <2>2. CASE ~Terminal(jobs[ev[a]])
      BY <1>4, <1>8, <2>2 DEF Observe, fileVars, mergeVars, HasEvidence
  <2> QED BY <2>1, <2>2
<1>9. CASE ReplayJob(a)
  <2>1. PICK e \in InState("dead_lettered") :
            raw' = [raw EXCEPT ![a] = Reconstruct(e)] /\ ev' = [ev EXCEPT ![a] = e]
      BY <1>9 DEF ReplayJob
  <2>2. e \in 0..Len(evidence) /\ e # 0
      BY <1>0, <2>1 DEF InState
  <2>3. Reconstruct(e) # <<>>
      BY <1>0, <2>2, ReconstructTyped
  <2> QED BY <1>0, <1>1, <1>9, <2>1, <2>2, <2>3 DEF ReplayJob, Goto, HasEvidence, fileVars, mergeVars
<1>10. CASE StartDrain(a)
    BY <1>0, <1>1, <1>10 DEF StartDrain, Goto, HasEvidence, fileVars, mergeVars
<1>11. CASE Claim(a)
  <2>1. PICK e \in InState("queued") : ev' = [ev EXCEPT ![a] = e]
      BY <1>11 DEF Claim
  <2>2. e # 0
      BY <1>0, <2>1 DEF InState
  <2> QED BY <1>0, <1>1, <1>11, <2>1, <2>2 DEF Claim, Goto, HasEvidence, fileVars, mergeVars
<1>12. CASE StopDrain(a)
    BY <1>0, <1>1, <1>12 DEF StopDrain, Goto, HasEvidence, fileVars, storeVars, mergeVars
<1>13. CASE Load(a)
  <2>1. ev[a] \in 0..Len(evidence) /\ ev[a] # 0
      BY <1>0, <1>13 DEF Load, AtWork
  <2> QED BY <1>0, <1>1, <1>13, <2>1 DEF Load, Goto, HasEvidence, fileVars, storeVars, mergeVars
<1>14. CASE Merge(a)
    BY <1>4, <1>14 DEF Merge, HasEvidence, fileVars, mergeVars
<1>20. CASE VerdictCommits(a)
    BY <1>0, <1>1, <1>20 DEF VerdictCommits, HasEvidence, AtWork, fileVars, mergeVars, actorVars
<1>21. CASE MergeCommits(a)
    BY <1>4, <1>21 DEF MergeCommits, HasEvidence, fileVars, mergeVars
<1>15. CASE ReadLatest(a)
    BY <1>4, <1>15 DEF ReadLatest, HasEvidence, fileVars, mergeVars
<1>16. CASE SaveCursor(a)
    BY <1>4, <1>16 DEF SaveCursor, HasEvidence, fileVars, mergeVars
<1>17. CASE Finish(a)
    BY <1>3, <1>17 DEF Finish, fileVars, mergeVars
<1>18. CASE Fail(a)
    BY <1>3, <1>18 DEF Fail, fileVars, mergeVars
<1>19. CASE Die(a)
    BY <1>2, <1>19 DEF Die, fileVars, storeVars, mergeVars
<1> QED BY <1>5, <1>6, <1>7, <1>8, <1>9, <1>10, <1>11, <1>12, <1>13, <1>14, <1>15, <1>16,
           <1>17, <1>18, <1>19, <1>20, <1>21 DEF Rest, Foreground, Drain, Process, Merging

\* So whatever is not a Store keeps the chain exact.
LEMMA RestStep ==
    ASSUME StoredInv, NEW a \in Actors, Rest(a)
    PROVE  StoredInv'
<1>0. /\ TypeOK /\ WellChained(evidence) /\ History(Snapshots, transcript, written)
      /\ Counts(cursor) /\ \A b \in Actors : Counts(cur[b]) /\ AtWork(b)
    BY DEF StoredInv
<1>1. TypeOK'
    BY <1>0, RestTyped DEF AtWork, HasEvidence
<1>2. UNCHANGED <<transcript, written, evidence>> /\ Chain(evidence)' = Chain(evidence)
    BY RestMoved
<1>3. Snapshots' \subseteq Snapshots
  <2> SUFFICES ASSUME NEW b \in Actors PROVE raw'[b] \in Snapshots
      BY <1>2 DEF Snapshots
  <2> QED BY RestMoved DEF Snapshots
<1>4. transcript' \in Snapshots' /\ <<>> \in Snapshots'
  <2>1. 0 \in 0..Len(evidence) /\ Chain(evidence)[0] = <<>>
      BY <1>0, EmptyChain
  <2> QED BY <1>2, <2>1 DEF Snapshots
<1>5. History(Snapshots', transcript', written')
  <2> DEFINE all == Snapshots
             some == Snapshots'
  <2>1. History(all, transcript, written) /\ some \in SUBSET all /\ transcript \in some /\ <<>> \in some
      BY <1>0, <1>2, <1>3, <1>4
  <2> HIDE DEF all, some
  <2>2. History(some, transcript, written)
      BY <2>1, FewerSnapshots
  <2> QED BY <1>2, <2>2 DEF some
<1>6. Counts(NoCursor)
  <2>1. 0 \in 0..Len(evidence) /\ Chain(evidence)[0] = <<>>
      BY <1>0, EmptyChain
  <2>2. Len(<<>>) = 0 /\ <<>> \in Seq({}) /\ 0 \in 0..Len(<<>>)
      BY EmptySeq
  <2>3. ComputeAnchor(<<>>, 0) = <<>>
    <3>1. ComputeAnchor(<<>>, 0) \in Seq({})
        BY <2>2, AnchorTyped
    <3> QED BY <3>1
  <2> QED BY <2>1, <2>2, <2>3 DEF Counts, Marks, NoCursor
<1>7. Counts(cursor)'
  <2>1. CASE cursor' = cursor
      BY <1>0, <1>2, <2>1 DEF Counts
  <2>2. CASE pc[a] = "save" /\ cursor' = NewCursor(a)
    <3>1. Chain(evidence)[ev[a]] = raw[a] /\ ev[a] \in 0..Len(evidence)
        BY <1>0, <2>2 DEF AtWork, HasEvidence, TypeOK
    <3> QED BY <1>2, <2>2, <3>1 DEF Counts, Marks, NewCursor
  <2> QED BY <2>1, <2>2, RestMoved
<1>8. ASSUME NEW b \in Actors PROVE Counts(cur[b])' /\ AtWork(b)'
  <2>1. CASE b = a
    <3>1. cur'[a] \in {cur[a], cursor, NoCursor}
        BY RestMoved
    <3>2. Counts(cur[a])'
        BY <1>0, <1>2, <1>6, <3>1 DEF Counts
    <3>3. AtWork(a)'
        BY <1>2, RestMoved DEF AtWork
    <3> QED BY <2>1, <3>2, <3>3
  <2>2. CASE b # a
      BY <1>0, <1>2, <2>2, RestMoved DEF Counts, AtWork
  <2> QED BY <2>1, <2>2
<1> QED BY <1>0, <1>1, <1>2, <1>5, <1>7, <1>8 DEF StoredInv

\* What a caller is about to store follows the chain that it will be joined to.
LEMMA StoreContinues ==
    ASSUME StoredInv, NEW a \in Actors, pc[a] = "store"
    PROVE  /\ PrevEvidence(a) \in 0..Len(evidence)
           /\ LET base  == Chain(evidence)[PrevEvidence(a)]
                  lines == StorageDelta(raw[a], cur[a])
              IN  /\ base \in Snapshots /\ Len(base) < Len(raw[a]) /\ SamePrefix(base, raw[a], Len(base))
                  /\ lines = From(raw[a], Len(base)) /\ lines # <<>> /\ base \o lines = raw[a]
<1> DEFINE r == raw[a]
           c == cur[a]
           base == Chain(evidence)[PrevEvidence(a)]
           lines == StorageDelta(r, c)
<1>0. /\ TypeOK /\ WellChained(evidence) /\ History(Snapshots, transcript, written)
      /\ Counts(c) /\ r # <<>> /\ r \in Seq(Line) /\ r \in Snapshots
    BY DEF StoredInv, AtWork, TypeOK, Snapshots
<1>1. r \in Seq(Int) /\ Len(r) \in Nat /\ Len(r) > 0
  <2>1. r \in Seq(Int)
      BY <1>0 DEF History
  <2> HIDE DEF r
  <2> QED BY <1>0, <2>1
<1>2. /\ PrevEvidence(a) \in 0..Len(evidence) /\ base \in Snapshots /\ base \in Seq(Int)
      /\ Len(base) < Len(r) /\ SamePrefix(base, r, Len(base)) /\ lines = From(r, Len(base))
  <2>1. CASE IsDelta(r, c)
    <3>1. PrevEvidence(a) = c.ev /\ lines = From(r, c.count) /\ CursorFits(r, c) /\ c.count < Len(r)
        BY <2>1 DEF PrevEvidence, StorageDelta, IsDelta
    <3>2. c.ev \in 0..Len(evidence) /\ Marks(c, base) /\ c.count = Len(base)
        BY <1>0, <3>1 DEF Counts, Marks
    <3>3. base \in Snapshots /\ base \in Seq(Int)
      <4>1. base \in Snapshots
          BY <3>1, <3>2 DEF Snapshots
      <4> HIDE DEF base
      <4> QED BY <1>0, <4>1 DEF History
    <3>4. SamePrefix(base, r, c.count)
      <4> HIDE DEF base, r, c
      <4> QED BY <1>0, <3>1, <3>2, <3>3, FittingIsPrefix
    <3> QED BY <3>1, <3>2, <3>3, <3>4
  <2>2. CASE ~IsDelta(r, c)
    <3>1. PrevEvidence(a) = 0 /\ lines = r
        BY <2>2 DEF PrevEvidence, StorageDelta
    <3>2. 0 \in 0..Len(evidence) /\ base = <<>>
        BY <1>0, <3>1, EmptyChain
    <3>3. base \in Snapshots /\ <<>> \in Seq(Int) /\ Len(<<>>) = 0
        BY <3>1, <3>2, EmptySeq DEF Snapshots
    <3>4. From(r, 0) = r
      <4> HIDE DEF r
      <4>1. SamePrefix(<<>>, r, 0) /\ Len(<<>>) = 0 /\ 0 <= Len(r)
          BY <1>1, <3>3 DEF SamePrefix
      <4>2. <<>> \o From(r, 0) = r
          BY <1>1, <3>3, <4>1, JoinGivesBack
      <4>3. From(r, 0) \in Seq(Int)
        <5>1. 0 \in 0..Len(r)
            BY <1>1
        <5> QED BY <1>1, <5>1, FromProperties
      <4> QED BY <4>2, <4>3, ConcatEmptySeq
    <3>5. SamePrefix(<<>>, r, 0)
        BY DEF SamePrefix
    <3> QED BY <1>1, <3>1, <3>2, <3>3, <3>4, <3>5
  <2> QED BY <2>1, <2>2
<1> HIDE DEF r, base, lines
<1>3. Len(base) \in 0..Len(r) /\ Len(r) - Len(base) > 0
    BY <1>1, <1>2
<1>4. lines # <<>>
  <2>1. Len(lines) = Len(r) - Len(base)
      BY <1>1, <1>2, <1>3, FromProperties
  <2> QED BY <1>3, <2>1, EmptySeq
<1>5. base \o lines = r
  <2>1. Len(base) <= Len(r)
      BY <1>1, <1>2
  <2> QED BY <1>1, <1>2, <2>1, JoinGivesBack
<1> QED BY <1>2, <1>4, <1>5 DEF r, base, lines

\* Store keeps the chain exact: the delta joins the cursor's chain, an equal chunk is the same.
LEMMA StoreStep ==
    ASSUME StoredInv, NEW a \in Actors, Store(a)
    PROVE  /\ StoredInv'
           /\ Chain(evidence')[ev'[a]] = raw[a]
           /\ Len(evidence') >= Len(evidence)
           /\ \A e \in 0..Len(evidence) : e \in 0..Len(evidence') /\ Chain(evidence')[e] = Chain(evidence)[e]
<1> DEFINE lines == StorageDelta(raw[a], cur[a])
           base  == Chain(evidence)[PrevEvidence(a)]
           same  == {e \in DOMAIN evidence : evidence[e].lines = lines}
           row   == [lines |-> lines, prev |-> PrevEvidence(a)]
<1>0. /\ TypeOK /\ WellChained(evidence) /\ History(Snapshots, transcript, written)
      /\ Counts(cursor) /\ \A b \in Actors : Counts(cur[b]) /\ AtWork(b)
      /\ pc \in [Actors -> Places] /\ ev \in [Actors -> 0..Len(evidence)]
      /\ evidence \in Seq(Rows) /\ DOMAIN evidence = 1..Len(evidence) /\ Len(evidence) \in Nat
      /\ pc[a] = "store" /\ raw[a] \in Snapshots
  <2>1. /\ TypeOK /\ WellChained(evidence) /\ History(Snapshots, transcript, written)
        /\ Counts(cursor) /\ \A b \in Actors : Counts(cur[b]) /\ AtWork(b)
      BY DEF StoredInv
  <2>2. pc \in [Actors -> Places] /\ ev \in [Actors -> 0..Len(evidence)]
      BY <2>1 DEF TypeOK
  <2>3. evidence \in Seq(Rows) /\ DOMAIN evidence = 1..Len(evidence) /\ Len(evidence) \in Nat
      BY <2>1 DEF WellChained
  <2>4. pc[a] = "store" /\ raw[a] \in Snapshots
      BY DEF Store, Snapshots
  <2> QED BY <2>1, <2>2, <2>3, <2>4
<1>1. TypeOK'
    BY <1>0, StoreTyped
<1>2. /\ PrevEvidence(a) \in 0..Len(evidence)
      /\ base \in Snapshots /\ Len(base) < Len(raw[a]) /\ SamePrefix(base, raw[a], Len(base))
      /\ lines = From(raw[a], Len(base)) /\ lines # <<>> /\ base \o lines = raw[a]
    BY <1>0, StoreContinues
<1>3. UNCHANGED <<transcript, written, cursor, raw, cur>> /\ pc' = [pc EXCEPT ![a] = "enqueue"]
    BY DEF Store, Goto, fileVars, mergeVars
<1>4. \/ /\ \E e \in same : ev' = [ev EXCEPT ![a] = e]
         /\ evidence' = evidence
      \/ /\ evidence' = Append(evidence, row)
         /\ ev' = [ev EXCEPT ![a] = Len(evidence) + 1]
    BY DEF Store
<1>5. lines \in Seq(Line) /\ row \in Rows
  <2>1. raw[a] \in Seq(Line) /\ cur[a] \in Cursors
      BY <1>0 DEF TypeOK
  <2>2. lines \in Seq(Line)
      BY <2>1, SliceTyped
  <2> HIDE DEF lines
  <2> QED BY <1>0, <1>2, <2>2 DEF Rows
<1> HIDE DEF lines, base
\* Whether the row is found or new, older chains stay and the caller's is what it read.
<1>6. /\ WellChained(evidence') /\ ev'[a] # 0 /\ Chain(evidence')[ev'[a]] = raw[a]
      /\ Len(evidence') >= Len(evidence) /\ \A b \in Actors \ {a} : ev'[b] = ev[b]
      /\ \A e \in 0..Len(evidence) : e \in 0..Len(evidence') /\ Chain(evidence')[e] = Chain(evidence)[e]
      /\ \A e \in 0..Len(evidence') : Chain(evidence')[e] \in Snapshots
  <2>1. CASE evidence' = evidence /\ \E e \in same : ev' = [ev EXCEPT ![a] = e]
    <3>1. PICK e \in same : ev' = [ev EXCEPT ![a] = e]
        BY <2>1
    <3>2. e \in 1..Len(evidence) /\ evidence[e].lines = lines /\ e # 0
        BY <1>0, <3>1
    <3> DEFINE before == Chain(evidence)[evidence[e].prev]
               found == Chain(evidence)[e]
    <3>3. found = before \o lines
        BY <1>0, <3>2, ChainJoins
    <3>4. before \in Snapshots /\ found \in Snapshots
      <4>1. e \in 0..Len(evidence) /\ evidence[e].prev \in 0..Len(evidence)
          BY <1>0, <3>2, RowTyped
      <4> QED BY <4>1 DEF Snapshots
    <3> HIDE DEF before, found
    <3>5. found = raw[a]
        BY <1>0, <1>2, <3>3, <3>4, SameContent
    <3>6. ev'[a] = e /\ \A b \in Actors \ {a} : ev'[b] = ev[b]
        BY <1>0, <3>1
    <3>7. \A x \in 0..Len(evidence) : Chain(evidence)[x] \in Snapshots
        BY DEF Snapshots
    <3> QED BY <1>0, <2>1, <3>2, <3>5, <3>6, <3>7 DEF found
  <2>2. CASE evidence' = Append(evidence, row) /\ ev' = [ev EXCEPT ![a] = Len(evidence) + 1]
    <3>1. /\ Append(evidence, row) \in Seq(Rows) /\ Len(Append(evidence, row)) = Len(evidence) + 1
          /\ \A i \in 1..Len(evidence) : Append(evidence, row)[i] = evidence[i]
          /\ Append(evidence, row)[Len(evidence) + 1] = row
        BY <1>0, <1>5, AppendProperties
    <3>2. WellChained(Append(evidence, row))
      <4> SUFFICES ASSUME NEW i \in 1..Len(evidence) + 1
                   PROVE  /\ Append(evidence, row)[i].prev < i
                          /\ Append(evidence, row)[i].lines # <<>>
          BY <3>1 DEF WellChained
      <4>1. CASE i \in 1..Len(evidence)
          BY <1>0, <3>1, <4>1 DEF WellChained
      <4>2. CASE i = Len(evidence) + 1
          BY <1>0, <1>2, <3>1, <4>2
      <4>3. i \in 1..Len(evidence) \/ i = Len(evidence) + 1
          BY <1>0
      <4> QED BY <4>1, <4>2, <4>3
    <3>3. /\ \A e \in 0..Len(evidence) : Chain(evidence')[e] = Chain(evidence)[e]
          /\ Chain(evidence')[Len(evidence) + 1] = raw[a]
      <4>1. row.prev = PrevEvidence(a) /\ row.lines = lines
          OBVIOUS
      <4>2. /\ \A e \in 0..Len(evidence) : Chain(Append(evidence, row))[e] = Chain(evidence)[e]
            /\ Chain(Append(evidence, row))[Len(evidence) + 1] = Chain(evidence)[row.prev] \o row.lines
        <5> HIDE DEF row
        <5> QED BY <1>0, <1>5, <3>2, ChainGrows
      <4> QED BY <1>2, <2>2, <4>1, <4>2 DEF base
    <3>4. Len(evidence') = Len(evidence) + 1
        BY <2>2, <3>1
    <3>5. \A e \in 0..Len(evidence') : e \in 0..Len(evidence) \/ e = Len(evidence) + 1
        BY <1>0, <3>4
    <3>6. ev'[a] = Len(evidence) + 1 /\ \A b \in Actors \ {a} : ev'[b] = ev[b]
        BY <1>0, <2>2
    <3>7. \A e \in 0..Len(evidence') : Chain(evidence')[e] \in Snapshots
        BY <1>0, <3>3, <3>5 DEF Snapshots
    <3>8. \A e \in 0..Len(evidence) : e \in 0..Len(evidence')
        BY <1>0, <3>4
    <3>9. Len(evidence) + 1 # 0 /\ Len(evidence') >= Len(evidence)
        BY <1>0, <3>4
    <3> QED BY <2>2, <3>2, <3>3, <3>6, <3>7, <3>8, <3>9
  <2> QED BY <1>4, <2>1, <2>2
<1>7. Snapshots' \subseteq Snapshots /\ transcript' \in Snapshots' /\ <<>> \in Snapshots'
  <2>1. Snapshots' \subseteq Snapshots
      BY <1>3, <1>6 DEF Snapshots
  <2>2. transcript' \in Snapshots'
      BY DEF Snapshots
  <2>3. 0 \in 0..Len(evidence) /\ Chain(evidence)[0] = <<>>
      BY <1>0, EmptyChain
  <2>4. <<>> \in Snapshots'
      BY <1>6, <2>3 DEF Snapshots
  <2> QED BY <2>1, <2>2, <2>4
<1>8. History(Snapshots', transcript', written')
  <2> DEFINE all == Snapshots
             some == Snapshots'
  <2>1. History(all, transcript, written) /\ some \in SUBSET all /\ transcript \in some /\ <<>> \in some
      BY <1>0, <1>3, <1>7
  <2> HIDE DEF all, some
  <2>2. History(some, transcript, written)
      BY <2>1, FewerSnapshots
  <2> QED BY <1>3, <2>2 DEF some
<1>9. Counts(cursor)'
    BY <1>0, <1>3, <1>6 DEF Counts
<1>10. ASSUME NEW b \in Actors PROVE Counts(cur[b])' /\ AtWork(b)'
  <2>1. Counts(cur[b])'
      BY <1>0, <1>3, <1>6 DEF Counts
  <2>2. CASE b = a
    <3>1. pc'[a] = "enqueue"
        BY <1>0, <1>3
    <3> QED BY <1>3, <1>6, <2>1, <2>2, <3>1 DEF AtWork
  <2>3. CASE b # a
    <3>1. pc'[b] = pc[b] /\ ev'[b] = ev[b] /\ raw'[b] = raw[b] /\ ev[b] \in 0..Len(evidence)
        BY <1>0, <1>3, <1>6, <2>3
    <3>2. Chain(evidence')[ev[b]] = Chain(evidence)[ev[b]]
        BY <1>6, <3>1
    <3> QED BY <1>0, <2>1, <3>1, <3>2 DEF AtWork
  <2> QED BY <2>2, <2>3
<1> QED BY <1>1, <1>6, <1>8, <1>9, <1>10 DEF StoredInv

\* Every step keeps the chain exact.
LEMMA StoredStep == StoredInv /\ [Next]_vars => StoredInv'
<1> SUFFICES ASSUME StoredInv, [Next]_vars PROVE StoredInv'
    OBVIOUS
<1>1. CASE AppendLine \/ FinishLine \/ Compact
    BY <1>1, FileStep
<1>2. ASSUME NEW a \in Actors, Store(a) PROVE StoredInv'
    BY <1>2, StoreStep
<1>3. ASSUME NEW a \in Actors, Rest(a) PROVE StoredInv'
    BY <1>3, RestStep
<1>4. CASE UNCHANGED vars
    BY <1>4 DEF vars, fileVars, storeVars, mergeVars, actorVars, StoredInv, TypeOK, Counts, AtWork, Snapshots
<1> QED BY <1>1, <1>2, <1>3, <1>4, NextSplit

\* Whoever stored a transcript, or what follows the cursor of it, got a row whose
\* chain is byte for byte that transcript, however the file was appended to, seen
\* half written and compacted, and whoever stored and advanced the cursor meanwhile.
THEOREM AlwaysWellStored == Spec => []WellStored
<1>1. StoredInv => WellStored
  <2> SUFFICES ASSUME StoredInv, NEW a \in Callers,
                      pc[a] \in {"enqueue", "observe", "merge", "merging", "latest", "save", "finish"}
               PROVE  Reconstruct(ev[a]) = raw[a]
      BY DEF WellStored, StoredIsWhatWasRead, StoredInv
  <2>1. a \in Actors
      BY DEF Actors
  <2> QED BY <2>1, ReconstructIsChain DEF StoredInv, AtWork, HasEvidence
<1> QED BY <1>1, StoredInit, StoredStep, PTL DEF Spec

-----------------------------------------------------------------------------
\* Nothing is skipped, and the cursor is never ahead of memory.

\* At first there is nothing to be merged.
LEMMA MergedInit == Init => MergedInv
<1> SUFFICES ASSUME Init PROVE MergedInv
    OBVIOUS
<1>1. TypeOK /\ WellChained(evidence)
    BY StoredInit DEF StoredInv
<1>2. Chain(evidence)[0] = <<>>
    BY <1>1, EmptyChain
<1>3. IsMerged(<<>>)
    BY EmptySeq DEF IsMerged, Lines
<1>4. prov = {} /\ DOMAIN jobs = {} /\ cursor.ev = 0
      /\ \A a \in Actors : cur[a].ev = 0 /\ pc[a] = "idle"
    BY DEF Init, NoCursor
<1> QED BY <1>2, <1>3, <1>4 DEF MergedInv

\* What an extraction leaves out, the cursor that it was cut at had counted.
LEMMA SliceCovers ==
    ASSUME StoredInv, NEW a \in Actors, IsMerged(Chain(evidence)[cur[a].ev])
    PROVE  Lines(raw[a]) \subseteq Reached \cup Lines(ExtractionSlice(raw[a], cur[a]))
<1> DEFINE r == raw[a]
           c == cur[a]
           old == Chain(evidence)[c.ev]
<1>0. /\ History(Snapshots, transcript, written) /\ Counts(c) /\ r \in Snapshots /\ old \in Snapshots
      /\ IsMerged(old)
    BY DEF StoredInv, Snapshots, Counts
<1>1. r \in Seq(Int) /\ old \in Seq(Int) /\ Marks(c, old)
    BY <1>0 DEF History, Counts
<1> HIDE DEF r, c, old
<1>2. Len(r) \in Nat /\ DOMAIN r = 1..Len(r) /\ c.count = Len(old) /\ Len(old) \in Nat
      /\ DOMAIN old = 1..Len(old)
    BY <1>1 DEF Marks
<1>3. CASE ~CursorFits(r, c)
    BY <1>3 DEF ExtractionSlice, r, c
<1>4. CASE CursorFits(r, c)
  <2> DEFINE n == IF c.count > OverlapLines THEN c.count - OverlapLines ELSE 0
             slice == From(r, n)
  <2>1. ExtractionSlice(r, c) = slice
      BY <1>4 DEF ExtractionSlice
  <2>2. c.count <= Len(r) /\ SamePrefix(old, r, c.count)
      BY <1>0, <1>1, <1>4, FittingIsPrefix
  <2>3. n \in 0..Len(r) /\ n <= c.count
      BY <1>2, <2>2, CaptureAssumption
  <2> HIDE DEF n
  <2>4. slice \in Seq(Int) /\ Len(slice) = Len(r) - n /\ \A i \in 1..Len(r) - n : slice[i] = r[n + i]
      BY <1>1, <2>3, FromProperties
  <2> HIDE DEF slice
  <2>5. ASSUME NEW i \in DOMAIN r PROVE r[i] \in Reached \cup Lines(slice)
    <3>1. CASE i <= c.count
      <4>1. i \in 1..c.count /\ i \in DOMAIN old
          BY <1>2, <3>1
      <4>2. r[i] = old[i]
          BY <2>2, <4>1 DEF SamePrefix
      <4> QED BY <1>0, <4>1, <4>2 DEF IsMerged, Lines
    <3>2. CASE i > c.count
      <4> DEFINE k == i - n
      <4>1. k \in 1..Len(r) - n /\ n + k = i
          BY <1>2, <2>3, <3>2
      <4> HIDE DEF k
      <4>2. slice[k] = r[i] /\ k \in DOMAIN slice
        <5>1. slice[k] = r[n + k]
            BY <2>4, <4>1
        <5>2. DOMAIN slice = 1..Len(r) - n
            BY <2>4
        <5> QED BY <4>1, <5>1, <5>2
      <4> QED BY <4>2 DEF Lines
    <3>3. i <= c.count \/ i > c.count
        BY <1>2
    <3> QED BY <3>1, <3>2, <3>3
  <2>6. Lines(r) \subseteq Reached \cup Lines(slice)
      BY <2>5 DEF Lines
  <2> QED BY <2>1, <2>6 DEF r, c
<1> QED BY <1>3, <1>4

\* What a step other than Store does to memory.
LEMMA RestMerges ==
    ASSUME StoredInv, NEW a \in Actors, Rest(a), IsMerged(Chain(evidence)[cur[a].ev]),
           ev[a] \in prov => IsMerged(Chain(evidence)[ev[a]])
    PROVE  /\ Reached \subseteq Reached'
           /\ \A e \in prov' : e \in prov \/ (e = ev[a] /\ pc[a] = "merging" /\ Lines(raw[a]) \subseteq Reached')
           /\ \A e \in DOMAIN jobs' :
                  /\ e \in DOMAIN jobs
                  /\ jobs'[e] = "completed" => jobs[e] = "completed" \/ (pc[a] = "finish" /\ e = ev[a])
           /\ pc'[a] \in {"latest", "save", "finish"} =>
                  /\ raw'[a] = raw[a]
                  /\ pc[a] \in {"latest", "save", "finish"} \/ Lines(raw[a]) \subseteq Reached'
<1> DEFINE Jobs == \A e \in DOMAIN jobs' :
               /\ e \in DOMAIN jobs
               /\ jobs'[e] = "completed" => jobs[e] = "completed" \/ (pc[a] = "finish" /\ e = ev[a])
           Past == pc'[a] \in {"latest", "save", "finish"} =>
               /\ raw'[a] = raw[a]
               /\ pc[a] \in {"latest", "save", "finish"} \/ Lines(raw[a]) \subseteq Reached'
<1>0. /\ pc \in [Actors -> Places] /\ DOMAIN jobs = DOMAIN evidence /\ jobs \in [DOMAIN evidence -> JobStates]
      /\ AtWork(a)
    BY DEF StoredInv, TypeOK
<1>00. UNCHANGED mergeVars => Reached' = Reached /\ prov' = prov
    BY DEF mergeVars, Reached
<1>1. ASSUME NEW e, NEW state \in {"queued", "running", "dead_lettered"}, SetJob(e, state) PROVE Jobs
    BY <1>0, <1>1 DEF SetJob
<1>2. ASSUME NEW revived, NEW stuck, Recover(revived, stuck) PROVE Jobs
    BY <1>0, <1>2 DEF Recover
<1>3. ASSUME jobs' = jobs PROVE Jobs
    BY <1>3
<1>4. ASSUME Return(a) PROVE Past
    BY <1>0, <1>4 DEF Return, Leave, Goto
<1>5. CASE ReadTranscript(a)
    BY <1>00, <1>0, <1>3, <1>5 DEF ReadTranscript, Goto, storeVars, mergeVars
<1>6. CASE ReadCursor(a)
  <2>1. Jobs
      BY <1>2, <1>6 DEF ReadCursor, RecoverStuck
  <2>2. Past
      BY <1>0, <1>4, <1>6 DEF ReadCursor, Goto
  <2> QED BY <1>00, <1>6, <2>1, <2>2 DEF ReadCursor
<1>7. CASE Enqueue(a)
  <2>1. Jobs
      BY <1>1, <1>3, <1>7 DEF Enqueue
  <2>2. Past
      BY <1>0, <1>4, <1>7 DEF Enqueue, Goto
  <2> QED BY <1>00, <1>7, <2>1, <2>2 DEF Enqueue
<1>8. CASE Observe(a)
  <2>1. Jobs
      BY <1>1, <1>3, <1>8 DEF Observe
  <2>2. Past
      BY <1>0, <1>4, <1>8 DEF Observe, Goto
  <2> QED BY <1>00, <1>8, <2>1, <2>2 DEF Observe
<1>9. CASE ReplayJob(a)
  <2>1. Jobs
      BY <1>1, <1>9 DEF ReplayJob
  <2> QED BY <1>00, <1>0, <1>9, <2>1 DEF ReplayJob, Goto
<1>10. CASE StartDrain(a)
  <2>1. Jobs
      BY <1>2, <1>10 DEF StartDrain
  <2> QED BY <1>00, <1>0, <1>10, <2>1 DEF StartDrain, Goto
<1>11. CASE Claim(a)
  <2>1. Jobs
      BY <1>1, <1>11 DEF Claim
  <2> QED BY <1>00, <1>0, <1>11, <2>1 DEF Claim, Goto
<1>12. CASE StopDrain(a)
    BY <1>00, <1>0, <1>3, <1>12 DEF StopDrain, Goto, storeVars, mergeVars
<1>13. CASE Load(a)
    BY <1>00, <1>0, <1>3, <1>13 DEF Load, Goto, storeVars, mergeVars
<1>14. CASE Merge(a)
  <2>1. Jobs
      BY <1>1, <1>14 DEF Merge
  <2>2. UNCHANGED mergeVars /\ raw' = raw
      BY <1>14 DEF Merge
  <2>3. ev[a] \in prov => Lines(raw[a]) \subseteq Reached'
      BY <1>0, <1>14, <2>2 DEF Merge, AtWork, HasEvidence, IsMerged, Reached, mergeVars
  <2>4. pc'[a] \in {"latest", "save", "finish"} => ev[a] \in prov
      BY <1>0, <1>14 DEF Merge, Goto
  <2> QED BY <2>1, <2>2, <2>3, <2>4 DEF mergeVars, Reached
<1>20. CASE VerdictCommits(a)
  <2>1. Jobs
      BY <1>3, <1>20 DEF VerdictCommits
  <2>2. merged \subseteq merged' /\ split' = split \cup Slice(a) /\ UNCHANGED actorVars /\ pc[a] = "merging"
      BY <1>20 DEF VerdictCommits
  <2>3. Lines(raw[a]) \subseteq Reached'
      BY <2>2, SliceCovers DEF Reached, Slice
  <2> QED BY <1>20, <2>1, <2>2, <2>3 DEF VerdictCommits, Reached, actorVars
<1>21. CASE MergeCommits(a)
  <2>1. Jobs
      BY <1>3, <1>21 DEF MergeCommits
  <2>2. merged' = merged \cup Slice(a) /\ split' = split /\ raw' = raw /\ pc[a] = "merging"
      BY <1>21 DEF MergeCommits
  <2>3. Lines(raw[a]) \subseteq Reached'
      BY <2>2, SliceCovers DEF Reached, Slice
  <2> QED BY <1>21, <2>1, <2>2, <2>3 DEF MergeCommits, Reached
<1>15. CASE ReadLatest(a)
  <2>1. Jobs
      BY <1>1, <1>15 DEF ReadLatest
  <2> QED BY <1>00, <1>0, <1>15, <2>1 DEF ReadLatest, Goto
<1>16. CASE SaveCursor(a)
    BY <1>00, <1>0, <1>3, <1>16 DEF SaveCursor, Goto
<1>17. CASE Finish(a)
  <2>1. Jobs
      BY <1>0, <1>17 DEF Finish, SetJob
  <2> QED BY <1>00, <1>4, <1>17, <2>1 DEF Finish
<1>18. CASE Fail(a)
  <2>1. Jobs
      BY <1>1, <1>3, <1>18 DEF Fail
  <2> QED BY <1>00, <1>4, <1>18, <2>1 DEF Fail
<1>19. CASE Die(a)
  <2>1. Past
      BY <1>0, <1>19 DEF Die, Leave, Goto
  <2> QED BY <1>00, <1>3, <1>19, <2>1 DEF Die, storeVars, mergeVars
<1> QED BY <1>5, <1>6, <1>7, <1>8, <1>9, <1>10, <1>11, <1>12, <1>13, <1>14, <1>15, <1>16,
           <1>17, <1>18, <1>19, <1>20, <1>21 DEF Rest, Foreground, Drain, Process, Merging

\* Every step keeps what is marked as merged merged.
LEMMA MergedStep == StoredInv /\ MergedInv /\ [Next]_vars => MergedInv'
<1> SUFFICES ASSUME StoredInv, MergedInv, [Next]_vars PROVE MergedInv'
    OBVIOUS
<1>0. /\ DOMAIN jobs = DOMAIN evidence /\ DOMAIN evidence = 1..Len(evidence) /\ Len(evidence) \in Nat
      /\ prov \subseteq DOMAIN evidence /\ jobs \in [DOMAIN evidence -> JobStates]
      /\ Counts(cursor) /\ \A a \in Actors : Counts(cur[a]) /\ AtWork(a)
      /\ pc \in [Actors -> Places]
    BY DEF StoredInv, TypeOK
<1>1. CASE AppendLine \/ FinishLine \/ Compact
    BY <1>1 DEF AppendLine, FinishLine, Compact, storeVars, mergeVars, actorVars, MergedInv, IsMerged, Reached
<1>2. ASSUME NEW a \in Actors, Store(a) PROVE MergedInv'
  <2>1. UNCHANGED <<prov, merged, split, cursor, raw, cur>> /\ pc' = [pc EXCEPT ![a] = "enqueue"]
      BY <1>2 DEF Store, Goto, mergeVars
  <2>2. \A e \in 0..Len(evidence) : Chain(evidence')[e] = Chain(evidence)[e]
      BY <1>2, StoreStep
  <2>3. \A e \in DOMAIN jobs' : jobs'[e] = "completed" => e \in DOMAIN jobs /\ jobs[e] = "completed"
    <3>1. CASE jobs' = jobs
        BY <3>1
    <3>2. CASE jobs' = Append(jobs, "absent")
      <4>1. jobs \in Seq(JobStates) /\ Len(jobs) = Len(evidence) /\ "absent" \in JobStates
          BY <1>0 DEF JobStates
      <4>2. /\ DOMAIN Append(jobs, "absent") = 1..Len(jobs) + 1
            /\ \A i \in 1..Len(jobs) : Append(jobs, "absent")[i] = jobs[i]
            /\ Append(jobs, "absent")[Len(jobs) + 1] = "absent"
          BY <4>1, AppendProperties
      <4>3. \A e \in 1..Len(jobs) + 1 : e \in 1..Len(jobs) \/ e = Len(jobs) + 1
          BY <1>0, <4>1
      <4> QED BY <1>0, <3>2, <4>1, <4>2, <4>3
    <3> QED BY <1>2, <3>1, <3>2 DEF Store
  <2>4. \A e \in DOMAIN jobs : e \in 0..Len(evidence)
      BY <1>0
  <2>5. \A e \in prov : e \in 0..Len(evidence)
      BY <1>0
  <2>6. cursor.ev \in 0..Len(evidence) /\ \A b \in Actors : cur[b].ev \in 0..Len(evidence)
      BY <1>0 DEF Counts
  <2>7. \A b \in Actors : pc'[b] \in {"latest", "save", "finish"} => pc[b] \in {"latest", "save", "finish"}
      BY <1>0, <2>1
  <2> QED BY <2>1, <2>2, <2>3, <2>4, <2>5, <2>6, <2>7 DEF MergedInv, IsMerged, Reached
<1>3. ASSUME NEW a \in Actors, Rest(a) PROVE MergedInv'
  <2>1. IsMerged(Chain(evidence)[cur[a].ev]) /\ (ev[a] \in prov => IsMerged(Chain(evidence)[ev[a]]))
      BY DEF MergedInv
  <2>2. /\ Reached \subseteq Reached' /\ evidence' = evidence
        /\ \A e \in prov' : e \in prov \/ (e = ev[a] /\ pc[a] = "merging" /\ Lines(raw[a]) \subseteq Reached')
        /\ \A e \in DOMAIN jobs' :
               /\ e \in DOMAIN jobs
               /\ jobs'[e] = "completed" => jobs[e] = "completed" \/ (pc[a] = "finish" /\ e = ev[a])
        /\ pc'[a] \in {"latest", "save", "finish"} =>
               /\ raw'[a] = raw[a]
               /\ pc[a] \in {"latest", "save", "finish"} \/ Lines(raw[a]) \subseteq Reached'
        /\ \A b \in Actors \ {a} :
               pc'[b] = pc[b] /\ raw'[b] = raw[b] /\ cur'[b] = cur[b] /\ ev'[b] = ev[b]
        /\ cur'[a] \in {cur[a], cursor, NoCursor}
        /\ cursor' = cursor \/ (pc[a] = "save" /\ cursor' = NewCursor(a))
      BY <1>3, <2>1, RestMoved, RestMerges
  <2>3. \A lines : IsMerged(lines) => Lines(lines) \subseteq Reached'
      BY <2>2 DEF IsMerged
  <2>4. pc[a] \in {"merge", "merging", "save", "finish"} => Chain(evidence)[ev[a]] = raw[a]
      BY <1>0 DEF AtWork, HasEvidence
  <2>5. pc[a] \in {"latest", "save", "finish"} => Lines(raw[a]) \subseteq Reached'
      BY <2>3 DEF MergedInv
  <2>6. \A e \in prov' : Lines(Chain(evidence)[e]) \subseteq Reached'
      BY <2>2, <2>3, <2>4 DEF MergedInv
  <2>7. \A e \in DOMAIN jobs' : jobs'[e] = "completed" => Lines(Chain(evidence)[e]) \subseteq Reached'
      BY <2>2, <2>3, <2>4, <2>5 DEF MergedInv
  <2>8. Lines(Chain(evidence)[cursor'.ev]) \subseteq Reached'
    <3>1. CASE cursor' = cursor
        BY <2>3, <3>1 DEF MergedInv
    <3>2. CASE pc[a] = "save" /\ cursor' = NewCursor(a)
        BY <2>4, <2>5, <3>2 DEF NewCursor
    <3> QED BY <2>2, <3>1, <3>2
  <2>9. ASSUME NEW b \in Actors PROVE Lines(Chain(evidence)[cur'[b].ev]) \subseteq Reached'
    <3>1. CASE b # a
        BY <2>2, <2>3, <3>1 DEF MergedInv
    <3>2. CASE b = a
      <4>1. IsMerged(Chain(evidence)[NoCursor.ev])
        <5>1. Chain(evidence)[0] = <<>>
            BY EmptyChain DEF StoredInv
        <5> QED BY <5>1, EmptySeq DEF NoCursor, IsMerged, Lines
      <4>2. IsMerged(Chain(evidence)[cur'[a].ev])
          BY <2>2, <4>1 DEF MergedInv
      <4> QED BY <2>3, <3>2, <4>2
    <3> QED BY <3>1, <3>2
  <2>10. ASSUME NEW b \in Actors, pc'[b] \in {"latest", "save", "finish"}
         PROVE  Lines(raw'[b]) \subseteq Reached'
    <3>1. CASE b # a
        BY <2>2, <2>3, <2>10, <3>1 DEF MergedInv
    <3>2. CASE b = a
        BY <2>2, <2>5, <2>10, <3>2
    <3> QED BY <3>1, <3>2
  <2> QED BY <2>2, <2>6, <2>7, <2>8, <2>9, <2>10 DEF MergedInv, IsMerged
<1>4. CASE UNCHANGED vars
    BY <1>4 DEF vars, fileVars, storeVars, mergeVars, actorVars, MergedInv, IsMerged, Reached
<1> QED BY <1>1, <1>2, <1>3, <1>4, NextSplit

\* Both invariants hold for ever.
LEMMA CaptureKeeps == Spec => [](StoredInv /\ MergedInv)
BY StoredInit, StoredStep, MergedInit, MergedStep, PTL DEF Spec

\* "Never skip memory": a completed job means that every line of the transcript it
\* stands for was merged, though its extraction was cut at a cursor read long before
\* and that cursor was advanced, or set back, by others since; only of a merge that
\* a verdict's commit split may lines be missing.
THEOREM NothingEverSkipped == Spec => []NothingSkipped
<1>1. StoredInv /\ MergedInv => NothingSkipped
    BY ReconstructIsChain DEF NothingSkipped, MergedInv, IsMerged, Reached
<1> QED BY <1>1, CaptureKeeps, PTL

\* The cursor counts the lines of the chain it points at, whoever wrote it last, and
\* all of them were merged but for those of a split merge.
THEOREM CursorAlwaysCovers == Spec => []CursorCovers
<1>1. StoredInv /\ MergedInv => CursorCovers
    BY ReconstructIsChain DEF CursorCovers, StoredInv, Counts, Marks, MergedInv, IsMerged, Reached
<1> QED BY <1>1, CaptureKeeps, PTL
=============================================================================
