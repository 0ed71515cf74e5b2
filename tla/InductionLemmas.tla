--------------------------- MODULE InductionLemmas ---------------------------
(***************************************************************************)
(* What the proofs about several components need of numbers, sets and      *)
(* sequences.  Induction is by the least counterexample: the set of the    *)
(* numbers for which a claim fails has a least element, or is empty.       *)
(***************************************************************************)
EXTENDS Naturals, Sequences, SequencesExt, FiniteSetsExt, FiniteSetTheorems,
        WellFoundedInduction, TLAPS

\* A set of natural numbers has a least element.
LEMMA Least ==
  ASSUME NEW T, T \subseteq Nat, T # {}
  PROVE  \E x \in T : \A y \in T : x <= y
<1>1. \E x \in T : \A y \in T : ~(<<y, x>> \in OpToRel(<, Nat))
  BY NatLessThanWellFounded, WFMin, Zenon
<1>2. \E x \in T : \A y \in T : ~(y < x)
  <2>1. PICK x \in T : \A y \in T : ~(<<y, x>> \in OpToRel(<, Nat))
    BY <1>1, Zenon
  <2>2. ASSUME NEW y \in T PROVE ~(y < x)
    <3>1. <<y, x>> \in Nat \X Nat
      BY Zenon
    <3>2. y < x => <<y, x>>[1] < <<y, x>>[2]
      OBVIOUS
    <3> QED BY <2>1, <3>1, <3>2, Zenon DEF OpToRel
  <2> QED BY <2>2, Zenon
<1> QED BY <1>2, SMT

\* So what holds at a and is handed on holds from a up to any bound.
LEMMA UpTo ==
  ASSUME NEW a \in Nat, NEW n \in Nat, NEW T, a \in T \/ n < a,
         \A k \in a .. n : k \in T /\ k < n => k + 1 \in T
  PROVE  a .. n \subseteq T
<1> DEFINE U == {k \in a .. n : k \notin T}
<1> SUFFICES ASSUME U # {} PROVE FALSE
  OBVIOUS
<1>1. PICK x \in U : \A y \in U : x <= y
  <2>1. U \subseteq Nat
    OBVIOUS
  <2> HIDE DEF U
  <2> QED BY <2>1, Least
<1>2. x # a /\ x \in a .. n
  OBVIOUS
<1>3. x - 1 \in U
  BY <1>2
<1> QED BY <1>1, <1>2, <1>3

\* A bounded set of natural numbers has a greatest element, which Max finds.
LEMMA Greatest ==
  ASSUME NEW n \in Nat, NEW T, T \subseteq 0 .. n, T # {}
  PROVE  Max(T) \in T /\ \A y \in T : y <= Max(T)
<1> DEFINE U == {k \in 0 .. n : n - k \in T}
<1>1. U \subseteq Nat
  OBVIOUS
<1>2. U # {}
  <2>1. PICK y \in T : TRUE
    OBVIOUS
  <2>2. n - y \in 0 .. n /\ n - (n - y) = y
    BY <2>1
  <2>3. n - y \in U
    BY <2>2
  <2> QED BY <2>3
<1>3. PICK x \in U : \A y \in U : x <= y
  <2> HIDE DEF U
  <2> QED BY <1>1, <1>2, Least
<1>4. n - x \in T /\ \A y \in T : n - x >= y
  <2>1. ASSUME NEW y \in T PROVE n - x >= y
    <3>1. n - y \in U
      OBVIOUS
    <3>2. y \in Nat /\ x \in Nat
      OBVIOUS
    <3>3. x <= n - y
      <4> HIDE DEF U
      <4> QED BY <1>3, <3>1, Zenon
    <3> HIDE DEF U
    <3> QED BY <3>2, <3>3
  <2> QED BY <1>3, <2>1
<1>5. Max(T) \in T /\ \A y \in T : Max(T) >= y
  BY <1>4 DEF Max
<1> QED BY <1>5

\* A sequence is a sequence over its own elements.
LEMMA SeqOfOwn ==
  ASSUME NEW S, NEW q \in Seq(S)
  PROVE  q \in Seq(ToSet(q)) /\ ToSet(q) \subseteq S
BY DEF ToSet

\* A sequence that grows is a sequence over its own elements still.
LEMMA AppendOwn ==
  ASSUME NEW q, q \in Seq(ToSet(q)), NEW e
  PROVE  /\ Append(q, e) \in Seq(ToSet(Append(q, e)))
         /\ Len(Append(q, e)) = Len(q) + 1
         /\ \A i \in 1 .. Len(q) : Append(q, e)[i] = q[i]
         /\ Append(q, e)[Len(q) + 1] = e
<1>1. q \in Seq(ToSet(q) \cup {e}) /\ e \in ToSet(q) \cup {e}
  <2>1. \A T : ToSet(q) \subseteq T => q \in Seq(T)
    OBVIOUS
  <2> QED BY <2>1
<1>2. Append(q, e) \in Seq(ToSet(q) \cup {e})
  BY <1>1
<1>3. Append(q, e) \in Seq(ToSet(Append(q, e)))
  BY <1>2, SeqOfOwn
<1>4. /\ Len(Append(q, e)) = Len(q) + 1
      /\ \A i \in 1 .. Len(q) : Append(q, e)[i] = q[i]
      /\ Append(q, e)[Len(q) + 1] = e
  BY <1>1
<1> QED BY <1>3, <1>4

\* The tail of a sequence, over its own elements.
LEMMA TailOwn ==
  ASSUME NEW q, q \in Seq(ToSet(q)), q # <<>>
  PROVE  /\ Tail(q) \in Seq(ToSet(Tail(q)))
         /\ Len(Tail(q)) = Len(q) - 1 /\ Len(q) \in Nat \ {0}
         /\ \A i \in 1 .. Len(q) - 1 : Tail(q)[i] = q[i + 1]
<1>1. /\ Tail(q) \in Seq(ToSet(q))
      /\ Len(Tail(q)) = Len(q) - 1 /\ Len(q) \in Nat \ {0}
      /\ \A i \in 1 .. Len(q) - 1 : Tail(q)[i] = q[i + 1]
  OBVIOUS
<1>2. Tail(q) \in Seq(ToSet(Tail(q)))
  BY <1>1, SeqOfOwn
<1> QED BY <1>1, <1>2

\* SetToSeq lists every element of a finite set.
LEMMA SetToSeqLists ==
  ASSUME NEW S, IsFiniteSet(S)
  PROVE  /\ SetToSeq(S) \in Seq(S)
         /\ \A x \in S : \E i \in 1 .. Len(SetToSeq(S)) : SetToSeq(S)[i] = x
<1> DEFINE n == Cardinality(S)
           f == SetToSeq(S)
<1>1. n \in Nat /\ ExistsBijection(1 .. n, S)
  BY FS_CardinalityType
<1>2. \E g \in [1 .. n -> S] : IsInjective(g)
  BY <1>1 DEF ExistsBijection, Bijection, Injection
<1>3. f \in [1 .. n -> S] /\ IsInjective(f)
  BY <1>2 DEF SetToSeq
<1> HIDE DEF f
<1>4. f \in Injection(1 .. n, S)
  BY <1>3 DEF Injection
<1>5. Cardinality(1 .. n) = n /\ IsFiniteSet(1 .. n)
  BY <1>1, FS_Interval
<1>6. f \in Surjection(1 .. n, S)
  BY <1>4, <1>5, FS_Injection
<1>7. \A x \in S : \E i \in 1 .. n : f[i] = x
  BY <1>6 DEF Surjection
<1>8. f \in Seq(S) /\ Len(f) = n
  BY <1>1, <1>3
<1> QED BY <1>7, <1>8 DEF f

\* It lists each of them once.
LEMMA SetToSeqOnce ==
  ASSUME NEW S, IsFiniteSet(S)
  PROVE  \A i, j \in 1 .. Len(SetToSeq(S)) : SetToSeq(S)[i] = SetToSeq(S)[j] => i = j
<1> DEFINE n == Cardinality(S)
           f == SetToSeq(S)
<1>1. n \in Nat /\ ExistsBijection(1 .. n, S)
  BY FS_CardinalityType
<1>2. \E g \in [1 .. n -> S] : IsInjective(g)
  BY <1>1 DEF ExistsBijection, Bijection, Injection
<1>3. f \in [1 .. n -> S] /\ IsInjective(f)
  BY <1>2 DEF SetToSeq
<1> HIDE DEF f
<1>4. Len(f) = n
  BY <1>1, <1>3
<1>5. \A i, j \in 1 .. n : f[i] = f[j] => i = j
  BY <1>3 DEF IsInjective
<1> QED BY <1>4, <1>5 DEF f

-----------------------------------------------------------------------------
(* FlattenSeq.                                                             *)

\* f is the function that FlattenSeq defines, up to m.
Flattens(f, ss, m) == f = [i \in 1 .. m |-> IF i = 1 THEN ss[i] ELSE f[i - 1] \o ss[i]]

\* Joining sequences up one by one is well founded.
LEMMA FlattensExists ==
  ASSUME NEW S, NEW ss \in Seq(Seq(S))
  PROVE  \A m \in 1 .. Len(ss) : \E f \in [1 .. m -> Seq(S)] : Flattens(f, ss, m)
<1> DEFINE T == {m \in 1 .. Len(ss) : \E f \in [1 .. m -> Seq(S)] : Flattens(f, ss, m)}
<1>1. 1 \in T \/ Len(ss) < 1
  <2>1. SUFFICES ASSUME ~(Len(ss) < 1) PROVE 1 \in T
    OBVIOUS
  <2>2. [i \in 1 .. 1 |-> ss[i]] \in [1 .. 1 -> Seq(S)]
    BY <2>1
  <2>3. Flattens([i \in 1 .. 1 |-> ss[i]], ss, 1)
    BY DEF Flattens
  <2> QED BY <2>1, <2>2, <2>3
<1>2. ASSUME NEW k \in 1 .. Len(ss), k \in T, k < Len(ss) PROVE k + 1 \in T
  <2>1. PICK f \in [1 .. k -> Seq(S)] : Flattens(f, ss, k)
    BY <1>2
  <2> DEFINE g == [i \in 1 .. k + 1 |-> IF i = k + 1 THEN f[k] \o ss[k + 1] ELSE f[i]]
  <2>2. g \in [1 .. k + 1 -> Seq(S)]
    BY <1>2
  <2>3. ASSUME NEW i \in 1 .. k + 1
        PROVE  g[i] = IF i = 1 THEN ss[i] ELSE g[i - 1] \o ss[i]
    <3>1. CASE i = k + 1
      <4>1. i # 1 /\ g[i - 1] = f[k]
        BY <3>1
      <4> QED BY <3>1, <4>1
    <3>2. CASE i # k + 1
      <4>1. i \in 1 .. k /\ g[i] = f[i] /\ (i # 1 => g[i - 1] = f[i - 1])
        BY <3>2
      <4>2. f[i] = IF i = 1 THEN ss[i] ELSE f[i - 1] \o ss[i]
        BY <2>1, <4>1 DEF Flattens
      <4> QED BY <4>1, <4>2
    <3> QED BY <3>1, <3>2
  <2>4. Flattens(g, ss, k + 1)
    <3> HIDE DEF g
    <3> QED BY <2>2, <2>3 DEF Flattens
  <2> HIDE DEF g
  <2> QED BY <1>2, <2>2, <2>4
<1>3. 1 .. Len(ss) \subseteq T
  <2>1. Len(ss) \in Nat
    OBVIOUS
  <2> HIDE DEF T
  <2> QED BY <1>1, <1>2, <2>1, UpTo
<1> QED BY <1>3

\* FlattenSeq is the last value of such a function.
LEMMA FlattenIsLast ==
  ASSUME NEW S, NEW ss \in Seq(Seq(S)), Len(ss) # 0
  PROVE  \E g \in [1 .. Len(ss) -> Seq(S)] : Flattens(g, ss, Len(ss)) /\ FlattenSeq(ss) = g[Len(ss)]
<1> DEFINE n == Len(ss)
           g == CHOOSE f : Flattens(f, ss, n)
<1>1. Flattens(g, ss, n)
  BY FlattensExists
<1>2. FlattenSeq(ss) = g[n]
  BY DEF FlattenSeq, Flattens
<1> HIDE DEF g
<1> DEFINE T == {i \in 1 .. n : g[i] \in Seq(S)}
<1>3. n \in Nat /\ \A i \in 1 .. n : ss[i] \in Seq(S)
  OBVIOUS
<1>4. /\ \A i \in 1 .. n : g[i] = IF i = 1 THEN ss[i] ELSE g[i - 1] \o ss[i]
      /\ g = [i \in 1 .. n |-> g[i]]
  BY <1>1 DEF Flattens
<1>5. 1 \in T
  <2>1. 1 \in 1 .. n
    BY <1>3
  <2>2. g[1] = ss[1]
    BY <1>4, <2>1
  <2> QED BY <1>3, <2>1, <2>2
<1>6. ASSUME NEW k \in 1 .. n, k \in T, k < n PROVE k + 1 \in T
  <2>1. k + 1 \in 1 .. n /\ k + 1 # 1 /\ (k + 1) - 1 = k
    BY <1>3, <1>6
  <2>2. g[k + 1] = g[k] \o ss[k + 1]
    BY <1>4, <2>1
  <2>3. g[k] \in Seq(S) /\ ss[k + 1] \in Seq(S)
    BY <1>3, <1>6, <2>1
  <2>4. g[k + 1] \in Seq(S)
    BY <2>2, <2>3
  <2> QED BY <2>1, <2>4
<1>7. 1 .. n \subseteq T
  <2> HIDE DEF T, n
  <2> QED BY <1>3, <1>5, <1>6, UpTo
<1>8. g \in [1 .. n -> Seq(S)]
  BY <1>4, <1>7
<1> QED BY <1>1, <1>2, <1>8

\* What is flattened is a sequence over the same elements.
LEMMA FlattenIsSeq ==
  ASSUME NEW S, NEW ss \in Seq(Seq(S))
  PROVE  FlattenSeq(ss) \in Seq(S)
<1>1. CASE Len(ss) = 0
  <2>1. FlattenSeq(ss) = ss
    BY <1>1 DEF FlattenSeq
  <2>2. ss = <<>>
    BY <1>1
  <2> QED BY <2>1, <2>2
<1>2. CASE Len(ss) # 0
  <2>1. PICK g \in [1 .. Len(ss) -> Seq(S)] : FlattenSeq(ss) = g[Len(ss)]
    BY <1>2, FlattenIsLast
  <2>2. Len(ss) \in 1 .. Len(ss)
    BY <1>2
  <2> QED BY <2>1, <2>2
<1> QED BY <1>1, <1>2

\* q holds the parts ss, part k after place off[k].
LaidOut(q, ss, n, off) ==
  /\ off \in [1 .. n -> Nat]
  /\ \A k \in 1 .. n : \A j \in 1 .. Len(ss[k]) : off[k] + j \in 1 .. Len(q) /\ q[off[k] + j] = ss[k][j]
  /\ \A i \in 1 .. Len(q) : \E k \in 1 .. n : \E j \in 1 .. Len(ss[k]) : i = off[k] + j

\* Where the parts lie in what is flattened: part k takes the places after off[k],
\* in its own order, and every place belongs to a part.
LEMMA FlattenLayout ==
  ASSUME NEW S, NEW ss \in Seq(Seq(S)), Len(ss) # 0
  PROVE  \E off : LaidOut(FlattenSeq(ss), ss, Len(ss), off)
<1> DEFINE n == Len(ss)
<1>0. n \in Nat /\ \A i \in 1 .. n : ss[i] \in Seq(S) /\ Len(ss[i]) \in Nat
  OBVIOUS
<1>1. PICK g \in [1 .. n -> Seq(S)] : Flattens(g, ss, n) /\ FlattenSeq(ss) = g[n]
  BY FlattenIsLast
<1>2. \A i \in 1 .. n : g[i] = IF i = 1 THEN ss[i] ELSE g[i - 1] \o ss[i]
  BY <1>1 DEF Flattens
<1>3. ASSUME NEW i \in 1 .. n PROVE g[i] \in Seq(S) /\ Len(g[i]) \in Nat
  <2>1. g[i] \in Seq(S)
    OBVIOUS
  <2> QED BY <2>1
<1> DEFINE off == [k \in 1 .. n |-> IF k = 1 THEN 0 ELSE Len(g[k - 1])]
<1>4. off \in [1 .. n -> Nat]
  <2>1. \A k \in 1 .. n : k # 1 => k - 1 \in 1 .. n
    BY <1>0
  <2> QED BY <1>3, <2>1
<1> DEFINE In(m)   == \A k \in 1 .. m : \A j \in 1 .. Len(ss[k]) :
                        off[k] + j \in 1 .. Len(g[m]) /\ g[m][off[k] + j] = ss[k][j]
           From(m) == \A i \in 1 .. Len(g[m]) :
                        \E k \in 1 .. m : \E j \in 1 .. Len(ss[k]) : i = off[k] + j
           T == {m \in 1 .. n : In(m) /\ From(m)}
<1>5. 1 \in T
  <2>1. 1 \in 1 .. n /\ g[1] = ss[1] /\ off[1] = 0 /\ \A k \in 1 .. 1 : k = 1
    <3>1. 1 \in 1 .. n
      BY <1>0
    <3>2. off[1] = 0
      BY <3>1
    <3>3. g[1] = ss[1]
      <4>1. g[1] = IF 1 = 1 THEN ss[1] ELSE g[1 - 1] \o ss[1]
        BY <1>2, <3>1, Zenon
      <4> QED BY <4>1
    <3>4. \A k \in 1 .. 1 : k = 1
      OBVIOUS
    <3> HIDE DEF off
    <3> QED BY <3>1, <3>2, <3>3, <3>4
  <2>2. ASSUME NEW j \in 1 .. Len(ss[1])
        PROVE  off[1] + j \in 1 .. Len(g[1]) /\ g[1][off[1] + j] = ss[1][j]
    <3>1. off[1] + j = j
      BY <2>1
    <3> HIDE DEF off
    <3> QED BY <2>1, <3>1
  <2>3. In(1)
    BY <2>1, <2>2
  <2>4. From(1)
    <3>1. ASSUME NEW i \in 1 .. Len(g[1]) PROVE i = off[1] + i /\ i \in 1 .. Len(ss[1])
      BY <2>1
    <3>2. 1 \in 1 .. 1
      OBVIOUS
    <3> HIDE DEF off
    <3> QED BY <3>1, <3>2
  <2> QED BY <2>1, <2>3, <2>4
<1>6. ASSUME NEW m \in 1 .. n, m \in T, m < n PROVE m + 1 \in T
  <2>1. m + 1 \in 1 .. n /\ m + 1 # 1 /\ (m + 1) - 1 = m
    BY <1>0, <1>6
  <2>2. g[m + 1] = g[m] \o ss[m + 1] /\ off[m + 1] = Len(g[m])
    BY <1>2, <2>1
  <2>3. g[m] \in Seq(S) /\ ss[m + 1] \in Seq(S) /\ Len(g[m]) \in Nat /\ Len(ss[m + 1]) \in Nat
    BY <1>0, <1>3, <2>1
  <2>4. Len(g[m + 1]) = Len(g[m]) + Len(ss[m + 1])
    BY <2>2, <2>3
  <2>5. \A i \in 1 .. Len(g[m]) : g[m + 1][i] = g[m][i]
    BY <2>2, <2>3
  <2>6. \A j \in 1 .. Len(ss[m + 1]) : g[m + 1][Len(g[m]) + j] = ss[m + 1][j]
    BY <2>2, <2>3
  <2>7. In(m) /\ From(m)
    BY <1>6
  <2>8. \A k \in 1 .. n : off[k] \in Nat
    BY <1>4
  <2>9. \A k \in 1 .. m + 1 : k # m + 1 => k \in 1 .. m
    BY <1>0
  <2> HIDE DEF off
  <2>10. In(m + 1)
    <3>1. ASSUME NEW k \in 1 .. m + 1, NEW j \in 1 .. Len(ss[k])
          PROVE  off[k] + j \in 1 .. Len(g[m + 1]) /\ g[m + 1][off[k] + j] = ss[k][j]
      <4>1. CASE k = m + 1
        <5>1. off[k] + j = Len(g[m]) + j /\ j \in 1 .. Len(ss[m + 1])
          BY <2>2, <4>1
        <5>2. Len(g[m]) + j \in 1 .. Len(g[m + 1])
          BY <2>3, <2>4, <5>1
        <5> QED BY <2>6, <4>1, <5>1, <5>2
      <4>2. CASE k # m + 1
        <5>1. k \in 1 .. m
          BY <2>9, <4>2
        <5>2. off[k] + j \in 1 .. Len(g[m]) /\ g[m][off[k] + j] = ss[k][j]
          BY <2>7, <5>1
        <5>3. off[k] + j \in 1 .. Len(g[m + 1])
          BY <2>3, <2>4, <5>2
        <5> QED BY <2>5, <5>2, <5>3
      <4> QED BY <4>1, <4>2
    <3> QED BY <3>1
  <2>11. From(m + 1)
    <3>1. ASSUME NEW i \in 1 .. Len(g[m + 1])
          PROVE  \E k \in 1 .. m + 1 : \E j \in 1 .. Len(ss[k]) : i = off[k] + j
      <4>1. CASE i \in 1 .. Len(g[m])
        <5>1. PICK k \in 1 .. m : \E j \in 1 .. Len(ss[k]) : i = off[k] + j
          BY <2>7, <4>1
        <5>2. k \in 1 .. m + 1
          BY <1>0
        <5> QED BY <5>1, <5>2
      <4>2. CASE i \notin 1 .. Len(g[m])
        <5>1. i - Len(g[m]) \in 1 .. Len(ss[m + 1]) /\ i = Len(g[m]) + (i - Len(g[m]))
          BY <2>3, <2>4, <4>2
        <5>2. m + 1 \in 1 .. m + 1
          BY <1>0
        <5> QED BY <2>2, <5>1, <5>2
      <4> QED BY <4>1, <4>2
    <3> QED BY <3>1
  <2> HIDE DEF In, From
  <2> QED BY <2>1, <2>10, <2>11
<1>7. 1 .. n \subseteq T
  <2> HIDE DEF T, n
  <2> QED BY <1>0, <1>5, <1>6, UpTo
<1>8. In(n) /\ From(n)
  <2>1. n \in 1 .. n
    BY <1>0
  <2>2. n \in T
    BY <1>7, <2>1
  <2> HIDE DEF In, From
  <2> QED BY <2>2
<1>9. /\ \A k \in 1 .. n : \A j \in 1 .. Len(ss[k]) :
           off[k] + j \in 1 .. Len(g[n]) /\ g[n][off[k] + j] = ss[k][j]
      /\ \A i \in 1 .. Len(g[n]) : \E k \in 1 .. n : \E j \in 1 .. Len(ss[k]) : i = off[k] + j
  BY <1>8
<1>10. FlattenSeq(ss) = g[n]
  BY <1>1
<1> HIDE DEF off
<1>11. /\ \A k \in 1 .. n : \A j \in 1 .. Len(ss[k]) :
           off[k] + j \in 1 .. Len(FlattenSeq(ss)) /\ FlattenSeq(ss)[off[k] + j] = ss[k][j]
       /\ \A i \in 1 .. Len(FlattenSeq(ss)) :
           \E k \in 1 .. n : \E j \in 1 .. Len(ss[k]) : i = off[k] + j
  BY <1>9, <1>10
<1>12. LaidOut(FlattenSeq(ss), ss, n, off)
  BY <1>4, <1>11, Zenon DEF LaidOut
<1> QED BY <1>12
=============================================================================
