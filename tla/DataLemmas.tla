------------------------------- MODULE DataLemmas -------------------------------
(***************************************************************************)
(* Induction over data, and what it gives: the sums that the community     *)
(* modules define as folds, and the greatest element of a set.             *)
(*                                                                         *)
(* The induction theorems of the library take an operator, which SMT and   *)
(* Zenon do not instantiate.  SetInduction takes the set of the numbers a  *)
(* statement holds of instead, and follows from the order of the naturals  *)
(* being well founded.                                                     *)
(***************************************************************************)
EXTENDS Integers, Sequences, FiniteSets, FiniteSetsExt, SequencesExt, Functions,
        FiniteSetTheorems, TLAPS

\* Induction over the naturals, for a set instead of a predicate.
LEMMA SetInduction ==
    ASSUME NEW Q, 0 \in Q, \A n \in Nat : n \in Q => n + 1 \in Q
    PROVE  Nat \subseteq Q
<1> DEFINE Less == {p \in Nat \X Nat : p[1] < p[2]}
           T == Nat \ Q
<1>1. IsWellFoundedOn(Less, Nat)
  BY NatLessThanWellFounded DEF OpToRel
<1>2. SUFFICES ASSUME T # {} PROVE FALSE
  OBVIOUS
<1>3. PICK n \in T : \A m \in T : <<m, n>> \notin Less
  BY <1>1, <1>2, WFMin
<1>4. n - 1 \in Nat /\ n - 1 < n
  BY <1>3
<1>5. n - 1 \in Q
  BY <1>3, <1>4
<1> QED
  BY <1>3, <1>4, <1>5
-----------------------------------------------------------------------------
\* Taking an element out of a set of n + 1 leaves n.
LEMMA OneLess ==
    ASSUME NEW s, IsFiniteSet(s), NEW n \in Nat, Cardinality(s) = n + 1
    PROVE  s # {} /\ \A x \in s : Cardinality(s \ {x}) = n
<1>1. \A x \in s : Cardinality(s \ {x}) = Cardinality(s) - 1
  BY FS_RemoveElement
<1>2. s # {}
  BY FS_EmptySet
<1> QED
  BY <1>1, <1>2
-----------------------------------------------------------------------------
\* The element a fold over a set takes first.
First(s) == CHOOSE x \in s : TRUE

\* The sums over the subsets in D.
IsSums(g, f, D) ==
    g = [s \in D |-> IF s = {} THEN 0 ELSE f[First(s)] + g[s \ {First(s)}]]

\* There is a function that sums over every subset of a finite set: the
\* CHOOSE in the definition of a fold is never in vain.
LEMMA SumsExist ==
    ASSUME NEW f, NEW S, IsFiniteSet(S)
    PROVE  \E g : IsSums(g, f, SUBSET S)
<1> DEFINE D(n) == {s \in SUBSET S : Cardinality(s) <= n}
           Q == {n \in Nat : \E g : IsSums(g, f, D(n))}
<1>1. \A s \in SUBSET S : IsFiniteSet(s) /\ Cardinality(s) \in Nat
  BY FS_Subset, FS_CardinalityType
<1>2. \A s \in SUBSET S : s # {} =>
        /\ First(s) \in s
        /\ s \ {First(s)} \in SUBSET S
        /\ Cardinality(s \ {First(s)}) = Cardinality(s) - 1
  BY <1>1, FS_RemoveElement DEF First
<1>3. 0 \in Q
  <2> DEFINE g == [s \in D(0) |-> 0]
  <2>1. \A s \in D(0) : s = {}
    BY <1>1, FS_EmptySet
  <2>2. IsSums(g, f, D(0))
    BY <2>1 DEF IsSums
  <2> QED
    BY <2>2
<1>4. ASSUME NEW n \in Nat, n \in Q PROVE n + 1 \in Q
  <2>1. PICK g : IsSums(g, f, D(n))
    BY <1>4
  <2> DEFINE h == [s \in D(n + 1) |->
                     IF s = {} THEN 0 ELSE f[First(s)] + g[s \ {First(s)}]]
  <2>2. \A s \in D(n + 1) : s # {} => s \ {First(s)} \in D(n) /\ s \ {First(s)} \in D(n + 1)
    BY <1>1, <1>2
  <2>3. \A s \in D(n) : s \in D(n + 1) /\ h[s] = g[s]
    <3> SUFFICES ASSUME NEW s \in D(n) PROVE s \in D(n + 1) /\ h[s] = g[s]
      OBVIOUS
    <3>1. s \in D(n + 1)
      BY <1>1
    <3>2. g[s] = IF s = {} THEN 0 ELSE f[First(s)] + g[s \ {First(s)}]
      BY <2>1 DEF IsSums
    <3> QED
      BY <3>1, <3>2
  <2>4. IsSums(h, f, D(n + 1))
    BY <2>2, <2>3 DEF IsSums
  <2> HIDE DEF h
  <2>5. \E e : IsSums(e, f, D(n + 1))
    BY <2>4
  <2> HIDE DEF D
  <2> QED
    BY <2>5
<1>5. Nat \subseteq Q
  <2> HIDE DEF Q
  <2> QED BY <1>3, <1>4, SetInduction
<1>6. Cardinality(S) \in Nat /\ D(Cardinality(S)) = SUBSET S
  BY <1>1, FS_Subset
<1> QED
  BY <1>5, <1>6

\* SumFunctionOnSet is such a function.
LEMMA SumsDef ==
    ASSUME NEW f, NEW S, IsFiniteSet(S)
    PROVE  \E g : IsSums(g, f, SUBSET S) /\ SumFunctionOnSet(f, S) = g[S]
<1> DEFINE iter == CHOOSE g : IsSums(g, f, SUBSET S)
<1>1. IsSums(iter, f, SUBSET S)
  BY SumsExist
<1>2. SumFunctionOnSet(f, S) = iter[S]
  BY DEF SumFunctionOnSet, FoldFunctionOnSet, MapThenFoldSet, IsSums, First
<1> QED
  BY <1>1, <1>2

\* Sums of naturals are naturals.
LEMMA SumsNat ==
    ASSUME NEW f, NEW S, IsFiniteSet(S), NEW g, IsSums(g, f, SUBSET S),
           \A x \in S : f[x] \in Nat
    PROVE  \A s \in SUBSET S : g[s] \in Nat
<1> DEFINE Q == {n \in Nat : \A s \in SUBSET S : Cardinality(s) = n => g[s] \in Nat}
<1>1. \A s \in SUBSET S : IsFiniteSet(s) /\ Cardinality(s) \in Nat
  BY FS_Subset, FS_CardinalityType
<1>2. 0 \in Q
  BY <1>1, FS_EmptySet DEF IsSums
<1>3. ASSUME NEW n \in Nat, n \in Q PROVE n + 1 \in Q
  <2>1. ASSUME NEW s \in SUBSET S, Cardinality(s) = n + 1 PROVE g[s] \in Nat
    <3>1. s # {}
      BY <1>1, <2>1, OneLess
    <3>2. First(s) \in s
      BY <3>1 DEF First
    <3>3. Cardinality(s \ {First(s)}) = n
      BY <1>1, <2>1, <3>2, OneLess
    <3>4. g[s \ {First(s)}] \in Nat
      BY <1>3, <3>3
    <3>5. g[s] = f[First(s)] + g[s \ {First(s)}]
      BY <3>1 DEF IsSums
    <3> QED
      BY <3>2, <3>4, <3>5
  <2> QED
    BY <2>1
<1>4. Nat \subseteq Q
  <2> HIDE DEF Q
  <2> QED BY <1>2, <1>3, SetInduction
<1> QED
  BY <1>1, <1>4

\* Whichever element is taken out first, the sum is the same.
LEMMA SumsAnyOrder ==
    ASSUME NEW f, NEW S, IsFiniteSet(S), NEW g, IsSums(g, f, SUBSET S),
           \A x \in S : f[x] \in Nat
    PROVE  \A s \in SUBSET S : \A x \in s : g[s] = f[x] + g[s \ {x}]
<1> DEFINE Q == {n \in Nat : \A s \in SUBSET S : Cardinality(s) = n =>
                               \A x \in s : g[s] = f[x] + g[s \ {x}]}
<1>1. \A s \in SUBSET S : IsFiniteSet(s) /\ Cardinality(s) \in Nat
  BY FS_Subset, FS_CardinalityType
<1>2. 0 \in Q
  BY <1>1, FS_EmptySet
<1>3. ASSUME NEW n \in Nat, n \in Q PROVE n + 1 \in Q
  <2>1. ASSUME NEW s \in SUBSET S, Cardinality(s) = n + 1, NEW x \in s
        PROVE  g[s] = f[x] + g[s \ {x}]
    <3> DEFINE y == First(s)
               t == s \ {x, y}
    <3>1. y \in s
      BY DEF First
    <3>2. g[s] = f[y] + g[s \ {y}]
      BY DEF IsSums
    <3> HIDE DEF y
    <3>3. CASE x # y
      <4>1. Cardinality(s \ {x}) = n /\ Cardinality(s \ {y}) = n
        BY <1>1, <2>1, <3>1, OneLess
      <4>2. g[s \ {y}] = f[x] + g[t]
        <5>1. (s \ {y}) \ {x} = t /\ x \in s \ {y}
          BY <3>3
        <5> QED
          BY <1>3, <4>1, <5>1
      <4>3. g[s \ {x}] = f[y] + g[t]
        <5>1. (s \ {x}) \ {y} = t /\ y \in s \ {x}
          BY <3>1, <3>3
        <5> QED
          BY <1>3, <4>1, <5>1
      <4>4. f[x] \in Nat /\ f[y] \in Nat /\ g[t] \in Nat
        BY <3>1, SumsNat
      <4> QED
        BY <3>2, <4>2, <4>3, <4>4
    <3> QED
      BY <3>2, <3>3
  <2> QED
    BY <2>1
<1>4. Nat \subseteq Q
  <2> HIDE DEF Q
  <2> QED BY <1>2, <1>3, SetInduction
<1> QED
  BY <1>1, <1>4

\* Functions that agree on a set have the same sums over its subsets.
LEMMA SumsAgree ==
    ASSUME NEW S, IsFiniteSet(S), NEW f, NEW g, IsSums(g, f, SUBSET S),
           NEW D, NEW e, NEW h, IsSums(h, e, D), \A s \in SUBSET S : s \in D,
           \A x \in S : f[x] = e[x]
    PROVE  \A s \in SUBSET S : g[s] = h[s]
<1> DEFINE Q == {n \in Nat : \A s \in SUBSET S : Cardinality(s) = n => g[s] = h[s]}
<1>1. \A s \in SUBSET S : IsFiniteSet(s) /\ Cardinality(s) \in Nat
  BY FS_Subset, FS_CardinalityType
<1>2. 0 \in Q
  BY <1>1, FS_EmptySet DEF IsSums
<1>3. ASSUME NEW n \in Nat, n \in Q PROVE n + 1 \in Q
  <2>1. ASSUME NEW s \in SUBSET S, Cardinality(s) = n + 1 PROVE g[s] = h[s]
    <3>1. s # {}
      BY <1>1, <2>1, OneLess
    <3>2. First(s) \in s
      BY <3>1 DEF First
    <3>3. Cardinality(s \ {First(s)}) = n
      BY <1>1, <2>1, <3>2, OneLess
    <3>4. g[s \ {First(s)}] = h[s \ {First(s)}]
      BY <1>3, <3>3
    <3>5. g[s] = f[First(s)] + g[s \ {First(s)}]
      BY <3>1 DEF IsSums
    <3>6. h[s] = e[First(s)] + h[s \ {First(s)}]
      BY <3>1 DEF IsSums
    <3> QED
      BY <3>2, <3>4, <3>5, <3>6
  <2> QED
    BY <2>1
<1>4. Nat \subseteq Q
  <2> HIDE DEF Q
  <2> QED BY <1>2, <1>3, SetInduction
<1> QED
  BY <1>1, <1>4

-----------------------------------------------------------------------------
\* The sum over nothing.
LEMMA SumOfNone == \A f : SumFunctionOnSet(f, {}) = 0
<1> SUFFICES ASSUME NEW f PROVE SumFunctionOnSet(f, {}) = 0
  OBVIOUS
<1>1. PICK g : IsSums(g, f, SUBSET {}) /\ SumFunctionOnSet(f, {}) = g[{}]
  BY SumsDef, FS_EmptySet
<1> QED
  BY <1>1 DEF IsSums

\* A sum of naturals is a natural.
LEMMA SumIsNat ==
    ASSUME NEW f, NEW S, IsFiniteSet(S), \A x \in S : f[x] \in Nat
    PROVE  SumFunctionOnSet(f, S) \in Nat
<1>1. PICK g : IsSums(g, f, SUBSET S) /\ SumFunctionOnSet(f, S) = g[S]
  BY SumsDef
<1>2. \A s \in SUBSET S : g[s] \in Nat
  BY <1>1, SumsNat
<1> QED
  BY <1>1, <1>2

\* The sum depends on the function's values in the set only.
LEMMA SumOfEqual ==
    ASSUME NEW f, NEW e, NEW S, IsFiniteSet(S), \A x \in S : f[x] = e[x]
    PROVE  SumFunctionOnSet(f, S) = SumFunctionOnSet(e, S)
<1>1. PICK g : IsSums(g, f, SUBSET S) /\ SumFunctionOnSet(f, S) = g[S]
  BY SumsDef
<1>2. PICK h : IsSums(h, e, SUBSET S) /\ SumFunctionOnSet(e, S) = h[S]
  BY SumsDef
<1>3. \A s \in SUBSET S : g[s] = h[s]
  BY <1>1, <1>2, SumsAgree
<1> QED
  BY <1>1, <1>2, <1>3

\* Any element may be taken out first.
LEMMA SumTakingOut ==
    ASSUME NEW f, NEW S, IsFiniteSet(S), NEW x \in S, \A y \in S : f[y] \in Nat
    PROVE  SumFunctionOnSet(f, S) = f[x] + SumFunctionOnSet(f, S \ {x})
<1> DEFINE U == S \ {x}
<1>0. U \subseteq S /\ \A s \in SUBSET U : s \in SUBSET S
  OBVIOUS
<1>1. IsFiniteSet(U)
  BY FS_RemoveElement
<1>2. PICK g : IsSums(g, f, SUBSET S) /\ SumFunctionOnSet(f, S) = g[S]
  BY SumsDef
<1>3. PICK h : IsSums(h, f, SUBSET U) /\ SumFunctionOnSet(f, U) = h[U]
  BY <1>1, SumsDef
<1>4. h[U] = g[U]
  <2> HIDE DEF U
  <2> QED
    BY <1>0, <1>1, <1>2, <1>3, SumsAgree
<1>5. g[S] = f[x] + g[U]
  BY <1>2, SumsAnyOrder
<1> QED
  BY <1>2, <1>3, <1>4, <1>5
-----------------------------------------------------------------------------
(***************************************************************************)
(* Images and maxima of finite sets.                                       *)
(***************************************************************************)
\* The image of a finite set is finite.
LEMMA ImageIsFinite ==
    ASSUME NEW S, IsFiniteSet(S), NEW f
    PROVE  IsFiniteSet({f[x] : x \in S})
<1> DEFINE T == {f[x] : x \in S}
           g == [x \in S |-> f[x]]
<1>1. g \in Surjection(S, T)
  BY DEF Surjection
<1> QED
  BY <1>1, FS_Surjection

\* A finite set of naturals that is not empty has a greatest element, and Max
\* is it.
LEMMA MaxIsUpper ==
    ASSUME NEW S \in SUBSET Nat, IsFiniteSet(S), S # {}
    PROVE  Max(S) \in S /\ \A x \in S : x <= Max(S)
<1> DEFINE HasMax(T) == \E x \in T : \A y \in T : x >= y
           Q == {n \in Nat : \A T \in SUBSET Nat :
                   IsFiniteSet(T) /\ Cardinality(T) = n + 1 => HasMax(T)}
<1>1. 0 \in Q
  <2> SUFFICES ASSUME NEW T \in SUBSET Nat, IsFiniteSet(T), Cardinality(T) = 1
               PROVE  HasMax(T)
    OBVIOUS
  <2>1. PICK x : T = {x}
    BY FS_Singleton
  <2> QED
    BY <2>1
<1>2. ASSUME NEW n \in Nat, n \in Q PROVE n + 1 \in Q
  <2> SUFFICES ASSUME NEW T \in SUBSET Nat, IsFiniteSet(T), Cardinality(T) = (n + 1) + 1
               PROVE  HasMax(T)
    BY <1>2
  <2>1. n + 1 \in Nat
    OBVIOUS
  <2>2. T # {} /\ \A x \in T : Cardinality(T \ {x}) = n + 1
    BY <2>1, OneLess
  <2>3. PICK x \in T : TRUE
    BY <2>2
  <2>4. IsFiniteSet(T \ {x})
    BY FS_RemoveElement
  <2>5. PICK y \in T \ {x} : \A z \in T \ {x} : y >= z
    BY <1>2, <2>2, <2>3, <2>4
  <2>6. CASE x >= y
    BY <2>3, <2>5, <2>6
  <2>7. CASE ~(x >= y)
    BY <2>3, <2>5, <2>7
  <2> QED
    BY <2>6, <2>7
<1>3. Nat \subseteq Q
  <2> HIDE DEF Q
  <2> QED
    BY <1>1, <1>2, SetInduction
<1>4. Cardinality(S) \in Nat /\ Cardinality(S) # 0
  BY FS_CardinalityType, FS_EmptySet
<1>5. Cardinality(S) - 1 \in Nat /\ (Cardinality(S) - 1) + 1 = Cardinality(S)
  BY <1>4
<1>6. HasMax(S)
  BY <1>3, <1>5
<1> QED
  BY <1>6 DEF Max
-----------------------------------------------------------------------------
(***************************************************************************)
(* Concatenation.                                                          *)
(***************************************************************************)
\* The concatenations of the first n, the first n + 1, .. of some sequences.
IsFlat(f, seqs, D) ==
    f = [i \in D |-> IF i = 1 THEN seqs[i] ELSE f[i - 1] \o seqs[i]]

\* The function FlattenSeq defines exists.
LEMMA FlatExists ==
    ASSUME NEW seqs, NEW n \in Nat
    PROVE  \E f : IsFlat(f, seqs, 1 .. n)
<1> DEFINE Q == {m \in Nat : \E f : IsFlat(f, seqs, 1 .. m)}
<1>1. 0 \in Q
  <2> DEFINE f == [i \in 1 .. 0 |-> seqs[i]]
  <2>1. IsFlat(f, seqs, 1 .. 0)
    BY DEF IsFlat
  <2> QED
    BY <2>1
<1>2. ASSUME NEW m \in Nat, m \in Q PROVE m + 1 \in Q
  <2>1. PICK g : IsFlat(g, seqs, 1 .. m)
    BY <1>2
  <2> DEFINE f == [i \in 1 .. m + 1 |->
                     IF i = 1 THEN seqs[i]
                     ELSE IF i = m + 1 THEN g[m] \o seqs[i] ELSE g[i]]
             h == [i \in 1 .. m + 1 |-> IF i = 1 THEN seqs[i] ELSE f[i - 1] \o seqs[i]]
  <2>2. ASSUME NEW i \in 1 .. m + 1 PROVE f[i] = h[i]
    <3>0. \A k \in 1 .. m : g[k] = IF k = 1 THEN seqs[k] ELSE g[k - 1] \o seqs[k]
      BY <2>1 DEF IsFlat
    <3>1. \A k \in 1 .. m : f[k] = g[k]
      BY <3>0
    <3>2. f[m + 1] = IF m + 1 = 1 THEN seqs[m + 1] ELSE g[m] \o seqs[m + 1]
      OBVIOUS
    <3>3. h[i] = IF i = 1 THEN seqs[i] ELSE f[i - 1] \o seqs[i]
      OBVIOUS
    <3> HIDE DEF f, h
    <3>4. CASE i = m + 1
      <4>1. CASE i # 1
        <5>1. m \in 1 .. m /\ i - 1 = m
          BY <3>4, <4>1
        <5> QED
          BY <3>1, <3>2, <3>3, <3>4, <4>1, <5>1
      <4>2. CASE i = 1
        BY <3>2, <3>3, <3>4, <4>2
      <4> QED
        BY <4>1, <4>2
    <3>5. CASE i # m + 1
      <4>1. i \in 1 .. m /\ (i # 1 => i - 1 \in 1 .. m)
        BY <3>5
      <4> QED
        BY <3>0, <3>1, <3>3, <4>1
    <3> QED
      BY <3>4, <3>5
  <2>3. f = h
    BY <2>2
  <2>4. IsFlat(f, seqs, 1 .. m + 1)
    BY <2>3 DEF IsFlat
  <2> QED
    BY <2>4
<1> HIDE DEF Q
<1>3. Nat \subseteq Q
  BY <1>1, <1>2, SetInduction
<1> QED
  BY <1>3 DEF Q

\* The pieces of a sequence, each behind the lengths of those before it.
Pieces(s, seqs, off, n) ==
    /\ off[0] = 0 /\ Len(s) = off[n]
    /\ \A i \in 1 .. n :
         /\ off[i] = off[i - 1] + Len(seqs[i])
         /\ \A j \in 1 .. Len(seqs[i]) : s[off[i - 1] + j] = seqs[i][j]

\* FlattenSeq concatenates.
LEMMA FlattenPieces ==
    ASSUME NEW S, NEW n \in Nat, NEW seqs \in [1 .. n -> Seq(S)]
    PROVE  /\ FlattenSeq(seqs) \in Seq(S)
           /\ \E off \in [0 .. n -> Nat] : Pieces(FlattenSeq(seqs), seqs, off, n)
<1>1. Len(seqs) = n
  BY DEF Len
<1>2. CASE n = 0
  <2>1. FlattenSeq(seqs) = seqs /\ seqs = << >>
    BY <1>1, <1>2 DEF FlattenSeq
  <2> DEFINE off == [i \in 0 .. n |-> 0]
  <2>2. off \in [0 .. n -> Nat] /\ off[0] = 0 /\ Len(seqs) = off[n]
    BY <1>1, <1>2
  <2>3. 1 .. n = {} /\ seqs \in Seq(S)
    BY <1>2, <2>1
  <2> HIDE DEF off
  <2>4. Pieces(FlattenSeq(seqs), seqs, off, n)
    BY <2>1, <2>2, <2>3 DEF Pieces
  <2> QED
    BY <2>1, <2>2, <2>3, <2>4
<1>3. CASE n > 0
  <2> DEFINE f == CHOOSE f : IsFlat(f, seqs, 1 .. n)
             off == [i \in 0 .. n |-> IF i = 0 THEN 0 ELSE Len(f[i])]
             Laid(m) == \A i \in 1 .. m : \A j \in 1 .. Len(seqs[i]) :
                          /\ off[i - 1] + j \in 1 .. Len(f[m])
                          /\ f[m][off[i - 1] + j] = seqs[i][j]
             Q == {m \in Nat : m + 1 \in 1 .. n => f[m + 1] \in Seq(S) /\ Laid(m + 1)}
  <2>1. IsFlat(f, seqs, 1 .. n)
    BY FlatExists
  <2>2. FlattenSeq(seqs) = f[n]
    BY <1>1, <1>3 DEF FlattenSeq, IsFlat
  <2> HIDE DEF f
  <2>3. \A i \in 1 .. n : f[i] = IF i = 1 THEN seqs[i] ELSE f[i - 1] \o seqs[i]
    BY <2>1 DEF IsFlat
  <2>4. f[1] = seqs[1] /\ 1 \in 1 .. n
    BY <1>3, <2>3
  <2>5. off[0] = 0 /\ \A i \in 1 .. n : off[i] = Len(f[i])
    OBVIOUS
  <2> HIDE DEF off
  <2>6. 0 \in Q
    <3>1. f[1] \in Seq(S) /\ Len(f[1]) \in Nat
      BY <2>4
    <3>2. Laid(1)
      BY <2>4, <2>5, <3>1
    <3> QED
      BY <3>1, <3>2
  <2>7. ASSUME NEW m \in Nat, m \in Q PROVE m + 1 \in Q
    <3> SUFFICES ASSUME (m + 1) + 1 \in 1 .. n
                 PROVE  f[(m + 1) + 1] \in Seq(S) /\ Laid((m + 1) + 1)
      OBVIOUS
    <3>0. PICK k \in Nat : k = m + 1
      OBVIOUS
    <3> DEFINE p == f[k]
               s == seqs[k + 1]
    <3>1. k \in 1 .. n /\ k + 1 \in 1 .. n /\ k # 0
      BY <3>0
    <3>2. p \in Seq(S) /\ Laid(k)
      BY <2>7, <3>0, <3>1
    <3>3. f[k + 1] = p \o s
      <4>1. k + 1 # 1 /\ (k + 1) - 1 = k
        BY <3>1
      <4> QED
        BY <2>3, <3>1, <4>1
    <3>4. s \in Seq(S) /\ Len(s) \in Nat /\ Len(p) \in Nat
      BY <3>1, <3>2
    <3> HIDE DEF s, p
    <3>5. /\ p \o s \in Seq(S) /\ Len(p \o s) = Len(p) + Len(s)
          /\ \A x \in 1 .. Len(p) : (p \o s)[x] = p[x]
          /\ \A x \in 1 .. Len(s) : (p \o s)[Len(p) + x] = s[x]
      BY <3>2, <3>4
    <3>6. Laid(k + 1)
      <4> SUFFICES ASSUME NEW i \in 1 .. k + 1, NEW j \in 1 .. Len(seqs[i])
                   PROVE  /\ off[i - 1] + j \in 1 .. Len(p \o s)
                          /\ (p \o s)[off[i - 1] + j] = seqs[i][j]
        BY <3>3
      <4>1. CASE i \in 1 .. k
        <5>1. off[i - 1] + j \in 1 .. Len(p) /\ p[off[i - 1] + j] = seqs[i][j]
          BY <3>2, <4>1 DEF p
        <5> QED
          BY <3>4, <3>5, <5>1
      <4>2. CASE i = k + 1
        <5>1. off[i - 1] = Len(p) /\ seqs[i] = s
          BY <2>5, <3>1, <4>2 DEF p, s
        <5> QED
          BY <3>4, <3>5, <5>1
      <4> QED
        BY <3>1, <4>1, <4>2
    <3> HIDE DEF Laid
    <3> QED
      BY <3>0, <3>3, <3>5, <3>6
  <2>8. \A i \in 1 .. n : f[i] \in Seq(S) /\ Laid(i)
    <3> HIDE DEF Q
    <3>1. Nat \subseteq Q
      BY <2>6, <2>7, SetInduction
    <3> USE DEF Q
    <3> TAKE i \in 1 .. n
    <3>2. i - 1 \in Nat /\ (i - 1) + 1 = i
      OBVIOUS
    <3>3. i - 1 \in Q
      BY <3>1, <3>2
    <3> HIDE DEF Laid
    <3> QED
      BY <3>2, <3>3
  <2>9. off \in [0 .. n -> Nat]
    BY <2>8 DEF off
  <2>10. ASSUME NEW i \in 1 .. n PROVE off[i] = off[i - 1] + Len(seqs[i])
    <3>1. CASE i = 1
      BY <2>4, <2>5, <3>1
    <3>2. CASE i # 1
      <4>1. i - 1 \in 1 .. n
        BY <3>2
      <4>2. f[i] = f[i - 1] \o seqs[i] /\ f[i - 1] \in Seq(S) /\ seqs[i] \in Seq(S)
        BY <2>3, <2>8, <3>2, <4>1
      <4>3. Len(f[i]) = Len(f[i - 1]) + Len(seqs[i])
        BY <4>2
      <4> QED
        BY <2>5, <4>1, <4>3
    <3> QED
      BY <3>1, <3>2
  <2>11. n \in 1 .. n
    BY <1>3
  <2>12. /\ FlattenSeq(seqs) \in Seq(S) /\ Len(FlattenSeq(seqs)) = off[n]
         /\ \A i \in 1 .. n : \A j \in 1 .. Len(seqs[i]) :
              FlattenSeq(seqs)[off[i - 1] + j] = seqs[i][j]
    BY <2>2, <2>5, <2>8, <2>11
  <2>13. Pieces(FlattenSeq(seqs), seqs, off, n)
    BY <2>5, <2>10, <2>12 DEF Pieces
  <2> QED
    BY <2>9, <2>12, <2>13
<1>4. n = 0 \/ n > 0
  OBVIOUS
<1> QED
  BY <1>2, <1>3, <1>4, Zenon

\* FlattenSeq is the last of the concatenations.
LEMMA FlattenIsFlat ==
    ASSUME NEW seqs, Len(seqs) \in Nat \ {0}
    PROVE  \E f : IsFlat(f, seqs, 1 .. Len(seqs)) /\ FlattenSeq(seqs) = f[Len(seqs)]
<1> DEFINE f == CHOOSE f : IsFlat(f, seqs, 1 .. Len(seqs))
<1>1. IsFlat(f, seqs, 1 .. Len(seqs))
  BY FlatExists
<1>2. FlattenSeq(seqs) = f[Len(seqs)]
  BY DEF FlattenSeq, IsFlat
<1> QED
  BY <1>1, <1>2

\* One sequence more is one piece more at the end.
LEMMA FlattenAppend ==
    ASSUME NEW S, NEW seqs \in Seq(Seq(S)), NEW s \in Seq(S)
    PROVE  FlattenSeq(Append(seqs, s)) = FlattenSeq(seqs) \o s
<1> DEFINE n == Len(seqs)
           more == Append(seqs, s)
<1>1. /\ n \in Nat /\ Len(more) = n + 1 /\ more[n + 1] = s
      /\ \A i \in 1 .. n : more[i] = seqs[i]
  OBVIOUS
<1> HIDE DEF more, n
<1>2. PICK g : IsFlat(g, more, 1 .. n + 1) /\ FlattenSeq(more) = g[n + 1]
  <2>1. Len(more) \in Nat \ {0}
    BY <1>1
  <2>2. \E g : IsFlat(g, more, 1 .. Len(more)) /\ FlattenSeq(more) = g[Len(more)]
    BY <2>1, FlattenIsFlat
  <2> QED
    BY <1>1, <2>2
<1>3. \A i \in 1 .. n + 1 : g[i] = IF i = 1 THEN more[i] ELSE g[i - 1] \o more[i]
  BY <1>2 DEF IsFlat
<1>4. CASE n = 0
  <2>1. FlattenSeq(seqs) = << >>
    BY <1>4 DEF FlattenSeq, n
  <2>2. FlattenSeq(more) = s
    BY <1>1, <1>2, <1>3, <1>4
  <2> QED
    BY <2>1, <2>2 DEF more
<1>5. CASE n # 0
  <2>1. PICK f : IsFlat(f, seqs, 1 .. n) /\ FlattenSeq(seqs) = f[n]
    BY <1>1, <1>5, FlattenIsFlat DEF n
  <2>2. \A i \in 1 .. n : f[i] = IF i = 1 THEN seqs[i] ELSE f[i - 1] \o seqs[i]
    BY <2>1 DEF IsFlat
  <2> DEFINE Q == {m \in Nat : m + 1 \in 1 .. n => f[m + 1] = g[m + 1]}
  <2>3. 0 \in Q
    BY <1>1, <1>3, <2>2
  <2>4. ASSUME NEW m \in Nat, m \in Q PROVE m + 1 \in Q
    <3>0. PICK k \in Nat : k = m + 1
      OBVIOUS
    <3> SUFFICES ASSUME k + 1 \in 1 .. n PROVE f[k + 1] = g[k + 1]
      BY <3>0
    <3>1. k \in 1 .. n /\ k + 1 \in 1 .. n + 1 /\ k + 1 # 1 /\ (k + 1) - 1 = k
      BY <1>1, <3>0
    <3>2. f[k] = g[k]
      BY <2>4, <3>0, <3>1
    <3> QED
      BY <1>1, <1>3, <2>2, <3>1, <3>2
  <2> HIDE DEF Q
  <2>5. Nat \subseteq Q
    BY <2>3, <2>4, SetInduction
  <2>6. f[n] = g[n]
    <3>1. n - 1 \in Nat /\ (n - 1) + 1 = n /\ n \in 1 .. n
      BY <1>1, <1>5
    <3> QED
      BY <2>5, <3>1 DEF Q
  <2>7. g[n + 1] = g[n] \o s
    <3>1. n + 1 \in 1 .. n + 1 /\ n + 1 # 1 /\ (n + 1) - 1 = n
      BY <1>1, <1>5
    <3> QED
      BY <1>1, <1>3, <3>1
  <2> QED
    BY <1>2, <2>1, <2>6, <2>7 DEF more
<1> QED
  BY <1>4, <1>5
=============================================================================
