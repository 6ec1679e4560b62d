------------------------- MODULE MatchingEngineProofs -------------------------
(***************************************************************************)
(* Facts about the matching engine that hold for every set of orders,      *)
(* users, prices, quantities and subscribers.                              *)
(***************************************************************************)
EXTENDS EngineAtomicity, FiniteSetTheorems, SequenceTheorems, WellFoundedInduction, TLAPS

-----------------------------------------------------------------------------
(* Induction                                                               *)

\* A set that has 0, and with a number the next one, has every number.
LEMMA NatInductive ==
  ASSUME NEW G, 0 \in G, \A n \in Nat : n \in G => n + 1 \in G
  PROVE  \A n \in Nat : n \in G
<1> SUFFICES ASSUME NEW m \in Nat, m \notin G PROVE FALSE  OBVIOUS
<1> DEFINE Out == {n \in Nat : n \notin G}
<1>1. PICK n \in Out : \A y \in Out : ~(<<y, n>> \in OpToRel(<, Nat))
  <2>1. Out \subseteq Nat /\ Out # {}  OBVIOUS
  <2> QED BY ONLY <2>1, NatLessThanWellFounded, WFMin
<1>2. n # 0 /\ n \in Nat  BY <1>1
<1>3. n - 1 \in Nat /\ n - 1 < n  BY <1>2
<1>4. n - 1 \notin Out  BY <1>1, <1>2, <1>3 DEF OpToRel
<1>5. (n - 1) + 1 \in G  BY <1>3, <1>4
<1>6. (n - 1) + 1 = n  BY <1>2
<1>7. n \notin G  BY <1>1
<1> QED BY ONLY <1>5, <1>6, <1>7

-----------------------------------------------------------------------------
(* The recursion behind the sum                                            *)

Pick(s) == CHOOSE x \in s : TRUE
IsIter(g, f, D) ==
  g = [s \in D |-> IF s = {} THEN 0 ELSE f[Pick(s)] + g[s \ {Pick(s)}]]

LEMMA PickIn == ASSUME NEW s, s # {} PROVE Pick(s) \in s
BY DEF Pick

\* Subsets with at most n elements.
UpTo(n, S) == {s \in SUBSET S : Cardinality(s) <= n}

LEMMA UpToStep ==
  ASSUME NEW S, IsFiniteSet(S), NEW n \in Nat, NEW s \in UpTo(n + 1, S), s # {}
  PROVE  s \ {Pick(s)} \in UpTo(n, S)
<1>1. s \in SUBSET S /\ Cardinality(s) <= n + 1  BY DEF UpTo
<1>2. IsFiniteSet(s)  BY <1>1, FS_Subset
<1>3. Pick(s) \in s  BY PickIn
<1>4. Cardinality(s) \in Nat  BY <1>2, FS_CardinalityType
<1>5. Cardinality(s \ {Pick(s)}) = Cardinality(s) - 1  BY <1>2, <1>3, FS_RemoveElement
<1> QED BY <1>1, <1>4, <1>5 DEF UpTo

LEMMA UpToAll ==
  ASSUME NEW S, IsFiniteSet(S)
  PROVE  UpTo(Cardinality(S), S) = SUBSET S
BY FS_Subset DEF UpTo

LEMMA UpToZero ==
  ASSUME NEW S, IsFiniteSet(S), NEW s \in UpTo(0, S)
  PROVE  s = {}
<1>1. s \in SUBSET S /\ Cardinality(s) <= 0  BY DEF UpTo
<1>2. IsFiniteSet(s)  BY <1>1, FS_Subset
<1>3. Cardinality(s) \in Nat  BY <1>2, FS_CardinalityType
<1> QED BY <1>1, <1>2, <1>3, FS_EmptySet

LEMMA IterExists ==
  ASSUME NEW f, NEW S, IsFiniteSet(S)
  PROVE  \E g : IsIter(g, f, SUBSET S)
<1> DEFINE G == {n \in Nat : \E g : IsIter(g, f, UpTo(n, S))}
<1>1. 0 \in G
  <2>1. IsIter([s \in UpTo(0, S) |-> 0], f, UpTo(0, S))  BY UpToZero DEF IsIter
  <2> QED BY <2>1
<1>2. ASSUME NEW n \in Nat, n \in G PROVE n + 1 \in G
  <2>1. PICK g : IsIter(g, f, UpTo(n, S))  BY <1>2
  <2> DEFINE h == [s \in UpTo(n + 1, S) |-> IF s = {} THEN 0 ELSE f[Pick(s)] + g[s \ {Pick(s)}]]
  <2>2. ASSUME NEW s \in UpTo(n, S) PROVE s \in UpTo(n + 1, S) /\ h[s] = g[s]
    <3>1. s \in SUBSET S /\ Cardinality(s) <= n  BY DEF UpTo
    <3>2. Cardinality(s) \in Nat  BY <3>1, FS_Subset, FS_CardinalityType
    <3>3. s \in UpTo(n + 1, S)  BY <3>1, <3>2 DEF UpTo
    <3>4. g[s] = IF s = {} THEN 0 ELSE f[Pick(s)] + g[s \ {Pick(s)}]  BY <2>1 DEF IsIter
    <3> QED BY <3>3, <3>4
  <2>3. \A s \in UpTo(n + 1, S) : s # {} => h[s \ {Pick(s)}] = g[s \ {Pick(s)}]
    BY <2>2, UpToStep
  <2>4. IsIter(h, f, UpTo(n + 1, S))
    <3>1. h = [s \in UpTo(n + 1, S) |-> IF s = {} THEN 0 ELSE f[Pick(s)] + h[s \ {Pick(s)}]]
      BY <2>3
    <3> QED BY <3>1 DEF IsIter
  <2> QED BY <2>4
<1> HIDE DEF G
<1>3. \A n \in Nat : n \in G  BY <1>1, <1>2, NatInductive
<1>4. Cardinality(S) \in G  BY <1>3, FS_CardinalityType
<1> QED BY <1>4, UpToAll DEF G

LEMMA IterAgree ==
  ASSUME NEW f, NEW S, IsFiniteSet(S), NEW T \in SUBSET S, NEW g, NEW h,
         IsIter(g, f, SUBSET S), IsIter(h, f, SUBSET T)
  PROVE  g[T] = h[T]
<1>0. IsFiniteSet(T)  BY FS_Subset
<1> DEFINE G == {n \in Nat : \A s \in UpTo(n, T) : g[s] = h[s]}
<1>1. ASSUME NEW s \in SUBSET T
      PROVE  /\ g[s] = IF s = {} THEN 0 ELSE f[Pick(s)] + g[s \ {Pick(s)}]
             /\ h[s] = IF s = {} THEN 0 ELSE f[Pick(s)] + h[s \ {Pick(s)}]
  BY DEF IsIter
<1>2. 0 \in G
  <2>1. \A s \in UpTo(0, T) : g[s] = h[s]  BY <1>0, <1>1, UpToZero DEF UpTo
  <2> QED BY <2>1
<1>3. ASSUME NEW n \in Nat, n \in G PROVE n + 1 \in G
  <2>1. ASSUME NEW s \in UpTo(n + 1, T) PROVE g[s] = h[s]
    <3>1. s \in SUBSET T  BY DEF UpTo
    <3>2. s # {} => g[s \ {Pick(s)}] = h[s \ {Pick(s)}]  BY <1>0, <1>3, UpToStep
    <3> QED BY <1>1, <3>1, <3>2
  <2> QED BY <2>1
<1> HIDE DEF G
<1>4. \A n \in Nat : n \in G  BY <1>2, <1>3, NatInductive
<1>5. Cardinality(T) \in G  BY <1>0, <1>4, FS_CardinalityType
<1>6. T \in UpTo(Cardinality(T), T)  BY <1>0, UpToAll
<1> QED BY <1>5, <1>6 DEF G

LEMMA SumOfIter ==
  ASSUME NEW f, NEW S, IsFiniteSet(S)
  PROVE  \E g : IsIter(g, f, SUBSET S) /\ SumOf(f, S) = g[S]
<1>1. SumOf(f, S) = (CHOOSE g : IsIter(g, f, SUBSET S))[S]
  BY DEF SumOf, MapThenSumSet, MapThenFoldSet, Pick, IsIter
<1>2. IsIter(CHOOSE g : IsIter(g, f, SUBSET S), f, SUBSET S)  BY IterExists
<1> QED BY ONLY <1>1, <1>2

-----------------------------------------------------------------------------
(* Sums                                                                    *)

LEMMA SumOfEmpty ==
  ASSUME NEW f
  PROVE  SumOf(f, {}) = 0
<1>1. PICK g : IsIter(g, f, SUBSET {}) /\ SumOf(f, {}) = g[{}]  BY FS_EmptySet, SumOfIter
<1> QED BY <1>1 DEF IsIter

LEMMA SumOfPick ==
  ASSUME NEW f, NEW S, IsFiniteSet(S), S # {}
  PROVE  SumOf(f, S) = f[Pick(S)] + SumOf(f, S \ {Pick(S)})
<1> DEFINE T == S \ {Pick(S)}
<1>1. IsFiniteSet(T) /\ T \in SUBSET S  BY FS_RemoveElement
<1>2. PICK g : IsIter(g, f, SUBSET S) /\ SumOf(f, S) = g[S]  BY SumOfIter
<1>3. PICK h : IsIter(h, f, SUBSET T) /\ SumOf(f, T) = h[T]  BY <1>1, SumOfIter
<1> HIDE DEF T
<1>4. g[T] = h[T]  BY <1>1, <1>2, <1>3, IterAgree
<1>5. g[S] = f[Pick(S)] + g[T]  BY <1>2 DEF IsIter, T
<1> QED BY <1>2, <1>3, <1>4, <1>5 DEF T

\* The order in which the elements are taken does not matter.
Adds(f, T) ==
  SumOf(f, T) \in Nat /\ \A x \in T : SumOf(f, T) = f[x] + SumOf(f, T \ {x})

LEMMA SumOfAdds ==
  ASSUME NEW f, NEW S, IsFiniteSet(S), \A x \in S : f[x] \in Nat
  PROVE  Adds(f, S)
<1> DEFINE G == {n \in Nat : \A T \in UpTo(n, S) : Adds(f, T)}
<1>1. 0 \in G
  <2>1. \A T \in UpTo(0, S) : T = {}  BY UpToZero
  <2>2. Adds(f, {})  BY SumOfEmpty DEF Adds
  <2>3. \A T \in UpTo(0, S) : Adds(f, T)  BY ONLY <2>1, <2>2
  <2> QED BY <2>3
<1>2. ASSUME NEW n \in Nat, n \in G PROVE n + 1 \in G
  <2>1. ASSUME NEW T \in UpTo(n + 1, S), T # {} PROVE Adds(f, T)
    <3> DEFINE p == Pick(T)
    <3>1. IsFiniteSet(T) /\ T \in SUBSET S /\ Cardinality(T) <= n + 1  BY FS_Subset DEF UpTo
    <3>2. p \in T  BY <2>1, PickIn
    <3> HIDE DEF p
    <3>3. ASSUME NEW x \in T PROVE T \ {x} \in UpTo(n, S)
      <4>1. Cardinality(T \ {x}) = Cardinality(T) - 1  BY <3>1, FS_RemoveElement
      <4>2. Cardinality(T) \in Nat  BY <3>1, FS_CardinalityType
      <4> QED BY <3>1, <4>1, <4>2 DEF UpTo
    <3>4. \A x \in T : Adds(f, T \ {x})  BY <1>2, <3>3
    <3>5. SumOf(f, T) = f[p] + SumOf(f, T \ {p})  BY <2>1, <3>1, SumOfPick DEF p
    <3>6. f[p] \in Nat /\ SumOf(f, T \ {p}) \in Nat  BY <3>1, <3>2, <3>4 DEF Adds
    <3>7. ASSUME NEW x \in T, x # p PROVE SumOf(f, T) = f[x] + SumOf(f, T \ {x})
      <4>1. SumOf(f, T \ {p}) = f[x] + SumOf(f, (T \ {p}) \ {x})  BY <3>2, <3>4, <3>7 DEF Adds
      <4>2. SumOf(f, T \ {x}) = f[p] + SumOf(f, (T \ {x}) \ {p})  BY <3>2, <3>4, <3>7 DEF Adds
      <4>3. (T \ {p}) \ {x} = (T \ {x}) \ {p}  OBVIOUS
      <4>4. f[x] \in Nat /\ SumOf(f, T \ {x}) \in Nat  BY <3>1, <3>4, <3>7 DEF Adds
      <4>5. (T \ {p}) \ {x} \in UpTo(n, S)
        <5>1. T \ {p} \in UpTo(n, S) /\ IsFiniteSet(T \ {p})  BY <3>1, <3>2, <3>3, FS_RemoveElement
        <5>2. Cardinality((T \ {p}) \ {x}) = Cardinality(T \ {p}) - 1
          BY <3>7, <5>1, FS_RemoveElement
        <5>3. Cardinality(T \ {p}) \in Nat  BY <5>1, FS_CardinalityType
        <5> QED BY <5>1, <5>2, <5>3 DEF UpTo
      <4>6. SumOf(f, (T \ {p}) \ {x}) \in Nat  BY <1>2, <4>5 DEF Adds
      <4>7. SumOf(f, T) = f[p] + (f[x] + SumOf(f, (T \ {p}) \ {x}))  BY ONLY <3>5, <4>1
      <4>8. SumOf(f, T \ {x}) = f[p] + SumOf(f, (T \ {p}) \ {x})  BY ONLY <4>2, <4>3
      <4> QED BY ONLY <3>6, <4>4, <4>6, <4>7, <4>8
    <3> QED BY <3>5, <3>6, <3>7 DEF Adds
  <2>2. Adds(f, {})  BY SumOfEmpty DEF Adds
  <2> QED BY <2>1, <2>2
<1> HIDE DEF G
<1>3. \A n \in Nat : n \in G  BY <1>1, <1>2, NatInductive
<1>4. Cardinality(S) \in G  BY <1>3, FS_CardinalityType
<1>5. S \in UpTo(Cardinality(S), S)  BY UpToAll
<1> QED BY <1>4, <1>5 DEF G

LEMMA SumOfNat ==
  ASSUME NEW f, NEW S, IsFiniteSet(S), \A x \in S : f[x] \in Nat
  PROVE  SumOf(f, S) \in Nat
BY SumOfAdds DEF Adds

LEMMA SumOfRemove ==
  ASSUME NEW f, NEW S, IsFiniteSet(S), \A x \in S : f[x] \in Nat, NEW x \in S
  PROVE  SumOf(f, S) = f[x] + SumOf(f, S \ {x})
BY SumOfAdds DEF Adds

LEMMA SumOfInsert ==
  ASSUME NEW f, NEW S, IsFiniteSet(S), NEW x, x \notin S, f[x] \in Nat,
         \A y \in S : f[y] \in Nat
  PROVE  SumOf(f, S \cup {x}) = SumOf(f, S) + f[x]
<1>1. IsFiniteSet(S \cup {x}) /\ \A y \in S \cup {x} : f[y] \in Nat  BY FS_AddElement
<1>2. (S \cup {x}) \ {x} = S  OBVIOUS
<1>3. SumOf(f, S) \in Nat  BY SumOfNat
<1>4. SumOf(f, S \cup {x}) = f[x] + SumOf(f, (S \cup {x}) \ {x})
  <2> DEFINE U == S \cup {x}
  <2>1. x \in U  OBVIOUS
  <2> HIDE DEF U
  <2>2. IsFiniteSet(U) /\ \A y \in U : f[y] \in Nat  BY <1>1 DEF U
  <2>3. SumOf(f, U) = f[x] + SumOf(f, U \ {x})  BY ONLY <2>1, <2>2, SumOfRemove
  <2> QED BY <2>3 DEF U
<1>5. SumOf(f, S \cup {x}) = f[x] + SumOf(f, S)  BY ONLY <1>2, <1>4
<1> QED BY ONLY f[x] \in Nat, <1>3, <1>5

\* A collection of subsets that has the empty one, and with a set every set
\* with one element more, has them all.
LEMMA SubsetInductive ==
  ASSUME NEW S, IsFiniteSet(S), NEW G, {} \in G,
         \A T \in SUBSET S : \A x \in S \ T : T \in G => T \cup {x} \in G
  PROVE  S \in G
<1> DEFINE N == {n \in Nat : \A T \in UpTo(n, S) : T \in G}
<1>1. 0 \in N
  <2>1. \A T \in UpTo(0, S) : T = {}  BY UpToZero
  <2> QED BY <2>1
<1>2. ASSUME NEW n \in Nat, n \in N PROVE n + 1 \in N
  <2>1. ASSUME NEW T \in UpTo(n + 1, S), T # {} PROVE T \in G
    <3>1. T \in SUBSET S  BY DEF UpTo
    <3>2. Pick(T) \in T  BY <2>1, PickIn
    <3>3. T \ {Pick(T)} \in G  BY <1>2, <2>1, UpToStep
    <3>4. T \ {Pick(T)} \in SUBSET S /\ Pick(T) \in S \ (T \ {Pick(T)})  BY <3>1, <3>2
    <3>5. (T \ {Pick(T)}) \cup {Pick(T)} = T  BY <3>2
    <3>6. (T \ {Pick(T)}) \cup {Pick(T)} \in G  BY ONLY <3>3, <3>4,
            \A U \in SUBSET S : \A x \in S \ U : U \in G => U \cup {x} \in G
    <3> QED BY ONLY <3>5, <3>6
  <2>2. \A T \in UpTo(n + 1, S) : T \in G
    <3> SUFFICES ASSUME NEW T \in UpTo(n + 1, S) PROVE T \in G  OBVIOUS
    <3>1. CASE T = {}  BY <3>1
    <3> QED BY <2>1, <3>1
  <2> QED BY <2>2
<1> HIDE DEF N
<1>3. \A n \in Nat : n \in N  BY <1>1, <1>2, NatInductive
<1>4. Cardinality(S) \in N  BY <1>3, FS_CardinalityType
<1>5. S \in UpTo(Cardinality(S), S)  BY UpToAll
<1> QED BY <1>4, <1>5 DEF N

LEMMA SumOfMonotone ==
  ASSUME NEW S, IsFiniteSet(S), NEW f, NEW g,
         \A x \in S : f[x] \in Nat /\ g[x] \in Nat /\ f[x] <= g[x]
  PROVE  SumOf(f, S) <= SumOf(g, S)
<1> DEFINE G == {T \in SUBSET S : SumOf(f, T) <= SumOf(g, T)}
<1>1. {} \in G  BY SumOfEmpty
<1>2. ASSUME NEW T \in SUBSET S, NEW x \in S \ T, T \in G PROVE T \cup {x} \in G
  <2>1. IsFiniteSet(T)  BY FS_Subset
  <2>2. SumOf(f, T) \in Nat /\ SumOf(g, T) \in Nat  BY <2>1, SumOfNat
  <2>3. SumOf(f, T \cup {x}) = SumOf(f, T) + f[x]  BY <2>1, SumOfInsert
  <2>4. SumOf(g, T \cup {x}) = SumOf(g, T) + g[x]  BY <2>1, SumOfInsert
  <2>5. SumOf(f, T) <= SumOf(g, T)  BY <1>2
  <2>6. f[x] \in Nat /\ g[x] \in Nat /\ f[x] <= g[x]  OBVIOUS
  <2>7. SumOf(f, T \cup {x}) <= SumOf(g, T \cup {x})  BY ONLY <2>2, <2>3, <2>4, <2>5, <2>6
  <2> QED BY <2>7
<1> HIDE DEF G
<1>3. S \in G  BY <1>1, <1>2, SubsetInductive
<1> QED BY <1>3 DEF G

LEMMA SumOfSame ==
  ASSUME NEW S, IsFiniteSet(S), NEW f, NEW g,
         \A x \in S : f[x] \in Nat /\ g[x] = f[x]
  PROVE  SumOf(f, S) = SumOf(g, S)
<1>1. SumOf(f, S) \in Nat /\ SumOf(g, S) \in Nat  BY SumOfNat
<1>2. \A x \in S : f[x] \in Nat /\ g[x] \in Nat /\ f[x] <= g[x] /\ g[x] <= f[x]  OBVIOUS
<1>3. SumOf(f, S) <= SumOf(g, S)  BY <1>2, SumOfMonotone
<1>4. SumOf(g, S) <= SumOf(f, S)  BY <1>2, SumOfMonotone
<1> QED BY ONLY <1>1, <1>3, <1>4

LEMMA SumOfZero ==
  ASSUME NEW S, IsFiniteSet(S), NEW f, \A x \in S : f[x] = 0
  PROVE  SumOf(f, S) = 0
<1> DEFINE G == {T \in SUBSET S : SumOf(f, T) = 0}
<1>1. {} \in G  BY SumOfEmpty
<1>2. ASSUME NEW T \in SUBSET S, NEW x \in S \ T, T \in G PROVE T \cup {x} \in G
  <2>1. IsFiniteSet(T)  BY FS_Subset
  <2>2. \A y \in T : f[y] \in Nat  OBVIOUS
  <2>3. f[x] = 0 /\ f[x] \in Nat /\ x \notin T  OBVIOUS
  <2>4. SumOf(f, T \cup {x}) = SumOf(f, T) + f[x]  BY ONLY <2>1, <2>2, <2>3, SumOfInsert
  <2>5. SumOf(f, T) = 0  BY <1>2
  <2>6. SumOf(f, T \cup {x}) = 0  BY ONLY <2>3, <2>4, <2>5
  <2> QED BY <2>6
<1> HIDE DEF G
<1>3. S \in G  BY <1>1, <1>2, SubsetInductive
<1> QED BY <1>3 DEF G

-----------------------------------------------------------------------------
(* Enumerated sets                                                         *)

\* q enumerates a set without repeating itself, and g reads f along it.
Enumerated(n, q) == {q[i] : i \in 1..n}

Enumerates(n, q) == \A i, j \in 1..n : q[i] = q[j] => i = j

ReadsAlong(n, q, f, g) == \A i \in 1..n : f[q[i]] \in Nat /\ g[i] = f[q[i]]

\* What a sequence without repetitions has as elements, and how many.
LEMMA CountOfEnumerated ==
  ASSUME NEW n \in Nat, NEW q, Enumerates(n, q)
  PROVE  IsFiniteSet(Enumerated(n, q)) /\ Cardinality(Enumerated(n, q)) = n
<1>0. \A i, j \in 1..n : q[i] = q[j] => i = j  BY DEF Enumerates
<1> DEFINE Img(m) == {q[i] : i \in 1..m}
           G == {m \in Nat : m <= n => IsFiniteSet(Img(m)) /\ Cardinality(Img(m)) = m}
<1>1. 0 \in G
  <2>1. Img(0) = {}  OBVIOUS
  <2>2. IsFiniteSet(Img(0)) /\ Cardinality(Img(0)) = 0  BY ONLY <2>1, FS_EmptySet
  <2> QED BY <2>2
<1>2. ASSUME NEW m \in Nat, m \in G PROVE m + 1 \in G
  <2> SUFFICES ASSUME m + 1 <= n
               PROVE  IsFiniteSet(Img(m + 1)) /\ Cardinality(Img(m + 1)) = m + 1
    OBVIOUS
  <2>1. IsFiniteSet(Img(m)) /\ Cardinality(Img(m)) = m  BY <1>2
  <2>2. Img(m + 1) = Img(m) \cup {q[m + 1]}
    <3>1. 1..(m + 1) = 1..m \cup {m + 1}  OBVIOUS
    <3> QED BY <3>1
  <2>3. q[m + 1] \notin Img(m)
    <3> SUFFICES ASSUME NEW i \in 1..m, q[m + 1] = q[i] PROVE FALSE  OBVIOUS
    <3>1. i \in 1..n /\ m + 1 \in 1..n /\ i # m + 1  OBVIOUS
    <3> QED BY <1>0, <3>1
  <2> DEFINE S == Img(m)
             x == q[m + 1]
  <2> HIDE DEF Img
  <2>4. IsFiniteSet(S) /\ Cardinality(S) = m /\ x \notin S  BY <2>1, <2>3
  <2> HIDE DEF S, x
  <2>5. IsFiniteSet(S \cup {x}) /\ Cardinality(S \cup {x}) = m + 1
    BY ONLY <2>4, FS_AddElement
  <2> QED BY ONLY <2>2, <2>5 DEF S, x
<1> HIDE DEF G
<1>3. n \in G  BY <1>1, <1>2, NatInductive
<1>4. Enumerated(n, q) = Img(n)  BY DEF Enumerated
<1> QED BY ONLY <1>3, <1>4, n \in Nat DEF G

LEMMA SumOfEnumerated ==
  ASSUME NEW n \in Nat, NEW q, Enumerates(n, q), NEW f, NEW g, ReadsAlong(n, q, f, g)
  PROVE  SumOf(g, 1..n) = SumOf(f, Enumerated(n, q))
<1>0. /\ \A i, j \in 1..n : q[i] = q[j] => i = j
      /\ \A i \in 1..n : f[q[i]] \in Nat /\ g[i] = f[q[i]]
  BY DEF Enumerates, ReadsAlong
<1> DEFINE Img(m) == {q[i] : i \in 1..m}
           G == {m \in Nat : m <= n => SumOf(g, 1..m) = SumOf(f, Img(m))}
<1>1. 0 \in G
  <2>1. Img(0) = {} /\ 1..0 = {}  OBVIOUS
  <2>2. SumOf(g, 1..0) = SumOf(f, Img(0))  BY ONLY <2>1, SumOfEmpty
  <2> QED BY <2>2
<1>2. ASSUME NEW m \in Nat, m \in G PROVE m + 1 \in G
  <2> SUFFICES ASSUME m + 1 <= n
               PROVE  SumOf(g, 1..(m + 1)) = SumOf(f, Img(m + 1))
    OBVIOUS
  <2>1. SumOf(g, 1..m) = SumOf(f, Img(m))  BY <1>2
  <2>2. Img(m + 1) = Img(m) \cup {q[m + 1]} /\ 1..(m + 1) = 1..m \cup {m + 1}
    <3>1. 1..(m + 1) = 1..m \cup {m + 1}  OBVIOUS
    <3> QED BY <3>1
  <2>3. q[m + 1] \notin Img(m) /\ m + 1 \notin 1..m
    <3> SUFFICES ASSUME NEW i \in 1..m, q[m + 1] = q[i] PROVE FALSE  OBVIOUS
    <3>1. i \in 1..n /\ m + 1 \in 1..n /\ i # m + 1  OBVIOUS
    <3> QED BY <1>0, <3>1
  <2>4. IsFiniteSet(Img(m)) /\ IsFiniteSet(1..m)
    <3>1. Enumerates(m, q)  BY <1>0 DEF Enumerates
    <3>2. IsFiniteSet(Enumerated(m, q))  BY ONLY <3>1, m \in Nat, CountOfEnumerated
    <3> QED BY <3>2, FS_Interval DEF Enumerated
  <2>5. \A i \in 1..(m + 1) : f[q[i]] \in Nat /\ g[i] = f[q[i]]  BY <1>0
  <2>6. /\ g[m + 1] = f[q[m + 1]] /\ f[q[m + 1]] \in Nat
        /\ \A x \in Img(m) : f[x] \in Nat
        /\ \A i \in 1..m : g[i] \in Nat
    BY <2>5
  <2> HIDE DEF Img
  <2>7. SumOf(g, 1..m \cup {m + 1}) = SumOf(g, 1..m) + g[m + 1]
    BY ONLY <2>3, <2>4, <2>6, SumOfInsert
  <2>8. SumOf(f, Img(m) \cup {q[m + 1]}) = SumOf(f, Img(m)) + f[q[m + 1]]
    BY ONLY <2>3, <2>4, <2>6, SumOfInsert
  <2> QED BY ONLY <2>1, <2>2, <2>6, <2>7, <2>8
<1> HIDE DEF G
<1>3. n \in G  BY <1>1, <1>2, NatInductive
<1>4. Enumerated(n, q) = Img(n)  BY DEF Enumerated
<1> QED BY ONLY <1>3, <1>4, n \in Nat DEF G

-----------------------------------------------------------------------------
(* What the operations on a side of the book return, for every book:       *)
(* sequences first.                                                        *)

\* The sequence s with e inserted at i.
With(r, s, i, e) ==
  /\ Len(r) = Len(s) + 1
  /\ \A j \in 1..(Len(s) + 1) : r[j] = IF j < i THEN s[j]
                                       ELSE IF j = i THEN e ELSE s[j - 1]

\* InsertAt lengthens the sequence by the inserted element.
LEMMA InsertAtProps ==
  ASSUME NEW S, NEW s \in Seq(S), NEW i \in 1..(Len(s) + 1), NEW e \in S
  PROVE  InsertAt(s, i, e) \in Seq(S) /\ With(InsertAt(s, i, e), s, i, e)
<1>0. Len(s) \in Nat  BY LenProperties
<1> DEFINE a == SubSeq(s, 1, i - 1)
           b == SubSeq(s, i, Len(s))
<1>1. /\ a \in Seq(S) /\ Len(a) = i - 1
      /\ \A j \in 1..(i - 1) : a[j] = s[j]
  <2>1. \A j \in 1..(i - 1) : s[j] \in S  BY ElementOfSeq
  <2> QED BY <2>1, SubSeqProperties
<1>2. /\ b \in Seq(S) /\ Len(b) = Len(s) - i + 1
      /\ \A j \in 1..(Len(s) - i + 1) : b[j] = s[i + j - 1]
  <2>1. \A j \in i..Len(s) : s[j] \in S  BY ElementOfSeq
  <2> QED BY <2>1, SubSeqProperties
<1> DEFINE ae == a \o <<e>>
<1>3. /\ ae \in Seq(S) /\ Len(ae) = i
      /\ \A j \in 1..i : ae[j] = IF j < i THEN s[j] ELSE e
  BY <1>1, ConcatProperties, <<e>> \in Seq(S)
<1>4. InsertAt(s, i, e) = ae \o b  BY DEF InsertAt
<1> HIDE DEF ae, b
<1>5. /\ ae \o b \in Seq(S) /\ Len(ae \o b) = Len(s) + 1
      /\ \A j \in 1..(Len(s) + 1) :
           (ae \o b)[j] = IF j <= i THEN ae[j] ELSE b[j - i]
  BY <1>2, <1>3, ConcatProperties
<1>6. ASSUME NEW j \in 1..(Len(s) + 1)
      PROVE  (ae \o b)[j] = IF j < i THEN s[j] ELSE IF j = i THEN e ELSE s[j - 1]
  <2>1. CASE j <= i  BY <2>1, <1>3, <1>5
  <2>2. CASE j > i
    <3>1. j - i \in 1..(Len(s) - i + 1)  BY <2>2
    <3>2. b[j - i] = s[i + (j - i) - 1]  BY <3>1, <1>2
    <3> QED BY <2>2, <3>2, <1>5
  <2>3. (j <= i \/ j > i) /\ (j <= i - 1 \/ j > i - 1)  BY <1>0
  <2> QED BY <2>1, <2>2, <2>3, Zenon
<1> QED BY <1>4, <1>5, <1>6 DEF With

\* RemoveAt closes the gap.
LEMMA RemoveAtProps ==
  ASSUME NEW S, NEW s \in Seq(S), NEW i \in 1..Len(s)
  PROVE  /\ RemoveAt(s, i) \in Seq(S)
         /\ Len(RemoveAt(s, i)) = Len(s) - 1
         /\ \A j \in 1..(Len(s) - 1) :
              RemoveAt(s, i)[j] = IF j < i THEN s[j] ELSE s[j + 1]
<1>0. Len(s) \in Nat  BY LenProperties
<1> DEFINE a == SubSeq(s, 1, i - 1)
           b == SubSeq(s, i + 1, Len(s))
<1>1. /\ a \in Seq(S) /\ Len(a) = i - 1
      /\ \A j \in 1..(i - 1) : a[j] = s[j]
  <2>1. \A j \in 1..(i - 1) : s[j] \in S  BY ElementOfSeq
  <2> QED BY <2>1, SubSeqProperties
<1>2. /\ b \in Seq(S) /\ Len(b) = Len(s) - i
      /\ \A j \in 1..(Len(s) - i) : b[j] = s[i + j]
  <2>1. \A j \in (i + 1)..Len(s) : s[j] \in S  BY ElementOfSeq
  <2> QED BY <2>1, SubSeqProperties
<1>3. RemoveAt(s, i) = a \o b  BY DEF RemoveAt
<1> HIDE DEF a, b
<1>4. /\ a \o b \in Seq(S) /\ Len(a \o b) = Len(s) - 1
      /\ \A j \in 1..(Len(s) - 1) :
           (a \o b)[j] = IF j <= i - 1 THEN a[j] ELSE b[j - (i - 1)]
  <2>1. Len(a) + Len(b) = Len(s) - 1  BY <1>0, <1>1, <1>2
  <2>2. /\ a \o b \in Seq(S) /\ Len(a \o b) = Len(a) + Len(b)
        /\ \A j \in 1..(Len(a) + Len(b)) :
             (a \o b)[j] = IF j <= Len(a) THEN a[j] ELSE b[j - Len(a)]
    BY <1>1, <1>2, ConcatProperties
  <2> QED BY <1>1, <2>1, <2>2
<1>5. ASSUME NEW j \in 1..(Len(s) - 1)
      PROVE  (a \o b)[j] = IF j < i THEN s[j] ELSE s[j + 1]
  <2>1. CASE j <= i - 1  BY <2>1, <1>1, <1>4, <1>0
  <2>2. CASE j > i - 1
    <3>1. j - (i - 1) \in 1..(Len(s) - i)  BY <2>2, <1>0
    <3>2. b[j - (i - 1)] = s[i + (j - (i - 1))]  BY <3>1, <1>2
    <3> QED BY <2>2, <3>2, <1>4, <1>0
  <2>3. (j <= i \/ j > i) /\ (j <= i - 1 \/ j > i - 1)  BY <1>0
  <2> QED BY <2>1, <2>2, <2>3, Zenon
<1> QED BY <1>3, <1>4, <1>5

-----------------------------------------------------------------------------
(* Levels: types                                                           *)

\* sort.Search returns a position at which a level can be inserted, with no
\* worse level before it.
LEMMA SearchLevelProps ==
  ASSUME NEW side, NEW levels, Len(levels) \in Nat, NEW p
  PROVE  LET idx == SearchLevel(side, levels, p) IN
         /\ idx \in 1..(Len(levels) + 1)
         /\ \A k \in 1..(idx - 1) : ~ Better(side, p, levels[k].price)
         /\ idx <= Len(levels) => Better(side, p, levels[idx].price)
<1> DEFINE worse == {i \in 1..Len(levels) : Better(side, p, levels[i].price)}
<1>1. CASE worse = {}
  <2>1. SearchLevel(side, levels, p) = Len(levels) + 1  BY <1>1 DEF SearchLevel
  <2> QED BY <1>1, <2>1
<1>2. CASE worse # {}
  <2>0. worse \subseteq Nat  OBVIOUS
  <2>1. PICK m \in worse : \A k \in worse : ~ (<<k, m>> \in OpToRel(<, Nat))
    <3> HIDE DEF worse
    <3> QED BY <1>2, <2>0, NatLessThanWellFounded, WFMin
  <2>2. ASSUME NEW k \in worse  PROVE m <= k
    <3>1. ~ (<<k, m>> \in OpToRel(<, Nat))  BY <2>1
    <3>2. k \in Nat /\ m \in Nat  BY <2>0
    <3>3. ~ (k < m)  BY <3>1, <3>2 DEF OpToRel
    <3> QED BY <3>2, <3>3
  <2> DEFINE idx == CHOOSE i \in worse : \A k \in worse : i <= k
  <2>3. idx \in worse /\ \A k \in worse : idx <= k
    <3> HIDE DEF worse
    <3> QED BY <2>2
  <2>4. SearchLevel(side, levels, p) = idx  BY <1>2 DEF SearchLevel
  <2> HIDE DEF idx
  <2> QED BY <2>3, <2>4
<1> QED BY <1>1, <1>2

\* A level with another queue of orders is a level.
LEMMA LevelUpdate ==
  ASSUME NEW Id, NEW Price, NEW levels \in Seq(LevelType(Id, Price)),
         NEW i \in 1..Len(levels), NEW q \in Seq(Id)
  PROVE  /\ [levels EXCEPT ![i].queue = q] \in Seq(LevelType(Id, Price))
         /\ Len([levels EXCEPT ![i].queue = q]) = Len(levels)
         /\ \A k \in 1..Len(levels) :
              [levels EXCEPT ![i].queue = q][k] =
                IF k = i THEN [price |-> levels[i].price, queue |-> q]
                ELSE levels[k]
<1>1. levels[i] \in LevelType(Id, Price)  BY ElementOfSeq
<1> DEFINE e == [price |-> levels[i].price, queue |-> q]
<1>2. e \in LevelType(Id, Price)  BY <1>1 DEF LevelType
<1>3. [levels[i] EXCEPT !.queue = q] = e  BY <1>1 DEF LevelType
<1>4. [levels EXCEPT ![i].queue = q] = [levels EXCEPT ![i] = e]  BY <1>3
<1> HIDE DEF e
<1>5. /\ [levels EXCEPT ![i] = e] \in Seq(LevelType(Id, Price))
      /\ Len([levels EXCEPT ![i] = e]) = Len(levels)
      /\ \A k \in 1..Len(levels) :
           [levels EXCEPT ![i] = e][k] = IF k = i THEN e ELSE levels[k]
  BY <1>2, ExceptSeq
<1> QED BY <1>4, <1>5 DEF e

\* addToBids / addToAsks return levels.
LEMMA AddOrderType ==
  ASSUME NEW Id, NEW Price, NEW levels \in Seq(LevelType(Id, Price)),
         NEW side, NEW p \in Price, NEW o \in Id
  PROVE  AddOrder(side, levels, p, o) \in Seq(LevelType(Id, Price))
<1> DEFINE idx == SearchLevel(side, levels, p)
<1>1. idx \in 1..(Len(levels) + 1) /\ Len(levels) \in Nat
  BY SearchLevelProps, LenProperties
<1>2. CASE idx > 1 /\ levels[idx - 1].price = p
  <2>1. idx - 1 \in 1..Len(levels)  BY <1>1, <1>2
  <2>2. levels[idx - 1].queue \in Seq(Id)
    <3> HIDE DEF idx
    <3>1. levels[idx - 1] \in LevelType(Id, Price)  BY <2>1, ElementOfSeq
    <3> QED BY <3>1 DEF LevelType
  <2> DEFINE q == Enqueue(levels[idx - 1].queue, o)
             i == idx - 1
  <2>3. q \in Seq(Id)  BY <2>2, AppendProperties DEF Enqueue
  <2>4. AddOrder(side, levels, p, o) = [levels EXCEPT ![i].queue = q]
    BY <1>2 DEF AddOrder
  <2> HIDE DEF q, i, idx
  <2>5. i \in 1..Len(levels)  BY <2>1 DEF i
  <2>6. [levels EXCEPT ![i].queue = q] \in Seq(LevelType(Id, Price))
    BY <2>3, <2>5, LevelUpdate
  <2> QED BY <2>4, <2>6
<1>3. CASE ~ (idx > 1 /\ levels[idx - 1].price = p)
  <2>1. [price |-> p, queue |-> <<o>>] \in LevelType(Id, Price)  BY DEF LevelType
  <2>2. AddOrder(side, levels, p, o) =
          InsertAt(levels, idx, [price |-> p, queue |-> <<o>>])
    BY <1>3 DEF AddOrder
  <2> HIDE DEF idx
  <2> QED BY <1>1, <2>1, <2>2, InsertAtProps
<1> QED BY <1>2, <1>3

\* dequeueBestBid / dequeueBestAsk return levels, and the front order is one
\* of the ids.
LEMMA DequeueBestType ==
  ASSUME NEW Id, NEW Price, NEW levels \in Seq(LevelType(Id, Price)),
         levels # <<>>, levels[1].queue # <<>>
  PROVE  /\ DequeueBest(levels) \in Seq(LevelType(Id, Price))
         /\ BestOrder(levels) \in Id
<1>1. 1 \in 1..Len(levels)  BY EmptySeq
<1>2. levels[1] \in LevelType(Id, Price)  BY <1>1, ElementOfSeq
<1>3. levels[1].queue \in Seq(Id)  BY <1>2 DEF LevelType
<1>4. Head(levels[1].queue) \in Id /\ Tail(levels[1].queue) \in Seq(Id)
  BY <1>3, HeadTailProperties
<1>5. Tail(levels) \in Seq(LevelType(Id, Price))  BY HeadTailProperties
<1>6. [levels EXCEPT ![1].queue = Tail(levels[1].queue)] \in Seq(LevelType(Id, Price))
  <2> DEFINE q == Tail(levels[1].queue)
  <2>1. q \in Seq(Id)  BY <1>4
  <2> HIDE DEF q
  <2>2. [levels EXCEPT ![1].queue = q] \in Seq(LevelType(Id, Price))
    BY <1>1, <2>1, LevelUpdate
  <2> QED BY <2>2 DEF q
<1> QED BY <1>4, <1>5, <1>6 DEF DequeueBest, BestOrder

\* OrderQueue.Remove returns a queue.
LEMMA QueueRemoveType ==
  ASSUME NEW Id, NEW q \in Seq(Id), NEW o \in QueueIds(q)
  PROVE  QueueRemove(q, o) \in Seq(Id)
<1> DEFINE j == CHOOSE j \in 1..Len(q) : q[j] = o
<1>1. j \in 1..Len(q)  BY DEF QueueIds
<1>2. QueueRemove(q, o) = RemoveAt(q, j)  BY DEF QueueRemove
<1> HIDE DEF j
<1> QED BY <1>1, <1>2, RemoveAtProps

\* Orderbook.CancelOrder's loop returns levels when the order is there.
LEMMA RemoveOrderType ==
  ASSUME NEW Id, NEW Price, NEW levels \in Seq(LevelType(Id, Price)),
         NEW o \in LevelIds(levels)
  PROVE  RemoveOrder(levels, o) \in Seq(LevelType(Id, Price))
<1> DEFINE i == CHOOSE k \in 1..Len(levels) : o \in QueueIds(levels[k].queue)
           q == QueueRemove(levels[i].queue, o)
<1>1. i \in 1..Len(levels) /\ o \in QueueIds(levels[i].queue)
  BY DEF LevelIds
<1>2. RemoveOrder(levels, o) =
        IF q = <<>> THEN RemoveAt(levels, i)
                    ELSE [levels EXCEPT ![i].queue = q]
  BY DEF RemoveOrder
<1> HIDE DEF i
<1>3. levels[i] \in LevelType(Id, Price)  BY <1>1, ElementOfSeq
<1>4. levels[i].queue \in Seq(Id)  BY <1>3 DEF LevelType
<1>5. q \in Seq(Id)  BY <1>1, <1>4, QueueRemoveType
<1> HIDE DEF q
<1>6. RemoveAt(levels, i) \in Seq(LevelType(Id, Price))  BY <1>1, RemoveAtProps
<1>7. [levels EXCEPT ![i].queue = q] \in Seq(LevelType(Id, Price))
  BY <1>1, <1>5, LevelUpdate
<1> QED BY <1>2, <1>6, <1>7

-----------------------------------------------------------------------------
(* Levels: order.  A side is sorted when each level has a better price than *)
(* the levels after it, and full when no level is empty.  Of a sorted side  *)
(* QueueAt tells all there is to know.                                      *)

Sorted(side, levels) ==
  \A i, k \in 1..Len(levels) : i < k => Better(side, levels[i].price, levels[k].price)

Full(levels) == \A i \in 1..Len(levels) : levels[i].queue # <<>>

\* Prices are strictly and totally ordered on either side of the book.
LEMMA BetterOrder ==
  ASSUME NEW side \in Sides, NEW p \in Int, NEW q \in Int, NEW r \in Int
  PROVE  /\ ~ Better(side, p, p)
         /\ ~ (Better(side, p, q) /\ Better(side, q, p))
         /\ Better(side, p, q) /\ Better(side, q, r) => Better(side, p, r)
         /\ Better(side, p, q) \/ Better(side, q, p) \/ p = q
BY DEF Better, Sides

\* A level has a price and a queue.
LEMMA LevelParts ==
  ASSUME NEW Id, NEW Price, NEW levels \in Seq(LevelType(Id, Price)),
         NEW i \in 1..Len(levels)
  PROVE  levels[i].price \in Price /\ levels[i].queue \in Seq(Id)
<1>1. levels[i] \in LevelType(Id, Price)  BY ElementOfSeq
<1> QED BY <1>1 DEF LevelType

\* Levels of one price are one level.
LEMMA OneLevelPerPrice ==
  ASSUME NEW Id, NEW Price \in SUBSET Int, NEW side \in Sides,
         NEW levels \in Seq(LevelType(Id, Price)), Sorted(side, levels),
         NEW i \in 1..Len(levels), NEW k \in 1..Len(levels),
         levels[i].price = levels[k].price
  PROVE  i = k
<1>1. levels[i].price \in Int /\ levels[k].price \in Int  BY LevelParts
<1>2. ~ Better(side, levels[i].price, levels[k].price)
  BY <1>1, BetterOrder
<1>3. ~ Better(side, levels[k].price, levels[i].price)
  BY <1>1, BetterOrder
<1>4. ~ (i < k) /\ ~ (k < i)  BY ONLY <1>2, <1>3, Sorted(side, levels),
     i \in 1..Len(levels), k \in 1..Len(levels) DEF Sorted
<1>5. i \in Int /\ k \in Int  OBVIOUS
<1> QED BY ONLY <1>4, <1>5

LEMMA QueueAtLevel ==
  ASSUME NEW Id, NEW Price \in SUBSET Int, NEW side \in Sides,
         NEW levels \in Seq(LevelType(Id, Price)), Sorted(side, levels),
         NEW i \in 1..Len(levels)
  PROVE  QueueAt(levels, levels[i].price) = levels[i].queue
<1> DEFINE at == {k \in 1..Len(levels) : levels[k].price = levels[i].price}
           j  == CHOOSE k \in at : TRUE
<1>1. i \in at  OBVIOUS
<1>2. j \in at  BY <1>1
<1>3. QueueAt(levels, levels[i].price) = levels[j].queue  BY <1>1 DEF QueueAt
<1>4. j \in 1..Len(levels) /\ levels[j].price = levels[i].price  BY <1>2
<1> HIDE DEF j, at
<1>5. j = i  BY <1>4, OneLevelPerPrice
<1> QED BY <1>3, <1>5

LEMMA QueueAtNone ==
  ASSUME NEW levels, NEW p, \A i \in 1..Len(levels) : levels[i].price # p
  PROVE  QueueAt(levels, p) = <<>>
BY DEF QueueAt

LEMMA QueueAtType ==
  ASSUME NEW Id, NEW Price \in SUBSET Int, NEW side \in Sides,
         NEW levels \in Seq(LevelType(Id, Price)), Sorted(side, levels), NEW p
  PROVE  QueueAt(levels, p) \in Seq(Id)
<1>1. CASE \E i \in 1..Len(levels) : levels[i].price = p
  <2>1. PICK i \in 1..Len(levels) : levels[i].price = p  BY <1>1
  <2>2. QueueAt(levels, p) = levels[i].queue  BY <2>1, QueueAtLevel
  <2> QED BY <2>2, LevelParts
<1>2. CASE \A i \in 1..Len(levels) : levels[i].price # p
  BY <1>2, QueueAtNone, EmptySeq
<1> QED BY <1>1, <1>2

\* An order is in the list of a side when it is in the queue of some price.
LEMMA LevelIdsAt ==
  ASSUME NEW Id, NEW Price \in SUBSET Int, NEW side \in Sides,
         NEW levels \in Seq(LevelType(Id, Price)), Sorted(side, levels), NEW o
  PROVE  o \in LevelIds(levels) <=> \E p \in Price : o \in QueueIds(QueueAt(levels, p))
<1>1. ASSUME o \in LevelIds(levels)
      PROVE  \E p \in Price : o \in QueueIds(QueueAt(levels, p))
  <2>1. PICK i \in 1..Len(levels) : o \in QueueIds(levels[i].queue)
    BY <1>1 DEF LevelIds
  <2>2. levels[i].price \in Price  BY LevelParts
  <2>3. QueueAt(levels, levels[i].price) = levels[i].queue  BY QueueAtLevel
  <2> QED BY <2>1, <2>2, <2>3
<1>2. ASSUME NEW p \in Price, o \in QueueIds(QueueAt(levels, p))
      PROVE  o \in LevelIds(levels)
  <2>1. CASE \E i \in 1..Len(levels) : levels[i].price = p
    <3>1. PICK i \in 1..Len(levels) : levels[i].price = p  BY <2>1
    <3>2. QueueAt(levels, p) = levels[i].queue  BY <3>1, QueueAtLevel
    <3> QED BY <1>2, <3>2 DEF LevelIds
  <2>2. CASE \A i \in 1..Len(levels) : levels[i].price # p
    <3>1. QueueAt(levels, p) = <<>>  BY <2>2, QueueAtNone
    <3> QED BY <1>2, <3>1 DEF QueueIds
  <2> QED BY <2>1, <2>2
<1> QED BY <1>1, <1>2

\* No price with a queue is better than that of the first level.
LEMMA FirstIsBest ==
  ASSUME NEW Id, NEW Price \in SUBSET Int, NEW side \in Sides,
         NEW levels \in Seq(LevelType(Id, Price)), Sorted(side, levels),
         NEW p, QueueAt(levels, p) # <<>>
  PROVE  /\ levels # <<>>
         /\ p = levels[1].price \/ Better(side, levels[1].price, p)
<1>1. PICK i \in 1..Len(levels) : levels[i].price = p  BY QueueAtNone
<1>2. 1 \in 1..Len(levels) /\ levels # <<>>  BY EmptySeq
<1>3. CASE i = 1  BY <1>1, <1>2, <1>3
<1>4. CASE 1 < i
  BY ONLY <1>1, <1>2, <1>4, Sorted(side, levels), i \in 1..Len(levels) DEF Sorted
<1>5. i = 1 \/ 1 < i  OBVIOUS
<1> QED BY <1>2, <1>3, <1>4, <1>5

\* Where the levels of a price are the same, so is its queue.
LEMMA SameLevelSameQueue ==
  ASSUME NEW Id, NEW Price \in SUBSET Int, NEW side \in Sides,
         NEW a \in Seq(LevelType(Id, Price)), Sorted(side, a),
         NEW b \in Seq(LevelType(Id, Price)), Sorted(side, b), NEW p,
         \A i \in 1..Len(a) : a[i].price = p => \E k \in 1..Len(b) : b[k] = a[i],
         \A k \in 1..Len(b) : b[k].price = p => \E i \in 1..Len(a) : a[i] = b[k]
  PROVE  QueueAt(b, p) = QueueAt(a, p)
<1>1. CASE \E i \in 1..Len(a) : a[i].price = p
  <2>1. PICK i \in 1..Len(a) : a[i].price = p  BY <1>1
  <2>2. PICK k \in 1..Len(b) : b[k] = a[i]  BY <2>1
  <2>3. QueueAt(a, p) = a[i].queue  BY <2>1, QueueAtLevel
  <2>4. QueueAt(b, p) = b[k].queue
    <3>1. b[k].price = p  BY <2>1, <2>2
    <3> QED BY <3>1, QueueAtLevel
  <2> QED BY <2>2, <2>3, <2>4
<1>2. CASE \A i \in 1..Len(a) : a[i].price # p
  <2>1. \A k \in 1..Len(b) : b[k].price # p  BY <1>2
  <2> QED BY <1>2, <2>1, QueueAtNone
<1> QED BY <1>1, <1>2

-----------------------------------------------------------------------------
(* What the operations do to the queues.                                   *)

\* Two lists of levels have the same queues but at price p, where the new one
\* has q.
QueueSet(Price, new, levels, p, q) ==
  \A x \in Price : QueueAt(new, x) = IF x = p THEN q ELSE QueueAt(levels, x)

WithQueue(new, levels, i, q) == new = [levels EXCEPT ![i].queue = q]

\* The sequence without its element at i.
Without(r, q, i) ==
  /\ Len(r) = Len(q) - 1
  /\ \A j \in 1..(Len(q) - 1) : r[j] = IF j < i THEN q[j] ELSE q[j + 1]

\* Giving a level another queue.
LEMMA UpdateQueues ==
  ASSUME NEW Id, NEW Price \in SUBSET Int, NEW side \in Sides,
         NEW levels \in Seq(LevelType(Id, Price)), Sorted(side, levels), Full(levels),
         NEW i \in 1..Len(levels), NEW z, z = levels[i].price, NEW q \in Seq(Id), q # <<>>,
         NEW new, WithQueue(new, levels, i, q)
  PROVE  /\ Sorted(side, new) /\ Full(new)
         /\ QueueSet(Price, new, levels, z, q)
<1>1. /\ new \in Seq(LevelType(Id, Price))
      /\ Len(new) = Len(levels)
      /\ \A k \in 1..Len(levels) :
           new[k] = IF k = i THEN [price |-> levels[i].price, queue |-> q]
                    ELSE levels[k]
  BY LevelUpdate DEF WithQueue
<1>2. \A k \in 1..Len(levels) : /\ new[k].price = levels[k].price
                                /\ new[k].queue = IF k = i THEN q ELSE levels[k].queue
  BY <1>1
<1>3. Sorted(side, new)
  BY ONLY <1>1, <1>2, Sorted(side, levels) DEF Sorted
<1>4. Full(new)
  BY ONLY <1>1, <1>2, Full(levels), q # <<>> DEF Full
<1>5. QueueAt(new, z) = q
  <2>1. i \in 1..Len(new)  BY <1>1
  <2>2. QueueAt(new, new[i].price) = new[i].queue
    BY ONLY <1>1, <1>3, <2>1, QueueAtLevel, Price \in SUBSET Int, side \in Sides
  <2> QED BY <1>2, <2>2
<1>6. ASSUME NEW p \in Price, p # z
      PROVE  QueueAt(new, p) = QueueAt(levels, p)
  <2>1. \A k \in 1..Len(levels) : levels[k].price = p => new[k] = levels[k]
    BY <1>1, <1>6
  <2>2. /\ \A k \in 1..Len(levels) : levels[k].price = p =>
             \E j \in 1..Len(new) : new[j] = levels[k]
        /\ \A j \in 1..Len(new) : new[j].price = p =>
             \E k \in 1..Len(levels) : levels[k] = new[j]
    BY ONLY <1>1, <1>2, <2>1
  <2>3. new \in Seq(LevelType(Id, Price))  BY <1>1
  <2> QED BY ONLY <1>3, <2>2, <2>3, SameLevelSameQueue, Sorted(side, levels),
         levels \in Seq(LevelType(Id, Price)), Price \in SUBSET Int, side \in Sides
<1> QED BY ONLY <1>3, <1>4, <1>5, <1>6 DEF QueueSet

\* Removing a level.
LEMMA DropQueues ==
  ASSUME NEW Id, NEW Price \in SUBSET Int, NEW side \in Sides,
         NEW levels \in Seq(LevelType(Id, Price)), Sorted(side, levels), Full(levels),
         NEW i \in 1..Len(levels), NEW z, z = levels[i].price,
         NEW new \in Seq(LevelType(Id, Price)),
         Without(new, levels, i)
  PROVE  /\ Sorted(side, new) /\ Full(new)
         /\ QueueSet(Price, new, levels, z, <<>>)
<1>0. Len(levels) \in Nat  BY LenProperties
<1>d. /\ Len(new) = Len(levels) - 1
      /\ \A k \in 1..(Len(levels) - 1) :
           new[k] = IF k < i THEN levels[k] ELSE levels[k + 1]
  BY DEF Without
<1>1. \A k \in 1..(Len(levels) - 1) :
        /\ k \in 1..Len(levels) /\ k + 1 \in 1..Len(levels)
        /\ new[k] = IF k < i THEN levels[k] ELSE levels[k + 1]
  BY <1>0, <1>d
<1>2. Sorted(side, new)
  <2> SUFFICES ASSUME NEW j \in 1..Len(new), NEW k \in 1..Len(new), j < k
               PROVE  Better(side, new[j].price, new[k].price)
    BY DEF Sorted
  <2>0. j \in 1..(Len(levels) - 1) /\ k \in 1..(Len(levels) - 1)
    BY ONLY <1>d, j \in 1..Len(new), k \in 1..Len(new)
  <2>1. \A x, y \in 1..Len(levels) :
          x < y => Better(side, levels[x].price, levels[y].price)
    BY ONLY Sorted(side, levels) DEF Sorted
  <2>2. PICK x \in 1..Len(levels) : new[j] = levels[x] /\ x = IF j < i THEN j ELSE j + 1
    BY ONLY <1>1, <2>0
  <2>3. PICK y \in 1..Len(levels) : new[k] = levels[y] /\ y = IF k < i THEN k ELSE k + 1
    BY ONLY <1>1, <2>0
  <2>4. x < y
    BY ONLY <2>0, <2>2, <2>3, j < k, i \in 1..Len(levels), <1>0
  <2> QED BY ONLY <2>1, <2>2, <2>3, <2>4
<1>3. Full(new)
  BY ONLY <1>1, Full(levels), <1>d DEF Full
<1>4. \A k \in 1..Len(levels) : k # i => levels[k].price # levels[i].price
  BY OneLevelPerPrice
<1>5. ASSUME NEW k \in 1..(Len(levels) - 1)
      PROVE  \E j \in 1..Len(levels) : j # i /\ levels[j] = new[k]
  <2>1. CASE k < i  BY ONLY <1>1, <2>1, k \in 1..(Len(levels) - 1),
                       i \in 1..Len(levels)
  <2>2. CASE ~ (k < i)
    <3>1. k + 1 # i  BY ONLY <2>2, k \in 1..(Len(levels) - 1), i \in 1..Len(levels)
    <3> QED BY ONLY <1>1, <2>2, <3>1, k \in 1..(Len(levels) - 1)
  <2> QED BY <2>1, <2>2
<1>6. QueueAt(new, z) = <<>>
  <2>1. \A k \in 1..Len(new) : new[k].price # levels[i].price
    BY ONLY <1>4, <1>5, <1>d, z = levels[i].price
  <2> QED BY <2>1, QueueAtNone
<1>7. ASSUME NEW p \in Price, p # z
      PROVE  QueueAt(new, p) = QueueAt(levels, p)
  <2>1. ASSUME NEW k \in 1..Len(levels), k # i
        PROVE  \E j \in 1..(Len(levels) - 1) : new[j] = levels[k]
    <3>1. CASE k < i
      <4>1. k \in 1..(Len(levels) - 1)
        BY ONLY <3>1, <1>0, k \in 1..Len(levels), i \in 1..Len(levels)
      <4> QED BY ONLY <1>1, <3>1, <4>1
    <3>2. CASE ~ (k < i)
      <4>1. k - 1 \in 1..(Len(levels) - 1) /\ ~ (k - 1 < i) /\ (k - 1) + 1 = k
        BY ONLY <3>2, <2>1, <1>0, k \in 1..Len(levels), i \in 1..Len(levels)
      <4>2. new[k - 1] = levels[(k - 1) + 1]  BY ONLY <1>1, <4>1
      <4>3. new[k - 1] = levels[k]  BY ONLY <4>1, <4>2
      <4> QED BY ONLY <4>1, <4>3
    <3> QED BY <3>1, <3>2
  <2>2. /\ \A k \in 1..Len(levels) : levels[k].price = p =>
             \E j \in 1..Len(new) : new[j] = levels[k]
        /\ \A j \in 1..Len(new) : new[j].price = p =>
             \E k \in 1..Len(levels) : levels[k] = new[j]
    BY ONLY <1>5, <1>7, <2>1, <1>d, z = levels[i].price
  <2> QED BY ONLY <1>2, <2>2, SameLevelSameQueue, Sorted(side, levels),
         levels \in Seq(LevelType(Id, Price)), Price \in SUBSET Int, side \in Sides,
         new \in Seq(LevelType(Id, Price))
<1> QED BY ONLY <1>2, <1>3, <1>6, <1>7 DEF QueueSet

\* Opening a level where it belongs.
LEMMA InsertQueues ==
  ASSUME NEW Id, NEW Price \in SUBSET Int, NEW side \in Sides,
         NEW levels \in Seq(LevelType(Id, Price)), Sorted(side, levels), Full(levels),
         NEW i \in 1..(Len(levels) + 1), NEW p \in Price, NEW q \in Seq(Id), q # <<>>,
         \A k \in 1..Len(levels) : k < i => Better(side, levels[k].price, p),
         \A k \in 1..Len(levels) : ~ (k < i) => Better(side, p, levels[k].price),
         NEW new, new = InsertAt(levels, i, [price |-> p, queue |-> q])
  PROVE  /\ Sorted(side, new) /\ Full(new)
         /\ QueueSet(Price, new, levels, p, q)
<1>0. Len(levels) \in Nat  BY LenProperties
<1> DEFINE e == [price |-> p, queue |-> q]
<1>1. e \in LevelType(Id, Price)  BY DEF LevelType
<1>2. e.price = p /\ e.queue = q  OBVIOUS
<1>3. new = InsertAt(levels, i, e)  OBVIOUS
<1> HIDE DEF e
<1>4. /\ new \in Seq(LevelType(Id, Price))
      /\ Len(new) = Len(levels) + 1
      /\ \A j \in 1..(Len(levels) + 1) :
           new[j] = IF j < i THEN levels[j] ELSE IF j = i THEN e ELSE levels[j - 1]
  <2>1. levels \in Seq(LevelType(Id, Price)) /\ e \in LevelType(Id, Price)  BY <1>1
  <2>2. new \in Seq(LevelType(Id, Price)) /\ With(new, levels, i, e)
    BY ONLY <1>3, <2>1, i \in 1..(Len(levels) + 1), InsertAtProps
  <2> QED BY ONLY <2>2 DEF With
<1>5. \A j \in 1..(Len(levels) + 1) :
        /\ j < i => j \in 1..Len(levels) /\ new[j] = levels[j]
        /\ j = i => new[j] = e
        /\ i < j => j - 1 \in 1..Len(levels) /\ ~ (j - 1 < i) /\ new[j] = levels[j - 1]
  BY <1>0, <1>4
<1>6. Sorted(side, new)
  <2> SUFFICES ASSUME NEW j \in 1..Len(new), NEW k \in 1..Len(new), j < k
               PROVE  Better(side, new[j].price, new[k].price)
    BY DEF Sorted
  <2>n. j \in 1..(Len(levels) + 1) /\ k \in 1..(Len(levels) + 1)
    BY <1>4
  <2>0. \A x, y \in 1..Len(levels) :
          x < y => Better(side, levels[x].price, levels[y].price)
    BY ONLY Sorted(side, levels) DEF Sorted
  <2>j. \/ j < i \/ j = i \/ i < j
    BY ONLY <2>n, i \in 1..(Len(levels) + 1)
  <2>k. \/ k < i \/ k = i \/ i < k
    BY ONLY <2>n, i \in 1..(Len(levels) + 1)
  <2>1. CASE j < i /\ k < i
    <3>1. Better(side, levels[j].price, levels[k].price)
      BY ONLY <2>0, <2>1, <1>5, j < k, <2>n
    <3> QED BY ONLY <2>1, <3>1, <1>5, <2>n
  <2>2. CASE j < i /\ k = i
    BY <2>n, <2>2, <1>2, <1>5
  <2>3. CASE j < i /\ i < k
    <3>1. j \in 1..Len(levels) /\ k - 1 \in 1..Len(levels) /\ j < k - 1
      BY ONLY <2>3, <1>5, <1>0, <2>n, i \in 1..(Len(levels) + 1)
    <3>2. Better(side, levels[j].price, levels[k - 1].price)
      BY ONLY <3>1, <2>0
    <3> QED BY ONLY <2>3, <3>2, <1>5, <2>n
  <2>4. CASE j = i /\ i < k
    BY <2>n, <2>4, <1>2, <1>5
  <2>5. CASE i < j /\ i < k
    <3>1. j - 1 \in 1..Len(levels) /\ k - 1 \in 1..Len(levels) /\ j - 1 < k - 1
      BY ONLY <2>5, <1>5, <1>0, <2>n, j < k,
         i \in 1..(Len(levels) + 1)
    <3>2. Better(side, levels[j - 1].price, levels[k - 1].price)
      BY ONLY <3>1, <2>0
    <3> QED BY ONLY <2>5, <3>2, <1>5, <2>n
  <2>6. \/ j < i /\ k < i
        \/ j < i /\ k = i
        \/ j < i /\ i < k
        \/ j = i /\ i < k
        \/ i < j /\ i < k
    BY ONLY <2>j, <2>k, j < k, <2>n,
       i \in 1..(Len(levels) + 1)
  <2> QED BY ONLY <2>1, <2>2, <2>3, <2>4, <2>5, <2>6
<1>7. Full(new)
  <2>1. \A j \in 1..(Len(levels) + 1) : j < i \/ j = i \/ i < j  OBVIOUS
  <2> QED BY ONLY <1>2, <1>4, <1>5, <2>1, Full(levels), q # <<>> DEF Full
<1>8. QueueAt(new, p) = q
  <2>1. i \in 1..Len(new) /\ new[i] = e  BY <1>4, <1>5
  <2>2. QueueAt(new, new[i].price) = new[i].queue
    BY ONLY <1>4, <1>6, <2>1, QueueAtLevel, Price \in SUBSET Int, side \in Sides
  <2> QED BY <1>2, <2>1, <2>2
<1>9. ASSUME NEW x \in Price, x # p
      PROVE  QueueAt(new, x) = QueueAt(levels, x)
  <2>1. ASSUME NEW k \in 1..Len(levels)
        PROVE  \E j \in 1..(Len(levels) + 1) : new[j] = levels[k]
    <3>1. CASE k < i
      <4>1. k \in 1..(Len(levels) + 1)  BY ONLY <1>0, k \in 1..Len(levels)
      <4> QED BY ONLY <3>1, <4>1, <1>5
    <3>2. CASE ~ (k < i)
      <4>1. k + 1 \in 1..(Len(levels) + 1) /\ i < k + 1 /\ (k + 1) - 1 = k
        BY ONLY <3>2, <1>0, k \in 1..Len(levels), i \in 1..(Len(levels) + 1)
      <4>2. new[k + 1] = levels[(k + 1) - 1]  BY ONLY <4>1, <1>5
      <4>3. new[k + 1] = levels[k]  BY ONLY <4>1, <4>2
      <4> QED BY ONLY <4>1, <4>3
    <3> QED BY <3>1, <3>2
  <2>2. ASSUME NEW j \in 1..(Len(levels) + 1), new[j].price = x
        PROVE  \E k \in 1..Len(levels) : levels[k] = new[j]
    <3>1. new[j] # e  BY ONLY <2>2, <1>2, <1>9
    <3>2. j < i \/ j = i \/ i < j  OBVIOUS
    <3> QED BY ONLY <3>1, <3>2, <1>5, j \in 1..(Len(levels) + 1)
  <2>3. /\ \A k \in 1..Len(levels) : levels[k].price = x =>
             \E j \in 1..Len(new) : new[j] = levels[k]
        /\ \A j \in 1..Len(new) : new[j].price = x =>
             \E k \in 1..Len(levels) : levels[k] = new[j]
    BY ONLY <1>4, <2>1, <2>2
  <2>4. new \in Seq(LevelType(Id, Price))  BY <1>4
  <2> QED BY ONLY <1>6, <2>3, <2>4, SameLevelSameQueue, Sorted(side, levels),
         levels \in Seq(LevelType(Id, Price)), Price \in SUBSET Int, side \in Sides
<1> QED BY ONLY <1>6, <1>7, <1>8, <1>9 DEF QueueSet

\* addToBids / addToAsks: the order joins the back of the queue of its price,
\* and the slice stays sorted (orderbook.go:68-115).
LEMMA AddOrderQueues ==
  ASSUME NEW Id, NEW Price \in SUBSET Int, NEW side \in Sides,
         NEW levels \in Seq(LevelType(Id, Price)), Sorted(side, levels), Full(levels),
         NEW p \in Price, NEW o \in Id, NEW new, new = AddOrder(side, levels, p, o)
  PROVE  /\ Sorted(side, new) /\ Full(new)
         /\ QueueSet(Price, new, levels, p, Append(QueueAt(levels, p), o))
<1>0. /\ Price \in SUBSET Int /\ side \in Sides
      /\ levels \in Seq(LevelType(Id, Price)) /\ Sorted(side, levels) /\ Full(levels)
  OBVIOUS
<1> DEFINE idx == SearchLevel(side, levels, p)
           old == QueueAt(levels, p)
<1>1. /\ Len(levels) \in Nat /\ idx \in 1..(Len(levels) + 1)
      /\ \A k \in 1..(idx - 1) : ~ Better(side, p, levels[k].price)
      /\ idx <= Len(levels) => Better(side, p, levels[idx].price)
  BY SearchLevelProps, LenProperties
<1>2. new = IF idx > 1 /\ levels[idx - 1].price = p
            THEN [levels EXCEPT ![idx - 1].queue = Append(levels[idx - 1].queue, o)]
            ELSE InsertAt(levels, idx, [price |-> p, queue |-> <<o>>])
  BY DEF AddOrder, Enqueue
<1>3. \A k \in 1..Len(levels) : levels[k].price \in Int /\ levels[k].queue \in Seq(Id)
  BY LevelParts
<1>4. \A j, k \in 1..Len(levels) :
        j < k => Better(side, levels[j].price, levels[k].price)
  BY ONLY Sorted(side, levels) DEF Sorted
<1>5. old \in Seq(Id)  BY QueueAtType
<1> HIDE DEF idx, old
<1>6. CASE idx > 1 /\ levels[idx - 1].price = p
  <2>1. idx - 1 \in 1..Len(levels)
    BY ONLY <1>1, <1>6
  <2>2. old = levels[idx - 1].queue
    <3>1. QueueAt(levels, levels[idx - 1].price) = levels[idx - 1].queue
      BY <2>1, QueueAtLevel
    <3> QED BY <1>6, <3>1 DEF old
  <2>3. Append(old, o) \in Seq(Id) /\ Append(old, o) # <<>>
    BY <1>5, AppendProperties
  <2>4. new = [levels EXCEPT ![idx - 1].queue = Append(old, o)]
    BY <1>2, <1>6, <2>2
  <2> DEFINE q == Append(old, o)
             i == idx - 1
  <2>5. /\ q \in Seq(Id) /\ q # <<>> /\ i \in 1..Len(levels) /\ levels[i].price = p
        /\ WithQueue(new, levels, i, q)
    BY <1>6, <2>1, <2>3, <2>4 DEF WithQueue
  <2> HIDE DEF q, i
  <2>6. /\ Sorted(side, new) /\ Full(new)
        /\ QueueSet(Price, new, levels, p, q)
    BY ONLY <1>0, <2>5, UpdateQueues
  <2> QED BY ONLY <2>6 DEF q, old
<1>7. CASE ~ (idx > 1 /\ levels[idx - 1].price = p)
  <2>1. ASSUME NEW k \in 1..Len(levels), k < idx
        PROVE  Better(side, levels[k].price, p)
    <3>0. k \in 1..(idx - 1) /\ idx - 1 \in 1..Len(levels) /\ idx - 1 \in 1..(idx - 1)
          /\ idx > 1
      BY ONLY <1>1, <2>1
    <3>1. Better(side, levels[idx - 1].price, p)
      <4>1. ~ Better(side, p, levels[idx - 1].price)  BY <1>1, <3>0
      <4>2. levels[idx - 1].price # p  BY <1>7, <3>0
      <4>3. levels[idx - 1].price \in Int /\ p \in Int  BY <1>3, <3>0
      <4> DEFINE a == levels[idx - 1].price
      <4> HIDE DEF a
      <4>4. Better(side, a, p) \/ Better(side, p, a) \/ p = a
        BY ONLY <4>3, BetterOrder, side \in Sides DEF a
      <4> QED BY ONLY <4>1, <4>2, <4>4 DEF a
    <3>2. CASE k = idx - 1  BY <3>1, <3>2
    <3>3. CASE k < idx - 1
      <4>1. Better(side, levels[k].price, levels[idx - 1].price)
        BY ONLY <1>4, <3>0, <3>3, k \in 1..Len(levels)
      <4>2. levels[k].price \in Int /\ levels[idx - 1].price \in Int /\ p \in Int
        BY <1>3, <3>0
      <4> QED BY ONLY <3>1, <4>1, <4>2, BetterOrder, side \in Sides
    <3>4. k = idx - 1 \/ k < idx - 1  BY ONLY <3>0
    <3> QED BY <3>2, <3>3, <3>4
  <2>2. ASSUME NEW k \in 1..Len(levels), ~ (k < idx)
        PROVE  Better(side, p, levels[k].price)
    <3>1. idx \in 1..Len(levels) /\ idx <= Len(levels)
      BY ONLY <1>1, <2>2
    <3>2. Better(side, p, levels[idx].price)  BY <1>1, <3>1
    <3>3. CASE k = idx  BY <3>2, <3>3
    <3>4. CASE idx < k
      <4>1. Better(side, levels[idx].price, levels[k].price)
        BY ONLY <1>4, <3>1, <3>4, k \in 1..Len(levels)
      <4>2. levels[k].price \in Int /\ levels[idx].price \in Int /\ p \in Int
        BY <1>3, <3>1
      <4> QED BY ONLY <3>2, <4>1, <4>2, BetterOrder, side \in Sides
    <3>5. k = idx \/ idx < k  BY ONLY <1>1, <2>2
    <3> QED BY <3>3, <3>4, <3>5
  <2>3. old = <<>>
    <3>1. ASSUME NEW k \in 1..Len(levels)
          PROVE  levels[k].price # p
      <4>1. Better(side, levels[k].price, p) \/ Better(side, p, levels[k].price)
        BY <2>1, <2>2
      <4>2. p \in Int  OBVIOUS
      <4> QED BY ONLY <4>1, <4>2, BetterOrder, side \in Sides
    <3> QED BY <3>1, QueueAtNone DEF old
  <2>4. Append(old, o) = <<o>>  BY <2>3
  <2> DEFINE q == <<o>>
  <2>5. /\ q \in Seq(Id) /\ q # <<>>
        /\ new = InsertAt(levels, idx, [price |-> p, queue |-> q])
    BY <1>2, <1>7
  <2> HIDE DEF q
  <2>6. /\ Sorted(side, new) /\ Full(new)
        /\ QueueSet(Price, new, levels, p, q)
    BY <1>1, <2>1, <2>2, <2>5, InsertQueues
  <2>7. q = Append(QueueAt(levels, p), o)  BY <2>4 DEF q, old
  <2> QED BY ONLY <2>6, <2>7
<1> QED BY <1>6, <1>7

\* dequeueBestBid / dequeueBestAsk: the queue of the best price loses its front
\* order (engine.go:321-353).
LEMMA DequeueQueues ==
  ASSUME NEW Id, NEW Price \in SUBSET Int, NEW side \in Sides,
         NEW levels \in Seq(LevelType(Id, Price)), Sorted(side, levels), Full(levels),
         levels # <<>>, NEW new, new = DequeueBest(levels)
  PROVE  LET p == levels[1].price IN
         /\ p \in Price
         /\ QueueAt(levels, p) # <<>>
         /\ BestOrder(levels) = Head(QueueAt(levels, p))
         /\ Sorted(side, new) /\ Full(new)
         /\ QueueSet(Price, new, levels, p, Tail(QueueAt(levels, p)))
<1>0. /\ Price \in SUBSET Int /\ side \in Sides
      /\ levels \in Seq(LevelType(Id, Price)) /\ Sorted(side, levels) /\ Full(levels)
  OBVIOUS
<1> DEFINE p == levels[1].price
           q == levels[1].queue
<1>1. 1 \in 1..Len(levels)  BY EmptySeq
<1>2. p \in Price /\ q \in Seq(Id)  BY <1>1, LevelParts
<1>3. QueueAt(levels, p) = q  BY <1>1, QueueAtLevel
<1>4. q # <<>>  BY <1>1 DEF Full
<1>5. BestOrder(levels) = Head(q)  BY DEF BestOrder
<1>6. Tail(q) \in Seq(Id)  BY <1>2, <1>4, HeadTailProperties
<1>p. p = levels[1].price  OBVIOUS
<1> HIDE DEF p
<1>7. CASE Tail(q) = <<>>
  <2>1. new = Tail(levels)  BY <1>7 DEF DequeueBest
  <2>2. /\ Tail(levels) \in Seq(LevelType(Id, Price))
        /\ Len(Tail(levels)) = Len(levels) - 1
        /\ \A k \in 1..Len(Tail(levels)) : Tail(levels)[k] = levels[k + 1]
    BY ONLY HeadTailProperties, levels \in Seq(LevelType(Id, Price)), levels # <<>>
  <2>3. Without(new, levels, 1)  BY <2>1, <2>2 DEF Without
  <2>4. new \in Seq(LevelType(Id, Price))  BY <2>1, <2>2
  <2>5. /\ Sorted(side, new) /\ Full(new)
        /\ QueueSet(Price, new, levels, p, <<>>)
    BY ONLY <1>0, <1>1, <1>p, <2>3, <2>4, DropQueues
  <2> QED BY ONLY <1>2, <1>3, <1>4, <1>5, <1>7, <2>5, <1>p
<1>8. CASE Tail(q) # <<>>
  <2> DEFINE t == Tail(q)
  <2>1. WithQueue(new, levels, 1, t)
    BY <1>8, <1>p DEF DequeueBest, WithQueue, p, q
  <2>2. t \in Seq(Id) /\ t # <<>>  BY <1>6, <1>8
  <2> HIDE DEF t
  <2>3. /\ Sorted(side, new) /\ Full(new)
        /\ QueueSet(Price, new, levels, p, t)
    BY ONLY <1>0, <1>1, <1>p, <2>1, <2>2, UpdateQueues
  <2> QED BY ONLY <1>2, <1>3, <1>4, <1>5, <2>3, <1>p DEF t
<1> QED BY <1>7, <1>8

\* Orderbook.CancelOrder: the order leaves the queue of its price, and no other
\* queue changes (orderbook.go:128-146).
LEMMA RemoveQueues ==
  ASSUME NEW Id, NEW Price \in SUBSET Int, NEW side \in Sides,
         NEW levels \in Seq(LevelType(Id, Price)), Sorted(side, levels), Full(levels),
         NEW p \in Price, NEW o, o \in LevelIds(levels),
         \A x \in Price : o \in QueueIds(QueueAt(levels, x)) => x = p,
         NEW new, new = RemoveOrder(levels, o)
  PROVE  /\ o \in QueueIds(QueueAt(levels, p))
         /\ Sorted(side, new) /\ Full(new)
         /\ QueueSet(Price, new, levels, p, QueueRemove(QueueAt(levels, p), o))
<1>0. /\ Price \in SUBSET Int /\ side \in Sides
      /\ levels \in Seq(LevelType(Id, Price)) /\ Sorted(side, levels) /\ Full(levels)
  OBVIOUS
<1> DEFINE i == CHOOSE k \in 1..Len(levels) : o \in QueueIds(levels[k].queue)
           q == levels[i].queue
           r == QueueRemove(q, o)
<1>1. i \in 1..Len(levels) /\ o \in QueueIds(q)  BY DEF LevelIds
<1>2. new = IF r = <<>> THEN RemoveAt(levels, i) ELSE [levels EXCEPT ![i].queue = r]
  BY DEF RemoveOrder
<1> HIDE DEF i
<1>3. q \in Seq(Id) /\ levels[i].price \in Price  BY <1>1, LevelParts
<1>4. r \in Seq(Id)  BY <1>1, <1>3, QueueRemoveType
<1>5. QueueAt(levels, levels[i].price) = q  BY <1>1, QueueAtLevel
<1>6. levels[i].price = p  BY <1>1, <1>3, <1>5
<1> HIDE DEF r, q
<1>7. CASE r = <<>>
  <2>1. new = RemoveAt(levels, i)  BY <1>2, <1>7
  <2>2. new \in Seq(LevelType(Id, Price)) /\ Without(new, levels, i)
    BY <1>1, <2>1, RemoveAtProps DEF Without
  <2>3. /\ Sorted(side, new) /\ Full(new)
        /\ QueueSet(Price, new, levels, p, <<>>)
    BY ONLY <1>0, <1>1, <1>6, <2>2, DropQueues
  <2> QED BY ONLY <1>1, <1>5, <1>6, <1>7, <2>3 DEF r
<1>8. CASE r # <<>>
  <2>1. WithQueue(new, levels, i, r)  BY <1>2, <1>8 DEF WithQueue
  <2>2. /\ Sorted(side, new) /\ Full(new)
        /\ QueueSet(Price, new, levels, p, r)
    BY ONLY <1>0, <1>1, <1>4, <1>6, <1>8, <2>1, UpdateQueues
  <2> QED BY ONLY <1>1, <1>5, <1>6, <2>2 DEF r
<1> QED BY <1>7, <1>8

-----------------------------------------------------------------------------
(* What the operations do to one queue.                                    *)

\* No id is twice in the sequence.
Once(q) == \A j, k \in 1..Len(q) : q[j] = q[k] => j = k

\* Who stands before whom in q stood so in r.
KeepsOrder(q, r) == \A a, b : Ahead(q, a, b) => Ahead(r, a, b)

LEMMA EmptyQueue ==
  /\ QueueIds(<<>>) = {} /\ Once(<<>>) /\ \A a, b : ~ Ahead(<<>>, a, b)
BY DEF QueueIds, Once, Ahead

\* Joining the back.
LEMMA AppendQueue ==
  ASSUME NEW Id, NEW q \in Seq(Id), Once(q), NEW o \in Id, o \notin QueueIds(q)
  PROVE  /\ QueueIds(Append(q, o)) = QueueIds(q) \cup {o}
         /\ Once(Append(q, o))
         /\ \A a, b : Ahead(Append(q, o), a, b) => Ahead(q, a, b) \/ b = o
<1> DEFINE r == Append(q, o)
<1>0. Len(q) \in Nat  BY LenProperties
<1>1. /\ Len(r) = Len(q) + 1
      /\ \A i \in 1..Len(q) : r[i] = q[i]
      /\ r[Len(q) + 1] = o
  BY AppendProperties
<1> HIDE DEF r
<1>2. \A i \in 1..Len(q) : q[i] # o  BY DEF QueueIds
<1>3. \A i \in 1..Len(r) : i \in 1..Len(q) \/ i = Len(q) + 1  BY <1>0, <1>1
<1>4. QueueIds(r) = QueueIds(q) \cup {o}
  <2>1. \A i \in 1..Len(q) : i \in 1..Len(r)  BY <1>0, <1>1
  <2>2. Len(q) + 1 \in 1..Len(r)  BY <1>0, <1>1
  <2> QED BY ONLY <1>1, <1>3, <2>1, <2>2 DEF QueueIds
<1>5. Once(r)
  BY ONLY <1>1, <1>2, <1>3, Once(q) DEF Once
<1>6. ASSUME NEW a, NEW b, Ahead(r, a, b), b # o
      PROVE  Ahead(q, a, b)
  <2>1. PICK j, k \in 1..Len(r) : j < k /\ r[j] = a /\ r[k] = b
    BY <1>6 DEF Ahead
  <2>2. k \in 1..Len(q)  BY <1>1, <1>3, <1>6, <2>1
  <2>3. j \in 1..Len(q)  BY <1>0, <2>1, <2>2
  <2> QED BY ONLY <1>1, <2>1, <2>2, <2>3 DEF Ahead
<1> QED BY <1>4, <1>5, <1>6 DEF r

\* Leaving at position i.
LEMMA LeaveQueue ==
  ASSUME NEW Id, NEW q \in Seq(Id), Once(q), NEW i \in 1..Len(q),
         NEW r \in Seq(Id), Without(r, q, i)
  PROVE  /\ QueueIds(r) = QueueIds(q) \ {q[i]}
         /\ Once(r) /\ KeepsOrder(r, q)
<1>0. Len(q) \in Nat  BY LenProperties
<1>w. /\ Len(r) = Len(q) - 1
      /\ \A j \in 1..(Len(q) - 1) : r[j] = IF j < i THEN q[j] ELSE q[j + 1]
  BY DEF Without
<1>1. \A j \in 1..Len(r) : \E x \in 1..Len(q) :
        x # i /\ r[j] = q[x] /\ x = IF j < i THEN j ELSE j + 1
  <2> SUFFICES ASSUME NEW j \in 1..Len(r)
               PROVE  \E x \in 1..Len(q) :
                 x # i /\ r[j] = q[x] /\ x = IF j < i THEN j ELSE j + 1
    OBVIOUS
  <2>0. j \in 1..(Len(q) - 1)  BY <1>w
  <2>1. CASE j < i
    <3>1. j \in 1..Len(q) /\ j # i  BY <1>0, <2>0, <2>1
    <3> QED BY <1>w, <2>0, <2>1, <3>1
  <2>2. CASE ~ (j < i)
    <3>1. j + 1 \in 1..Len(q) /\ j + 1 # i  BY <1>0, <2>0, <2>2
    <3> QED BY <1>w, <2>0, <2>2, <3>1
  <2> QED BY <2>1, <2>2
<1>2. \A x \in 1..Len(q) : x # i => \E j \in 1..Len(r) : r[j] = q[x]
  <2> SUFFICES ASSUME NEW x \in 1..Len(q), x # i
               PROVE  \E j \in 1..Len(r) : r[j] = q[x]
    OBVIOUS
  <2>1. CASE x < i
    <3>1. x \in 1..(Len(q) - 1)  BY <1>0, <2>1
    <3> QED BY <1>w, <2>1, <3>1
  <2>2. CASE i < x
    <3>1. x - 1 \in 1..(Len(q) - 1) /\ ~ (x - 1 < i) /\ (x - 1) + 1 = x
      BY <1>0, <2>2
    <3>2. r[x - 1] = q[(x - 1) + 1]  BY <1>w, <3>1
    <3> QED BY <1>w, <3>1, <3>2
  <2>3. x < i \/ i < x  OBVIOUS
  <2> QED BY <2>1, <2>2, <2>3
<1>3. QueueIds(r) = QueueIds(q) \ {q[i]}
  <2>1. \A x \in 1..Len(q) : x # i => q[x] # q[i]
    BY ONLY Once(q), i \in 1..Len(q) DEF Once
  <2>2. ASSUME NEW o \in QueueIds(r)  PROVE o \in QueueIds(q) \ {q[i]}
    <3>1. PICK j \in 1..Len(r) : r[j] = o  BY DEF QueueIds
    <3>2. PICK x \in 1..Len(q) : x # i /\ r[j] = q[x]  BY <1>1
    <3> QED BY ONLY <2>1, <3>1, <3>2 DEF QueueIds
  <2>3. ASSUME NEW o \in QueueIds(q) \ {q[i]}  PROVE o \in QueueIds(r)
    <3>1. PICK x \in 1..Len(q) : q[x] = o  BY DEF QueueIds
    <3>2. x # i  BY <3>1
    <3> QED BY ONLY <1>2, <3>1, <3>2 DEF QueueIds
  <2> QED BY <2>2, <2>3
<1>4. Once(r)
  <2> SUFFICES ASSUME NEW j \in 1..Len(r), NEW k \in 1..Len(r), r[j] = r[k]
               PROVE  j = k
    BY DEF Once
  <2>1. PICK x \in 1..Len(q) : r[j] = q[x] /\ x = IF j < i THEN j ELSE j + 1
    BY <1>1
  <2>2. PICK y \in 1..Len(q) : r[k] = q[y] /\ y = IF k < i THEN k ELSE k + 1
    BY <1>1
  <2>3. x = y  BY ONLY <2>1, <2>2, Once(q), r[j] = r[k] DEF Once
  <2>4. j \in Int /\ k \in Int /\ i \in Int  OBVIOUS
  <2> QED BY ONLY <2>1, <2>2, <2>3, <2>4
<1>5. KeepsOrder(r, q)
  <2> SUFFICES ASSUME NEW a, NEW b, Ahead(r, a, b)
               PROVE  Ahead(q, a, b)
    BY DEF KeepsOrder
  <2>0. PICK j, k \in 1..Len(r) : j < k /\ r[j] = a /\ r[k] = b
    BY DEF Ahead
  <2>1. PICK x \in 1..Len(q) : r[j] = q[x] /\ x = IF j < i THEN j ELSE j + 1
    BY <1>1
  <2>2. PICK y \in 1..Len(q) : r[k] = q[y] /\ y = IF k < i THEN k ELSE k + 1
    BY <1>1
  <2>4. j \in Int /\ k \in Int /\ i \in Int  OBVIOUS
  <2>3. x < y  BY ONLY <2>0, <2>1, <2>2, <2>4
  <2> QED BY ONLY <2>0, <2>1, <2>2, <2>3 DEF Ahead
<1> QED BY <1>3, <1>4, <1>5

\* The front leaves, and everybody else stood behind it.
LEMMA TailQueue ==
  ASSUME NEW Id, NEW q \in Seq(Id), Once(q), q # <<>>
  PROVE  /\ Head(q) \in QueueIds(q)
         /\ QueueIds(Tail(q)) = QueueIds(q) \ {Head(q)}
         /\ Once(Tail(q)) /\ KeepsOrder(Tail(q), q)
         /\ \A b \in QueueIds(q) \ {Head(q)} : Ahead(q, Head(q), b)
<1>0. Len(q) \in Nat /\ 1 \in 1..Len(q)  BY LenProperties, EmptySeq
<1>1. Head(q) = q[1]  BY <1>0
<1>2. /\ Tail(q) \in Seq(Id) /\ Len(Tail(q)) = Len(q) - 1
      /\ \A i \in 1..Len(Tail(q)) : Tail(q)[i] = q[i + 1]
  BY HeadTailProperties
<1>3. Without(Tail(q), q, 1)  BY <1>2 DEF Without
<1>4. /\ QueueIds(Tail(q)) = QueueIds(q) \ {q[1]}
      /\ Once(Tail(q)) /\ KeepsOrder(Tail(q), q)
  <2> DEFINE r == Tail(q)
  <2>1. r \in Seq(Id) /\ Without(r, q, 1)
    BY <1>2, <1>3
  <2> HIDE DEF r
  <2>2. QueueIds(r) = QueueIds(q) \ {q[1]} /\ Once(r) /\ KeepsOrder(r, q)
    BY <1>0, <2>1, LeaveQueue
  <2> QED BY <2>2 DEF r
<1>5. ASSUME NEW b \in QueueIds(q) \ {q[1]}
      PROVE  Ahead(q, q[1], b)
  <2>1. PICK k \in 1..Len(q) : q[k] = b  BY DEF QueueIds
  <2>2. 1 < k  BY <2>1
  <2> QED BY <1>0, <2>1, <2>2 DEF Ahead
<1>6. q[1] \in QueueIds(q)  BY <1>0 DEF QueueIds
<1> QED BY <1>1, <1>4, <1>5, <1>6

\* One that stands in the queue leaves it.
LEMMA RemoveQueue ==
  ASSUME NEW Id, NEW q \in Seq(Id), Once(q), NEW o \in QueueIds(q)
  PROVE  /\ QueueRemove(q, o) \in Seq(Id)
         /\ \E i \in 1..Len(q) : q[i] = o /\ QueueRemove(q, o) = RemoveAt(q, i)
         /\ QueueIds(QueueRemove(q, o)) = QueueIds(q) \ {o}
         /\ Once(QueueRemove(q, o)) /\ KeepsOrder(QueueRemove(q, o), q)
<1> DEFINE i == CHOOSE j \in 1..Len(q) : q[j] = o
           r == QueueRemove(q, o)
<1>1. i \in 1..Len(q) /\ q[i] = o  BY DEF QueueIds
<1>2. r = RemoveAt(q, i)  BY DEF QueueRemove
<1> HIDE DEF i, r
<1>3. r \in Seq(Id) /\ Without(r, q, i)
  BY <1>1, <1>2, RemoveAtProps DEF Without
<1>4. QueueIds(r) = QueueIds(q) \ {q[i]} /\ Once(r) /\ KeepsOrder(r, q)
  BY <1>1, <1>3, LeaveQueue
<1> QED BY <1>1, <1>2, <1>3, <1>4 DEF r

-----------------------------------------------------------------------------
(* Types                                                                   *)

\* A call past validation has its order on the heap, and a call that has yet
\* to emit has something to emit.
CallsAreBacked ==
  \A o \in Orders : /\ pc[o] # "idle" => o \in DOMAIN order
                    /\ pc[o] = "emit" => outbox[o] # <<>>

\* Inductive: TypeOK alone is not, because the sum in Execute stays within
\* 0..MaxQty only if no order is overfilled.
EngineInv == TypeOK /\ NeverOverfilled /\ CallsAreBacked

-----------------------------------------------------------------------------

LEMMA InitEngineInv == Init => EngineInv
<1> SUFFICES ASSUME Init PROVE EngineInv  OBVIOUS
<1>1. DOMAIN order = {}  BY DEF Init
<1>2. TypeOK
  BY <1>1, EmptySeq DEF Init, TypeOK
<1>3. NeverOverfilled /\ CallsAreBacked  BY <1>1 DEF Init, NeverOverfilled, CallsAreBacked
<1> QED BY <1>2, <1>3 DEF EngineInv

\* When the loop has a match, the best opposing order is on the heap.
LEMMA BestIsPlaced ==
  ASSUME TypeOK, NEW t \in DOMAIN order, CanMatch(t)
  PROVE  /\ OppositeLevels(t) \in Seq(LevelType(DOMAIN order, Prices))
         /\ BestOrder(OppositeLevels(t)) \in DOMAIN order
         /\ DequeueBest(OppositeLevels(t)) \in Seq(LevelType(DOMAIN order, Prices))
<1>1. Opposite(order[t].side) \in Sides  BY DEF Opposite, Sides
<1>2. OppositeLevels(t) \in Seq(LevelType(DOMAIN order, Prices))
  BY <1>1 DEF TypeOK, OppositeLevels
<1>3. OppositeLevels(t) # <<>> /\ OppositeLevels(t)[1].queue # <<>>
  BY DEF CanMatch, HasBest
<1> QED BY <1>2, <1>3, DequeueBestType

\* Putting a placed order on the book keeps the book's type.
LEMMA PutOnBookType ==
  ASSUME TypeOK, NEW o \in DOMAIN order, PutOnBook(o)
  PROVE  /\ book' \in [Sides -> Seq(LevelType(DOMAIN order, Prices))]
         /\ index' \subseteq DOMAIN order
<1> DEFINE s == order[o].side
           l == AddOrder(s, book[s], order[o].price, o)
<1>1. s \in Sides /\ order[o].price \in Prices  BY DEF TypeOK, Order
<1>2. book[s] \in Seq(LevelType(DOMAIN order, Prices))  BY <1>1 DEF TypeOK
<1>3. l \in Seq(LevelType(DOMAIN order, Prices))  BY <1>1, <1>2, AddOrderType
<1>4. book' = [book EXCEPT ![s] = l] /\ index' = index \cup {o}  BY DEF PutOnBook
<1> HIDE DEF l
<1> QED BY <1>1, <1>3, <1>4 DEF TypeOK

\* Taking the best opposing order off keeps the book's type.
LEMMA TakeBestOffType ==
  ASSUME TypeOK, NEW t \in DOMAIN order, CanMatch(t), TakeBestOff(t)
  PROVE  /\ book' \in [Sides -> Seq(LevelType(DOMAIN order, Prices))]
         /\ index' \subseteq DOMAIN order
<1> DEFINE s == Opposite(order[t].side)
           l == DequeueBest(book[s])
<1>1. s \in Sides  BY DEF Opposite, Sides
<1>2. l \in Seq(LevelType(DOMAIN order, Prices))  BY BestIsPlaced DEF OppositeLevels
<1>3. book' = [book EXCEPT ![s] = l] /\ index' \subseteq index  BY DEF TakeBestOff
<1> HIDE DEF l
<1> QED BY <1>1, <1>2, <1>3 DEF TypeOK

\* What a trade moves, and what it does to the two orders.
LEMMA ExecuteEffect ==
  ASSUME EngineInv, NEW t \in DOMAIN order, Execute(t)
  PROVE  LET m   == BestOrder(OppositeLevels(t))
             qty == MatchQty(t, m)
         IN  /\ m \in DOMAIN order /\ m # t
             /\ qty \in 0..MaxQty
             /\ qty <= Remaining(t) /\ qty <= Remaining(m)
             /\ DOMAIN order' = DOMAIN order
             /\ \A x \in DOMAIN order :
                  order'[x] = [order[x] EXCEPT
                    !.filled = IF x \in {t, m} THEN @ + qty ELSE @,
                    !.status = IF x = m THEN MakerStatus(m, qty) ELSE @]
<1> DEFINE m == BestOrder(OppositeLevels(t))
           qty == MatchQty(t, m)
<1>1. m \in DOMAIN order  BY BestIsPlaced DEF Execute, EngineInv
<1>2. m # t  BY DEF Execute
<1>3. \A x \in DOMAIN order :
        /\ order[x] \in Order /\ order[x].filled \in 0..MaxQty
        /\ order[x].qty \in 1..MaxQty /\ order[x].filled <= order[x].qty
  BY DEF EngineInv, TypeOK, Order, NeverOverfilled
<1>4. MaxQty \in Nat  BY EngineAssumption
<1>5. qty \in 0..MaxQty /\ qty <= Remaining(t) /\ qty <= Remaining(m)
  <2> HIDE DEF m
  <2> QED BY <1>1, <1>3, <1>4 DEF MatchQty, Smaller, Remaining
<1>6. order' = [order EXCEPT ![t].filled = @ + qty,
                             ![m].filled = @ + qty,
                             ![m].status = MakerStatus(m, qty)]
  BY DEF Execute
<1> HIDE DEF m, qty
<1>7. DOMAIN order' = DOMAIN order  BY <1>6
<1>8. ASSUME NEW x \in DOMAIN order
      PROVE  order'[x] = [order[x] EXCEPT
                    !.filled = IF x \in {t, m} THEN @ + qty ELSE @,
                    !.status = IF x = m THEN MakerStatus(m, qty) ELSE @]
  <2>0. order \in [DOMAIN order -> Order]  BY DEF EngineInv, TypeOK
  <2>1. CASE x = t  BY <1>1, <1>2, <1>3, <1>6, <2>0, <2>1 DEF Order
  <2>2. CASE x = m  BY <1>1, <1>2, <1>3, <1>6, <2>0, <2>2 DEF Order
  <2>3. CASE x \notin {t, m}  BY <1>1, <1>2, <1>3, <1>6, <2>0, <2>3 DEF Order
  <2> QED BY <2>1, <2>2, <2>3
<1> QED BY <1>1, <1>2, <1>5, <1>7, <1>8 DEF m, qty

-----------------------------------------------------------------------------
(* One lemma per action.                                                   *)

LEMMA SubmitInv ==
  ASSUME EngineInv, NEW o \in Orders, NEW r \in Requests,
         Submit(o, r.user, r.side, r.price, r.qty)
  PROVE  EngineInv'
<1> DEFINE new == [user |-> r.user, side |-> r.side, price |-> r.price,
                   qty |-> r.qty, filled |-> 0, status |-> "open"]
<1>1. new \in Order
  BY EngineAssumption DEF Submit, Valid, Requests, Order, Prices, Statuses
<1>2. /\ o \notin DOMAIN order
      /\ order' = [x \in DOMAIN order \cup {o} |-> IF x # o THEN order[x] ELSE new]
  BY DEF Submit
<1> HIDE DEF new
<1>3. /\ DOMAIN order' = DOMAIN order \cup {o}
      /\ order'[o] = new
      /\ \A x \in DOMAIN order : order'[x] = order[x]
  BY <1>2
<1>4. order' \in [DOMAIN order' -> Order]
  <2>1. order' = [x \in DOMAIN order' |-> order'[x]]  BY <1>2, <1>3
  <2>2. \A x \in DOMAIN order' : order'[x] \in Order
    BY <1>1, <1>3 DEF EngineInv, TypeOK
  <2> QED BY <2>1, <2>2
<1>5. book' \in [Sides -> Seq(LevelType(DOMAIN order', Prices))]
  <2> DEFINE A == LevelType(DOMAIN order, Prices)
             B == LevelType(DOMAIN order', Prices)
  <2>1. A \subseteq B
    <3>1. Seq(DOMAIN order) \subseteq Seq(DOMAIN order')  BY <1>3, SeqMonotonic
    <3> QED BY <3>1 DEF LevelType
  <2>2. Seq(A) \subseteq Seq(B)
    <3> HIDE DEF A, B
    <3> QED BY <2>1, SeqMonotonic
  <2>3. book \in [Sides -> Seq(A)] /\ book' = book
    BY DEF EngineInv, TypeOK, Submit, bookVars
  <2> HIDE DEF A, B
  <2>4. book' \in [Sides -> Seq(B)]  BY <2>2, <2>3
  <2> QED BY <2>4 DEF B
<1>6. Seq(DOMAIN order) \subseteq Seq(DOMAIN order')  BY <1>3, SeqMonotonic
<1>7. TypeOK'
  BY <1>3, <1>4, <1>5, <1>6
     DEF EngineInv, TypeOK, Submit, bookVars, feedVars, history
<1>8. NeverOverfilled'
  <2>1. new.filled <= new.qty
    BY EngineAssumption DEF new, Submit, Valid, Requests
  <2> QED BY <1>3, <2>1 DEF EngineInv, NeverOverfilled
<1>9. CallsAreBacked'
  BY <1>3 DEF EngineInv, CallsAreBacked, TypeOK, Submit, feedVars
<1> QED BY <1>7, <1>8, <1>9 DEF EngineInv

LEMMA AcquireInv ==
  ASSUME EngineInv, NEW o \in Orders, Acquire(o)
  PROVE  EngineInv'
<1>1. o \in DOMAIN order  BY DEF EngineInv, CallsAreBacked, Acquire
<1>2. TypeOK'
  BY <1>1, EmptySeq DEF EngineInv, TypeOK, Acquire, bookVars, feedVars, history
<1>3. NeverOverfilled' /\ CallsAreBacked'
  BY <1>1 DEF EngineInv, NeverOverfilled, CallsAreBacked, TypeOK, Acquire,
     feedVars
<1> QED BY <1>2, <1>3 DEF EngineInv

LEMMA SkipOwnInv ==
  ASSUME EngineInv, NEW t \in DOMAIN order, SkipOwn(t)
  PROVE  EngineInv'
<1> DEFINE m == BestOrder(OppositeLevels(t))
<1>1. m \in DOMAIN order  BY BestIsPlaced DEF SkipOwn, EngineInv
<1>2. /\ book' \in [Sides -> Seq(LevelType(DOMAIN order, Prices))]
      /\ index' \subseteq DOMAIN order
  BY TakeBestOffType DEF SkipOwn, EngineInv
<1>3. /\ skipped' = Append(skipped, m) /\ requeued' = requeued \cup {m}
      /\ UNCHANGED <<order, mu, pc, trades, outbox, feed, rested>>
  BY DEF SkipOwn, feedVars
<1> HIDE DEF m
<1>4. skipped' \in Seq(DOMAIN order)
  BY <1>1, <1>3, AppendProperties DEF EngineInv, TypeOK
<1>5. TypeOK'  BY <1>1, <1>2, <1>3, <1>4 DEF EngineInv, TypeOK
<1>6. NeverOverfilled' /\ CallsAreBacked'
  BY <1>3 DEF EngineInv, NeverOverfilled, CallsAreBacked
<1> QED BY <1>5, <1>6 DEF EngineInv

LEMMA ExecuteInv ==
  ASSUME EngineInv, NEW t \in DOMAIN order, Execute(t)
  PROVE  EngineInv'
<1> DEFINE m   == BestOrder(OppositeLevels(t))
           qty == MatchQty(t, m)
           tr  == [maker |-> m, taker |-> t, price |-> order[m].price, qty |-> qty]
           ev  == [type |-> "trade", trade |-> tr]
<1>1. /\ m \in DOMAIN order /\ m # t /\ qty \in 0..MaxQty
      /\ qty <= Remaining(t) /\ qty <= Remaining(m)
      /\ DOMAIN order' = DOMAIN order
      /\ \A x \in DOMAIN order :
           order'[x] = [order[x] EXCEPT
             !.filled = IF x \in {t, m} THEN @ + qty ELSE @,
             !.status = IF x = m THEN MakerStatus(m, qty) ELSE @]
  BY ExecuteEffect
<1>2. /\ book' \in [Sides -> Seq(LevelType(DOMAIN order, Prices))]
      /\ index' \subseteq DOMAIN order
  <2>1. CASE UNCHANGED bookVars  BY <2>1 DEF bookVars, EngineInv, TypeOK
  <2>2. CASE TakeBestOff(t)  BY <2>2, TakeBestOffType DEF Execute, EngineInv
  <2> QED BY <2>1, <2>2 DEF Execute
<1>3. /\ trades' = Append(trades, tr)
      /\ outbox' = [outbox EXCEPT ![t] = Append(@, ev)]
      /\ UNCHANGED <<mu, pc, skipped, feed, rested, requeued>>
      /\ order' = [order EXCEPT ![t].filled = @ + qty, ![m].filled = @ + qty,
                                ![m].status = MakerStatus(m, qty)]
  BY DEF Execute, history
<1>4. /\ order \in [DOMAIN order -> Order] /\ DOMAIN order \subseteq Orders
      /\ \A x \in DOMAIN order : /\ order[x].filled \in 0..MaxQty
                                 /\ order[x].qty \in 1..MaxQty
                                 /\ order[x].filled <= order[x].qty
  BY DEF EngineInv, TypeOK, Order, NeverOverfilled
<1>5. tr \in Trade /\ ev \in Event
  BY <1>1, <1>4 DEF Trade, Event, Order
<1> HIDE DEF m, qty
<1>6. ASSUME NEW x \in DOMAIN order
      PROVE  /\ order'[x] \in Order
             /\ order'[x].filled <= order'[x].qty
  <2>1. x \in {t, m} => order[x].filled + qty \in 0..MaxQty
                        /\ order[x].filled + qty <= order[x].qty
    <3>1. qty \in 0..MaxQty /\ qty <= Remaining(t) /\ qty <= Remaining(m)
      BY <1>1
    <3>2. x \in {t, m} => qty <= order[x].qty - order[x].filled
      BY <3>1 DEF Remaining
    <3>3. /\ order[x].filled \in 0..MaxQty /\ order[x].qty \in 1..MaxQty
          /\ order[x].filled <= order[x].qty
      BY <1>4
    <3> DEFINE f == order[x].filled
               n == order[x].qty
    <3> HIDE DEF f, n
    <3>4. ASSUME qty <= n - f PROVE f + qty \in 0..MaxQty /\ f + qty <= n
      BY <3>1, <3>3, <3>4, EngineAssumption DEF f, n
    <3> QED BY <3>2, <3>4 DEF f, n
  <2>2. MakerStatus(m, qty) \in Statuses  BY DEF MakerStatus, Statuses
  <2>3. order[x] \in Order /\ order[x].filled <= order[x].qty  BY <1>4
  <2> DEFINE r == order[x]
             f == IF x \in {t, m} THEN r.filled + qty ELSE r.filled
             s == IF x = m THEN MakerStatus(m, qty) ELSE r.status
  <2>4. order'[x] = [r EXCEPT !.filled = f, !.status = s]  BY <1>1
  <2>5. f \in 0..MaxQty /\ f <= r.qty  BY <2>1, <2>3 DEF Order
  <2>6. s \in Statuses  BY <2>2, <2>3 DEF Order
  <2> HIDE DEF r, f, s
  <2>7. r \in Order  BY <2>3 DEF r
  <2>8. /\ order'[x] \in Order
        /\ order'[x].filled = f /\ order'[x].qty = r.qty
    BY <2>4, <2>5, <2>6, <2>7 DEF Order
  <2> QED BY <2>5, <2>8
<1> HIDE DEF tr, ev
<1>7. order' \in [DOMAIN order' -> Order]
  <2>1. order' = [x \in DOMAIN order |-> order'[x]]  BY <1>3
  <2> QED BY <1>1, <1>6, <2>1
<1>8. trades' \in Seq(Trade)
  BY <1>3, <1>5, AppendProperties DEF EngineInv, TypeOK
<1>9. outbox' \in [Orders -> Seq(Event)] /\ \A o \in Orders \ {t} : outbox'[o] = outbox[o]
  <2>1. outbox[t] \in Seq(Event)  BY <1>4 DEF EngineInv, TypeOK
  <2>2. Append(outbox[t], ev) \in Seq(Event)  BY <1>5, <2>1, AppendProperties
  <2> QED BY <1>3, <2>2 DEF EngineInv, TypeOK
<1>10. TypeOK'
  BY <1>1, <1>2, <1>3, <1>7, <1>8, <1>9 DEF EngineInv, TypeOK
<1>11. NeverOverfilled'  BY <1>1, <1>6 DEF NeverOverfilled
<1>12. CallsAreBacked'
  <2>1. pc[t] = "match"  BY DEF Execute
  <2> QED BY <1>1, <1>3, <1>9, <2>1 DEF EngineInv, CallsAreBacked
<1> QED BY <1>10, <1>11, <1>12 DEF EngineInv

LEMMA StopMatchingInv ==
  ASSUME EngineInv, NEW t \in DOMAIN order, StopMatching(t)
  PROVE  EngineInv'
<1>1. TypeOK'
  BY DEF EngineInv, TypeOK, StopMatching, bookVars, feedVars, history
<1>2. NeverOverfilled' /\ CallsAreBacked'
  BY DEF EngineInv, NeverOverfilled, CallsAreBacked, TypeOK, StopMatching, feedVars
<1> QED BY <1>1, <1>2 DEF EngineInv

LEMMA ReAddInv ==
  ASSUME EngineInv, NEW t \in DOMAIN order, ReAdd(t)
  PROVE  EngineInv'
<1> DEFINE o == Head(skipped)
<1>1. o \in DOMAIN order /\ Tail(skipped) \in Seq(DOMAIN order)
  BY HeadTailProperties DEF EngineInv, TypeOK, ReAdd
<1>2. PutOnBook(o) /\ skipped' = Tail(skipped)
      /\ UNCHANGED <<order, mu, pc, trades, outbox, feed, rested, requeued>>
  BY DEF ReAdd, feedVars, history
<1> HIDE DEF o
<1>3. /\ book' \in [Sides -> Seq(LevelType(DOMAIN order, Prices))]
      /\ index' \subseteq DOMAIN order
  BY <1>1, <1>2, PutOnBookType DEF EngineInv
<1>4. TypeOK'  BY <1>1, <1>2, <1>3 DEF EngineInv, TypeOK
<1>5. NeverOverfilled' /\ CallsAreBacked'
  BY <1>2 DEF EngineInv, NeverOverfilled, CallsAreBacked
<1> QED BY <1>4, <1>5 DEF EngineInv

\* A new status leaves the heap well typed and no fill changed.
LEMMA StatusUpdate ==
  ASSUME EngineInv, NEW t \in DOMAIN order, NEW st \in Statuses,
         order' = [order EXCEPT ![t].status = st]
  PROVE  /\ DOMAIN order' = DOMAIN order
         /\ order' \in [DOMAIN order' -> Order]
         /\ NeverOverfilled'
<1>1. order \in [DOMAIN order -> Order]  BY DEF EngineInv, TypeOK
<1>2. DOMAIN order' = DOMAIN order  OBVIOUS
<1>3. order[t] \in Order  BY <1>1
<1>4. [order[t] EXCEPT !.status = st] \in Order  BY <1>3 DEF Order
<1>5. order' \in [DOMAIN order -> Order]  BY <1>1, <1>4
<1>6. \A x \in DOMAIN order : /\ order'[x].filled = order[x].filled
                              /\ order'[x].qty = order[x].qty
  BY <1>1, <1>3 DEF Order
<1>7. NeverOverfilled'  BY <1>2, <1>6 DEF EngineInv, NeverOverfilled
<1> QED BY <1>2, <1>5, <1>7

LEMMA RestInv ==
  ASSUME EngineInv, NEW t \in DOMAIN order, Rest(t)
  PROVE  EngineInv'
<1> DEFINE st == IF order[t].filled > 0 THEN "partially_filled" ELSE order[t].status
           ev == [type |-> "book_update", by |-> t]
<1>1. st \in Statuses  BY DEF EngineInv, TypeOK, Order, Statuses
<1>2. order' = [order EXCEPT ![t].status = st]  BY DEF Rest
<1>3. /\ PutOnBook(t) /\ mu' = NoOne
      /\ outbox' = [outbox EXCEPT ![t] = Append(@, ev)]
      /\ pc' = [pc EXCEPT ![t] = EmitNext(outbox'[t])]
      /\ rested' = Append(rested, t)
      /\ UNCHANGED <<skipped, trades, feed, requeued>>
  BY DEF Rest
<1>4. t \in Orders /\ ev \in Event  BY DEF EngineInv, TypeOK, Event
<1> HIDE DEF st, ev
<1>5. /\ DOMAIN order' = DOMAIN order
      /\ order' \in [DOMAIN order' -> Order]
      /\ NeverOverfilled'
  BY <1>1, <1>2, StatusUpdate
<1>6. /\ book' \in [Sides -> Seq(LevelType(DOMAIN order, Prices))]
      /\ index' \subseteq DOMAIN order
  BY <1>3, PutOnBookType DEF EngineInv
<1>7. rested' \in Seq(DOMAIN order)
  BY <1>3, AppendProperties DEF EngineInv, TypeOK
<1>8. outbox' \in [Orders -> Seq(Event)]
  <2>1. Append(outbox[t], ev) \in Seq(Event)
    BY <1>4, AppendProperties DEF EngineInv, TypeOK
  <2> QED BY <1>3, <1>4, <2>1 DEF EngineInv, TypeOK
<1>9. pc' \in [Orders -> {"idle", "lock", "match", "readd", "emit", "done"}]
  BY <1>3 DEF EngineInv, TypeOK, EmitNext
<1>10. TypeOK'
  BY <1>3, <1>5, <1>6, <1>7, <1>8, <1>9 DEF EngineInv, TypeOK
<1>11. CallsAreBacked'
  BY <1>3, <1>4, <1>5 DEF EngineInv, CallsAreBacked, TypeOK, EmitNext
<1> QED BY <1>5, <1>10, <1>11 DEF EngineInv

LEMMA CompleteInv ==
  ASSUME EngineInv, NEW t \in DOMAIN order, Complete(t)
  PROVE  EngineInv'
<1>1. order' = [order EXCEPT ![t].status = "filled"] /\ mu' = NoOne
      /\ pc' = [pc EXCEPT ![t] = EmitNext(outbox[t])]
      /\ UNCHANGED <<book, index, skipped, trades, outbox, feed, rested, requeued>>
  BY DEF Complete, bookVars, feedVars, history
<1>2. /\ DOMAIN order' = DOMAIN order
      /\ order' \in [DOMAIN order' -> Order]
      /\ NeverOverfilled'
  <2>1. "filled" \in Statuses  BY DEF Statuses
  <2> QED BY <1>1, <2>1, StatusUpdate
<1>3. TypeOK'  BY <1>1, <1>2 DEF EngineInv, TypeOK, EmitNext
<1>4. CallsAreBacked'
  BY <1>1, <1>2 DEF EngineInv, CallsAreBacked, TypeOK, EmitNext
<1> QED BY <1>2, <1>3, <1>4 DEF EngineInv

LEMMA EmitInv ==
  ASSUME EngineInv, NEW t \in Orders, Emit(t)
  PROVE  EngineInv'
<1>1. t \in DOMAIN order /\ outbox[t] # <<>>
  BY DEF EngineInv, CallsAreBacked, Emit
<1>2. outbox[t] \in Seq(Event) /\ Head(outbox[t]) \in Event
      /\ Tail(outbox[t]) \in Seq(Event)
  BY <1>1, HeadTailProperties DEF EngineInv, TypeOK
<1>3. /\ feed' = [s \in Subscribers |->
                    IF Len(feed[s]) < FeedCap
                    THEN Append(feed[s], Head(outbox[t])) ELSE feed[s]]
      /\ outbox' = [outbox EXCEPT ![t] = Tail(outbox[t])]
      /\ pc' = [pc EXCEPT ![t] = EmitNext(outbox'[t])]
      /\ UNCHANGED <<order, book, index, mu, skipped, trades, rested, requeued>>
  BY DEF Emit, bookVars, history
<1>4. feed' \in [Subscribers -> Seq(Event)]
  <2>1. ASSUME NEW s \in Subscribers
        PROVE  /\ feed[s] \in Seq(Event)
               /\ Append(feed[s], Head(outbox[t])) \in Seq(Event)
    BY <1>2, AppendProperties DEF EngineInv, TypeOK
  <2> QED BY <1>3, <2>1
<1>5. TypeOK'
  BY <1>2, <1>3, <1>4 DEF EngineInv, TypeOK, EmitNext
<1>6. NeverOverfilled' /\ CallsAreBacked'
  BY <1>1, <1>3 DEF EngineInv, NeverOverfilled, CallsAreBacked, TypeOK, EmitNext
<1> QED BY <1>5, <1>6 DEF EngineInv

LEMMA CancelInv ==
  ASSUME EngineInv, NEW o \in Orders, Cancel(o)
  PROVE  EngineInv'
<1> DEFINE s == order[o].side
           l == RemoveOrder(book[s], o)
<1>1. o \in DOMAIN order /\ index' = index \ {o}
      /\ UNCHANGED <<mu, pc, skipped, trades, outbox, feed, rested, requeued>>
  BY DEF Cancel, TakeOff, EngineInv, TypeOK, feedVars, history
<1>2. s \in Sides  BY <1>1 DEF EngineInv, TypeOK, Order
<1>3. /\ book' \in [Sides -> Seq(LevelType(DOMAIN order, Prices))]
      /\ DOMAIN order' = DOMAIN order
      /\ order' \in [DOMAIN order' -> Order]
      /\ NeverOverfilled'
  <2>1. CASE o \in LevelIds(book[s])
    <3>1. book[s] \in Seq(LevelType(DOMAIN order, Prices))
      BY <1>2 DEF EngineInv, TypeOK
    <3>2. l \in Seq(LevelType(DOMAIN order, Prices))
      BY <2>1, <3>1, RemoveOrderType
    <3>3. book' = [book EXCEPT ![s] = l]
          /\ order' = [order EXCEPT ![o].status = "cancelled"]
      BY <2>1 DEF Cancel, TakeOff
    <3> HIDE DEF l
    <3>4. book' \in [Sides -> Seq(LevelType(DOMAIN order, Prices))]
      BY <1>2, <3>2, <3>3 DEF EngineInv, TypeOK
    <3>5. "cancelled" \in Statuses  BY DEF Statuses
    <3> QED BY <1>1, <3>3, <3>4, <3>5, StatusUpdate
  <2>2. CASE o \notin LevelIds(book[s])
    BY <2>2 DEF Cancel, TakeOff, EngineInv, TypeOK, NeverOverfilled
  <2> QED BY <2>1, <2>2
<1>4. TypeOK'  BY <1>1, <1>3 DEF EngineInv, TypeOK
<1>5. CallsAreBacked'  BY <1>1, <1>3 DEF EngineInv, CallsAreBacked
<1> QED BY <1>3, <1>4, <1>5 DEF EngineInv

LEMMA ReceiveInv ==
  ASSUME EngineInv, NEW s \in Subscribers, Receive(s)
  PROVE  EngineInv'
<1>1. feed' \in [Subscribers -> Seq(Event)]
  <2>1. Tail(feed[s]) \in Seq(Event)
    BY HeadTailProperties DEF EngineInv, TypeOK, Receive
  <2> QED BY <2>1 DEF EngineInv, TypeOK, Receive
<1>2. UNCHANGED <<order, book, index, mu, pc, skipped, trades, outbox, rested, requeued>>
  BY DEF Receive, bookVars, history
<1>3. TypeOK'  BY <1>1, <1>2 DEF EngineInv, TypeOK
<1>4. NeverOverfilled' /\ CallsAreBacked'
  BY <1>2 DEF EngineInv, NeverOverfilled, CallsAreBacked
<1> QED BY <1>3, <1>4 DEF EngineInv

-----------------------------------------------------------------------------

LEMMA NextInv == EngineInv /\ [Next]_vars => EngineInv'
<1> SUFFICES ASSUME EngineInv, [Next]_vars PROVE EngineInv'  OBVIOUS
<1>1. ASSUME NEW o \in Orders, NEW r \in Requests,
             Submit(o, r.user, r.side, r.price, r.qty)
      PROVE  EngineInv'
  BY <1>1, SubmitInv
<1>2. ASSUME NEW o \in Orders, Acquire(o) PROVE EngineInv'
  BY <1>2, AcquireInv
<1>3. ASSUME NEW o \in Orders, HolderStep(o) PROVE EngineInv'
  <2>1. o \in DOMAIN order
    BY <1>3 DEF HolderStep, SkipOwn, Execute, StopMatching, ReAdd, Rest, Complete,
       EngineInv, CallsAreBacked
  <2> QED BY <1>3, <2>1, SkipOwnInv, ExecuteInv, StopMatchingInv, ReAddInv,
             RestInv, CompleteInv DEF HolderStep
<1>4. ASSUME NEW o \in Orders, Emit(o) PROVE EngineInv'
  BY <1>4, EmitInv
<1>5. ASSUME NEW o \in Orders, Cancel(o) PROVE EngineInv'
  BY <1>5, CancelInv
<1>6. ASSUME NEW s \in Subscribers, Receive(s) PROVE EngineInv'
  BY <1>6, ReceiveInv
<1>7. CASE UNCHANGED vars
  <2>1. TypeOK'  BY <1>7 DEF vars, EngineInv, TypeOK
  <2>2. NeverOverfilled' /\ CallsAreBacked'
    BY <1>7 DEF vars, EngineInv, NeverOverfilled, CallsAreBacked
  <2> QED BY <2>1, <2>2 DEF EngineInv
<1> QED BY <1>1, <1>2, <1>3, <1>4, <1>5, <1>6, <1>7 DEF Next

\* Every state of the engine satisfies the inductive invariant.
THEOREM EngineInvariant == Spec => []EngineInv
<1> QED BY InitEngineInv, NextInv, PTL DEF Spec

\* The engine's variables keep their types, whatever orders arrive: no step
\* dequeues from an empty side or leaves the domain of a map.
THEOREM EngineTypeCorrect == Spec => []TypeOK
<1>1. EngineInv => TypeOK  BY DEF EngineInv
<1> QED BY <1>1, EngineInvariant, PTL

\* No order is ever filled beyond its quantity, for any number of orders,
\* users, prices and concurrent calls (engine.go:182-201).
THEOREM EngineNeverOverfills == Spec => []NeverOverfilled
<1>1. EngineInv => NeverOverfilled  BY DEF EngineInv
<1> QED BY <1>1, EngineInvariant, PTL

-----------------------------------------------------------------------------
(***************************************************************************)
(* The book of one outcome, however many PlaceOrder and CancelOrder calls  *)
(* compete for its mutex: what is on it, in which order, and who can trade *)
(* with whom; and that the engine implements PriceBook.                    *)
(***************************************************************************)

Queue(s, p) == QueueAt(book[s], p)

\* The slices are what sort.Search and bids[0] / asks[0] rely on.
SlicesInv == \A s \in Sides : Sorted(s, book[s]) /\ Full(book[s])

\* An order is on the book once, where its side and its price put it, and in
\* the maps when it is on the book.
QueuesInv ==
  \A s \in Sides, p \in Prices :
    /\ Once(Queue(s, p))
    /\ \A o \in QueueIds(Queue(s, p)) : order[o].side = s /\ order[o].price = p

BookShape == SlicesInv /\ QueuesInv /\ IndexMatchesBook

\* The call that has the mutex is the one that matches or puts back.  A call
\* that has yet to let go of it has not written a status.
CallsInv ==
  /\ \A o \in Orders : pc[o] \in {"match", "readd"} <=> mu = o
  /\ \A o \in Orders : pc[o] \in {"lock", "match", "readd"} => order[o].status = "open"
  /\ StatusTellsTheFill

\* Every open order is on the book or skipped, not both; a skipped one is the
\* taker's own, from the other side.
SkippedInv ==
  /\ mu = NoOne => skipped = <<>>
  /\ Once(skipped)
  /\ \A o \in QueueIds(skipped) :
       /\ o \notin BookIds /\ o \in requeued
       /\ order[o].user = order[mu].user /\ order[o].side = Opposite(order[mu].side)
  /\ BookIds \cup QueueIds(skipped) = OpenOrders

\* Open orders that cross are of one user, and so are those that cross with a
\* taker that has stopped matching and will rest.
CrossInv ==
  /\ \A b, a \in OpenOrders :
       order[b].side = "buy" /\ order[a].side = "sell" /\ order[b].price >= order[a].price
         => order[b].user = order[a].user
  /\ \A t \in DOMAIN order : pc[t] = "readd" /\ Remaining(t) > 0 =>
       \A o \in OpenOrders : order[o].side = Opposite(order[t].side) /\ Crosses(t, o)
         => order[o].user = order[t].user

\* Who rests has come to rest once, and queues keep that order but for the
\* orders that were put back.
RestedInv ==
  /\ Once(rested)
  /\ OpenOrders \subseteq QueueIds(rested)
  /\ \A o \in QueueIds(rested) : pc[o] \in {"emit", "done"}
  /\ \A s \in Sides, p \in Prices : \A a, b \in DOMAIN order :
       Ahead(Queue(s, p), a, b) /\ RestedAt(b) < RestedAt(a) => b \in requeued

BookInv ==
  /\ EngineInv /\ BookShape
  /\ CallsInv /\ SkippedInv /\ CrossInv /\ RestedInv

-----------------------------------------------------------------------------
(* The book as one queue per side and price.                               *)

LEMMA PricesAreInts == Prices \in SUBSET Int
BY EngineAssumption DEF Prices

LEMMA IdsType ==
  ASSUME NEW S, NEW q \in Seq(S)
  PROVE  QueueIds(q) \subseteq S
BY ElementOfSeq DEF QueueIds

LEMMA SlicesType ==
  ASSUME TypeOK, NEW s \in Sides
  PROVE  book[s] \in Seq(LevelType(DOMAIN order, Prices))
BY DEF TypeOK

LEMMA QueueType ==
  ASSUME TypeOK, SlicesInv, NEW s \in Sides, NEW p
  PROVE  Queue(s, p) \in Seq(DOMAIN order)
<1>1. book[s] \in Seq(LevelType(DOMAIN order, Prices))  BY SlicesType
<1>2. Sorted(s, book[s])  BY DEF SlicesInv
<1> QED BY <1>1, <1>2, PricesAreInts, QueueAtType DEF Queue

LEMMA QueueIdsType ==
  ASSUME TypeOK, SlicesInv, NEW s \in Sides, NEW p
  PROVE  QueueIds(Queue(s, p)) \subseteq DOMAIN order
<1>1. Queue(s, p) \in Seq(DOMAIN order)  BY QueueType
<1> QED BY <1>1, IdsType

\* Who is on a book stands in a queue.
LEMMA IdsAreQueued ==
  ASSUME NEW Id, NEW b, NEW o,
         \A s \in Sides : b[s] \in Seq(LevelType(Id, Prices)) /\ Sorted(s, b[s])
  PROVE  o \in LevelIds(b["buy"]) \cup LevelIds(b["sell"])
           <=> \E s \in Sides, p \in Prices : o \in QueueIds(QueueAt(b[s], p))
<1>1. ASSUME NEW s \in Sides
      PROVE  o \in LevelIds(b[s]) <=> \E p \in Prices : o \in QueueIds(QueueAt(b[s], p))
  BY PricesAreInts, LevelIdsAt
<1>2. o \in LevelIds(b["buy"]) \cup LevelIds(b["sell"])
        <=> \E s \in Sides : o \in LevelIds(b[s])
  BY DEF Sides
<1> QED BY <1>1, <1>2

LEMMA BookIdsAt ==
  ASSUME TypeOK, SlicesInv, NEW o
  PROVE  o \in BookIds <=> \E s \in Sides, p \in Prices : o \in QueueIds(Queue(s, p))
<1>1. \A s \in Sides : /\ book[s] \in Seq(LevelType(DOMAIN order, Prices))
                       /\ Sorted(s, book[s])
  BY SlicesType DEF SlicesInv
<1> QED BY ONLY <1>1, IdsAreQueued DEF BookIds, Queue

LEMMA NextBookIdsAt ==
  ASSUME TypeOK', SlicesInv', NEW o
  PROVE  o \in BookIds' <=> \E s \in Sides, p \in Prices : o \in QueueIds(Queue(s, p)')
<1>1. \A s \in Sides : /\ book'[s] \in Seq(LevelType(DOMAIN order', Prices))
                       /\ Sorted(s, book'[s])
  BY DEF SlicesInv, TypeOK
<1> QED BY ONLY <1>1, IdsAreQueued DEF BookIds, Queue

\* Who is on the book stands in the queue of its side and price, and in no
\* other.
LEMMA BookIdsPlace ==
  ASSUME TypeOK, SlicesInv, QueuesInv
  PROVE  /\ \A o \in BookIds : /\ o \in DOMAIN order
                               /\ o \in QueueIds(Queue(order[o].side, order[o].price))
         /\ \A s \in Sides, p \in Prices : \A o \in QueueIds(Queue(s, p)) :
              /\ o \in BookIds /\ o \in LevelIds(book[s])
              /\ order[o].side = s /\ order[o].price = p
<1>1. ASSUME NEW o \in BookIds
      PROVE  /\ o \in DOMAIN order
             /\ o \in QueueIds(Queue(order[o].side, order[o].price))
  <2>1. PICK s \in Sides, p \in Prices : o \in QueueIds(Queue(s, p))  BY BookIdsAt
  <2>2. order[o].side = s /\ order[o].price = p  BY <2>1 DEF QueuesInv
  <2>3. o \in DOMAIN order  BY <2>1, QueueIdsType
  <2> QED BY <2>1, <2>2, <2>3
<1>2. ASSUME NEW s \in Sides, NEW p \in Prices, NEW o \in QueueIds(Queue(s, p))
      PROVE  /\ o \in BookIds /\ o \in LevelIds(book[s])
             /\ order[o].side = s /\ order[o].price = p
  <2>1. order[o].side = s /\ order[o].price = p  BY DEF QueuesInv
  <2>2. o \in LevelIds(book[s])
    <3>1. book[s] \in Seq(LevelType(DOMAIN order, Prices))  BY SlicesType
    <3>2. Sorted(s, book[s])  BY DEF SlicesInv
    <3> QED BY <3>1, <3>2, PricesAreInts, LevelIdsAt DEF Queue
  <2>3. o \in BookIds  BY BookIdsAt
  <2> QED BY <2>1, <2>2, <2>3
<1> QED BY <1>1, <1>2

\* One queue changes, the slices stay what searches rely on.
QueueBecomes(s, p, q) ==
  /\ SlicesInv'
  /\ \A x \in Sides, y \in Prices :
       Queue(x, y)' = IF x = s /\ y = p THEN q ELSE Queue(x, y)

\* No order changes its side, price or user.
PlacesKept ==
  /\ DOMAIN order \subseteq DOMAIN order'
  /\ \A o \in DOMAIN order : /\ order'[o].side = order[o].side
                             /\ order'[o].price = order[o].price
                             /\ order'[o].user = order[o].user

LEMMA QueueChange ==
  ASSUME TypeOK, TypeOK', SlicesInv, QueuesInv, PlacesKept,
         NEW s \in Sides, NEW p \in Prices, NEW q, QueueBecomes(s, p, q), Once(q),
         \A o \in QueueIds(q) : order'[o].side = s /\ order'[o].price = p
  PROVE  /\ QueuesInv'
         /\ \A o : o \in BookIds' <=> \/ o \in QueueIds(q)
                                      \/ o \in BookIds /\ o \notin QueueIds(Queue(s, p))
<1>1. \A x \in Sides, y \in Prices :
        Queue(x, y)' = IF x = s /\ y = p THEN q ELSE Queue(x, y)
  BY DEF QueueBecomes
<1>2. ASSUME NEW x \in Sides, NEW y \in Prices
      PROVE  /\ Once(Queue(x, y)')
             /\ \A o \in QueueIds(Queue(x, y)') : order'[o].side = x /\ order'[o].price = y
  <2>1. CASE x = s /\ y = p  BY <1>1, <2>1
  <2>2. CASE ~ (x = s /\ y = p)
    <3>1. Queue(x, y)' = Queue(x, y)  BY <1>1, <2>2
    <3>2. /\ Once(Queue(x, y))
          /\ \A o \in QueueIds(Queue(x, y)) : order[o].side = x /\ order[o].price = y
      BY DEF QueuesInv
    <3>3. QueueIds(Queue(x, y)) \subseteq DOMAIN order  BY QueueIdsType
    <3> QED BY <3>1, <3>2, <3>3 DEF PlacesKept
  <2> QED BY <2>1, <2>2
<1>3. QueuesInv'  BY <1>2 DEF QueuesInv
<1>4. SlicesInv'  BY DEF QueueBecomes
<1>5. ASSUME NEW o
      PROVE  o \in BookIds' <=> \/ o \in QueueIds(q)
                                \/ o \in BookIds /\ o \notin QueueIds(Queue(s, p))
  <2>1. o \in BookIds' <=> \E x \in Sides, y \in Prices : o \in QueueIds(Queue(x, y)')
    BY <1>4, NextBookIdsAt
  <2>2. o \in BookIds <=> \E x \in Sides, y \in Prices : o \in QueueIds(Queue(x, y))
    BY BookIdsAt
  <2>3. \A x \in Sides, y \in Prices :
          o \in QueueIds(Queue(x, y)) /\ o \in QueueIds(Queue(s, p)) => x = s /\ y = p
    BY ONLY QueuesInv, s \in Sides, p \in Prices DEF QueuesInv
  <2> QED BY ONLY <1>1, <2>1, <2>2, <2>3, s \in Sides, p \in Prices
<1> QED BY <1>3, <1>5

\* The slice of one side is replaced by one that differs at one price.
QueueBecomesBy(l, s, p, q) ==
  Sorted(s, l) /\ Full(l) /\ QueueSet(Prices, l, book[s], p, q)

LEMMA BookUpdate ==
  ASSUME TypeOK, SlicesInv, NEW s \in Sides, NEW p \in Prices, NEW q, NEW l,
         QueueBecomesBy(l, s, p, q), book' = [book EXCEPT ![s] = l]
  PROVE  QueueBecomes(s, p, q)
<1>1. \A x \in Sides : book'[x] = IF x = s THEN l ELSE book[x]
  BY DEF TypeOK
<1>2. Sorted(s, l) /\ Full(l) /\ QueueSet(Prices, l, book[s], p, q)
  BY DEF QueueBecomesBy
<1>3. SlicesInv'
  BY ONLY <1>1, <1>2, SlicesInv DEF SlicesInv
<1>4. \A x \in Sides, y \in Prices :
        Queue(x, y)' = IF x = s /\ y = p THEN q ELSE Queue(x, y)
  BY ONLY <1>1, <1>2 DEF Queue, QueueSet
<1> QED BY ONLY <1>3, <1>4 DEF QueueBecomes

\* addOrderUnlocked joins the back of the order's queue.
LEMMA PutOnBookEffect ==
  ASSUME TypeOK, SlicesInv, NEW o \in DOMAIN order, PutOnBook(o)
  PROVE  /\ order[o].side \in Sides /\ order[o].price \in Prices
         /\ QueueBecomes(order[o].side, order[o].price,
                         Append(Queue(order[o].side, order[o].price), o))
         /\ index' = index \cup {o}
<1> DEFINE s == order[o].side
           p == order[o].price
           l == AddOrder(s, book[s], p, o)
<1>1. s \in Sides /\ p \in Prices  BY DEF TypeOK, Order
<1>2. book[s] \in Seq(LevelType(DOMAIN order, Prices)) /\ Sorted(s, book[s]) /\ Full(book[s])
  BY <1>1, SlicesType DEF SlicesInv
<1>3. book' = [book EXCEPT ![s] = l] /\ index' = index \cup {o}  BY DEF PutOnBook
<1>4. /\ Sorted(s, l) /\ Full(l)
      /\ QueueSet(Prices, l, book[s], p, Append(QueueAt(book[s], p), o))
  BY <1>1, <1>2, PricesAreInts, AddOrderQueues
<1> HIDE DEF s, p, l
<1>5. QueueBecomesBy(l, s, p, Append(Queue(s, p), o))
  BY ONLY <1>4 DEF QueueBecomesBy, Queue
<1>6. QueueBecomes(s, p, Append(Queue(s, p), o))
  BY <1>1, <1>3, <1>5, BookUpdate
<1> QED BY ONLY <1>1, <1>3, <1>6 DEF s, p

\* The best opposing order stands at the front of its queue, and every other
\* order of that side has a worse price or stands behind it.
LEMMA BestFacts ==
  ASSUME TypeOK, SlicesInv, QueuesInv, NEW t \in DOMAIN order, CanMatch(t)
  PROVE  LET m == BestOrder(OppositeLevels(t))
             s == Opposite(order[t].side)
             p == order[m].price
         IN  /\ s \in Sides /\ p \in Prices
             /\ m \in BookIds /\ m \in DOMAIN order /\ order[m].side = s
             /\ m \in LevelIds(book[s])
             /\ Queue(s, p) # <<>> /\ m = Head(Queue(s, p))
             /\ QueueBecomesBy(DequeueBest(book[s]), s, p, Tail(Queue(s, p)))
             /\ \A o \in BookIds \ {m} : order[o].side = s =>
                  \/ Better(s, p, order[o].price)
                  \/ order[o].price = p /\ Ahead(Queue(s, p), m, o)
<1> DEFINE s == Opposite(order[t].side)
           m == BestOrder(book[s])
           p == book[s][1].price
           l == DequeueBest(book[s])
<1>0. OppositeLevels(t) = book[s]  BY DEF OppositeLevels
<1>1. s \in Sides  BY DEF Opposite, Sides
<1>2. /\ book[s] \in Seq(LevelType(DOMAIN order, Prices))
      /\ Sorted(s, book[s]) /\ Full(book[s]) /\ book[s] # <<>>
  BY <1>1, SlicesType DEF SlicesInv, CanMatch, HasBest, OppositeLevels
<1>3. /\ p \in Prices
      /\ Queue(s, p) # <<>>
      /\ m = Head(Queue(s, p))
      /\ Sorted(s, l) /\ Full(l)
      /\ QueueSet(Prices, l, book[s], p, Tail(Queue(s, p)))
  <2> HIDE DEF s
  <2> QED BY ONLY <1>1, <1>2, PricesAreInts, DequeueQueues DEF Queue
<1> HIDE DEF s, m, p, l
<1>4. Queue(s, p) \in Seq(DOMAIN order) /\ Once(Queue(s, p))
  BY <1>1, <1>3, QueueType DEF QueuesInv
<1>5. /\ m \in QueueIds(Queue(s, p))
      /\ \A b \in QueueIds(Queue(s, p)) \ {m} : Ahead(Queue(s, p), m, b)
  BY ONLY <1>3, <1>4, TailQueue
<1>6. /\ m \in BookIds /\ m \in LevelIds(book[s])
      /\ order[m].side = s /\ order[m].price = p
  BY <1>1, <1>3, <1>5, BookIdsPlace
<1>7. m \in DOMAIN order  BY <1>6, BookIdsPlace
<1>8. ASSUME NEW o \in BookIds \ {m}, order[o].side = s
      PROVE  \/ Better(s, p, order[o].price)
             \/ order[o].price = p /\ Ahead(Queue(s, p), m, o)
  <2>1. o \in QueueIds(Queue(s, order[o].price))  BY <1>8, BookIdsPlace
  <2>2. CASE order[o].price = p  BY <2>1, <2>2, <1>5
  <2>3. CASE order[o].price # p
    <3> DEFINE x == order[o].price
    <3>1. Queue(s, x) # <<>>  BY <2>1, EmptyQueue
    <3> HIDE DEF x
    <3>2. x = p \/ Better(s, p, x)
      BY ONLY <1>1, <1>2, <3>1, PricesAreInts, FirstIsBest DEF Queue, p
    <3> QED BY <2>3, <3>2 DEF x
  <2> QED BY <2>2, <2>3
<1>9. QueueBecomesBy(l, s, p, Tail(Queue(s, p)))
  BY <1>3 DEF QueueBecomesBy
<1> QED BY ONLY <1>0, <1>1, <1>3, <1>6, <1>7, <1>8, <1>9 DEF m, l, s

\* Dequeuing the best opposing order.
LEMMA TakeBestOffEffect ==
  ASSUME TypeOK, SlicesInv, QueuesInv, NEW t \in DOMAIN order, CanMatch(t),
         TakeBestOff(t)
  PROVE  LET m == BestOrder(OppositeLevels(t))
             s == Opposite(order[t].side)
             p == order[m].price
         IN  /\ QueueBecomes(s, p, Tail(Queue(s, p)))
             /\ index' = index \ {m}
<1> DEFINE m == BestOrder(OppositeLevels(t))
           s == Opposite(order[t].side)
           p == order[m].price
           l == DequeueBest(book[s])
<1>1. s \in Sides /\ p \in Prices /\ QueueBecomesBy(l, s, p, Tail(Queue(s, p)))
  BY BestFacts
<1>2. book' = [book EXCEPT ![s] = l] /\ index' = index \ {m}
  BY DEF TakeBestOff, OppositeLevels
<1> HIDE DEF m, s, p, l
<1>3. QueueBecomes(s, p, Tail(Queue(s, p)))
  BY <1>1, <1>2, BookUpdate
<1> QED BY <1>2, <1>3 DEF m, s, p

\* CancelOrder takes the order out of its queue.
LEMMA TakeOffEffect ==
  ASSUME TypeOK, SlicesInv, QueuesInv, IndexMatchesBook, NEW o, TakeOff(o)
  PROVE  LET s == order[o].side
             p == order[o].price
         IN  /\ o \in BookIds /\ o \in DOMAIN order /\ s \in Sides /\ p \in Prices
             /\ o \in QueueIds(Queue(s, p))
             /\ QueueBecomes(s, p, QueueRemove(Queue(s, p), o))
             /\ index' = index \ {o}
             /\ order' = [order EXCEPT ![o].status = "cancelled"]
<1> DEFINE s == order[o].side
           p == order[o].price
           l == RemoveOrder(book[s], o)
<1>1. o \in BookIds  BY DEF TakeOff, IndexMatchesBook
<1>2. o \in DOMAIN order /\ o \in QueueIds(Queue(s, p))  BY <1>1, BookIdsPlace
<1>3. s \in Sides /\ p \in Prices  BY <1>2 DEF TypeOK, Order
<1>4. o \in LevelIds(book[s])  BY <1>2, <1>3, BookIdsPlace
<1>5. /\ index' = index \ {o}
      /\ book' = [book EXCEPT ![s] = l]
      /\ order' = [order EXCEPT ![o].status = "cancelled"]
  BY <1>4 DEF TakeOff
<1>6. \A x \in Prices : o \in QueueIds(QueueAt(book[s], x)) => x = p
  BY <1>3 DEF QueuesInv, Queue
<1> HIDE DEF s, p, l
<1>7. /\ book[s] \in Seq(LevelType(DOMAIN order, Prices))
      /\ Sorted(s, book[s]) /\ Full(book[s])
  BY <1>3, SlicesType DEF SlicesInv
<1>8. /\ Sorted(s, l) /\ Full(l)
      /\ QueueSet(Prices, l, book[s], p, QueueRemove(QueueAt(book[s], p), o))
  BY ONLY <1>3, <1>4, <1>6, <1>7, PricesAreInts, RemoveQueues DEF l
<1>9. QueueBecomesBy(l, s, p, QueueRemove(Queue(s, p), o))
  BY ONLY <1>8 DEF QueueBecomesBy, Queue
<1>10. QueueBecomes(s, p, QueueRemove(Queue(s, p), o))
  BY <1>3, <1>5, <1>9, BookUpdate
<1> QED BY <1>1, <1>2, <1>3, <1>5, <1>10 DEF s, p

-----------------------------------------------------------------------------
(* What the four ways of treating the book do to its structure.            *)

\* Nobody gets ahead of anybody.
OrderKept == \A s \in Sides, p \in Prices : KeepsOrder(Queue(s, p)', Queue(s, p))

LEMMA BookUntouched ==
  ASSUME TypeOK, BookShape, PlacesKept, UNCHANGED bookVars
  PROVE  BookShape' /\ BookIds' = BookIds /\ OrderKept
<1>1. book' = book /\ index' = index  BY DEF bookVars
<1>2. SlicesInv'  BY <1>1 DEF BookShape, SlicesInv
<1>3. BookIds' = BookIds  BY <1>1 DEF BookIds
<1>4. IndexMatchesBook'  BY <1>1, <1>3 DEF BookShape, IndexMatchesBook
<1>5. \A s \in Sides, p \in Prices : Queue(s, p)' = Queue(s, p)
  BY <1>1 DEF Queue
<1>6. \A s \in Sides, p \in Prices : QueueIds(Queue(s, p)) \subseteq DOMAIN order
  BY QueueIdsType DEF BookShape
<1>7. QueuesInv'
  BY ONLY <1>5, <1>6, PlacesKept, BookShape DEF BookShape, QueuesInv, PlacesKept
<1>8. OrderKept  BY ONLY <1>5 DEF OrderKept, KeepsOrder
<1> QED BY ONLY <1>2, <1>3, <1>4, <1>7, <1>8 DEF BookShape

\* addOrderUnlocked: only the order that joins gets behind others.
LEMMA BookJoined ==
  ASSUME TypeOK, TypeOK', BookShape, PlacesKept,
         NEW o \in DOMAIN order, o \notin BookIds, PutOnBook(o)
  PROVE  /\ BookShape' /\ BookIds' = BookIds \cup {o}
         /\ \A s \in Sides, p \in Prices : \A a, b :
              Ahead(Queue(s, p)', a, b) => Ahead(Queue(s, p), a, b) \/ b = o
<1> DEFINE s == order[o].side
           p == order[o].price
           q == Queue(s, p)
           r == Append(q, o)
<1>1. /\ s \in Sides /\ p \in Prices /\ QueueBecomes(s, p, r)
      /\ index' = index \cup {o}
  BY PutOnBookEffect DEF BookShape
<1>2. q \in Seq(DOMAIN order) /\ Once(q)
  BY <1>1, QueueType DEF BookShape, QueuesInv
<1>3. o \notin QueueIds(q)  BY <1>1, BookIdsPlace DEF BookShape
<1>o. order'[o].side = s /\ order'[o].price = p  BY DEF PlacesKept
<1>i. index = BookIds  BY DEF BookShape, IndexMatchesBook
<1>x. QueuesInv  BY DEF BookShape
<1> HIDE DEF s, p, q
<1>4. /\ QueueIds(r) = QueueIds(q) \cup {o} /\ Once(r)
      /\ \A a, b : Ahead(r, a, b) => Ahead(q, a, b) \/ b = o
  BY ONLY <1>2, <1>3, o \in DOMAIN order, AppendQueue
<1> HIDE DEF r
<1>5. \A x \in QueueIds(r) : order'[x].side = s /\ order'[x].price = p
  <2>1. QueueIds(q) \subseteq DOMAIN order  BY <1>1, QueueIdsType DEF q, BookShape
  <2>2. \A x \in QueueIds(q) : order[x].side = s /\ order[x].price = p
    BY ONLY <1>1, <1>x DEF QueuesInv, q
  <2> QED BY ONLY <1>o, <1>4, <2>1, <2>2, PlacesKept DEF PlacesKept
<1>6. /\ QueuesInv'
      /\ \A x : x \in BookIds' <=>
           (x \in QueueIds(r) \/ (x \in BookIds /\ x \notin QueueIds(Queue(s, p))))
  BY <1>1, <1>4, <1>5, QueueChange DEF BookShape
<1>7. BookIds' = BookIds \cup {o}
  <2>1. QueueIds(q) \subseteq BookIds  BY <1>1, BookIdsPlace DEF q, BookShape
  <2> QED BY ONLY <1>4, <1>6, <2>1 DEF q
<1>8. ASSUME NEW x \in Sides, NEW y \in Prices, NEW a, NEW b, Ahead(Queue(x, y)', a, b)
      PROVE  Ahead(Queue(x, y), a, b) \/ b = o
  BY ONLY <1>1, <1>4, <1>8 DEF QueueBecomes, q
<1>9. SlicesInv' /\ IndexMatchesBook'
  <2>1. index' = BookIds'  BY ONLY <1>1, <1>7, <1>i
  <2> QED BY ONLY <1>1, <2>1 DEF QueueBecomes, IndexMatchesBook
<1> QED BY ONLY <1>6, <1>7, <1>8, <1>9 DEF BookShape

\* An order leaves its queue.
LEMMA BookLeft ==
  ASSUME TypeOK, TypeOK', BookShape, PlacesKept,
         NEW o, NEW s \in Sides, NEW p \in Prices, NEW r,
         o \in QueueIds(Queue(s, p)), QueueBecomes(s, p, r), index' = index \ {o},
         QueueIds(r) = QueueIds(Queue(s, p)) \ {o}, Once(r), KeepsOrder(r, Queue(s, p))
  PROVE  BookShape' /\ BookIds' = BookIds \ {o} /\ OrderKept
<1>i. index = BookIds /\ QueuesInv /\ SlicesInv  BY DEF BookShape, IndexMatchesBook
<1>1. QueueIds(Queue(s, p)) \subseteq DOMAIN order  BY QueueIdsType DEF BookShape
<1>2. \A x \in QueueIds(Queue(s, p)) : order[x].side = s /\ order[x].price = p
  BY ONLY <1>i, s \in Sides, p \in Prices DEF QueuesInv
<1>3. \A x \in QueueIds(r) : order'[x].side = s /\ order'[x].price = p
  BY <1>1, <1>2 DEF PlacesKept
<1>4. /\ QueuesInv'
      /\ \A x : x \in BookIds' <=>
           (x \in QueueIds(r) \/ (x \in BookIds /\ x \notin QueueIds(Queue(s, p))))
  BY <1>i, <1>3, QueueChange
<1>5. BookIds' = BookIds \ {o}
  <2>1. QueueIds(Queue(s, p)) \subseteq BookIds  BY BookIdsPlace DEF BookShape
  <2> QED BY ONLY <1>4, <2>1, QueueIds(r) = QueueIds(Queue(s, p)) \ {o},
             o \in QueueIds(Queue(s, p))
<1>6. OrderKept
  BY ONLY QueueBecomes(s, p, r), KeepsOrder(r, Queue(s, p))
     DEF QueueBecomes, OrderKept, KeepsOrder
<1>7. SlicesInv' /\ IndexMatchesBook'
  <2>1. index' = BookIds'  BY <1>5, <1>i
  <2> QED BY <2>1 DEF QueueBecomes, IndexMatchesBook
<1> QED BY ONLY <1>4, <1>5, <1>6, <1>7 DEF BookShape

\* matchOrder dequeues the best opposing order.
LEMMA BookServed ==
  ASSUME TypeOK, TypeOK', BookShape, PlacesKept,
         NEW t \in DOMAIN order, CanMatch(t), TakeBestOff(t)
  PROVE  BookShape' /\ BookIds' = BookIds \ {BestOrder(OppositeLevels(t))} /\ OrderKept
<1> DEFINE m == BestOrder(OppositeLevels(t))
           s == Opposite(order[t].side)
           p == order[m].price
           q == Queue(s, p)
<1>1. s \in Sides /\ p \in Prices /\ q # <<>> /\ m = Head(q)
  BY BestFacts DEF BookShape
<1>2. QueueBecomes(s, p, Tail(q)) /\ index' = index \ {m}
  BY TakeBestOffEffect DEF BookShape
<1>3. q \in Seq(DOMAIN order) /\ Once(q)
  BY <1>1, QueueType DEF BookShape, QueuesInv
<1> HIDE DEF m, s, p
<1>4. /\ m \in QueueIds(q) /\ QueueIds(Tail(q)) = QueueIds(q) \ {m}
      /\ Once(Tail(q)) /\ KeepsOrder(Tail(q), q)
  <2> HIDE DEF q
  <2> QED BY ONLY <1>1, <1>3, TailQueue
<1> QED BY <1>1, <1>2, <1>4, BookLeft DEF m

\* CancelOrder takes an order out.
LEMMA BookCancelled ==
  ASSUME TypeOK, TypeOK', BookShape, PlacesKept, NEW o, TakeOff(o)
  PROVE  BookShape' /\ BookIds' = BookIds \ {o} /\ OrderKept
<1> DEFINE s == order[o].side
           p == order[o].price
           q == Queue(s, p)
<1>1. /\ s \in Sides /\ p \in Prices /\ o \in QueueIds(q)
      /\ QueueBecomes(s, p, QueueRemove(q, o)) /\ index' = index \ {o}
  BY TakeOffEffect DEF BookShape
<1>2. q \in Seq(DOMAIN order) /\ Once(q)
  BY <1>1, QueueType DEF BookShape, QueuesInv
<1> HIDE DEF s, p
<1>3. /\ QueueIds(QueueRemove(q, o)) = QueueIds(q) \ {o}
      /\ Once(QueueRemove(q, o)) /\ KeepsOrder(QueueRemove(q, o), q)
  <2> HIDE DEF q
  <2> QED BY ONLY <1>1, <1>2, RemoveQueue
<1> QED BY <1>1, <1>3, BookLeft

-----------------------------------------------------------------------------
(* What a step leaves true because it only closes orders.                  *)

LEMMA OpenOrdersType == OpenOrders \subseteq DOMAIN order
BY DEF OpenOrders

LEMMA OpenUntouched ==
  ASSUME order' = order,
         \A o \in DOMAIN order : pc'[o] \in {"emit", "done"} <=> pc[o] \in {"emit", "done"}
  PROVE  OpenOrders' = OpenOrders /\ PlacesKept
<1>1. OpenOrders' = OpenOrders  BY DEF OpenOrders, Remaining
<1>2. PlacesKept  BY DEF PlacesKept
<1> QED BY <1>1, <1>2

LEMMA CrossKept ==
  ASSUME CrossInv, PlacesKept, OpenOrders' \subseteq OpenOrders,
         \A t \in DOMAIN order' : pc'[t] = "readd" /\ Remaining(t)' > 0 =>
           t \in DOMAIN order /\ pc[t] = "readd" /\ Remaining(t) > 0
  PROVE  CrossInv'
<1>1. ASSUME NEW b \in OpenOrders', NEW a \in OpenOrders',
             order'[b].side = "buy", order'[a].side = "sell",
             order'[b].price >= order'[a].price
      PROVE  order'[b].user = order'[a].user
  <2>1. a \in OpenOrders /\ b \in OpenOrders /\ a \in DOMAIN order /\ b \in DOMAIN order
    BY OpenOrdersType
  <2> QED BY <1>1, <2>1 DEF CrossInv, PlacesKept
<1>2. ASSUME NEW t \in DOMAIN order', pc'[t] = "readd" /\ Remaining(t)' > 0,
             NEW o \in OpenOrders', order'[o].side = Opposite(order'[t].side),
             Crosses(t, o)'
      PROVE  order'[o].user = order'[t].user
  <2>1. t \in DOMAIN order /\ pc[t] = "readd" /\ Remaining(t) > 0  BY <1>2
  <2>2. o \in OpenOrders /\ o \in DOMAIN order  BY OpenOrdersType
  <2>3. /\ order'[t].side = order[t].side /\ order'[o].side = order[o].side
        /\ order'[t].price = order[t].price /\ order'[o].price = order[o].price
        /\ order'[t].user = order[t].user /\ order'[o].user = order[o].user
    BY <2>1, <2>2 DEF PlacesKept
  <2>4. Crosses(t, o)  BY ONLY <1>2, <2>3 DEF Crosses
  <2> QED BY ONLY <1>2, <2>1, <2>2, <2>3, <2>4, CrossInv DEF CrossInv
<1> QED BY ONLY <1>1, <1>2 DEF CrossInv

\* Who is ahead of somebody is on the heap.
LEMMA AheadArePlaced ==
  ASSUME TypeOK, BookShape, NEW s \in Sides, NEW p \in Prices, NEW a, NEW b,
         Ahead(Queue(s, p), a, b)
  PROVE  a \in DOMAIN order /\ b \in DOMAIN order
<1>1. QueueIds(Queue(s, p)) \subseteq DOMAIN order  BY QueueIdsType DEF BookShape
<1>2. a \in QueueIds(Queue(s, p)) /\ b \in QueueIds(Queue(s, p))
  BY DEF Ahead, QueueIds
<1> QED BY <1>1, <1>2

LEMMA RestedKept ==
  ASSUME TypeOK, BookShape, RestedInv, OrderKept,
         rested' = rested, requeued \subseteq requeued', OpenOrders' \subseteq OpenOrders,
         \A o \in QueueIds(rested) : pc'[o] \in {"emit", "done"}
  PROVE  RestedInv'
<1>1. \A o : RestedAt(o)' = RestedAt(o)  BY DEF RestedAt
<1>2. ASSUME NEW s \in Sides, NEW p \in Prices, NEW a, NEW b,
             Ahead(Queue(s, p)', a, b), RestedAt(b)' < RestedAt(a)'
      PROVE  b \in requeued'
  <2>1. Ahead(Queue(s, p), a, b)  BY <1>2 DEF OrderKept, KeepsOrder
  <2>2. a \in DOMAIN order /\ b \in DOMAIN order  BY <2>1, AheadArePlaced
  <2>3. RestedAt(b) < RestedAt(a)  BY <1>1, <1>2
  <2>4. b \in requeued  BY ONLY <2>1, <2>2, <2>3, RestedInv, s \in Sides, p \in Prices
                           DEF RestedInv
  <2> QED BY <2>4
<1>3. Once(rested') /\ OpenOrders' \subseteq QueueIds(rested')
  BY DEF RestedInv
<1> QED BY ONLY <1>2, <1>3, rested' = rested,
          \A o \in QueueIds(rested) : pc'[o] \in {"emit", "done"} DEF RestedInv

LEMMA SkippedKept ==
  ASSUME TypeOK, SkippedInv, PlacesKept, mu' = mu, skipped' = skipped,
         requeued \subseteq requeued', BookIds' \subseteq BookIds,
         BookIds' \cup QueueIds(skipped) = OpenOrders'
  PROVE  SkippedInv'
<1>1. QueueIds(skipped) \subseteq DOMAIN order
  BY IdsType DEF TypeOK
<1>2. ASSUME NEW o \in QueueIds(skipped)
      PROVE  /\ o \notin BookIds' /\ o \in requeued'
             /\ order'[o].user = order'[mu].user
             /\ order'[o].side = Opposite(order'[mu].side)
  <2>1. mu # NoOne  BY EmptyQueue DEF SkippedInv
  <2>2. mu \in DOMAIN order  BY <2>1 DEF TypeOK
  <2>3. /\ o \notin BookIds /\ o \in requeued
        /\ order[o].user = order[mu].user /\ order[o].side = Opposite(order[mu].side)
    BY DEF SkippedInv
  <2> QED BY <1>1, <2>2, <2>3 DEF PlacesKept
<1>3. (mu = NoOne => skipped = <<>>) /\ Once(skipped)  BY DEF SkippedInv
<1> QED BY ONLY <1>2, <1>3, mu' = mu, skipped' = skipped,
          BookIds' \cup QueueIds(skipped) = OpenOrders' DEF SkippedInv

-----------------------------------------------------------------------------
(* One lemma per action.                                                   *)

LEMMA SubmitBook ==
  ASSUME BookInv, TypeOK', NEW o \in Orders, NEW r \in Requests,
         Submit(o, r.user, r.side, r.price, r.qty)
  PROVE  BookInv'
<1>0. /\ EngineInv /\ TypeOK /\ CallsAreBacked /\ BookShape
      /\ CallsInv /\ SkippedInv /\ CrossInv /\ RestedInv
  BY DEF BookInv, EngineInv
<1>1. /\ o \notin DOMAIN order /\ pc' = [pc EXCEPT ![o] = "lock"]
      /\ UNCHANGED <<book, index, mu, skipped, trades, outbox, feed, rested, requeued>>
      /\ order' = [x \in DOMAIN order \cup {o} |->
                     IF x # o THEN order[x]
                     ELSE [user |-> r.user, side |-> r.side, price |-> r.price,
                           qty |-> r.qty, filled |-> 0, status |-> "open"]]
  BY DEF Submit, bookVars, feedVars, history
<1>2. /\ DOMAIN order' = DOMAIN order \cup {o}
      /\ \A x \in DOMAIN order : order'[x] = order[x] /\ x # o
      /\ order'[o].status = "open"
  BY <1>1
<1>3. pc \in [Orders -> {"idle", "lock", "match", "readd", "emit", "done"}]
      /\ DOMAIN order \subseteq Orders /\ pc[o] = "idle"
  BY <1>0, <1>1 DEF TypeOK, CallsAreBacked
<1>4. /\ pc'[o] = "lock"
      /\ \A x \in Orders : x # o => pc'[x] = pc[x]
  BY <1>1, <1>3
<1>5. PlacesKept  BY <1>2 DEF PlacesKept
<1>6. OpenOrders' = OpenOrders
  <2>1. ASSUME NEW x
        PROVE  x \in OpenOrders' <=> x \in OpenOrders
    <3>1. CASE x = o  BY <1>1, <1>4, <3>1 DEF OpenOrders
    <3>2. CASE x \in DOMAIN order
      <4>1. order'[x] = order[x] /\ pc'[x] = pc[x] /\ x \in DOMAIN order'
        BY <1>2, <1>3, <1>4, <3>2
      <4> QED BY ONLY <3>2, <4>1 DEF OpenOrders, Remaining
    <3>3. CASE x \notin DOMAIN order'  BY <1>2, <3>3 DEF OpenOrders
    <3> QED BY ONLY <1>2, <3>1, <3>2, <3>3
  <2> QED BY <2>1
<1>7. BookShape' /\ BookIds' = BookIds /\ OrderKept
  BY <1>0, <1>1, <1>5, BookUntouched DEF bookVars
<1>8. CallsInv'
  <2>1. mu # o  BY <1>1, <1>0, EngineAssumption DEF TypeOK
  <2>2. \A x \in Orders : pc'[x] \in {"match", "readd"} <=> mu' = x
    BY ONLY <1>0, <1>1, <1>3, <1>4, <2>1 DEF CallsInv
  <2>3. ASSUME NEW x \in Orders, pc'[x] \in {"lock", "match", "readd"}
        PROVE  order'[x].status = "open"
    <3>1. CASE x = o  BY <1>2, <3>1
    <3>2. CASE x # o
      <4>1. pc[x] \in {"lock", "match", "readd"}  BY <1>4, <2>3, <3>2
      <4>2. x \in DOMAIN order /\ order[x].status = "open"
        BY <1>0, <4>1 DEF CallsInv, CallsAreBacked
      <4> QED BY <1>2, <4>2
    <3> QED BY <3>1, <3>2
  <2>4. StatusTellsTheFill'
    <3>1. ASSUME NEW x \in DOMAIN order', pc'[x] \in {"emit", "done"}
          PROVE  x \in DOMAIN order /\ pc[x] = pc'[x] /\ order'[x] = order[x]
      BY <1>2, <1>3, <1>4, <3>1
    <3> QED BY ONLY <1>0, <3>1 DEF StatusTellsTheFill, CallsInv
  <2> QED BY ONLY <2>2, <2>3, <2>4 DEF CallsInv
<1>9. SkippedInv'
  <2>1. BookIds \cup QueueIds(skipped) = OpenOrders  BY <1>0 DEF SkippedInv
  <2> QED BY <1>0, <1>1, <1>5, <1>6, <1>7, <2>1, SkippedKept
<1>10. CrossInv'
  <2>1. ASSUME NEW t \in DOMAIN order', pc'[t] = "readd", Remaining(t)' > 0
        PROVE  t \in DOMAIN order /\ pc[t] = "readd" /\ Remaining(t) > 0
    <3>1. t \in DOMAIN order  BY <1>2, <1>4, <2>1
    <3> QED BY <1>2, <1>3, <1>4, <2>1, <3>1 DEF Remaining
  <2> QED BY <1>0, <1>5, <1>6, <2>1, CrossKept
<1>11. RestedInv'
  <2>1. \A x \in QueueIds(rested) : pc'[x] \in {"emit", "done"}
    <3>1. QueueIds(rested) \subseteq DOMAIN order
      BY <1>0, IdsType DEF TypeOK
    <3> QED BY <1>0, <1>2, <1>3, <1>4, <3>1 DEF RestedInv
  <2> QED BY <1>0, <1>1, <1>6, <1>7, <2>1, RestedKept
<1>12. EngineInv'  BY <1>0, SubmitInv
<1> QED BY <1>7, <1>8, <1>9, <1>10, <1>11, <1>12 DEF BookInv

\* Steps that change no order and not the book, and let no call return.
LEMMA QuietBook ==
  ASSUME BookInv, EngineInv', UNCHANGED <<order, book, index, rested, requeued>>,
         mu' = mu, skipped' = skipped,
         \A o \in Orders : \/ pc'[o] = pc[o]
                           \/ pc[o] = "emit" /\ pc'[o] \in {"emit", "done"}
  PROVE  BookInv'
<1>0. /\ TypeOK /\ CallsAreBacked /\ BookShape
      /\ CallsInv /\ SkippedInv /\ CrossInv /\ RestedInv
  BY DEF BookInv, EngineInv
<1>1. DOMAIN order \subseteq Orders  BY <1>0 DEF TypeOK
<1>2. OpenOrders' = OpenOrders /\ PlacesKept
  BY <1>1, OpenUntouched
<1>3. BookShape' /\ BookIds' = BookIds /\ OrderKept
  BY <1>0, <1>2, BookUntouched DEF bookVars
<1>4. CallsInv'
  <2>1. \A x \in Orders : pc'[x] \in {"match", "readd"} <=> mu' = x
    BY <1>0 DEF CallsInv
  <2>2. \A x \in Orders : pc'[x] \in {"lock", "match", "readd"} => order'[x].status = "open"
    BY <1>0 DEF CallsInv
  <2>3. StatusTellsTheFill'
    BY <1>0, <1>1 DEF CallsInv, StatusTellsTheFill
  <2> QED BY ONLY <2>1, <2>2, <2>3 DEF CallsInv
<1>5. SkippedInv'
  <2>1. BookIds \cup QueueIds(skipped) = OpenOrders  BY <1>0 DEF SkippedInv
  <2> QED BY <1>0, <1>2, <1>3, <2>1, SkippedKept
<1>6. CrossInv'
  <2>1. ASSUME NEW t \in DOMAIN order', pc'[t] = "readd", Remaining(t)' > 0
        PROVE  t \in DOMAIN order /\ pc[t] = "readd" /\ Remaining(t) > 0
    BY <1>1, <2>1 DEF Remaining
  <2> QED BY <1>0, <1>2, <2>1, CrossKept
<1>7. RestedInv'
  <2>1. \A x \in QueueIds(rested) : pc'[x] \in {"emit", "done"}
    <3>1. QueueIds(rested) \subseteq DOMAIN order
      BY <1>0, IdsType DEF TypeOK
    <3> QED BY <1>0, <1>1, <3>1 DEF RestedInv
  <2> QED BY <1>0, <1>2, <1>3, <2>1, RestedKept
<1> QED BY <1>3, <1>4, <1>5, <1>6, <1>7 DEF BookInv

LEMMA AcquireBook ==
  ASSUME BookInv, EngineInv', NEW o \in Orders, Acquire(o)
  PROVE  BookInv'
<1>0. /\ TypeOK /\ CallsAreBacked /\ BookShape
      /\ CallsInv /\ SkippedInv /\ CrossInv /\ RestedInv
  BY DEF BookInv, EngineInv
<1>1. /\ pc[o] = "lock" /\ mu = NoOne /\ mu' = o
      /\ pc' = [pc EXCEPT ![o] = "match"] /\ skipped' = <<>>
      /\ UNCHANGED <<order, book, index, rested, requeued>>
  BY DEF Acquire, bookVars, history
<1>2. /\ DOMAIN order \subseteq Orders
      /\ pc \in [Orders -> {"idle", "lock", "match", "readd", "emit", "done"}]
  BY <1>0 DEF TypeOK
<1>3. pc'[o] = "match" /\ \A x \in Orders : x # o => pc'[x] = pc[x]
  BY <1>1, <1>2
<1>4. OpenOrders' = OpenOrders /\ PlacesKept
  BY <1>1, <1>2, <1>3, OpenUntouched
<1>5. BookShape' /\ BookIds' = BookIds /\ OrderKept
  BY <1>0, <1>1, <1>4, BookUntouched DEF bookVars
<1>6. CallsInv'
  <2>0. \A x \in Orders : x # NoOne  BY EngineAssumption
  <2>1. \A x \in Orders : pc'[x] \in {"match", "readd"} <=> mu' = x
    BY ONLY <1>0, <1>1, <1>3, <2>0 DEF CallsInv
  <2>2. \A x \in Orders : pc'[x] \in {"lock", "match", "readd"} => order'[x].status = "open"
    BY ONLY <1>0, <1>1, <1>3 DEF CallsInv
  <2>3. StatusTellsTheFill'
    <3>1. \A x \in DOMAIN order : pc'[x] \in {"emit", "done"} => pc[x] = pc'[x]
      BY <1>2, <1>3
    <3> QED BY ONLY <1>0, <1>1, <3>1 DEF CallsInv, StatusTellsTheFill
  <2> QED BY ONLY <2>1, <2>2, <2>3 DEF CallsInv
<1>7. SkippedInv'
  <2>1. BookIds \cup QueueIds(skipped) = OpenOrders /\ skipped = <<>>
    BY <1>0, <1>1 DEF SkippedInv
  <2>2. BookIds' \cup QueueIds(skipped') = OpenOrders'
    BY <1>1, <1>4, <1>5, <2>1
  <2> QED BY ONLY <1>1, <2>2, EmptyQueue DEF SkippedInv
<1>8. CrossInv'
  <2>1. ASSUME NEW t \in DOMAIN order', pc'[t] = "readd", Remaining(t)' > 0
        PROVE  t \in DOMAIN order /\ pc[t] = "readd" /\ Remaining(t) > 0
    <3>1. t \in DOMAIN order /\ t \in Orders  BY <1>1, <1>2
    <3> QED BY <1>1, <1>3, <2>1, <3>1 DEF Remaining
  <2> QED BY <1>0, <1>4, <2>1, CrossKept
<1>9. RestedInv'
  <2>1. \A x \in QueueIds(rested) : pc'[x] \in {"emit", "done"}
    <3>1. QueueIds(rested) \subseteq DOMAIN order
      BY <1>0, IdsType DEF TypeOK
    <3> QED BY <1>0, <1>1, <1>2, <1>3, <3>1 DEF RestedInv
  <2> QED BY <1>0, <1>1, <1>4, <1>5, <2>1, RestedKept
<1> QED BY <1>5, <1>6, <1>7, <1>8, <1>9 DEF BookInv

\* The call that matches or puts back holds the mutex, and is not open itself.
LEMMA HolderFacts ==
  ASSUME BookInv, NEW t \in Orders, pc[t] \in {"match", "readd"}
  PROVE  /\ EngineInv /\ TypeOK /\ BookShape /\ CallsInv /\ SkippedInv /\ CrossInv
         /\ RestedInv /\ t \in DOMAIN order /\ mu = t /\ mu # NoOne
         /\ order[t].status = "open" /\ t \notin OpenOrders
         /\ t \notin BookIds /\ t \notin QueueIds(rested)
         /\ QueueIds(skipped) \subseteq DOMAIN order
         /\ \A x \in Orders : x # t => pc[x] \notin {"match", "readd"}
<1>0. /\ EngineInv /\ TypeOK /\ CallsAreBacked /\ BookShape
      /\ CallsInv /\ SkippedInv /\ CrossInv /\ RestedInv
  BY DEF BookInv, EngineInv
<1>1. t \in DOMAIN order  BY <1>0 DEF CallsAreBacked
<1>2. mu = t  BY <1>0 DEF CallsInv
<1>3. mu # NoOne  BY <1>2, EngineAssumption
<1>4. order[t].status = "open"  BY <1>0 DEF CallsInv
<1>5. t \notin OpenOrders  BY DEF OpenOrders
<1>6. t \notin BookIds  BY <1>0, <1>5 DEF SkippedInv
<1>7. t \notin QueueIds(rested)  BY <1>0 DEF RestedInv
<1>8. QueueIds(skipped) \subseteq DOMAIN order  BY <1>0, IdsType DEF TypeOK
<1>9. \A x \in Orders : x # t => pc[x] \notin {"match", "readd"}
  BY <1>0, <1>2 DEF CallsInv
<1> QED BY <1>0, <1>1, <1>2, <1>3, <1>4, <1>5, <1>6, <1>7, <1>8, <1>9

\* A taker that has quantity left and no match crosses with nobody on the book:
\* the best opposing price does not cross, and no other is better.
LEMMA NoMatchNoCross ==
  ASSUME TypeOK, BookShape, NEW t \in DOMAIN order, Remaining(t) > 0, ~ CanMatch(t),
         NEW o \in BookIds, order[o].side = Opposite(order[t].side)
  PROVE  ~ Crosses(t, o)
<1> DEFINE s == Opposite(order[t].side)
           p == book[s][1].price
           x == order[o].price
<1>0. SlicesInv /\ QueuesInv  BY DEF BookShape
<1>1. s \in Sides /\ order[t].side \in Sides
  BY DEF TypeOK, Order, Opposite, Sides
<1>2. book[s] \in Seq(LevelType(DOMAIN order, Prices)) /\ Sorted(s, book[s]) /\ Full(book[s])
  BY <1>0, <1>1, SlicesType DEF SlicesInv
<1>3. o \in QueueIds(Queue(s, x)) /\ o \in DOMAIN order  BY <1>0, BookIdsPlace
<1>4. QueueAt(book[s], x) # <<>>  BY <1>3, EmptyQueue DEF Queue
<1>5. book[s] # <<>> /\ (x = p \/ Better(s, p, x))
  <2> HIDE DEF s, x
  <2> QED BY ONLY <1>1, <1>2, <1>4, PricesAreInts, FirstIsBest DEF p
<1>6. 1 \in 1..Len(book[s])  BY <1>2, <1>5, EmptySeq
<1>7. book[s][1].queue # <<>>  BY <1>2, <1>6 DEF Full
<1>8. ~ Crosses(t, BestOrder(book[s]))
  BY <1>5, <1>7 DEF CanMatch, HasBest, OppositeLevels
<1>9. order[BestOrder(book[s])].price = p
  <2>1. /\ book[s][1].price \in Prices
        /\ Queue(s, p) # <<>> /\ BestOrder(book[s]) = Head(Queue(s, p))
    <3> HIDE DEF s
    <3> QED BY ONLY <1>1, <1>2, <1>5, PricesAreInts, DequeueQueues DEF Queue
  <2>2. Queue(s, p) \in Seq(DOMAIN order) /\ Once(Queue(s, p))
    BY <1>0, <1>1, <2>1, QueueType DEF QueuesInv
  <2>3. Head(Queue(s, p)) \in QueueIds(Queue(s, p))
    <3> HIDE DEF s, p
    <3> QED BY ONLY <2>1, <2>2, TailQueue
  <2> QED BY <1>0, <1>1, <2>1, <2>3 DEF QueuesInv
<1>10. p \in Int /\ x \in Int /\ order[t].price \in Int
  <2>1. order[t].price \in Prices /\ x \in Prices  BY <1>3 DEF TypeOK, Order
  <2>2. p \in Prices  BY <1>2, <1>6, LevelParts
  <2> QED BY <2>1, <2>2, PricesAreInts
<1> DEFINE b == BestOrder(book[s])
<1> HIDE DEF b
<1>11. ~ Crosses(t, b) /\ order[b].price = p  BY <1>8, <1>9 DEF b
<1>12. s = Opposite(order[t].side) /\ x = order[o].price  OBVIOUS
<1> HIDE DEF s, p, x
<1> QED BY ONLY <1>1, <1>5, <1>10, <1>11, <1>12 DEF Crosses, Better, Opposite, Sides

LEMMA StopMatchingBook ==
  ASSUME BookInv, EngineInv', NEW t \in Orders, StopMatching(t)
  PROVE  BookInv'
<1>1. /\ pc[t] = "match" /\ ~ CanMatch(t) /\ pc' = [pc EXCEPT ![t] = "readd"]
      /\ UNCHANGED <<order, book, index, mu, skipped, rested, requeued>>
  BY DEF StopMatching, bookVars, history
<1>0. /\ EngineInv /\ TypeOK /\ BookShape /\ CallsInv /\ SkippedInv /\ CrossInv
      /\ RestedInv /\ t \in DOMAIN order /\ mu = t /\ t \notin QueueIds(rested)
  BY <1>1, HolderFacts
<1>2. /\ DOMAIN order \subseteq Orders
      /\ pc \in [Orders -> {"idle", "lock", "match", "readd", "emit", "done"}]
  BY <1>0 DEF TypeOK
<1>3. pc'[t] = "readd" /\ \A x \in Orders : x # t => pc'[x] = pc[x]
  BY <1>1, <1>2
<1>4. OpenOrders' = OpenOrders /\ PlacesKept
  BY <1>1, <1>2, <1>3, OpenUntouched
<1>5. BookShape' /\ BookIds' = BookIds /\ OrderKept
  BY <1>0, <1>1, <1>4, BookUntouched DEF bookVars
<1>6. CallsInv'
  <2>1. \A x \in Orders : pc'[x] \in {"match", "readd"} <=> mu' = x
    BY ONLY <1>0, <1>1, <1>3 DEF CallsInv
  <2>2. \A x \in Orders : pc'[x] \in {"lock", "match", "readd"} => order'[x].status = "open"
    BY ONLY <1>0, <1>1, <1>3 DEF CallsInv
  <2>3. StatusTellsTheFill'
    <3>1. \A x \in DOMAIN order : pc'[x] \in {"emit", "done"} => pc[x] = pc'[x]
      BY <1>2, <1>3
    <3> QED BY ONLY <1>0, <1>1, <3>1 DEF CallsInv, StatusTellsTheFill
  <2> QED BY ONLY <2>1, <2>2, <2>3 DEF CallsInv
<1>7. SkippedInv'
  <2>1. BookIds \cup QueueIds(skipped) = OpenOrders  BY <1>0 DEF SkippedInv
  <2> QED BY <1>0, <1>1, <1>4, <1>5, <2>1, SkippedKept
<1>8. CrossInv'
  <2>1. ASSUME NEW o \in OpenOrders, order[o].side = Opposite(order[t].side),
               Crosses(t, o), Remaining(t) > 0
        PROVE  order[o].user = order[t].user
    <3>1. CASE o \in QueueIds(skipped)
      BY <1>0, <3>1 DEF SkippedInv
    <3>2. CASE o \in BookIds
      BY <1>0, <1>1, <2>1, <3>2, NoMatchNoCross
    <3> QED BY ONLY <1>0, <3>1, <3>2, o \in OpenOrders DEF SkippedInv
  <2>2. \A b, a \in OpenOrders :
          order[b].side = "buy" /\ order[a].side = "sell" /\ order[b].price >= order[a].price
            => order[b].user = order[a].user
    BY <1>0 DEF CrossInv
  <2>3. ASSUME NEW x \in DOMAIN order, pc'[x] = "readd", Remaining(x) > 0,
               NEW o \in OpenOrders, order[o].side = Opposite(order[x].side), Crosses(x, o)
        PROVE  order[o].user = order[x].user
    <3>1. CASE x = t  BY <2>1, <2>3, <3>1
    <3>2. CASE x # t
      <4>1. pc[x] = "readd"  BY <1>2, <1>3, <2>3, <3>2
      <4> QED BY ONLY <1>0, <2>3, <4>1 DEF CrossInv
    <3> QED BY <3>1, <3>2
  <2> QED BY ONLY <1>1, <1>4, <2>2, <2>3 DEF CrossInv, Crosses, Remaining
<1>9. RestedInv'
  <2>1. \A x \in QueueIds(rested) : pc'[x] \in {"emit", "done"}
    <3>1. QueueIds(rested) \subseteq DOMAIN order
      BY <1>0, IdsType DEF TypeOK
    <3> QED BY <1>0, <1>1, <1>2, <1>3, <3>1 DEF RestedInv
  <2> QED BY <1>0, <1>1, <1>4, <1>5, <2>1, RestedKept
<1> QED BY <1>5, <1>6, <1>7, <1>8, <1>9 DEF BookInv

\* Self-trade prevention takes the taker's own order off.
LEMMA SkipOwnBook ==
  ASSUME BookInv, EngineInv', NEW t \in Orders, SkipOwn(t)
  PROVE  BookInv'
<1> DEFINE m == BestOrder(OppositeLevels(t))
<1>1. /\ pc[t] = "match" /\ CanMatch(t) /\ order[t].user = order[m].user /\ TakeBestOff(t)
      /\ skipped' = Append(skipped, m) /\ requeued' = requeued \cup {m}
      /\ UNCHANGED <<order, mu, pc, rested>>
  BY DEF SkipOwn
<1>0. /\ EngineInv /\ TypeOK /\ BookShape /\ CallsInv /\ SkippedInv /\ CrossInv
      /\ RestedInv /\ t \in DOMAIN order /\ mu = t /\ mu # NoOne
  BY <1>1, HolderFacts
<1>t. TypeOK'  BY DEF EngineInv
<1>2. m \in BookIds /\ m \in DOMAIN order /\ order[m].side = Opposite(order[t].side)
  BY <1>0, <1>1, BestFacts DEF BookShape
<1>3. OpenOrders' = OpenOrders /\ PlacesKept
  BY <1>1, OpenUntouched
<1>4. BookShape' /\ BookIds' = BookIds \ {m} /\ OrderKept
  BY <1>0, <1>1, <1>3, <1>t, BookServed
<1> HIDE DEF m
<1>5. CallsInv'
  BY ONLY <1>0, <1>1 DEF CallsInv, StatusTellsTheFill
<1>6. SkippedInv'
  <2>1. /\ Once(skipped) /\ BookIds \cup QueueIds(skipped) = OpenOrders
        /\ \A o \in QueueIds(skipped) :
             /\ o \notin BookIds /\ o \in requeued
             /\ order[o].user = order[mu].user /\ order[o].side = Opposite(order[mu].side)
    BY <1>0 DEF SkippedInv
  <2>2. skipped \in Seq(DOMAIN order)  BY <1>0 DEF TypeOK
  <2>3. m \notin QueueIds(skipped)  BY <1>2, <2>1
  <2>4. QueueIds(skipped') = QueueIds(skipped) \cup {m} /\ Once(skipped')
    BY ONLY <1>1, <1>2, <2>1, <2>2, <2>3, AppendQueue
  <2>5. \A o \in QueueIds(skipped') :
             /\ o \notin BookIds' /\ o \in requeued'
             /\ order'[o].user = order'[mu'].user
             /\ order'[o].side = Opposite(order'[mu'].side)
    BY <1>0, <1>1, <1>2, <1>4, <2>1, <2>4
  <2>6. BookIds' \cup QueueIds(skipped') = OpenOrders'
    BY ONLY <1>2, <1>3, <1>4, <2>1, <2>4
  <2> QED BY ONLY <1>0, <1>1, <2>4, <2>5, <2>6 DEF SkippedInv
<1>7. CrossInv'
  BY <1>0, <1>1, <1>3, CrossKept DEF Remaining
<1>8. RestedInv'
  <2>1. \A x \in QueueIds(rested) : pc'[x] \in {"emit", "done"}
    BY <1>0, <1>1 DEF RestedInv
  <2> QED BY <1>0, <1>1, <1>3, <1>4, <2>1, RestedKept
<1> QED BY <1>4, <1>5, <1>6, <1>7, <1>8 DEF BookInv

\* What a trade does to who is open: the maker closes when it is filled.
LEMMA ExecuteOpen ==
  ASSUME BookInv, NEW t \in Orders, Execute(t)
  PROVE  LET m   == BestOrder(OppositeLevels(t))
             qty == MatchQty(t, m)
         IN  /\ PlacesKept /\ DOMAIN order' = DOMAIN order
             /\ m \in BookIds /\ m # t
             /\ order'[t].status = order[t].status
             /\ \A x \in DOMAIN order \ {t, m} : order'[x] = order[x]
             /\ order'[m].status = IF order'[m].filled = order'[m].qty
                                   THEN "filled" ELSE "partially_filled"
             /\ order'[m].filled > 0
             /\ OpenOrders' = IF MakerStatus(m, qty) = "filled"
                              THEN OpenOrders \ {m} ELSE OpenOrders
<1> DEFINE m   == BestOrder(OppositeLevels(t))
           qty == MatchQty(t, m)
<1>1. pc[t] = "match" /\ CanMatch(t) /\ order[t].user # order[m].user /\ pc' = pc
  BY DEF Execute
<1>0. /\ EngineInv /\ TypeOK /\ BookShape /\ SkippedInv
      /\ t \in DOMAIN order /\ t \notin OpenOrders
  BY <1>1, HolderFacts
<1>2. m \in BookIds /\ m \in DOMAIN order
  BY <1>0, <1>1, BestFacts DEF BookShape
<1>3. /\ m # t /\ qty \in 0..MaxQty /\ qty <= Remaining(m)
      /\ DOMAIN order' = DOMAIN order
      /\ \A x \in DOMAIN order :
           order'[x] = [order[x] EXCEPT
             !.filled = IF x \in {t, m} THEN @ + qty ELSE @,
             !.status = IF x = m THEN MakerStatus(m, qty) ELSE @]
  BY <1>0, ExecuteEffect
<1>4. m \in OpenOrders  BY <1>0, <1>2 DEF SkippedInv
<1>5. qty > 0
  <2>1. Remaining(t) > 0 /\ Remaining(m) > 0  BY <1>1, <1>4 DEF CanMatch, OpenOrders
  <2> HIDE DEF m
  <2> QED BY ONLY <2>1 DEF MatchQty, Smaller, qty
<1> HIDE DEF m, qty
<1>q. qty \in Int /\ qty > 0
  <2>1. MaxQty \in Nat  BY EngineAssumption
  <2>2. qty \in 0..MaxQty /\ qty > 0  BY <1>3, <1>5
  <2> QED BY ONLY <2>1, <2>2
<1>6. ASSUME NEW x \in DOMAIN order
      PROVE  /\ order[x] \in Order
             /\ order[x].filled \in Nat /\ order[x].qty \in Nat
  <2>1. order[x] \in Order  BY <1>0 DEF TypeOK
  <2>2. order[x].filled \in 0..MaxQty /\ order[x].qty \in 1..MaxQty  BY <2>1 DEF Order
  <2>3. MaxQty \in Nat  BY EngineAssumption
  <2> QED BY ONLY <2>1, <2>2, <2>3
<1>7. ASSUME NEW x \in DOMAIN order
      PROVE  /\ order'[x].user = order[x].user /\ order'[x].side = order[x].side
             /\ order'[x].price = order[x].price /\ order'[x].qty = order[x].qty
             /\ order'[x].filled = IF x \in {t, m} THEN order[x].filled + qty
                                                   ELSE order[x].filled
             /\ order'[x].status = IF x = m THEN MakerStatus(m, qty)
                                            ELSE order[x].status
             /\ x \notin {t, m} => order'[x] = order[x]
  <2> DEFINE r == order[x]
             f == IF x \in {t, m} THEN r.filled + qty ELSE r.filled
             st == IF x = m THEN MakerStatus(m, qty) ELSE r.status
  <2>1. order'[x] = [r EXCEPT !.filled = f, !.status = st]  BY <1>3
  <2>2. r \in Order  BY <1>6
  <2>3. x \notin {t, m} => f = r.filled /\ st = r.status  OBVIOUS
  <2> HIDE DEF r, f, st
  <2>4. /\ order'[x].user = r.user /\ order'[x].side = r.side
        /\ order'[x].price = r.price /\ order'[x].qty = r.qty
        /\ order'[x].filled = f /\ order'[x].status = st
        /\ f = r.filled /\ st = r.status => order'[x] = r
    BY ONLY <2>1, <2>2 DEF Order
  <2> QED BY <2>3, <2>4 DEF r, f, st
<1>8. PlacesKept  BY <1>3, <1>7 DEF PlacesKept
<1>9. order'[m].filled > 0
  <2>1. order'[m].filled = order[m].filled + qty  BY <1>2, <1>7
  <2>2. order[m].filled \in Nat  BY <1>2, <1>6
  <2> QED BY ONLY <1>q, <2>1, <2>2
<1>10. order'[m].status = IF order'[m].filled = order'[m].qty
                          THEN "filled" ELSE "partially_filled"
  <2>1. qty <= order[m].qty - order[m].filled  BY <1>3 DEF Remaining
  <2>2. order'[m].status = IF order[m].qty - order[m].filled - qty <= 0
                           THEN "filled" ELSE "partially_filled"
    BY <1>2, <1>7 DEF MakerStatus, Remaining
  <2>3. order'[m].filled = order[m].filled + qty /\ order'[m].qty = order[m].qty
    BY <1>2, <1>7
  <2>4. order[m].filled \in Nat /\ order[m].qty \in Nat  BY <1>2, <1>6
  <2> QED BY ONLY <1>q, <2>1, <2>2, <2>3, <2>4
<1>11. OpenOrders' = IF MakerStatus(m, qty) = "filled"
                     THEN OpenOrders \ {m} ELSE OpenOrders
  <2>1. ASSUME NEW x \in DOMAIN order, x \notin {t, m}
        PROVE  x \in OpenOrders' <=> x \in OpenOrders
    <3>1. order'[x] = order[x]  BY <1>7, <2>1
    <3> QED BY ONLY <1>1, <1>3, <3>1 DEF OpenOrders, Remaining
  <2>2. t \notin OpenOrders'  BY ONLY <1>1 DEF OpenOrders
  <2>3. m \in OpenOrders' <=> MakerStatus(m, qty) # "filled"
    <3>1. order'[m].status = MakerStatus(m, qty)  BY <1>2, <1>7
    <3>0. order[m].filled \in Nat /\ order[m].qty \in Nat  BY <1>2, <1>6
    <3>2. order'[m].qty - order'[m].filled = Remaining(m) - qty
      <4>1. order'[m].filled = order[m].filled + qty /\ order'[m].qty = order[m].qty
        BY <1>2, <1>7
      <4> QED BY ONLY <1>q, <3>0, <4>1 DEF Remaining
    <3>3. pc'[m] \in {"emit", "done"}  BY <1>1, <1>4 DEF OpenOrders
    <3>4. m \in OpenOrders' <=>
            /\ Remaining(m) - qty > 0
            /\ MakerStatus(m, qty) # "cancelled"
      BY ONLY <1>2, <1>3, <3>1, <3>2, <3>3 DEF OpenOrders, Remaining
    <3>5. Remaining(m) - qty \in Int
      BY ONLY <1>q, <3>0 DEF Remaining
    <3> QED BY ONLY <3>4, <3>5 DEF MakerStatus
  <2>4. OpenOrders' \subseteq DOMAIN order /\ OpenOrders \subseteq DOMAIN order
    BY <1>3 DEF OpenOrders
  <2> QED BY ONLY <1>0, <1>4, <2>1, <2>2, <2>3, <2>4
<1>12. order'[t].status = order[t].status /\ \A x \in DOMAIN order \ {t, m} : order'[x] = order[x]
  <2>1. t # m  BY <1>3
  <2> QED BY <1>0, <1>7, <2>1
<1>13. DOMAIN order' = DOMAIN order /\ m \in BookIds /\ m # t  BY <1>2, <1>3
<1> QED BY ONLY <1>8, <1>9, <1>10, <1>11, <1>12, <1>13 DEF m, qty

\* One trade.
LEMMA ExecuteBook ==
  ASSUME BookInv, EngineInv', NEW t \in Orders, Execute(t)
  PROVE  BookInv'
<1> DEFINE m   == BestOrder(OppositeLevels(t))
           qty == MatchQty(t, m)
<1>1. /\ pc[t] = "match" /\ CanMatch(t)
      /\ IF MakerStatus(m, qty) = "filled" THEN TakeBestOff(t) ELSE UNCHANGED bookVars
      /\ UNCHANGED <<mu, pc, skipped, rested, requeued>>
  BY DEF Execute, history
<1>0. /\ EngineInv /\ TypeOK /\ BookShape /\ CallsInv /\ SkippedInv /\ CrossInv
      /\ RestedInv /\ t \in DOMAIN order /\ mu = t /\ mu # NoOne
      /\ \A x \in Orders : x # t => pc[x] \notin {"match", "readd"}
  BY <1>1, HolderFacts
<1>t. TypeOK' /\ DOMAIN order \subseteq Orders  BY <1>0 DEF EngineInv, TypeOK
<1>2. /\ PlacesKept /\ DOMAIN order' = DOMAIN order
      /\ m \in BookIds /\ m # t
      /\ order'[t].status = order[t].status
      /\ \A x \in DOMAIN order \ {t, m} : order'[x] = order[x]
      /\ order'[m].status = IF order'[m].filled = order'[m].qty
                            THEN "filled" ELSE "partially_filled"
      /\ order'[m].filled > 0
      /\ OpenOrders' = IF MakerStatus(m, qty) = "filled"
                       THEN OpenOrders \ {m} ELSE OpenOrders
  BY ExecuteOpen
<1>3. /\ BookShape' /\ OrderKept
      /\ BookIds' = IF MakerStatus(m, qty) = "filled" THEN BookIds \ {m} ELSE BookIds
  <2>1. CASE MakerStatus(m, qty) = "filled"
    BY <1>0, <1>1, <1>2, <1>t, <2>1, BookServed
  <2>2. CASE MakerStatus(m, qty) # "filled"
    BY <1>0, <1>1, <1>2, <2>2, BookUntouched
  <2> QED BY <2>1, <2>2
<1>m. m \in OpenOrders /\ m \notin QueueIds(skipped)
  BY <1>0, <1>2 DEF SkippedInv
<1> HIDE DEF m, qty
<1>5. CallsInv'
  <2>1. \A x \in Orders : pc'[x] \in {"match", "readd"} <=> mu' = x
    BY ONLY <1>0, <1>1 DEF CallsInv
  <2>2. ASSUME NEW x \in Orders, pc'[x] \in {"lock", "match", "readd"}
        PROVE  order'[x].status = "open"
    <3>0. order[x].status = "open"  BY ONLY <1>0, <1>1, <2>2 DEF CallsInv
    <3>1. x # m  BY <1>1, <1>m, <2>2 DEF OpenOrders
    <3>2. x \in DOMAIN order  BY <1>0, <1>1, <2>2 DEF EngineInv, CallsAreBacked
    <3> QED BY <1>2, <3>0, <3>1, <3>2
  <2>3. StatusTellsTheFill'
    <3>1. ASSUME NEW x \in DOMAIN order', pc'[x] \in {"emit", "done"},
                 order'[x].status # "cancelled"
          PROVE  order'[x].status = IF order'[x].filled = order'[x].qty THEN "filled"
                                    ELSE IF order'[x].filled > 0 THEN "partially_filled"
                                    ELSE "open"
      <4>1. x # t  BY <1>1, <3>1
      <4>2. CASE x = m  BY <1>2, <4>2
      <4>3. CASE x # m
        <5>1. order'[x] = order[x] /\ x \in DOMAIN order  BY <1>2, <4>1, <4>3
        <5> QED BY ONLY <1>0, <1>1, <3>1, <5>1 DEF CallsInv, StatusTellsTheFill
      <4> QED BY <4>2, <4>3
    <3> QED BY ONLY <3>1 DEF StatusTellsTheFill
  <2> QED BY ONLY <2>1, <2>2, <2>3 DEF CallsInv
<1>6. SkippedInv'
  <2>1. BookIds \cup QueueIds(skipped) = OpenOrders  BY <1>0 DEF SkippedInv
  <2>2. BookIds' \cup QueueIds(skipped) = OpenOrders' /\ BookIds' \subseteq BookIds
    BY ONLY <1>2, <1>3, <1>m, <2>1
  <2> QED BY <1>0, <1>1, <1>2, <2>2, SkippedKept
<1>o. OpenOrders' \subseteq OpenOrders  BY ONLY <1>2
<1>7. CrossInv'
  <2>1. \A x \in DOMAIN order' : pc'[x] # "readd"  BY <1>0, <1>1, <1>2, <1>t
  <2> QED BY <1>0, <1>2, <1>o, <2>1, CrossKept
<1>8. RestedInv'
  <2>1. \A x \in QueueIds(rested) : pc'[x] \in {"emit", "done"}
    BY <1>0, <1>1 DEF RestedInv
  <2> QED BY <1>0, <1>1, <1>3, <1>o, <2>1, RestedKept
<1> QED BY <1>3, <1>5, <1>6, <1>7, <1>8 DEF BookInv

\* One of the loop's steps puts the first skipped order back.
LEMMA ReAddBook ==
  ASSUME BookInv, EngineInv', NEW t \in Orders, ReAdd(t)
  PROVE  BookInv'
<1> DEFINE o == Head(skipped)
<1>1. /\ pc[t] = "readd" /\ skipped # <<>> /\ PutOnBook(o) /\ skipped' = Tail(skipped)
      /\ UNCHANGED <<order, mu, pc, rested, requeued>>
  BY DEF ReAdd, history
<1>0. /\ EngineInv /\ TypeOK /\ BookShape /\ CallsInv /\ SkippedInv /\ CrossInv
      /\ RestedInv /\ t \in DOMAIN order /\ mu = t /\ mu # NoOne
  BY <1>1, HolderFacts
<1>t. TypeOK'  BY DEF EngineInv
<1>2. /\ o \in QueueIds(skipped) /\ QueueIds(Tail(skipped)) = QueueIds(skipped) \ {o}
      /\ Once(Tail(skipped))
  <2>1. skipped \in Seq(DOMAIN order) /\ Once(skipped)  BY <1>0 DEF TypeOK, SkippedInv
  <2> QED BY ONLY <1>1, <2>1, TailQueue
<1>3. /\ BookIds \cup QueueIds(skipped) = OpenOrders
      /\ \A x \in QueueIds(skipped) :
           /\ x \notin BookIds /\ x \in requeued
           /\ order[x].user = order[mu].user /\ order[x].side = Opposite(order[mu].side)
  BY <1>0 DEF SkippedInv
<1>4. OpenOrders' = OpenOrders /\ PlacesKept  BY <1>1, OpenUntouched
<1>5. o \in DOMAIN order /\ o \notin BookIds /\ o \in requeued
  BY <1>2, <1>3, OpenOrdersType
<1> HIDE DEF o
<1>6. /\ BookShape' /\ BookIds' = BookIds \cup {o}
      /\ \A s \in Sides, p \in Prices : \A a, b :
           Ahead(Queue(s, p)', a, b) => Ahead(Queue(s, p), a, b) \/ b = o
  BY <1>0, <1>1, <1>t, <1>4, <1>5, BookJoined
<1>7. CallsInv'
  BY ONLY <1>0, <1>1 DEF CallsInv, StatusTellsTheFill
<1>8. SkippedInv'
  <2>1. BookIds' \cup QueueIds(skipped') = OpenOrders'
    BY ONLY <1>1, <1>2, <1>3, <1>4, <1>6
  <2>2. \A x \in QueueIds(skipped') :
           /\ x \notin BookIds' /\ x \in requeued'
           /\ order'[x].user = order'[mu'].user
           /\ order'[x].side = Opposite(order'[mu'].side)
    BY ONLY <1>1, <1>2, <1>3, <1>6
  <2> QED BY ONLY <1>0, <1>1, <1>2, <2>1, <2>2 DEF SkippedInv
<1>9. CrossInv'
  BY <1>0, <1>1, <1>4, CrossKept DEF Remaining
<1>10. RestedInv'
  <2>1. \A x : RestedAt(x)' = RestedAt(x)  BY <1>1 DEF RestedAt
  <2>2. /\ Once(rested') /\ OpenOrders' \subseteq QueueIds(rested')
        /\ \A x \in QueueIds(rested') : pc'[x] \in {"emit", "done"}
    BY ONLY <1>0, <1>1, <1>4 DEF RestedInv
  <2>3. ASSUME NEW s \in Sides, NEW p \in Prices, NEW a \in DOMAIN order,
               NEW b \in DOMAIN order,
               Ahead(Queue(s, p)', a, b), RestedAt(b)' < RestedAt(a)'
        PROVE  b \in requeued
    <3>1. Ahead(Queue(s, p), a, b) \/ b = o  BY <1>6, <2>3
    <3>2. RestedAt(b) < RestedAt(a)  BY <2>1, <2>3
    <3>3. ASSUME Ahead(Queue(s, p), a, b)  PROVE b \in requeued
      BY ONLY <1>0, <3>2, <3>3, s \in Sides, p \in Prices,
              a \in DOMAIN order, b \in DOMAIN order DEF RestedInv
    <3> QED BY <1>5, <3>1, <3>3
  <2> QED BY ONLY <1>1, <2>2, <2>3 DEF RestedInv
<1> QED BY <1>6, <1>7, <1>8, <1>9, <1>10 DEF BookInv

\* A new status changes nothing else of an order.
LEMMA StatusEffect ==
  ASSUME TypeOK, NEW t \in DOMAIN order, NEW st,
         order' = [order EXCEPT ![t].status = st]
  PROVE  /\ PlacesKept /\ DOMAIN order' = DOMAIN order
         /\ \A x \in DOMAIN order \ {t} : order'[x] = order[x]
         /\ order'[t].status = st
         /\ order'[t].filled = order[t].filled /\ order'[t].qty = order[t].qty
<1>1. DOMAIN order' = DOMAIN order  OBVIOUS
<1>2. order'[t] = [order[t] EXCEPT !.status = st]  OBVIOUS
<1>3. \A x \in DOMAIN order \ {t} : order'[x] = order[x]  OBVIOUS
<1>4. order[t] \in Order  BY DEF TypeOK
<1>5. /\ order'[t].user = order[t].user /\ order'[t].side = order[t].side
      /\ order'[t].price = order[t].price /\ order'[t].status = st
      /\ order'[t].filled = order[t].filled /\ order'[t].qty = order[t].qty
  BY ONLY <1>2, <1>4 DEF Order
<1>6. PlacesKept  BY ONLY <1>1, <1>3, <1>5 DEF PlacesKept
<1> QED BY ONLY <1>1, <1>3, <1>5, <1>6

\* Nothing remains of the taker.
LEMMA CompleteBook ==
  ASSUME BookInv, EngineInv', NEW t \in Orders, Complete(t)
  PROVE  BookInv'
<1>1. /\ pc[t] = "readd" /\ skipped = <<>> /\ Remaining(t) <= 0
      /\ order' = [order EXCEPT ![t].status = "filled"] /\ mu' = NoOne
      /\ pc' = [pc EXCEPT ![t] = EmitNext(outbox[t])]
      /\ UNCHANGED <<book, index, skipped, rested, requeued>>
  BY DEF Complete, bookVars, history
<1>0. /\ EngineInv /\ TypeOK /\ BookShape /\ CallsInv /\ SkippedInv /\ CrossInv
      /\ RestedInv /\ t \in DOMAIN order /\ mu = t
      /\ t \notin OpenOrders /\ t \notin QueueIds(rested)
      /\ \A x \in Orders : x # t => pc[x] \notin {"match", "readd"}
  BY <1>1, HolderFacts
<1>2. /\ DOMAIN order \subseteq Orders
      /\ pc \in [Orders -> {"idle", "lock", "match", "readd", "emit", "done"}]
      /\ QueueIds(rested) \subseteq DOMAIN order
  BY <1>0, IdsType DEF TypeOK
<1>3. pc'[t] \in {"emit", "done"} /\ \A x \in Orders : x # t => pc'[x] = pc[x]
  BY <1>1, <1>2 DEF EmitNext
<1>4. /\ PlacesKept /\ DOMAIN order' = DOMAIN order
      /\ \A x \in DOMAIN order \ {t} : order'[x] = order[x]
      /\ order'[t].status = "filled"
      /\ order'[t].filled = order[t].filled /\ order'[t].qty = order[t].qty
  BY <1>0, <1>1, StatusEffect
<1>5. order[t].filled = order[t].qty /\ order[t].qty \in Int
  <2>1. order[t].filled <= order[t].qty  BY <1>0 DEF EngineInv, NeverOverfilled
  <2>2. order[t].qty - order[t].filled <= 0  BY <1>1 DEF Remaining
  <2>3. order[t] \in Order  BY <1>0 DEF TypeOK
  <2>4. order[t].filled \in 0..MaxQty /\ order[t].qty \in 1..MaxQty  BY <2>3 DEF Order
  <2> QED BY ONLY <2>1, <2>2, <2>4
<1>6. OpenOrders' = OpenOrders
  <2>1. ASSUME NEW x \in DOMAIN order, x # t
        PROVE  x \in OpenOrders' <=> x \in OpenOrders
    <3>1. order'[x] = order[x] /\ pc'[x] = pc[x]  BY <1>2, <1>3, <1>4, <2>1
    <3> QED BY ONLY <1>4, <3>1 DEF OpenOrders, Remaining
  <2>2. t \notin OpenOrders'
    <3>1. ~ Remaining(t)' > 0  BY ONLY <1>4, <1>5 DEF Remaining
    <3> QED BY ONLY <3>1 DEF OpenOrders
  <2>3. OpenOrders' \subseteq DOMAIN order /\ OpenOrders \subseteq DOMAIN order
    BY <1>4 DEF OpenOrders
  <2> QED BY ONLY <1>0, <2>1, <2>2, <2>3
<1>7. BookShape' /\ BookIds' = BookIds /\ OrderKept
  BY <1>0, <1>1, <1>4, BookUntouched DEF bookVars
<1>n. \A x \in Orders : pc'[x] \notin {"match", "readd"} /\ x # NoOne
  BY <1>0, <1>3, EngineAssumption
<1>8. CallsInv'
  <2>1. \A x \in Orders : pc'[x] \in {"match", "readd"} <=> mu' = x
    BY ONLY <1>1, <1>n
  <2>2. ASSUME NEW x \in Orders, pc'[x] \in {"lock", "match", "readd"}
        PROVE  order'[x].status = "open"
    <3>1. x # t /\ pc[x] = pc'[x]  BY <1>3, <2>2
    <3>2. order[x].status = "open"  BY ONLY <1>0, <2>2, <3>1 DEF CallsInv
    <3>3. x \in DOMAIN order
      BY <1>0, <2>2, <3>1 DEF EngineInv, CallsAreBacked
    <3> QED BY <1>4, <3>1, <3>2, <3>3
  <2>3. StatusTellsTheFill'
    <3>1. ASSUME NEW x \in DOMAIN order', pc'[x] \in {"emit", "done"},
                 order'[x].status # "cancelled"
          PROVE  order'[x].status = IF order'[x].filled = order'[x].qty THEN "filled"
                                    ELSE IF order'[x].filled > 0 THEN "partially_filled"
                                    ELSE "open"
      <4>1. CASE x = t  BY <1>4, <1>5, <4>1
      <4>2. CASE x # t
        <5>1. order'[x] = order[x] /\ pc'[x] = pc[x] /\ x \in DOMAIN order
          BY <1>2, <1>3, <1>4, <4>2
        <5> QED BY ONLY <1>0, <3>1, <5>1 DEF CallsInv, StatusTellsTheFill
      <4> QED BY <4>1, <4>2
    <3> QED BY ONLY <3>1 DEF StatusTellsTheFill
  <2> QED BY ONLY <2>1, <2>2, <2>3 DEF CallsInv
<1>9. SkippedInv'
  <2>1. BookIds \cup QueueIds(skipped) = OpenOrders  BY <1>0 DEF SkippedInv
  <2>2. BookIds' \cup QueueIds(skipped') = OpenOrders'
    BY <1>1, <1>6, <1>7, <2>1
  <2> QED BY ONLY <1>1, <2>2, EmptyQueue DEF SkippedInv
<1>10. CrossInv'
  <2>1. \A x \in DOMAIN order' : pc'[x] # "readd"  BY <1>2, <1>4, <1>n
  <2> QED BY <1>0, <1>4, <1>6, <2>1, CrossKept
<1>11. RestedInv'
  <2>1. \A x \in QueueIds(rested) : pc'[x] \in {"emit", "done"}
    BY <1>0, <1>2, <1>3 DEF RestedInv
  <2> QED BY <1>0, <1>1, <1>6, <1>7, <2>1, RestedKept
<1> QED BY <1>7, <1>8, <1>9, <1>10, <1>11 DEF BookInv

\* CancelOrder, while nobody has the mutex.
LEMMA CancelBook ==
  ASSUME BookInv, EngineInv', NEW o \in Orders, Cancel(o)
  PROVE  BookInv'
<1>1. /\ mu = NoOne /\ TakeOff(o)
      /\ UNCHANGED <<mu, pc, skipped, rested, requeued>>
  BY DEF Cancel, TakeOff, history
<1>0. /\ EngineInv /\ TypeOK /\ BookShape /\ CallsInv /\ SkippedInv /\ CrossInv
      /\ RestedInv /\ TypeOK'
  BY DEF BookInv, EngineInv
<1>2. /\ DOMAIN order \subseteq Orders /\ QueueIds(rested) \subseteq DOMAIN order
  BY <1>0, IdsType DEF TypeOK
<1>3. /\ o \in BookIds /\ o \in DOMAIN order
      /\ order' = [order EXCEPT ![o].status = "cancelled"]
  BY <1>0, <1>1, TakeOffEffect DEF BookShape
<1>4. /\ PlacesKept /\ DOMAIN order' = DOMAIN order
      /\ \A x \in DOMAIN order \ {o} : order'[x] = order[x]
      /\ order'[o].status = "cancelled"
  BY <1>0, <1>3, StatusEffect
<1>5. /\ BookIds = OpenOrders /\ skipped = <<>>
  BY <1>0, <1>1, EmptyQueue DEF SkippedInv
<1>6. OpenOrders' = OpenOrders \ {o}
  <2>1. ASSUME NEW x \in DOMAIN order, x # o
        PROVE  x \in OpenOrders' <=> x \in OpenOrders
    <3>1. order'[x] = order[x]  BY <1>4, <2>1
    <3> QED BY ONLY <1>1, <1>4, <3>1 DEF OpenOrders, Remaining
  <2>2. o \notin OpenOrders'  BY ONLY <1>4 DEF OpenOrders
  <2>3. OpenOrders' \subseteq DOMAIN order /\ OpenOrders \subseteq DOMAIN order
    BY <1>4 DEF OpenOrders
  <2> QED BY ONLY <2>1, <2>2, <2>3
<1>7. BookShape' /\ BookIds' = BookIds \ {o} /\ OrderKept
  BY <1>0, <1>1, <1>4, BookCancelled
<1>n. \A x \in Orders : pc[x] \notin {"match", "readd"}
  <2>1. \A x \in Orders : x # NoOne  BY EngineAssumption
  <2> QED BY ONLY <1>0, <1>1, <2>1 DEF CallsInv
<1>8. CallsInv'
  <2>1. \A x \in Orders : pc'[x] \in {"match", "readd"} <=> mu' = x
    BY ONLY <1>0, <1>1 DEF CallsInv
  <2>2. ASSUME NEW x \in Orders, pc'[x] \in {"lock", "match", "readd"}
        PROVE  order'[x].status = "open"
    <3>1. x # o  BY <1>1, <1>3, <1>5, <2>2 DEF OpenOrders
    <3>2. order[x].status = "open"  BY ONLY <1>0, <1>1, <2>2 DEF CallsInv
    <3>3. x \in DOMAIN order
      BY <1>0, <1>1, <2>2 DEF EngineInv, CallsAreBacked
    <3> QED BY <1>4, <3>1, <3>2, <3>3
  <2>3. StatusTellsTheFill'
    <3>1. ASSUME NEW x \in DOMAIN order', pc'[x] \in {"emit", "done"},
                 order'[x].status # "cancelled"
          PROVE  x \in DOMAIN order /\ pc[x] = pc'[x] /\ order'[x] = order[x]
      BY <1>1, <1>4, <3>1
    <3> QED BY ONLY <1>0, <3>1 DEF StatusTellsTheFill, CallsInv
  <2> QED BY ONLY <2>1, <2>2, <2>3 DEF CallsInv
<1>9. SkippedInv'
  <2>2. BookIds' \cup QueueIds(skipped') = OpenOrders' /\ skipped' = <<>>
    BY ONLY <1>1, <1>5, <1>6, <1>7, EmptyQueue
  <2> QED BY ONLY <2>2, EmptyQueue DEF SkippedInv
<1>o. OpenOrders' \subseteq OpenOrders  BY ONLY <1>6
<1>10. CrossInv'
  <2>1. \A x \in DOMAIN order' : pc'[x] # "readd"  BY <1>1, <1>2, <1>4, <1>n
  <2> QED BY <1>0, <1>4, <1>o, <2>1, CrossKept
<1>11. RestedInv'
  <2>1. \A x \in QueueIds(rested) : pc'[x] \in {"emit", "done"}
    BY <1>0, <1>1 DEF RestedInv
  <2> QED BY <1>0, <1>1, <1>o, <1>7, <2>1, RestedKept
<1> QED BY <1>7, <1>8, <1>9, <1>10, <1>11 DEF BookInv

\* Where an id stands.
Place(q, o) == CHOOSE i \in 1..Len(q) : q[i] = o

LEMMA PlaceType ==
  ASSUME NEW q, NEW o \in QueueIds(q)
  PROVE  Place(q, o) \in 1..Len(q) /\ q[Place(q, o)] = o
BY DEF Place, QueueIds

\* Who comes last stands last, and the others keep their place.
LEMMA PlaceLast ==
  ASSUME NEW Id, NEW q \in Seq(Id), Once(q), NEW o \in Id, o \notin QueueIds(q)
  PROVE  /\ Place(Append(q, o), o) = Len(q) + 1
         /\ \A x \in QueueIds(q) : Place(Append(q, o), x) = Place(q, x)
         /\ \A x \in QueueIds(Append(q, o)) : ~ (Len(q) + 1 < Place(Append(q, o), x))
<1> DEFINE r == Append(q, o)
<1>0. Len(q) \in Nat  BY LenProperties
<1>1. /\ Len(r) = Len(q) + 1
      /\ \A i \in 1..Len(q) : r[i] = q[i]
      /\ r[Len(q) + 1] = o
  BY AppendProperties
<1>2. QueueIds(r) = QueueIds(q) \cup {o} /\ Once(r)
  BY AppendQueue
<1> HIDE DEF r
<1>3. ASSUME NEW x, NEW i \in 1..Len(r), r[i] = x
      PROVE  Place(r, x) = i
  <2>1. x \in QueueIds(r)  BY <1>3 DEF QueueIds
  <2>2. Place(r, x) \in 1..Len(r) /\ r[Place(r, x)] = x  BY <2>1, PlaceType
  <2> QED BY ONLY <1>2, <1>3, <2>2, i \in 1..Len(r) DEF Once
<1>4. Place(r, o) = Len(q) + 1
  <2>1. Len(q) + 1 \in 1..Len(r)  BY <1>0, <1>1
  <2> QED BY <1>1, <1>3, <2>1
<1>5. ASSUME NEW x \in QueueIds(q)  PROVE Place(r, x) = Place(q, x)
  <2>1. Place(q, x) \in 1..Len(q) /\ q[Place(q, x)] = x  BY PlaceType
  <2> HIDE DEF Place
  <2>2. Place(q, x) \in 1..Len(r)  BY <1>0, <1>1, <2>1
  <2>3. r[Place(q, x)] = x  BY <1>1, <2>1
  <2> QED BY <1>3, <2>2, <2>3
<1>6. ASSUME NEW x \in QueueIds(r)  PROVE ~ (Len(q) + 1 < Place(r, x))
  <2>1. Place(r, x) \in 1..Len(r)  BY PlaceType
  <2> QED BY ONLY <1>0, <1>1, <2>1
<1> QED BY <1>4, <1>5, <1>6 DEF r

\* The taker comes to rest.
LEMMA RestBook ==
  ASSUME BookInv, EngineInv', NEW t \in Orders, Rest(t)
  PROVE  BookInv'
<1> DEFINE st == IF order[t].filled > 0 THEN "partially_filled" ELSE order[t].status
<1>1. /\ pc[t] = "readd" /\ skipped = <<>> /\ Remaining(t) > 0
      /\ order' = [order EXCEPT ![t].status = st] /\ PutOnBook(t) /\ mu' = NoOne
      /\ pc' = [pc EXCEPT ![t] = EmitNext(outbox'[t])]
      /\ rested' = Append(rested, t)
      /\ UNCHANGED <<skipped, requeued>>
  BY DEF Rest
<1>0. /\ EngineInv /\ TypeOK /\ BookShape /\ CallsInv /\ SkippedInv /\ CrossInv
      /\ RestedInv /\ t \in DOMAIN order /\ mu = t
      /\ t \notin OpenOrders /\ t \notin QueueIds(rested) /\ t \notin BookIds
      /\ order[t].status = "open"
      /\ \A x \in Orders : x # t => pc[x] \notin {"match", "readd"}
  BY <1>1, HolderFacts
<1>t. TypeOK'  BY DEF EngineInv
<1>2. /\ DOMAIN order \subseteq Orders
      /\ pc \in [Orders -> {"idle", "lock", "match", "readd", "emit", "done"}]
      /\ QueueIds(rested) \subseteq DOMAIN order /\ rested \in Seq(DOMAIN order)
  BY <1>0, IdsType DEF TypeOK
<1>3. pc'[t] \in {"emit", "done"} /\ \A x \in Orders : x # t => pc'[x] = pc[x]
  BY <1>1, <1>2 DEF EmitNext
<1>4. /\ PlacesKept /\ DOMAIN order' = DOMAIN order
      /\ \A x \in DOMAIN order \ {t} : order'[x] = order[x]
      /\ order'[t].status = st
      /\ order'[t].filled = order[t].filled /\ order'[t].qty = order[t].qty
  BY <1>0, <1>1, StatusEffect
<1>s. st = IF order[t].filled > 0 THEN "partially_filled" ELSE "open"  BY <1>0
<1> HIDE DEF st
<1>5. order[t].filled # order[t].qty /\ Remaining(t)' = Remaining(t)
  <2>1. order[t] \in Order  BY <1>0 DEF TypeOK
  <2>2. order[t].qty \in 1..MaxQty /\ order[t].filled \in 0..MaxQty  BY <2>1 DEF Order
  <2>3. order[t].qty - order[t].filled > 0  BY <1>1 DEF Remaining
  <2>4. Remaining(t)' = Remaining(t)  BY ONLY <1>4 DEF Remaining
  <2> QED BY ONLY <2>2, <2>3, <2>4
<1>6. OpenOrders' = OpenOrders \cup {t}
  <2>1. ASSUME NEW x \in DOMAIN order, x # t
        PROVE  x \in OpenOrders' <=> x \in OpenOrders
    <3>1. order'[x] = order[x] /\ pc'[x] = pc[x]  BY <1>2, <1>3, <1>4, <2>1
    <3> QED BY ONLY <1>4, <3>1 DEF OpenOrders, Remaining
  <2>2. t \in OpenOrders'
    <3>1. Remaining(t)' > 0  BY <1>1, <1>5
    <3>2. order'[t].status # "cancelled"  BY <1>4, <1>s
    <3> QED BY ONLY <1>0, <1>3, <1>4, <3>1, <3>2 DEF OpenOrders
  <2>3. OpenOrders' \subseteq DOMAIN order /\ OpenOrders \subseteq DOMAIN order
    BY <1>4 DEF OpenOrders
  <2> QED BY ONLY <1>0, <2>1, <2>2, <2>3
<1>7. /\ BookShape' /\ BookIds' = BookIds \cup {t}
      /\ \A s \in Sides, p \in Prices : \A a, b :
           Ahead(Queue(s, p)', a, b) => Ahead(Queue(s, p), a, b) \/ b = t
  BY <1>0, <1>1, <1>t, <1>4, BookJoined
<1>n. \A x \in Orders : pc'[x] \notin {"match", "readd"} /\ x # NoOne
  BY <1>0, <1>3, EngineAssumption
<1>8. CallsInv'
  <2>1. \A x \in Orders : pc'[x] \in {"match", "readd"} <=> mu' = x
    BY ONLY <1>1, <1>n
  <2>2. ASSUME NEW x \in Orders, pc'[x] \in {"lock", "match", "readd"}
        PROVE  order'[x].status = "open"
    <3>1. x # t /\ pc[x] = pc'[x]  BY <1>3, <2>2
    <3>2. order[x].status = "open"  BY ONLY <1>0, <2>2, <3>1 DEF CallsInv
    <3>3. x \in DOMAIN order
      BY <1>0, <2>2, <3>1 DEF EngineInv, CallsAreBacked
    <3> QED BY <1>4, <3>1, <3>2, <3>3
  <2>3. StatusTellsTheFill'
    <3>1. ASSUME NEW x \in DOMAIN order', pc'[x] \in {"emit", "done"},
                 order'[x].status # "cancelled"
          PROVE  order'[x].status = IF order'[x].filled = order'[x].qty THEN "filled"
                                    ELSE IF order'[x].filled > 0 THEN "partially_filled"
                                    ELSE "open"
      <4>1. CASE x = t  BY <1>4, <1>5, <1>s, <4>1
      <4>2. CASE x # t
        <5>1. order'[x] = order[x] /\ pc'[x] = pc[x] /\ x \in DOMAIN order
          BY <1>2, <1>3, <1>4, <4>2
        <5> QED BY ONLY <1>0, <3>1, <5>1 DEF CallsInv, StatusTellsTheFill
      <4> QED BY <4>1, <4>2
    <3> QED BY ONLY <3>1 DEF StatusTellsTheFill
  <2> QED BY ONLY <2>1, <2>2, <2>3 DEF CallsInv
<1>9. SkippedInv'
  <2>1. BookIds \cup QueueIds(skipped) = OpenOrders /\ QueueIds(skipped) = {}
    BY <1>0, <1>1, EmptyQueue DEF SkippedInv
  <2>2. BookIds' \cup QueueIds(skipped') = OpenOrders' /\ skipped' = <<>>
    BY ONLY <1>1, <1>6, <1>7, <2>1, EmptyQueue
  <2> QED BY ONLY <2>2, EmptyQueue DEF SkippedInv
<1>p. \A x \in DOMAIN order : order[x].price \in Int /\ order[x].side \in Sides
  BY <1>0, PricesAreInts DEF TypeOK, Order
<1>10. CrossInv'
  <2>1. \A x \in DOMAIN order' : pc'[x] # "readd"  BY <1>2, <1>4, <1>n
  <2>2. \A o \in OpenOrders : order[o].side = Opposite(order[t].side) /\ Crosses(t, o)
          => order[o].user = order[t].user
    BY ONLY <1>0, <1>1 DEF CrossInv
  <2>3. ASSUME NEW b \in OpenOrders', NEW a \in OpenOrders',
               order'[b].side = "buy", order'[a].side = "sell",
               order'[b].price >= order'[a].price
        PROVE  order'[b].user = order'[a].user
    <3>1. a \in DOMAIN order /\ b \in DOMAIN order
      BY <1>0, <1>6, OpenOrdersType
    <3>2. /\ order'[a].user = order[a].user /\ order'[b].user = order[b].user
          /\ order[b].side = "buy" /\ order[a].side = "sell"
          /\ order[b].price >= order[a].price
      BY <1>4, <2>3, <3>1 DEF PlacesKept
    <3>3. CASE a # t /\ b # t
      <4>1. a \in OpenOrders /\ b \in OpenOrders  BY <1>6, <3>3
      <4> QED BY ONLY <1>0, <3>2, <4>1 DEF CrossInv
    <3>4. CASE b = t
      <4>1. a \in OpenOrders  BY <1>6, <3>2, <3>4
      <4>2. order[a].side = Opposite(order[t].side) /\ Crosses(t, a)
        BY <3>2, <3>4 DEF Opposite, Crosses
      <4> QED BY <2>2, <3>2, <3>4, <4>1, <4>2
    <3>5. CASE a = t
      <4>1. b \in OpenOrders  BY <1>6, <3>2, <3>5
      <4>2. order[t].price <= order[b].price  BY <1>p, <3>1, <3>2, <3>5
      <4>3. order[b].side = Opposite(order[t].side) /\ Crosses(t, b)
        BY <3>2, <3>5, <4>2 DEF Opposite, Crosses
      <4> QED BY <2>2, <3>2, <3>5, <4>1, <4>3
    <3> QED BY <3>3, <3>4, <3>5
  <2> QED BY ONLY <2>1, <2>3 DEF CrossInv
<1>11. RestedInv'
  <2>1. /\ Once(rested) /\ OpenOrders \subseteq QueueIds(rested)
        /\ \A x \in QueueIds(rested) : pc[x] \in {"emit", "done"}
    BY <1>0 DEF RestedInv
  <2>2. QueueIds(rested') = QueueIds(rested) \cup {t} /\ Once(rested')
    BY ONLY <1>0, <1>1, <1>2, <2>1, AppendQueue
  <2>3. /\ Place(rested', t) = Len(rested) + 1
        /\ \A x \in QueueIds(rested) : Place(rested', x) = Place(rested, x)
        /\ \A x \in QueueIds(rested') : ~ (Len(rested) + 1 < Place(rested', x))
    BY ONLY <1>0, <1>1, <1>2, <2>1, PlaceLast
  <2>4. \A x : RestedAt(x) = Place(rested, x) /\ RestedAt(x)' = Place(rested', x)
    BY DEF RestedAt, Place
  <2>5. ASSUME NEW s \in Sides, NEW p \in Prices, NEW a \in DOMAIN order,
               NEW b \in DOMAIN order,
               Ahead(Queue(s, p)', a, b), RestedAt(b)' < RestedAt(a)'
        PROVE  b \in requeued
    <3>1. a \in QueueIds(rested')
      <4>1. a \in QueueIds(Queue(s, p)')  BY <2>5 DEF Ahead, QueueIds
      <4>2. a \in BookIds'  BY <1>t, <1>7, <4>1, NextBookIdsAt DEF BookShape
      <4>3. BookIds \subseteq OpenOrders  BY <1>0 DEF SkippedInv
      <4> QED BY ONLY <1>7, <2>1, <2>2, <4>2, <4>3
    <3>2. b # t  BY ONLY <2>3, <2>4, <2>5, <3>1
    <3>3. Ahead(Queue(s, p), a, b)  BY <1>7, <2>5, <3>2
    <3>4. a \in QueueIds(rested) /\ b \in QueueIds(rested)
      <4>1. a \in QueueIds(Queue(s, p)) /\ b \in QueueIds(Queue(s, p))
        BY <3>3 DEF Ahead, QueueIds
      <4>2. a \in BookIds /\ b \in BookIds  BY <1>0, <4>1, BookIdsAt DEF BookShape
      <4>3. BookIds \subseteq OpenOrders  BY <1>0 DEF SkippedInv
      <4> QED BY ONLY <2>1, <4>2, <4>3
    <3>5. RestedAt(b) < RestedAt(a)  BY ONLY <2>3, <2>4, <2>5, <3>4
    <3> QED BY ONLY <1>0, <3>3, <3>5, s \in Sides, p \in Prices,
                    a \in DOMAIN order, b \in DOMAIN order DEF RestedInv
  <2>6. \A x \in QueueIds(rested') : pc'[x] \in {"emit", "done"}
    BY <1>2, <1>3, <2>1, <2>2
  <2>7. OpenOrders' \subseteq QueueIds(rested')  BY <1>6, <2>1, <2>2
  <2> QED BY ONLY <1>1, <1>4, <2>2, <2>5, <2>6, <2>7 DEF RestedInv
<1> QED BY <1>7, <1>8, <1>9, <1>10, <1>11 DEF BookInv

-----------------------------------------------------------------------------

LEMMA InitBook == Init => BookInv
<1> SUFFICES ASSUME Init PROVE BookInv  OBVIOUS
<1>1. /\ order = <<>> /\ mu = NoOne /\ skipped = <<>> /\ rested = <<>> /\ index = {}
      /\ \A s \in Sides : book[s] = <<>>
      /\ \A o \in Orders : pc[o] = "idle"
  BY DEF Init
<1>2. DOMAIN order = {}  BY <1>1
<1>3. EngineInv  BY InitEngineInv
<1>4. \A s \in Sides, p \in Prices : Queue(s, p) = <<>>
  BY <1>1 DEF Queue, QueueAt
<1>5. SlicesInv  BY <1>1 DEF SlicesInv, Sorted, Full
<1>6. QueuesInv  BY ONLY <1>4, EmptyQueue DEF QueuesInv
<1>7. BookIds = {}
  <2>1. book["buy"] = <<>> /\ book["sell"] = <<>>  BY <1>1 DEF Sides
  <2> QED BY ONLY <2>1 DEF BookIds, LevelIds
<1>8. BookShape  BY <1>1, <1>5, <1>6, <1>7 DEF BookShape, IndexMatchesBook
<1>9. OpenOrders = {}  BY <1>2 DEF OpenOrders
<1>10. CallsInv
  <2>1. \A o \in Orders : o # NoOne  BY EngineAssumption
  <2> QED BY ONLY <1>1, <1>2, <2>1 DEF CallsInv, StatusTellsTheFill
<1>11. SkippedInv  BY ONLY <1>1, <1>7, <1>9, EmptyQueue DEF SkippedInv
<1>12. CrossInv  BY ONLY <1>2, <1>9 DEF CrossInv
<1>13. RestedInv  BY ONLY <1>1, <1>2, <1>9, EmptyQueue DEF RestedInv
<1> QED BY <1>3, <1>8, <1>10, <1>11, <1>12, <1>13 DEF BookInv

LEMMA NextBook == BookInv /\ [Next]_vars => BookInv'
<1> SUFFICES ASSUME BookInv, [Next]_vars PROVE BookInv'  OBVIOUS
<1>0. EngineInv /\ EngineInv'  BY NextInv DEF BookInv
<1>1. ASSUME NEW o \in Orders, NEW r \in Requests,
             Submit(o, r.user, r.side, r.price, r.qty)
      PROVE  BookInv'
  BY <1>0, <1>1, SubmitBook DEF EngineInv
<1>2. ASSUME NEW o \in Orders, Acquire(o) PROVE BookInv'
  BY <1>0, <1>2, AcquireBook
<1>3. ASSUME NEW o \in Orders, HolderStep(o) PROVE BookInv'
  BY <1>0, <1>3, SkipOwnBook, ExecuteBook, StopMatchingBook, ReAddBook, RestBook,
     CompleteBook DEF HolderStep
<1>4. ASSUME NEW o \in Orders, Emit(o) PROVE BookInv'
  <2>1. /\ UNCHANGED <<order, book, index, rested, requeued>>
        /\ mu' = mu /\ skipped' = skipped
        /\ pc[o] = "emit" /\ pc' = [pc EXCEPT ![o] = EmitNext(outbox'[o])]
    BY <1>4 DEF Emit, bookVars, history
  <2>2. pc \in [Orders -> {"idle", "lock", "match", "readd", "emit", "done"}]
    BY <1>0 DEF EngineInv, TypeOK
  <2>3. \A x \in Orders : \/ pc'[x] = pc[x]
                          \/ pc[x] = "emit" /\ pc'[x] \in {"emit", "done"}
    BY ONLY <2>1, <2>2 DEF EmitNext
  <2> QED BY <1>0, <2>1, <2>3, QuietBook
<1>5. ASSUME NEW o \in Orders, Cancel(o) PROVE BookInv'
  BY <1>0, <1>5, CancelBook
<1>6. ASSUME NEW s \in Subscribers, Receive(s) PROVE BookInv'
  BY <1>0, <1>6, QuietBook DEF Receive, bookVars, history
<1>7. CASE UNCHANGED vars
  BY <1>0, <1>7, QuietBook DEF vars
<1> QED BY <1>1, <1>2, <1>3, <1>4, <1>5, <1>6, <1>7 DEF Next

\* Every state of the engine satisfies BookInv.
THEOREM BookInvariant == Spec => []BookInv
<1> QED BY InitBook, NextBook, PTL DEF Spec

LEMMA InvLevelsWellFormed == BookInv => LevelsWellFormed
<1> SUFFICES ASSUME BookInv PROVE LevelsWellFormed  OBVIOUS
<1>0. TypeOK /\ SlicesInv /\ QueuesInv  BY DEF BookInv, BookShape, EngineInv
<1>1. ASSUME NEW s \in Sides
      PROVE  Sorted(s, book[s]) /\ Full(book[s])
  BY <1>0 DEF SlicesInv
<1>2. ASSUME NEW s \in Sides, NEW i \in 1..Len(book[s]),
             NEW o \in QueueIds(book[s][i].queue)
      PROVE  order[o].side = s /\ order[o].price = book[s][i].price
  <2> DEFINE p == book[s][i].price
  <2>1. book[s] \in Seq(LevelType(DOMAIN order, Prices))  BY <1>0, SlicesType
  <2>2. p \in Prices /\ QueueAt(book[s], p) = book[s][i].queue
    BY <1>1, <2>1, LevelParts, QueueAtLevel, PricesAreInts
  <2> HIDE DEF p
  <2>3. order[o].side = s /\ order[o].price = p
    BY <1>0, <2>2 DEF QueuesInv, Queue
  <2> QED BY <2>3 DEF p
<1> QED BY ONLY <1>1, <1>2 DEF LevelsWellFormed, Sorted, Full

\* At every moment, in the middle of a match or of a cancel too, the slices
\* are sorted with no empty level, an order stands on its own side at its own
\* price, and the maps hold exactly the orders in the queues: no schedule makes
\* sort.Search miss a level or CancelOrder reach the line that "should not" be
\* reached (orderbook.go:68-115, 128-152).
THEOREM BookIsWellFormed == Spec => []BookWellFormed
<1>1. BookInv => BookWellFormed
  BY InvLevelsWellFormed DEF BookInv, BookShape, BookWellFormed
<1> QED BY <1>1, BookInvariant, PTL

\* Whenever the mutex is free, no open order is lost and no closed one is left
\* behind, nobody on the book could trade with anybody else, and orders say how
\* much of them is filled (engine.go:81-105, 223-228).
THEOREM BookRestsInOrder == Spec => []BookAtRest
<1>1. BookInv => BookAtRest
  <2> SUFFICES ASSUME BookInv PROVE BookAtRest  OBVIOUS
  <2>0. /\ TypeOK /\ BookShape /\ CallsInv /\ SkippedInv /\ CrossInv
    BY DEF BookInv, EngineInv
  <2>1. BookIsTheOpenOrders
    <3>1. mu = NoOne => QueueIds(skipped) = {}
      BY <2>0, EmptyQueue DEF SkippedInv
    <3> QED BY <2>0, <3>1 DEF BookIsTheOpenOrders, SkippedInv
  <2>2. ASSUME mu = NoOne, NEW b \in LevelIds(book["buy"]), NEW a \in LevelIds(book["sell"]),
               order[b].price >= order[a].price
        PROVE  order[b].user = order[a].user
    <3>1. ASSUME NEW s \in Sides, NEW o \in LevelIds(book[s])
          PROVE  order[o].side = s
      BY InvLevelsWellFormed DEF LevelsWellFormed, LevelIds
    <3>2. order[b].side = "buy" /\ order[a].side = "sell"
      BY <3>1 DEF Sides
    <3>3. b \in OpenOrders /\ a \in OpenOrders
      BY <2>1, <2>2 DEF BookIsTheOpenOrders, BookIds
    <3> QED BY ONLY <2>0, <2>2, <3>2, <3>3 DEF CrossInv
  <2>3. StatusTellsTheFill  BY <2>0 DEF CallsInv
  <2> QED BY <2>1, <2>2, <2>3 DEF BookAtRest, UncrossedExceptOwn
<1> QED BY <1>1, BookInvariant, PTL

\* Only an order that self-trade prevention put back can stand behind one that
\* came to rest after it (engine.go:163-165, 223-225).
THEOREM OthersKeepTheirPlace == Spec => []OnlySkippedLosePlace
<1>1. BookInv => OnlySkippedLosePlace
  <2> SUFFICES ASSUME BookInv, NEW s \in Sides, NEW i \in 1..Len(book[s]),
                      NEW j \in 1..Len(book[s][i].queue),
                      NEW k \in 1..Len(book[s][i].queue), j < k,
                      RestedAt(book[s][i].queue[k]) < RestedAt(book[s][i].queue[j])
               PROVE  book[s][i].queue[k] \in requeued
    BY DEF OnlySkippedLosePlace
  <2>0. TypeOK /\ BookShape /\ SlicesInv /\ RestedInv
    BY DEF BookInv, BookShape, EngineInv
  <2> DEFINE p == book[s][i].price
             a == book[s][i].queue[j]
             b == book[s][i].queue[k]
  <2>1. book[s] \in Seq(LevelType(DOMAIN order, Prices)) /\ Sorted(s, book[s])
    BY <2>0, SlicesType DEF SlicesInv
  <2>2. p \in Prices /\ QueueAt(book[s], p) = book[s][i].queue
    BY <2>1, LevelParts, QueueAtLevel, PricesAreInts
  <2>3. Ahead(Queue(s, p), a, b)
    BY ONLY <2>2, j < k, j \in 1..Len(book[s][i].queue), k \in 1..Len(book[s][i].queue)
       DEF Queue, Ahead
  <2>4. RestedAt(b) < RestedAt(a)  OBVIOUS
  <2> HIDE DEF p, a, b
  <2>5. a \in DOMAIN order /\ b \in DOMAIN order
    BY <2>0, <2>2, <2>3, AheadArePlaced
  <2>6. b \in requeued
    BY ONLY <2>0, <2>2, <2>3, <2>4, <2>5, s \in Sides DEF RestedInv
  <2> QED BY <2>6 DEF b
<1> QED BY <1>1, BookInvariant, PTL

\* The order a taker meets is the best there is for it.
LEMMA ExecutePriority ==
  ASSUME BookInv, NEW t \in Orders, Execute(t)
  PROVE  LET tr    == trades'[Len(trades')]
             s     == order[tr.maker].side
             other == {o \in LevelIds(book[s]) : order[o].user # order[tr.taker].user}
         IN  /\ RespectsLimits(tr)
             /\ tr.maker \in other
             /\ \A o \in other \ {tr.maker} :
                  \/ Better(s, order[tr.maker].price, order[o].price)
                  \/ /\ order[o].price = order[tr.maker].price
                     /\ Ahead(QueueAt(book[s], order[o].price), tr.maker, o)
<1> DEFINE m   == BestOrder(OppositeLevels(t))
           qty == MatchQty(t, m)
           new == [maker |-> m, taker |-> t, price |-> order[m].price, qty |-> qty]
           tr  == trades'[Len(trades')]
           s   == Opposite(order[t].side)
<1>1. /\ pc[t] = "match" /\ CanMatch(t) /\ order[t].user # order[m].user
      /\ trades' = Append(trades, new)
  BY DEF Execute
<1>0. /\ EngineInv /\ TypeOK /\ BookShape /\ SlicesInv /\ QueuesInv /\ SkippedInv
      /\ t \in DOMAIN order
  BY <1>1, HolderFacts DEF BookShape
<1>2. trades \in Seq(Trade)  BY <1>0 DEF TypeOK
<1>3. tr = new
  <2> HIDE DEF new
  <2>1. Len(trades') = Len(trades) + 1 /\ trades'[Len(trades) + 1] = new
    BY <1>1, <1>2, AppendProperties
  <2> QED BY <2>1
<1>4. tr.maker = m /\ tr.taker = t /\ tr.price = order[m].price /\ tr.qty = qty
  BY ONLY <1>3
<1> HIDE DEF tr, new
<1>5. /\ s \in Sides /\ m \in DOMAIN order /\ m \in LevelIds(book[s])
      /\ order[m].side = s /\ order[m].price \in Prices /\ m \in BookIds
      /\ \A o \in BookIds \ {m} : order[o].side = s =>
           \/ Better(s, order[m].price, order[o].price)
           \/ order[o].price = order[m].price /\ Ahead(Queue(s, order[m].price), m, o)
  BY <1>0, <1>1, BestFacts
<1>6. qty > 0
  <2>1. Remaining(t) > 0 /\ Remaining(m) > 0
    BY <1>0, <1>1, <1>5 DEF CanMatch, SkippedInv, OpenOrders
  <2> HIDE DEF m
  <2> QED BY ONLY <2>1 DEF MatchQty, Smaller, qty
<1>7. Crosses(t, m) /\ order[t].side \in Sides
  BY <1>0, <1>1 DEF CanMatch, TypeOK, Order
<1>8. order[t].price \in Int /\ order[m].price \in Int
  BY <1>0, <1>5, PricesAreInts DEF TypeOK, Order
<1> HIDE DEF m, qty
<1>9. RespectsLimits(tr)
  <2>1. order[m].side # order[t].side
    BY <1>5, <1>7 DEF Opposite, Sides
  <2>2. IF order[t].side = "buy"
        THEN order[m].price <= tr.price /\ tr.price <= order[t].price
        ELSE order[t].price <= tr.price /\ tr.price <= order[m].price
    BY ONLY <1>4, <1>7, <1>8 DEF Crosses
  <2> QED BY ONLY <1>1, <1>4, <1>6, <2>1, <2>2 DEF RespectsLimits
<1>10. ASSUME NEW o \in LevelIds(book[s]), o # m
       PROVE  \/ Better(s, order[m].price, order[o].price)
              \/ /\ order[o].price = order[m].price
                 /\ Ahead(QueueAt(book[s], order[o].price), m, o)
  <2>1. order[o].side = s
    BY <1>5, InvLevelsWellFormed DEF LevelsWellFormed, LevelIds
  <2>2. o \in BookIds  BY <1>5 DEF BookIds, Sides
  <2> QED BY ONLY <1>5, <1>10, <2>1, <2>2 DEF Queue
<1>11. order[tr.maker].side = s /\ tr.maker \in LevelIds(book[s])
       /\ order[tr.maker].user # order[tr.taker].user
  BY ONLY <1>1, <1>4, <1>5
<1> QED BY ONLY <1>4, <1>9, <1>10, <1>11 DEF tr

\* Price-time priority: a trade consumes, of the resting orders of other users,
\* one with the best price, and at that price the first in the queue, and never
\* at a price that a limit excludes, for any number of orders, users and prices
\* and whatever was skipped, put back or cancelled before (engine.go:143-190).
THEOREM TradesHavePriority == Spec => PriceTimePriority
<1> DEFINE Fair(tr) ==
      LET s     == order[tr.maker].side
          other == {o \in LevelIds(book[s]) : order[o].user # order[tr.taker].user}
      IN  /\ RespectsLimits(tr)
          /\ tr.maker \in other
          /\ \A o \in other \ {tr.maker} :
               \/ Better(s, order[tr.maker].price, order[o].price)
               \/ /\ order[o].price = order[tr.maker].price
                  /\ Ahead(QueueAt(book[s], order[o].price), tr.maker, o)
<1>1. ASSUME BookInv, [Next]_vars, trades' # trades
      PROVE  Fair(trades'[Len(trades')])
  <2>1. \E t \in Orders : Execute(t)
    BY <1>1 DEF Next, vars, Submit, Acquire, HolderStep, SkipOwn, StopMatching, ReAdd,
       Rest, Complete, Emit, Cancel, TakeOff, Receive
  <2> QED BY <1>1, <2>1, ExecutePriority
<1>2. BookInv /\ [Next]_vars => [trades' # trades => Fair(trades'[Len(trades')])]_vars
  BY <1>1
<1> QED BY <1>2, BookInvariant, PTL DEF Spec, PriceTimePriority

-----------------------------------------------------------------------------
(* The engine implements PriceBook.                                        *)

AbstractQueue == [s \in Sides |-> [p \in Prices |-> QueueAt(book[s], p)]]

Withdrawn == {o \in DOMAIN order : order[o].status = "cancelled"}

\* One queue that changes is one queue of the abstract book that changes.
LEMMA AbstractQueueBecomes ==
  ASSUME NEW s \in Sides, NEW p \in Prices, NEW q, QueueBecomes(s, p, q)
  PROVE  AbstractQueue' = [AbstractQueue EXCEPT ![s][p] = q]
BY DEF AbstractQueue, QueueBecomes, Queue

LEMMA AbstractWaiting ==
  ASSUME TypeOK, SlicesInv, NEW o \in Orders
  PROVE  o \in PB!Waiting <=> o \in BookIds
<1>1. o \in PB!Waiting <=>
        \E s \in Sides, p \in Prices : \E i \in 1..Len(Queue(s, p)) : Queue(s, p)[i] = o
  BY DEF PB!Waiting, PB!Sides, PB!Prices, Sides, Prices, Queue
<1>2. o \in BookIds <=> \E s \in Sides, p \in Prices : o \in QueueIds(Queue(s, p))
  BY BookIdsAt
<1> QED BY ONLY <1>1, <1>2 DEF QueueIds

\* An order that joins the back of its queue.
LEMMA AbstractJoin ==
  ASSUME TypeOK, BookShape, NEW o \in DOMAIN order, o \notin BookIds, PutOnBook(o),
         o \notin Withdrawn, Withdrawn' = Withdrawn
  PROVE  PB!Next
<1> DEFINE s == order[o].side
           p == order[o].price
<1>1. /\ s \in Sides /\ p \in Prices
      /\ QueueBecomes(s, p, Append(Queue(s, p), o))
  BY PutOnBookEffect DEF BookShape
<1>2. o \in Orders  BY DEF TypeOK
<1>3. o \notin PB!Waiting  BY <1>2, AbstractWaiting DEF BookShape
<1> HIDE DEF s, p
<1>4. AbstractQueue' = [AbstractQueue EXCEPT ![s][p] = Append(Queue(s, p), o)]
  BY <1>1, AbstractQueueBecomes
<1>5. AbstractQueue[s][p] = Queue(s, p)  BY <1>1 DEF AbstractQueue, Queue
<1>6. AbstractQueue' = [AbstractQueue EXCEPT ![s][p] = Append(@, o)]
  BY <1>1, <1>4, <1>5
<1>7. PB!Join(s, p, o)
  BY <1>3, <1>6 DEF PB!Join, AbstractQueue, Withdrawn
<1> QED BY <1>1, <1>2, <1>7 DEF PB!Next, PB!Sides, PB!Prices, Sides, Prices

\* The front of the best price is served.
LEMMA AbstractServe ==
  ASSUME TypeOK, BookShape, NEW t \in DOMAIN order, CanMatch(t), TakeBestOff(t),
         Withdrawn' = Withdrawn
  PROVE  PB!Next
<1> DEFINE m == BestOrder(OppositeLevels(t))
           s == Opposite(order[t].side)
           p == order[m].price
<1>0. SlicesInv /\ QueuesInv  BY DEF BookShape
<1>1. /\ s \in Sides /\ p \in Prices /\ Queue(s, p) # <<>>
      /\ \A o \in BookIds \ {m} : order[o].side = s =>
           Better(s, p, order[o].price) \/ order[o].price = p
  BY <1>0, BestFacts
<1>2. QueueBecomes(s, p, Tail(Queue(s, p)))
  BY <1>0, TakeBestOffEffect
<1>m. p = order[m].price  OBVIOUS
<1> HIDE DEF m, s, p
<1>3. \A x \in Prices : AbstractQueue[s][x] = Queue(s, x)
  BY <1>1 DEF AbstractQueue, Queue
<1>4. ASSUME NEW x \in Prices, Queue(s, x) # <<>>
      PROVE  x = p \/ Better(s, p, x)
  <2>1. Queue(s, x) \in Seq(DOMAIN order)  BY <1>0, <1>1, QueueType
  <2>2. PICK o : o \in QueueIds(Queue(s, x))
    <3>1. 1 \in 1..Len(Queue(s, x))  BY <1>4, <2>1, EmptySeq
    <3> QED BY <3>1 DEF QueueIds
  <2>3. o \in BookIds /\ order[o].side = s /\ order[o].price = x
    BY <1>0, <1>1, <2>2, BookIdsPlace
  <2> QED BY ONLY <1>1, <1>m, <2>3
<1>5. p \in Int /\ \A x \in Prices : x \in Int  BY <1>1, PricesAreInts
<1>6. PB!Best(s) = p
  <2> DEFINE live == {x \in Prices : Queue(s, x) # <<>>}
             B(x) == \A y \in live : IF s = "buy" THEN x >= y ELSE x <= y
  <2>1. PB!Best(s) = CHOOSE x \in live : B(x)
    BY <1>3 DEF PB!Best, PB!Prices, Prices, AbstractQueue
  <2>2. p \in live /\ B(p)
    BY <1>1, <1>4, <1>5 DEF Better, Sides
  <2>3. ASSUME NEW x \in live, B(x)  PROVE x = p
    <3>1. x \in Int /\ p \in live  BY <1>5, <2>2
    <3> QED BY <1>5, <2>2, <2>3, <3>1
  <2> HIDE DEF live, B
  <2> QED BY <2>1, <2>2, <2>3
<1>7. AbstractQueue' = [AbstractQueue EXCEPT ![s][p] = Tail(Queue(s, p))]
  BY <1>1, <1>2, AbstractQueueBecomes
<1>8. AbstractQueue' = [AbstractQueue EXCEPT ![s][PB!Best(s)] = Tail(@)]
  BY <1>1, <1>3, <1>6, <1>7
<1>9. \E x \in Prices : AbstractQueue[s][x] # <<>>  BY <1>1, <1>3
<1>10. PB!ServeBest(s)
  BY <1>8, <1>9 DEF PB!ServeBest, PB!Prices, Prices, AbstractQueue, Withdrawn
<1> QED BY <1>1, <1>10 DEF PB!Next, PB!Sides, Sides

\* A cancelled order is withdrawn.
LEMMA AbstractWithdraw ==
  ASSUME TypeOK, BookShape, NEW o, TakeOff(o)
  PROVE  PB!Next
<1> DEFINE s == order[o].side
           p == order[o].price
           q == Queue(s, p)
<1>0. SlicesInv /\ QueuesInv /\ IndexMatchesBook  BY DEF BookShape
<1>1. /\ o \in DOMAIN order /\ s \in Sides /\ p \in Prices
      /\ o \in QueueIds(q) /\ QueueBecomes(s, p, QueueRemove(q, o))
      /\ order' = [order EXCEPT ![o].status = "cancelled"]
  BY <1>0, TakeOffEffect
<1>2. q \in Seq(DOMAIN order) /\ Once(q)
  BY <1>0, <1>1, QueueType DEF QueuesInv
<1> HIDE DEF s, p, q
<1>3. \E i \in 1..Len(q) : q[i] = o /\ QueueRemove(q, o) = RemoveAt(q, i)
  BY ONLY <1>1, <1>2, RemoveQueue
<1>4. PICK i \in 1..Len(q) : q[i] = o /\ QueueRemove(q, o) = RemoveAt(q, i)  BY <1>3
<1>5. AbstractQueue[s][p] = q  BY <1>1 DEF AbstractQueue, Queue, q
<1>6. AbstractQueue' = [AbstractQueue EXCEPT ![s][p] = RemoveAt(q, i)]
  BY <1>1, <1>4, AbstractQueueBecomes
<1>7. AbstractQueue' = [AbstractQueue EXCEPT ![s][p] = PB!RemoveAt(@, i)]
  BY <1>1, <1>5, <1>6 DEF RemoveAt, PB!RemoveAt
<1>8. Withdrawn' = Withdrawn \cup {o}
  <2>1. /\ DOMAIN order' = DOMAIN order
        /\ \A x \in DOMAIN order \ {o} : order'[x] = order[x]
        /\ order'[o].status = "cancelled"
    BY <1>1, StatusEffect
  <2> QED BY ONLY <1>1, <2>1 DEF Withdrawn
<1>9. PB!Withdraw(s, p, o)
  BY <1>4, <1>5, <1>7, <1>8 DEF PB!Withdraw, AbstractQueue, Withdrawn
<1>10. o \in Orders  BY <1>1 DEF TypeOK
<1> QED BY <1>1, <1>9, <1>10 DEF PB!Next, PB!Sides, PB!Prices, Sides, Prices

LEMMA AbstractInit == Init => PB!Init
<1> SUFFICES ASSUME Init PROVE PB!Init  OBVIOUS
<1>1. \A s \in Sides, p \in Prices : QueueAt(book[s], p) = <<>>
  BY DEF Init, QueueAt
<1>2. Withdrawn = {}  BY DEF Init, Withdrawn
<1> QED BY <1>1, <1>2 DEF PB!Init, PB!Sides, PB!Prices, Sides, Prices, Withdrawn

\* Steps that leave the book alone and cancel nothing are not seen.
LEMMA AbstractStutter ==
  ASSUME book' = book, Withdrawn' = Withdrawn
  PROVE  UNCHANGED PB!vars
BY DEF PB!vars, Withdrawn

\* A step that changes the heap to other statuses than cancelled.
LEMMA WithdrawnKept ==
  ASSUME \A o \in DOMAIN order' : order'[o].status = "cancelled"
                                    <=> o \in DOMAIN order /\ order[o].status = "cancelled",
         DOMAIN order \subseteq DOMAIN order'
  PROVE  Withdrawn' = Withdrawn
BY DEF Withdrawn

LEMMA AbstractNext == BookInv /\ [Next]_vars => [PB!Next]_(PB!vars)
<1> SUFFICES ASSUME BookInv, [Next]_vars PROVE PB!Next \/ UNCHANGED PB!vars
  OBVIOUS
<1>0. TypeOK /\ BookShape /\ SkippedInv  BY DEF BookInv, EngineInv
<1>1. ASSUME NEW o \in Orders, NEW r \in Requests,
             Submit(o, r.user, r.side, r.price, r.qty)
      PROVE  UNCHANGED PB!vars
  <2>1. /\ o \notin DOMAIN order /\ book' = book
        /\ order' = [x \in DOMAIN order \cup {o} |->
                       IF x # o THEN order[x]
                       ELSE [user |-> r.user, side |-> r.side, price |-> r.price,
                             qty |-> r.qty, filled |-> 0, status |-> "open"]]
    BY <1>1 DEF Submit, bookVars
  <2>2. /\ DOMAIN order' = DOMAIN order \cup {o} /\ order'[o].status = "open"
        /\ \A x \in DOMAIN order : order'[x] = order[x]
    BY <2>1
  <2>3. Withdrawn' = Withdrawn  BY <2>1, <2>2, WithdrawnKept
  <2> QED BY <2>1, <2>3, AbstractStutter
<1>2. ASSUME book' = book, order' = order  PROVE UNCHANGED PB!vars
  BY <1>2, AbstractStutter DEF Withdrawn
<1>3. ASSUME NEW t \in Orders, SkipOwn(t)  PROVE PB!Next
  <2>1. pc[t] = "match" /\ CanMatch(t) /\ TakeBestOff(t) /\ order' = order
    BY <1>3 DEF SkipOwn
  <2>2. t \in DOMAIN order  BY <2>1, HolderFacts
  <2>3. Withdrawn' = Withdrawn  BY <2>1 DEF Withdrawn
  <2> QED BY <1>0, <2>1, <2>2, <2>3, AbstractServe
<1>4. ASSUME NEW t \in Orders, Execute(t)  PROVE PB!Next \/ UNCHANGED PB!vars
  <2> DEFINE m == BestOrder(OppositeLevels(t))
  <2>1. /\ pc[t] = "match" /\ CanMatch(t)
        /\ TakeBestOff(t) \/ UNCHANGED bookVars
    BY <1>4 DEF Execute
  <2>2. t \in DOMAIN order  BY <2>1, HolderFacts
  <2>3. /\ DOMAIN order' = DOMAIN order /\ m \in BookIds
        /\ order'[t].status = order[t].status
        /\ \A x \in DOMAIN order \ {t, m} : order'[x] = order[x]
        /\ order'[m].status = IF order'[m].filled = order'[m].qty
                              THEN "filled" ELSE "partially_filled"
    BY <1>4, ExecuteOpen
  <2>4. order[m].status # "cancelled"
    BY <1>0, <2>3 DEF SkippedInv, OpenOrders
  <2> HIDE DEF m
  <2>5. order'[m].status # "cancelled"  BY <2>3
  <2>6. Withdrawn' = Withdrawn  BY <2>2, <2>3, <2>4, <2>5, WithdrawnKept
  <2>7. CASE TakeBestOff(t)  BY <1>0, <2>1, <2>2, <2>6, <2>7, AbstractServe
  <2>8. CASE UNCHANGED bookVars  BY <2>6, <2>8, AbstractStutter DEF bookVars
  <2> QED BY <2>1, <2>7, <2>8
<1>5. ASSUME NEW t \in Orders, ReAdd(t)  PROVE PB!Next
  <2> DEFINE o == Head(skipped)
  <2>1. /\ skipped # <<>> /\ PutOnBook(o) /\ order' = order
    BY <1>5 DEF ReAdd
  <2>2. o \in QueueIds(skipped)
    <3>1. skipped \in Seq(DOMAIN order) /\ Once(skipped)
      BY <1>0 DEF TypeOK, SkippedInv
    <3> QED BY ONLY <2>1, <3>1, TailQueue
  <2>3. o \notin BookIds /\ o \in OpenOrders
    BY <1>0, <2>2 DEF SkippedInv
  <2>4. o \in DOMAIN order /\ o \notin Withdrawn
    BY <2>3 DEF OpenOrders, Withdrawn
  <2>5. Withdrawn' = Withdrawn  BY <2>1 DEF Withdrawn
  <2> HIDE DEF o
  <2> QED BY <1>0, <2>1, <2>3, <2>4, <2>5, AbstractJoin
<1>6. ASSUME NEW t \in Orders, Rest(t)  PROVE PB!Next
  <2> DEFINE st == IF order[t].filled > 0 THEN "partially_filled" ELSE order[t].status
  <2>1. pc[t] = "readd" /\ PutOnBook(t) /\ order' = [order EXCEPT ![t].status = st]
    BY <1>6 DEF Rest
  <2>2. t \in DOMAIN order /\ t \notin BookIds /\ order[t].status = "open"
    BY <2>1, HolderFacts
  <2>3. st # "cancelled"  BY <2>2
  <2> HIDE DEF st
  <2>4. /\ DOMAIN order' = DOMAIN order /\ order'[t].status = st
        /\ \A x \in DOMAIN order \ {t} : order'[x] = order[x]
    BY <1>0, <2>1, <2>2, StatusEffect
  <2>5. Withdrawn' = Withdrawn  BY <2>2, <2>3, <2>4, WithdrawnKept
  <2>6. t \notin Withdrawn  BY <2>2 DEF Withdrawn
  <2> QED BY <1>0, <2>1, <2>2, <2>5, <2>6, AbstractJoin
<1>7. ASSUME NEW t \in Orders, Complete(t)  PROVE UNCHANGED PB!vars
  <2>1. /\ pc[t] = "readd" /\ book' = book
        /\ order' = [order EXCEPT ![t].status = "filled"]
    BY <1>7 DEF Complete, bookVars
  <2>2. t \in DOMAIN order /\ order[t].status = "open"  BY <2>1, HolderFacts
  <2>3. /\ DOMAIN order' = DOMAIN order /\ order'[t].status = "filled"
        /\ \A x \in DOMAIN order \ {t} : order'[x] = order[x]
    BY <1>0, <2>1, <2>2, StatusEffect
  <2>4. Withdrawn' = Withdrawn  BY <2>2, <2>3, WithdrawnKept
  <2> QED BY <2>1, <2>4, AbstractStutter
<1>8. ASSUME NEW o \in Orders, Cancel(o)  PROVE PB!Next
  BY <1>0, <1>8, AbstractWithdraw DEF Cancel
<1>9. ASSUME NEW o \in Orders, HolderStep(o)  PROVE PB!Next \/ UNCHANGED PB!vars
  <2>1. ASSUME StopMatching(o) PROVE UNCHANGED PB!vars
    BY <1>2, <2>1 DEF StopMatching, bookVars
  <2> QED BY <1>3, <1>4, <1>5, <1>6, <1>7, <1>9, <2>1 DEF HolderStep
<1>10. ASSUME NEW o \in Orders, Acquire(o) \/ Emit(o)  PROVE UNCHANGED PB!vars
  BY <1>2, <1>10 DEF Acquire, Emit, bookVars
<1>11. ASSUME NEW s \in Subscribers, Receive(s)  PROVE UNCHANGED PB!vars
  BY <1>2, <1>11 DEF Receive, bookVars
<1>12. CASE UNCHANGED vars  BY <1>2, <1>12 DEF vars
<1> QED BY <1>1, <1>8, <1>9, <1>10, <1>11, <1>12 DEF Next

\* The engine implements PriceBook: whatever the slices, the maps and the
\* concurrent calls do, an order joins the back of the queue of its price, only
\* the front of the best price is consumed, and what is cancelled is the order
\* that leaves (orderbook.go:55-146, engine.go:136-228).
THEOREM EngineImplementsPriceBook == Spec => ImplementsPriceBook
<1>1. Init => PB!Init  BY AbstractInit
<1>2. BookInv /\ [Next]_vars => [PB!Next]_(PB!vars)  BY AbstractNext
<1> QED BY <1>1, <1>2, BookInvariant, PTL DEF Spec, PB!Spec, ImplementsPriceBook

-----------------------------------------------------------------------------
(* Quantities                                                              *)

\* Trades are between orders that were placed.
TradesArePlaced ==
  \A i \in 1..Len(trades) : /\ trades[i].maker \in DOMAIN order
                            /\ trades[i].taker \in DOMAIN order

\* Inductive: without TradesArePlaced a new order could meet a trade of its own.
FillsInv == EngineInv /\ TradesArePlaced /\ FillsAreTheTrades

FilledIn(T, o) == SumOf([i \in 1..Len(T) |-> Part(T[i], o)], 1..Len(T))

LEMMA PartType ==
  ASSUME NEW tr \in Trade, NEW o
  PROVE  Part(tr, o) \in Nat
BY EngineAssumption DEF Part, Trade

LEMMA FilledInAppend ==
  ASSUME NEW T \in Seq(Trade), NEW tr \in Trade, NEW o
  PROVE  /\ FilledIn(T, o) \in Nat
         /\ FilledIn(Append(T, tr), o) = FilledIn(T, o) + Part(tr, o)
<1> DEFINE n == Len(T)
           U == Append(T, tr)
           f == [i \in 1..n |-> Part(T[i], o)]
           g == [i \in 1..(n + 1) |-> Part(U[i], o)]
<1>1. /\ n \in Nat /\ Len(U) = n + 1 /\ U[n + 1] = tr
      /\ \A i \in 1..n : U[i] = T[i] /\ T[i] \in Trade
  BY AppendProperties, LenProperties, ElementOfSeq
<1>2. FilledIn(T, o) = SumOf(f, 1..n) /\ FilledIn(U, o) = SumOf(g, 1..(n + 1))
  BY <1>1 DEF FilledIn
<1>3. 1..(n + 1) = 1..n \cup {n + 1} /\ n + 1 \notin 1..n  BY <1>1
<1>4. \A i \in 1..n : f[i] \in Nat /\ g[i] = f[i] /\ g[i] \in Nat  BY <1>1, PartType
<1>5. g[n + 1] = Part(tr, o) /\ g[n + 1] \in Nat  BY <1>1, PartType
<1>6. IsFiniteSet(1..n)  BY <1>1, FS_Interval
<1> HIDE DEF n, U, f, g
<1>7. SumOf(g, 1..n \cup {n + 1}) = SumOf(g, 1..n) + g[n + 1]
  BY ONLY <1>3, <1>4, <1>5, <1>6, SumOfInsert
<1>8. SumOf(f, 1..n) = SumOf(g, 1..n)  BY ONLY <1>4, <1>6, SumOfSame
<1>9. SumOf(f, 1..n) \in Nat  BY ONLY <1>4, <1>6, SumOfNat
<1>10. FilledIn(U, o) = FilledIn(T, o) + Part(tr, o)
  BY ONLY <1>2, <1>3, <1>5, <1>7, <1>8
<1> QED BY ONLY <1>2, <1>9, <1>10 DEF U

LEMMA FilledInNone ==
  ASSUME NEW T \in Seq(Trade), NEW o,
         \A i \in 1..Len(T) : T[i].maker # o /\ T[i].taker # o
  PROVE  FilledIn(T, o) = 0
<1>1. Len(T) \in Nat  BY LenProperties
<1> DEFINE n == Len(T)
           f == [i \in 1..n |-> Part(T[i], o)]
<1>2. \A i \in 1..n : f[i] = 0  BY DEF Part
<1>3. IsFiniteSet(1..n)  BY <1>1, FS_Interval
<1>4. FilledIn(T, o) = SumOf(f, 1..n)  BY DEF FilledIn
<1> HIDE DEF n, f
<1> QED BY ONLY <1>2, <1>3, <1>4, SumOfZero

\* Fills are kept, and a new order has none.
FillsKept ==
  /\ trades' = trades
  /\ DOMAIN order \subseteq DOMAIN order'
  /\ \A x \in DOMAIN order : /\ order'[x].filled = order[x].filled
                             /\ order'[x].qty = order[x].qty
  /\ \A x \in DOMAIN order' \ DOMAIN order : order'[x].filled = 0

LEMMA StatusKeepsFills ==
  ASSUME EngineInv, NEW t \in DOMAIN order, NEW st, order' = [order EXCEPT ![t].status = st],
         trades' = trades
  PROVE  FillsKept
<1>1. order \in [DOMAIN order -> Order]  BY DEF EngineInv, TypeOK
<1>2. DOMAIN order' = DOMAIN order  OBVIOUS
<1>3. order[t] \in Order  BY <1>1
<1>4. \A x \in DOMAIN order : order'[x].filled = order[x].filled /\ order'[x].qty = order[x].qty
  BY <1>1, <1>3 DEF Order
<1> QED BY <1>2, <1>4 DEF FillsKept

\* Only the matching loop fills.
LEMMA OnlyExecuteFills ==
  ASSUME EngineInv, [Next]_vars
  PROVE  FillsKept \/ \E t \in DOMAIN order : Execute(t)
<1>1. ASSUME order' = order, trades' = trades PROVE FillsKept  BY <1>1 DEF FillsKept
<1>2. ASSUME NEW o \in Orders, NEW r \in Requests, Submit(o, r.user, r.side, r.price, r.qty)
      PROVE  FillsKept
  BY <1>2 DEF Submit, FillsKept
<1>3. ASSUME NEW t \in Orders, Rest(t) PROVE FillsKept
  <2>1. t \in DOMAIN order  BY <1>3 DEF Rest, EngineInv, CallsAreBacked
  <2>2. \E st : order' = [order EXCEPT ![t].status = st]  BY <1>3 DEF Rest
  <2> QED BY <1>3, <2>1, <2>2, StatusKeepsFills DEF Rest
<1>4. ASSUME NEW t \in Orders, Complete(t) PROVE FillsKept
  <2>1. t \in DOMAIN order  BY <1>4 DEF Complete, EngineInv, CallsAreBacked
  <2> QED BY <1>4, <2>1, StatusKeepsFills DEF Complete
<1>5. ASSUME NEW o \in Orders, Cancel(o) PROVE FillsKept
  <2>1. o \in DOMAIN order /\ trades' = trades
    BY <1>5 DEF Cancel, TakeOff, EngineInv, TypeOK
  <2>2. order' = order \/ order' = [order EXCEPT ![o].status = "cancelled"]
    BY <1>5 DEF Cancel, TakeOff
  <2> QED BY <1>1, <2>1, <2>2, StatusKeepsFills
<1>6. ASSUME NEW o \in Orders, Acquire(o) \/ SkipOwn(o) \/ StopMatching(o) \/ ReAdd(o) \/ Emit(o)
      PROVE  FillsKept
  BY <1>1, <1>6 DEF Acquire, SkipOwn, StopMatching, ReAdd, Emit
<1>7. ASSUME NEW s \in Subscribers, Receive(s) PROVE FillsKept
  BY <1>1, <1>7 DEF Receive
<1>8. ASSUME NEW t \in Orders, Execute(t) PROVE t \in DOMAIN order
  BY <1>8 DEF Execute, EngineInv, CallsAreBacked
<1>9. CASE UNCHANGED vars  BY <1>1, <1>9 DEF vars
<1>10. CASE Next
  BY <1>2, <1>3, <1>4, <1>5, <1>6, <1>7, <1>8, <1>10 DEF Next, HolderStep
<1> QED BY <1>9, <1>10

LEMMA ExecutePlaces ==
  ASSUME EngineInv, TradesArePlaced, NEW t \in DOMAIN order, Execute(t)
  PROVE  TradesArePlaced'
<1> DEFINE m  == BestOrder(OppositeLevels(t))
           tr == [maker |-> m, taker |-> t, price |-> order[m].price, qty |-> MatchQty(t, m)]
<1>1. /\ m \in DOMAIN order /\ MatchQty(t, m) \in 0..MaxQty /\ DOMAIN order' = DOMAIN order
  BY ExecuteEffect
<1>2. trades' = Append(trades, tr)  BY DEF Execute
<1>3. /\ tr \in Trade /\ tr.maker = m /\ tr.taker = t
      /\ trades \in Seq(Trade) /\ Len(trades) \in Nat
  BY <1>1, LenProperties DEF EngineInv, TypeOK, Trade, Order
<1> HIDE DEF m, tr
<1>4. /\ Len(trades') = Len(trades) + 1 /\ trades'[Len(trades) + 1] = tr
      /\ \A i \in 1..Len(trades) : trades'[i] = trades[i]
  BY <1>2, <1>3, AppendProperties
<1>5. ASSUME NEW i \in 1..Len(trades')
      PROVE  trades'[i].maker \in DOMAIN order' /\ trades'[i].taker \in DOMAIN order'
  <2>1. i \in 1..Len(trades) \/ i = Len(trades) + 1  BY <1>3, <1>4
  <2> QED BY <1>1, <1>3, <1>4, <2>1 DEF TradesArePlaced
<1> QED BY <1>5 DEF TradesArePlaced

LEMMA NextFills == FillsInv /\ EngineInv' /\ [Next]_vars => FillsInv'
<1> SUFFICES ASSUME FillsInv, EngineInv', [Next]_vars
             PROVE  TradesArePlaced' /\ FillsAreTheTrades'
  BY DEF FillsInv
<1>0. EngineInv /\ trades \in Seq(Trade) /\ Len(trades) \in Nat
  BY LenProperties DEF FillsInv, EngineInv, TypeOK
<1>1. CASE FillsKept
  <2>1. TradesArePlaced'  BY <1>1 DEF FillsInv, TradesArePlaced, FillsKept
  <2>2. ASSUME NEW o \in DOMAIN order' PROVE order'[o].filled = FilledBy(o)'
    <3>1. FilledBy(o)' = FilledIn(trades, o)  BY <1>1 DEF FillsKept, FilledBy, FilledIn
    <3>2. CASE o \in DOMAIN order
      <4>1. order[o].filled = FilledIn(trades, o)
        BY <3>2 DEF FillsInv, FillsAreTheTrades, FilledBy, FilledIn
      <4> QED BY <1>1, <3>1, <3>2, <4>1 DEF FillsKept
    <3>3. CASE o \notin DOMAIN order
      <4>1. \A i \in 1..Len(trades) : trades[i].maker # o /\ trades[i].taker # o
        BY <3>3 DEF FillsInv, TradesArePlaced
      <4>2. FilledIn(trades, o) = 0  BY ONLY <1>0, <4>1, FilledInNone
      <4> QED BY <1>1, <3>1, <3>3, <4>2 DEF FillsKept
    <3> QED BY <3>2, <3>3
  <2> QED BY <2>1, <2>2 DEF FillsAreTheTrades
<1>2. CASE \E t \in DOMAIN order : Execute(t)
  <2>0. PICK t \in DOMAIN order : Execute(t)  BY <1>2
  <2> DEFINE m   == BestOrder(OppositeLevels(t))
             qty == MatchQty(t, m)
             tr  == [maker |-> m, taker |-> t, price |-> order[m].price, qty |-> qty]
  <2>1. /\ m \in DOMAIN order /\ m # t /\ qty \in 0..MaxQty
        /\ DOMAIN order' = DOMAIN order
        /\ \A x \in DOMAIN order :
             order'[x] = [order[x] EXCEPT
               !.filled = IF x \in {t, m} THEN @ + qty ELSE @,
               !.status = IF x = m THEN MakerStatus(m, qty) ELSE @]
    BY <1>0, <2>0, ExecuteEffect
  <2>2. trades' = Append(trades, tr)  BY <2>0 DEF Execute
  <2>3. tr \in Trade /\ \A x \in DOMAIN order : order[x] \in Order
    BY <1>0, <2>1 DEF EngineInv, TypeOK, Trade, Order
  <2>4. tr.maker = m /\ tr.taker = t /\ tr.qty = qty  OBVIOUS
  <2> HIDE DEF m, qty, tr
  <2>5. TradesArePlaced'  BY <1>0, <2>0, ExecutePlaces DEF FillsInv
  <2>6. ASSUME NEW o \in DOMAIN order' PROVE order'[o].filled = FilledBy(o)'
    <3>1. o \in DOMAIN order  BY <2>1, <2>6
    <3>2. FilledBy(o)' = FilledIn(Append(trades, tr), o)  BY <2>2 DEF FilledBy, FilledIn
    <3>3. FilledIn(Append(trades, tr), o) = FilledIn(trades, o) + Part(tr, o)
          /\ FilledIn(trades, o) \in Nat
      BY ONLY <1>0, <2>3, FilledInAppend
    <3>4. order[o].filled = FilledIn(trades, o)
      BY <3>1 DEF FillsInv, FillsAreTheTrades, FilledBy, FilledIn
    <3>5. Part(tr, o) = IF o \in {t, m} THEN qty ELSE 0  BY <2>4 DEF Part
    <3>6. order'[o].filled = IF o \in {t, m} THEN order[o].filled + qty ELSE order[o].filled
      <4>1. order[o] \in Order  BY <2>3, <3>1
      <4>2. order'[o] = [order[o] EXCEPT
               !.filled = IF o \in {t, m} THEN @ + qty ELSE @,
               !.status = IF o = m THEN MakerStatus(m, qty) ELSE @]
        BY <2>1, <3>1
      <4> QED BY ONLY <4>1, <4>2 DEF Order
    <3>7. FilledBy(o)' = FilledIn(trades, o) + Part(tr, o)  BY ONLY <3>2, <3>3
    <3> QED BY ONLY <3>3, <3>4, <3>5, <3>6, <3>7
  <2> QED BY <2>5, <2>6 DEF FillsAreTheTrades
<1> QED BY <1>0, <1>1, <1>2, OnlyExecuteFills

LEMMA InitFills == Init => FillsInv
<1> SUFFICES ASSUME Init PROVE TradesArePlaced /\ FillsAreTheTrades
  BY InitEngineInv DEF FillsInv
<1>1. DOMAIN order = {} /\ trades = <<>>  BY DEF Init
<1>2. 1..Len(trades) = {}  BY <1>1
<1>3. TradesArePlaced  BY ONLY <1>2 DEF TradesArePlaced
<1>4. FillsAreTheTrades  BY ONLY <1>1 DEF FillsAreTheTrades
<1> QED BY <1>3, <1>4

\* An order's filled quantity is the sum of its trades, however many takers
\* met it and whatever was skipped or cancelled meanwhile (engine.go:171-220).
THEOREM FillsAreTraded == Spec => []FillsAreTheTrades
<1>1. FillsInv => FillsAreTheTrades  BY DEF FillsInv
<1>2. Init => EngineInv /\ FillsInv  BY InitEngineInv, InitFills
<1>3. EngineInv /\ FillsInv /\ [Next]_vars => (EngineInv /\ FillsInv)'
  BY NextInv, NextFills
<1> QED BY <1>1, <1>2, <1>3, PTL DEF Spec

-----------------------------------------------------------------------------
(* Depth: with the mutex free, the levels of a side are the prices of its  *)
(* open orders, and each level's queue has the orders of its price.        *)

OpenOf(s) == {o \in OpenOrders : order[o].side = s}

PricesOf(s) == {order[o].price : o \in OpenOf(s)}

LEMMA LevelsAreOpen ==
  ASSUME BookInv, mu = NoOne, NEW s \in Sides
  PROVE  /\ book[s] \in Seq(LevelType(DOMAIN order, Prices)) /\ Len(book[s]) \in Nat
         /\ Sorted(s, book[s])
         /\ \A i \in 1..Len(book[s]) :
              /\ book[s][i].price \in Int /\ book[s][i].queue \in Seq(DOMAIN order)
              /\ Once(book[s][i].queue)
              /\ QueueIds(book[s][i].queue) = {o \in OpenOf(s) : order[o].price = book[s][i].price}
         /\ PricesOf(s) = {book[s][i].price : i \in 1..Len(book[s])}
<1> DEFINE L == book[s]
<1>0. TypeOK /\ SlicesInv /\ QueuesInv /\ SkippedInv
  BY DEF BookInv, BookShape, EngineInv
<1>1. /\ L \in Seq(LevelType(DOMAIN order, Prices)) /\ Len(L) \in Nat
      /\ Sorted(s, L) /\ Full(L)
  BY <1>0, SlicesType, LenProperties DEF SlicesInv
<1>2. BookIds = OpenOrders
  <2>1. QueueIds(skipped) = {}  BY <1>0, EmptyQueue DEF SkippedInv
  <2> QED BY <1>0, <2>1 DEF SkippedInv
<1>3. ASSUME NEW i \in 1..Len(L)
      PROVE  /\ L[i].price \in Prices /\ L[i].queue \in Seq(DOMAIN order)
             /\ Queue(s, L[i].price) = L[i].queue /\ L[i].queue # <<>>
  BY <1>1, LevelParts, QueueAtLevel, PricesAreInts DEF Queue, Full
<1>4. ASSUME NEW i \in 1..Len(L), NEW o \in QueueIds(L[i].queue)
      PROVE  o \in OpenOf(s) /\ order[o].price = L[i].price
  <2>1. L[i].price \in Prices /\ o \in QueueIds(Queue(s, L[i].price))  BY <1>3, <1>4
  <2>2. o \in BookIds /\ order[o].side = s /\ order[o].price = L[i].price
    BY <1>0, <2>1, BookIdsPlace
  <2> QED BY <1>2, <2>2 DEF OpenOf
<1>5. ASSUME NEW o \in OpenOf(s)
      PROVE  \E i \in 1..Len(L) : o \in QueueIds(L[i].queue) /\ order[o].price = L[i].price
  <2>1. o \in BookIds /\ order[o].side = s  BY <1>2 DEF OpenOf
  <2>2. o \in QueueIds(Queue(s, order[o].price))  BY <1>0, <2>1, BookIdsPlace
  <2>3. PICK i \in 1..Len(L) : L[i].price = order[o].price
    <3>1. QueueIds(<<>>) = {}  BY EmptyQueue
    <3> QED BY <2>2, <3>1, QueueAtNone DEF Queue
  <2> QED BY <1>3, <2>2, <2>3
<1>6. ASSUME NEW i \in 1..Len(L)
      PROVE  /\ L[i].price \in Int /\ L[i].queue \in Seq(DOMAIN order) /\ Once(L[i].queue)
             /\ QueueIds(L[i].queue) = {o \in OpenOf(s) : order[o].price = L[i].price}
  <2>1. L[i].price \in Int /\ L[i].queue \in Seq(DOMAIN order)  BY <1>3, PricesAreInts
  <2>2. Once(L[i].queue)  BY <1>0, <1>3 DEF QueuesInv
  <2>3. ASSUME NEW o \in OpenOf(s), order[o].price = L[i].price
        PROVE  o \in QueueIds(L[i].queue)
    <3>1. PICK k \in 1..Len(L) : o \in QueueIds(L[k].queue) /\ order[o].price = L[k].price
      BY <1>5
    <3>2. k = i  BY <1>1, <2>3, <3>1, PricesAreInts, OneLevelPerPrice
    <3> QED BY <3>1, <3>2
  <2> QED BY <1>4, <2>1, <2>2, <2>3
<1>7. PricesOf(s) = {L[i].price : i \in 1..Len(L)}
  <2>1. ASSUME NEW i \in 1..Len(L) PROVE L[i].price \in PricesOf(s)
    <3>1. L[i].queue # <<>> /\ L[i].queue \in Seq(DOMAIN order)  BY <1>3
    <3>2. L[i].queue[1] \in QueueIds(L[i].queue)  BY <3>1, EmptySeq, LenProperties DEF QueueIds
    <3> QED BY <1>4, <3>2 DEF PricesOf
  <2>2. ASSUME NEW o \in OpenOf(s) PROVE \E i \in 1..Len(L) : order[o].price = L[i].price
    BY <1>5
  <2> QED BY <2>1, <2>2 DEF PricesOf
<1> QED BY <1>1, <1>6, <1>7

\* Prices in the order of their side, best first; and those of P better than p.
InOrder(s, n, q) == /\ \A i \in 1..n : q[i] \in Int
                    /\ \A i, k \in 1..n : i < k => Better(s, q[i], q[k])

BetterIn(s, P, p) == {x \in P : Better(s, x, p)}

\* Of what is enumerated in a strict order, i - 1 stand before the i-th.
LEMMA RankInOrder ==
  ASSUME NEW s \in Sides, NEW n \in Nat, NEW q, InOrder(s, n, q)
  PROVE  /\ Cardinality(Enumerated(n, q)) = n
         /\ \A i \in 1..n : Cardinality(BetterIn(s, Enumerated(n, q), q[i])) = i - 1
<1> USE DEF InOrder
<1>1. \A i, k \in 1..n : q[i] = q[k] => i = k
  <2> SUFFICES ASSUME NEW i \in 1..n, NEW k \in 1..n, q[i] = q[k] PROVE i = k  OBVIOUS
  <2>1. ~ Better(s, q[i], q[k]) /\ ~ Better(s, q[k], q[i])  BY BetterOrder
  <2>2. ~ (i < k) /\ ~ (k < i)  BY <2>1
  <2>3. i \in Int /\ k \in Int  OBVIOUS
  <2> QED BY ONLY <2>2, <2>3
<1>2. Cardinality(Enumerated(n, q)) = n
  <2>1. Enumerates(n, q)  BY <1>1 DEF Enumerates
  <2> QED BY ONLY <2>1, n \in Nat, CountOfEnumerated
<1>3. ASSUME NEW i \in 1..n PROVE Cardinality(BetterIn(s, Enumerated(n, q), q[i])) = i - 1
  <2> DEFINE m == i - 1
  <2>1. m \in Nat /\ \A k \in 1..n : k \in 1..m <=> k < i  OBVIOUS
  <2>2. \A k \in 1..n : Better(s, q[k], q[i]) <=> k < i
    <3> SUFFICES ASSUME NEW k \in 1..n PROVE Better(s, q[k], q[i]) <=> k < i  OBVIOUS
    <3>1. k \in Int /\ i \in Int  OBVIOUS
    <3>2. CASE k < i  BY <3>2
    <3>3. CASE k = i  BY <3>3, BetterOrder
    <3>4. CASE i < k
      <4>1. Better(s, q[i], q[k])  BY <3>4
      <4> QED BY <3>1, <3>4, <4>1, BetterOrder
    <3> QED BY ONLY <3>1, <3>2, <3>3, <3>4
  <2>3. BetterIn(s, Enumerated(n, q), q[i]) = Enumerated(m, q)
    <3>1. 1..m \subseteq 1..n  OBVIOUS
    <3> HIDE DEF m
    <3> QED BY ONLY <2>1, <2>2, <3>1 DEF BetterIn, Enumerated
  <2>4. Enumerates(m, q)  BY <1>1 DEF Enumerates
  <2> HIDE DEF m
  <2>5. Cardinality(Enumerated(m, q)) = m  BY ONLY <2>1, <2>4, CountOfEnumerated
  <2> QED BY ONLY <2>3, <2>5 DEF m
<1> QED BY <1>2, <1>3

\* What readers are told of a queue is what remains of its orders.
LEMMA TotalOfQueue ==
  ASSUME EngineInv, NEW q \in Seq(DOMAIN order), Once(q)
  PROVE  /\ Len(q) = Cardinality(QueueIds(q))
         /\ totalQty(q) = SumOf([o \in QueueIds(q) |-> Remaining(o)], QueueIds(q))
<1> DEFINE n == Len(q)
           f == [o \in QueueIds(q) |-> Remaining(o)]
           g == [j \in 1..n |-> Remaining(q[j])]
<1>1. n \in Nat /\ QueueIds(q) = Enumerated(n, q)
  BY LenProperties DEF QueueIds, Enumerated
<1>2. Enumerates(n, q)  BY DEF Once, Enumerates
<1>3. \A i \in 1..n : f[q[i]] \in Nat /\ g[i] = f[q[i]]
  <2> SUFFICES ASSUME NEW i \in 1..n PROVE f[q[i]] \in Nat /\ g[i] = f[q[i]]  OBVIOUS
  <2>1. q[i] \in DOMAIN order /\ q[i] \in QueueIds(q)  BY ElementOfSeq DEF QueueIds
  <2>2. Remaining(q[i]) \in Nat
    <3>1. order[q[i]] \in Order /\ order[q[i]].filled <= order[q[i]].qty
      BY <2>1 DEF EngineInv, TypeOK, NeverOverfilled
    <3>2. MaxQty \in Nat  BY EngineAssumption
    <3>3. order[q[i]].filled \in 0..MaxQty /\ order[q[i]].qty \in 1..MaxQty
      BY ONLY <3>1 DEF Order
    <3> QED BY ONLY <3>1, <3>2, <3>3 DEF Remaining
  <2> QED BY <2>1, <2>2
<1>4. totalQty(q) = SumOf(g, 1..n)  BY DEF totalQty
<1> HIDE DEF n, f, g
<1>5. SumOf(g, 1..n) = SumOf(f, Enumerated(n, q))
  <2>1. ReadsAlong(n, q, f, g)  BY ONLY <1>3 DEF ReadsAlong
  <2> QED BY ONLY <1>1, <1>2, <2>1, SumOfEnumerated
<1>6. Cardinality(Enumerated(n, q)) = n  BY ONLY <1>1, <1>2, CountOfEnumerated
<1>7. n = Cardinality(QueueIds(q))  BY ONLY <1>1, <1>6
<1>8. totalQty(q) = SumOf(f, QueueIds(q))  BY ONLY <1>1, <1>4, <1>5
<1> QED BY ONLY <1>7, <1>8 DEF n, f

\* The levels, read by number: they enumerate the prices of the open orders.
LEMMA LevelsRank ==
  ASSUME BookInv, mu = NoOne, NEW s \in Sides
  PROVE  /\ Cardinality(PricesOf(s)) = Len(book[s])
         /\ \A i \in 1..Len(book[s]) :
              /\ book[s][i].price \in PricesOf(s)
              /\ Cardinality(BetterIn(s, PricesOf(s), book[s][i].price)) = i - 1
<1> DEFINE N     == Len(book[s])
           price == [i \in 1..N |-> book[s][i].price]
           P     == PricesOf(s)
<1>1. N \in Nat /\ Sorted(s, book[s]) /\ \A i \in 1..N : book[s][i].price \in Int
  BY LevelsAreOpen
<1>2. P = {book[s][i].price : i \in 1..N}  BY LevelsAreOpen
<1>3. \A i \in 1..N : price[i] = book[s][i].price  OBVIOUS
<1>4. InOrder(s, N, price)  BY <1>1 DEF InOrder, Sorted
<1> HIDE DEF N, price, P
<1>5. P = Enumerated(N, price)  BY ONLY <1>2, <1>3 DEF Enumerated
<1>6. /\ Cardinality(Enumerated(N, price)) = N
      /\ \A i \in 1..N : Cardinality(BetterIn(s, Enumerated(N, price), price[i])) = i - 1
  BY ONLY <1>1, <1>4, s \in Sides, RankInOrder
<1>7. \A i \in 1..N : book[s][i].price \in P /\ Cardinality(BetterIn(s, P, price[i])) = i - 1
  BY ONLY <1>2, <1>5, <1>6
<1>8. \A i \in 1..N : Cardinality(BetterIn(s, P, book[s][i].price)) = i - 1
  BY ONLY <1>3, <1>7
<1> QED BY <1>5, <1>6, <1>7, <1>8 DEF N, P

\* A level, as readers are told of it.
LEMMA LevelIsOpen ==
  ASSUME BookInv, mu = NoOne, NEW s \in Sides, NEW i \in 1..Len(book[s]),
         NEW At, At = {o \in OpenOf(s) : order[o].price = book[s][i].price}
  PROVE  /\ PriceLevel(book[s][i]).price = book[s][i].price
         /\ PriceLevel(book[s][i]).count = Cardinality(At)
         /\ PriceLevel(book[s][i]).quantity = SumOf([o \in At |-> Remaining(o)], At)
<1> DEFINE q == book[s][i].queue
<1>1. EngineInv  BY DEF BookInv
<1>2. q \in Seq(DOMAIN order) /\ Once(q) /\ QueueIds(q) = At  BY LevelsAreOpen
<1>3. /\ PriceLevel(book[s][i]).price = book[s][i].price
      /\ PriceLevel(book[s][i]).count = Len(q)
      /\ PriceLevel(book[s][i]).quantity = totalQty(q)
  BY DEF PriceLevel
<1> HIDE DEF q
<1>4. /\ Len(q) = Cardinality(QueueIds(q))
      /\ totalQty(q) = SumOf([o \in QueueIds(q) |-> Remaining(o)], QueueIds(q))
  BY ONLY <1>1, <1>2, TotalOfQueue
<1>5. Len(q) = Cardinality(At) /\ totalQty(q) = SumOf([o \in At |-> Remaining(o)], At)
  BY ONLY <1>2, <1>4
<1> QED BY <1>3, <1>5

\* What DepthIsTheOpenOrders says of the i-th level told, and of how many are.
DepthAt(depth, s, i) ==
  LET p  == depth[i].price
      At == {o \in OpenOf(s) : order[o].price = p}
  IN  /\ p \in PricesOf(s)
      /\ Cardinality(BetterIn(s, PricesOf(s), p)) = i - 1
      /\ depth[i].count = Cardinality(At)
      /\ depth[i].quantity = SumOf([o \in At |-> Remaining(o)], At)

DepthIs(depth, s, n) ==
  /\ Len(depth) = Smaller(n, Cardinality(PricesOf(s)))
  /\ \A i \in DOMAIN depth : DepthAt(depth, s, i)

LEMMA DepthInParts ==
  (\A s \in Sides, n \in 1..2 : mu = NoOne => DepthIs(GetOrderbookDepth(n)[s], s, n))
    => DepthIsTheOpenOrders
BY DEF DepthIsTheOpenOrders, DepthIs, DepthAt, PricesOf, OpenOf, BetterIn

LEMMA InvDepth == BookInv => DepthIsTheOpenOrders
<1> SUFFICES ASSUME BookInv, mu = NoOne, NEW s \in Sides, NEW n \in 1..2
             PROVE  DepthIs(GetOrderbookDepth(n)[s], s, n)
  BY DepthInParts
<1> DEFINE N     == Len(book[s])
           M     == Smaller(n, N)
           depth == GetOrderbookDepth(n)[s]
<1>1. N \in Nat /\ Cardinality(PricesOf(s)) = N  BY LevelsAreOpen, LevelsRank
<1>2. CASE HasOrderbook
  <2>1. depth = [i \in 1..M |-> PriceLevel(book[s][i])]
    BY <1>2 DEF GetOrderbookDepth, aggregateLevels
  <2>2. M \in Nat /\ M <= N  BY <1>1 DEF Smaller
  <2>3. Len(depth) = M /\ DOMAIN depth = 1..M
    <3> HIDE DEF depth, M
    <3> QED BY <2>1, <2>2
  <2>4. ASSUME NEW i \in 1..M PROVE DepthAt(depth, s, i)
    <3> DEFINE p  == book[s][i].price
               At == {o \in OpenOf(s) : order[o].price = p}
    <3>1. depth[i] = PriceLevel(book[s][i])  BY <2>1
    <3>2. i \in 1..N
      <4> HIDE DEF M, N
      <4> QED BY <1>1, <2>2
    <3>3. p \in PricesOf(s) /\ Cardinality(BetterIn(s, PricesOf(s), p)) = i - 1
      BY <3>2, LevelsRank
    <3>4. /\ depth[i].price = p
          /\ depth[i].count = Cardinality(At)
          /\ depth[i].quantity = SumOf([o \in At |-> Remaining(o)], At)
      <4> DEFINE T == At
      <4>1. T = {o \in OpenOf(s) : order[o].price = book[s][i].price}  OBVIOUS
      <4> HIDE DEF T
      <4>2. /\ PriceLevel(book[s][i]).price = book[s][i].price
            /\ PriceLevel(book[s][i]).count = Cardinality(T)
            /\ PriceLevel(book[s][i]).quantity = SumOf([o \in T |-> Remaining(o)], T)
        BY <3>2, <4>1, LevelIsOpen
      <4> QED BY <3>1, <4>2 DEF T
    <3> HIDE DEF depth, p
    <3> QED BY <3>3, <3>4 DEF DepthAt
  <2> HIDE DEF depth, M
  <2>5. Len(depth) = Smaller(n, Cardinality(PricesOf(s)))  BY <1>1, <2>3 DEF M
  <2> QED BY <2>3, <2>4, <2>5 DEF DepthIs, depth
<1>3. CASE ~HasOrderbook
  <2>1. depth = <<>>  BY <1>3 DEF GetOrderbookDepth
  <2>2. OpenOrders = {}  BY <1>3 DEF OpenOrders, HasOrderbook
  <2>3. PricesOf(s) = {}  BY <2>2 DEF PricesOf, OpenOf
  <2>4. Cardinality(PricesOf(s)) = 0  BY ONLY <2>3, FS_EmptySet
  <2>5. Len(<<>>) = 0 /\ DOMAIN <<>> = {}  OBVIOUS
  <2>6. Smaller(n, 0) = 0  BY DEF Smaller
  <2> HIDE DEF depth
  <2>7. Len(depth) = Smaller(n, Cardinality(PricesOf(s))) /\ DOMAIN depth = {}
    BY ONLY <2>1, <2>4, <2>5, <2>6
  <2> QED BY ONLY <2>7 DEF DepthIs, depth
<1> QED BY <1>2, <1>3

\* Fills are what the trades moved, and readers are told the best prices of
\* the open orders, best first, with how many there are at each and what
\* remains of them (engine.go:171-220, orderbook.go:201-235).
THEOREM EngineQuantitiesAddUp == Spec => []QuantitiesAddUp
<1>1. BookInv /\ FillsAreTheTrades => QuantitiesAddUp  BY InvDepth DEF QuantitiesAddUp
<1> QED BY <1>1, BookInvariant, FillsAreTraded, PTL

-----------------------------------------------------------------------------
(* What subscribers are told.  The operators take the trades as a          *)
(* parameter, so that one lemma serves a state and the next.               *)

MadeIn(T, tr) == \E m \in 1..Len(T) : T[m] = tr

\* If both tell trades of one taker, d's was made before e's.
KeptIn(T, d, e) ==
  OfOneTaker(d, e) =>
    \A m, n \in 1..Len(T) : T[m] = d.trade /\ T[n] = e.trade => m < n

MadeOf(T, q) == \A i \in 1..Len(q) : q[i].type = "trade" => MadeIn(T, q[i].trade)

InLine(T, q) == \A i, k \in 1..Len(q) : i < k => KeptIn(T, q[i], q[k])

\* What is in q may be told before what is in r.
Behind(T, q, r) == \A i \in 1..Len(q), k \in 1..Len(r) : KeptIn(T, q[i], r[k])

OwnOf(q, o) == \A i \in 1..Len(q) : q[i].type = "trade" => q[i].trade.taker = o

\* Why two orders trade at most once: a trade leaves one of them with nothing.
OneIsSpent ==
  \A i \in 1..Len(trades) : LET m == order[trades[i].maker]
                                t == order[trades[i].taker]
                            IN  m.filled = m.qty \/ t.filled = t.qty

OutboxInv ==
  \A o \in Orders : /\ MadeOf(trades, outbox[o]) /\ OwnOf(outbox[o], o)
                    /\ InLine(trades, outbox[o])

ToldInv ==
  \A s \in Subscribers : /\ MadeOf(trades, feed[s]) /\ InLine(trades, feed[s])
                         /\ \A o \in Orders : Behind(trades, feed[s], outbox[o])

\* Inductive: what a channel may still be told comes after what it holds.
FeedInv == TradesArePlaced /\ OneIsSpent /\ OutboxInv /\ ToldInv

LEMMA OutOfLine ==
  ASSUME NEW T, NEW d, NEW e, ~OfOneTaker(d, e)
  PROVE  KeptIn(T, d, e)
BY DEF KeptIn

\* One more event at the end.
LEMMA AppendEvent ==
  ASSUME NEW T, NEW o, NEW q \in Seq(Event), NEW r \in Seq(Event), NEW e \in Event
  PROVE  /\ MadeOf(T, q) /\ (e.type = "trade" => MadeIn(T, e.trade)) => MadeOf(T, Append(q, e))
         /\ OwnOf(q, o) /\ (e.type = "trade" => e.trade.taker = o) => OwnOf(Append(q, e), o)
         /\ InLine(T, q) /\ (\A i \in 1..Len(q) : KeptIn(T, q[i], e)) => InLine(T, Append(q, e))
         /\ Behind(T, q, r) /\ (\A k \in 1..Len(r) : KeptIn(T, e, r[k])) => Behind(T, Append(q, e), r)
         /\ Behind(T, r, q) /\ (\A k \in 1..Len(r) : KeptIn(T, r[k], e)) => Behind(T, r, Append(q, e))
<1> DEFINE u == Append(q, e)
<1>1. /\ Len(q) \in Nat /\ Len(u) = Len(q) + 1 /\ u[Len(q) + 1] = e
      /\ \A i \in 1..Len(q) : u[i] = q[i]
  BY AppendProperties, LenProperties
<1>2. \A i \in 1..Len(u) : i \in 1..Len(q) \/ i = Len(q) + 1  BY <1>1
<1>3. \A i, k \in 1..Len(u) : i < k => i \in 1..Len(q)  BY <1>1
<1> HIDE DEF u
<1>4. MadeOf(T, q) /\ (e.type = "trade" => MadeIn(T, e.trade)) => MadeOf(T, u)
  BY ONLY <1>1, <1>2 DEF MadeOf
<1>5. OwnOf(q, o) /\ (e.type = "trade" => e.trade.taker = o) => OwnOf(u, o)
  BY ONLY <1>1, <1>2 DEF OwnOf
<1>6. InLine(T, q) /\ (\A i \in 1..Len(q) : KeptIn(T, q[i], e)) => InLine(T, u)
  <2> SUFFICES ASSUME InLine(T, q), \A i \in 1..Len(q) : KeptIn(T, q[i], e),
                      NEW i \in 1..Len(u), NEW k \in 1..Len(u), i < k
               PROVE  KeptIn(T, u[i], u[k])
    BY DEF InLine
  <2>1. i \in 1..Len(q) /\ u[i] = q[i]  BY <1>1, <1>3
  <2>2. CASE k \in 1..Len(q)  BY <1>1, <2>1, <2>2 DEF InLine
  <2>3. CASE k = Len(q) + 1  BY <1>1, <2>1, <2>3
  <2> QED BY <1>2, <2>2, <2>3
<1>7. Behind(T, q, r) /\ (\A k \in 1..Len(r) : KeptIn(T, e, r[k])) => Behind(T, u, r)
  BY ONLY <1>1, <1>2 DEF Behind
<1>8. Behind(T, r, q) /\ (\A k \in 1..Len(r) : KeptIn(T, r[k], e)) => Behind(T, r, u)
  BY ONLY <1>1, <1>2 DEF Behind
<1> QED BY ONLY <1>4, <1>5, <1>6, <1>7, <1>8 DEF u

\* One event less at the front.
LEMMA DropEvent ==
  ASSUME NEW T, NEW o, NEW q \in Seq(Event), NEW r \in Seq(Event), q # <<>>
  PROVE  /\ Head(q) \in Event /\ Tail(q) \in Seq(Event)
         /\ MadeOf(T, q) => /\ MadeOf(T, Tail(q))
                            /\ Head(q).type = "trade" => MadeIn(T, Head(q).trade)
         /\ OwnOf(q, o) => /\ OwnOf(Tail(q), o)
                           /\ Head(q).type = "trade" => Head(q).trade.taker = o
         /\ InLine(T, q) => /\ InLine(T, Tail(q))
                            /\ \A k \in 1..Len(Tail(q)) : KeptIn(T, Head(q), Tail(q)[k])
         /\ Behind(T, q, r) => Behind(T, Tail(q), r)
         /\ Behind(T, r, q) => /\ Behind(T, r, Tail(q))
                               /\ \A i \in 1..Len(r) : KeptIn(T, r[i], Head(q))
<1> DEFINE u == Tail(q)
           h == Head(q)
<1>1. /\ h \in Event /\ u \in Seq(Event) /\ h = q[1] /\ Len(q) \in Nat /\ Len(u) = Len(q) - 1
      /\ \A i \in 1..Len(u) : u[i] = q[i + 1]
  BY HeadTailProperties, LenProperties
<1>2. 1 \in 1..Len(q) /\ \A i \in 1..Len(u) : i + 1 \in 1..Len(q) /\ 1 < i + 1
  <2>1. Len(q) > 0  BY <1>1, EmptySeq
  <2> HIDE DEF u
  <2> QED BY <1>1, <2>1
<1>3. \A i, k \in 1..Len(u) : i < k => i + 1 < k + 1
  <2> HIDE DEF u
  <2> QED BY <1>1
<1> HIDE DEF u, h
<1>4. MadeOf(T, q) => MadeOf(T, u) /\ (h.type = "trade" => MadeIn(T, h.trade))
  BY ONLY <1>1, <1>2 DEF MadeOf
<1>5. OwnOf(q, o) => OwnOf(u, o) /\ (h.type = "trade" => h.trade.taker = o)
  BY ONLY <1>1, <1>2 DEF OwnOf
<1>6. InLine(T, q) => InLine(T, u) /\ \A k \in 1..Len(u) : KeptIn(T, h, u[k])
  BY ONLY <1>1, <1>2, <1>3 DEF InLine
<1>7. Behind(T, q, r) => Behind(T, u, r)  BY ONLY <1>1, <1>2 DEF Behind
<1>8. Behind(T, r, q) => Behind(T, r, u) /\ \A i \in 1..Len(r) : KeptIn(T, r[i], h)
  BY ONLY <1>1, <1>2 DEF Behind
<1> QED BY ONLY <1>1, <1>4, <1>5, <1>6, <1>7, <1>8 DEF u, h

\* A new trade comes after all, and changes nothing between those there were.
LEMMA OneMoreTrade ==
  ASSUME NEW T \in Seq(Trade), NEW tr \in Trade, \A i \in 1..Len(T) : T[i] # tr, NEW U, U = Append(T, tr)
  PROVE  /\ MadeIn(U, tr)
         /\ \A q : MadeOf(T, q) => MadeOf(U, q)
         /\ \A q : MadeOf(T, q) /\ InLine(T, q) => InLine(U, q)
         /\ \A q, r : MadeOf(T, q) /\ MadeOf(T, r) /\ Behind(T, q, r) => Behind(U, q, r)
         /\ \A q, e : MadeOf(T, q) /\ e.trade = tr => \A i \in 1..Len(q) : KeptIn(U, q[i], e)
<1>1. /\ Len(T) \in Nat /\ Len(U) = Len(T) + 1 /\ U[Len(T) + 1] = tr
      /\ \A i \in 1..Len(T) : U[i] = T[i]
  BY AppendProperties, LenProperties
<1>2. /\ Len(T) + 1 \in 1..Len(U) /\ \A m \in 1..Len(T) : m \in 1..Len(U) /\ m < Len(T) + 1
      /\ \A m \in 1..Len(U) : m \in 1..Len(T) \/ m = Len(T) + 1
  BY <1>1
<1>3. MadeIn(U, tr)  BY <1>1, <1>2 DEF MadeIn
<1>4. ASSUME NEW x, MadeIn(T, x) PROVE MadeIn(U, x) /\ x # tr
  BY <1>1, <1>2, <1>4 DEF MadeIn
<1>5. ASSUME NEW x, x # tr, NEW m \in 1..Len(U), U[m] = x PROVE m \in 1..Len(T) /\ T[m] = x
  BY <1>1, <1>2, <1>5
<1>6. ASSUME NEW d, NEW e, d.type = "trade" => MadeIn(T, d.trade),
             e.type = "trade" => MadeIn(T, e.trade), KeptIn(T, d, e)
      PROVE  KeptIn(U, d, e)
  <2> SUFFICES ASSUME OfOneTaker(d, e), NEW m \in 1..Len(U), NEW n \in 1..Len(U),
                      U[m] = d.trade, U[n] = e.trade
               PROVE  m < n
    BY DEF KeptIn
  <2>1. d.trade # tr /\ e.trade # tr  BY <1>4, <1>6 DEF OfOneTaker
  <2>2. m \in 1..Len(T) /\ T[m] = d.trade /\ n \in 1..Len(T) /\ T[n] = e.trade
    BY <1>5, <2>1
  <2> QED BY <1>6, <2>2 DEF KeptIn
<1>7. ASSUME NEW d, NEW e, d.type = "trade" => MadeIn(T, d.trade), e.trade = tr
      PROVE  KeptIn(U, d, e)
  <2> SUFFICES ASSUME OfOneTaker(d, e), NEW m \in 1..Len(U), NEW n \in 1..Len(U),
                      U[m] = d.trade, U[n] = e.trade
               PROVE  m < n
    BY DEF KeptIn
  <2>1. m \in 1..Len(T)  BY <1>4, <1>5, <1>7 DEF OfOneTaker
  <2>2. n = Len(T) + 1
    <3>1. n \notin 1..Len(T)  BY <1>1, <1>7
    <3> QED BY <1>2, <3>1
  <2> QED BY <1>2, <2>1, <2>2
<1>8. ASSUME NEW q, MadeOf(T, q) PROVE MadeOf(U, q)  BY <1>4, <1>8 DEF MadeOf
<1>9. ASSUME NEW q, MadeOf(T, q), InLine(T, q) PROVE InLine(U, q)
  BY <1>6, <1>9 DEF MadeOf, InLine
<1>10. ASSUME NEW q, NEW r, MadeOf(T, q), MadeOf(T, r), Behind(T, q, r) PROVE Behind(U, q, r)
  BY <1>6, <1>10 DEF MadeOf, Behind
<1>11. ASSUME NEW q, NEW e, MadeOf(T, q), e.trade = tr, NEW i \in 1..Len(q)
       PROVE  KeptIn(U, q[i], e)
  BY <1>7, <1>11 DEF MadeOf
<1> QED BY <1>3, <1>8, <1>9, <1>10, <1>11

\* The order a taker meets has something left, as the taker has.
LEMMA ExecuteMeets ==
  ASSUME BookInv, NEW t \in Orders, Execute(t)
  PROVE  LET m  == BestOrder(OppositeLevels(t))
             tr == [maker |-> m, taker |-> t, price |-> order[m].price, qty |-> MatchQty(t, m)]
         IN  /\ t \in DOMAIN order /\ m \in DOMAIN order /\ m # t
             /\ order[t].filled < order[t].qty /\ order[m].filled < order[m].qty
             /\ DOMAIN order' = DOMAIN order
             /\ \A x \in DOMAIN order : order'[x].qty = order[x].qty
             /\ \A x \in DOMAIN order \ {t, m} : order'[x].filled = order[x].filled
             /\ order'[t].filled = order[t].qty \/ order'[m].filled = order[m].qty
             /\ tr \in Trade /\ trades' = Append(trades, tr)
             /\ outbox' = [outbox EXCEPT ![t] = Append(outbox[t], [type |-> "trade", trade |-> tr])]
             /\ feed' = feed
<1> DEFINE m   == BestOrder(OppositeLevels(t))
           qty == MatchQty(t, m)
           tr  == [maker |-> m, taker |-> t, price |-> order[m].price, qty |-> qty]
<1>1. CanMatch(t) /\ pc[t] = "match"  BY DEF Execute
<1>2. /\ EngineInv /\ TypeOK /\ SlicesInv /\ QueuesInv /\ SkippedInv /\ t \in DOMAIN order
  BY <1>1, HolderFacts DEF BookShape
<1>3. m \in BookIds  BY <1>1, <1>2, BestFacts
<1>4. Remaining(t) > 0 /\ Remaining(m) > 0
  BY <1>1, <1>2, <1>3 DEF CanMatch, SkippedInv, OpenOrders
<1>5. /\ m \in DOMAIN order /\ m # t /\ qty \in 0..MaxQty
      /\ DOMAIN order' = DOMAIN order
      /\ \A x \in DOMAIN order :
           order'[x] = [order[x] EXCEPT
             !.filled = IF x \in {t, m} THEN @ + qty ELSE @,
             !.status = IF x = m THEN MakerStatus(m, qty) ELSE @]
  BY <1>2, ExecuteEffect
<1>6. \A x \in DOMAIN order : /\ order[x] \in Order /\ order[x].filled \in Int
                              /\ order[x].qty \in Int
  <2>1. \A x \in DOMAIN order : order[x] \in Order  BY <1>2 DEF TypeOK
  <2> QED BY <2>1, EngineAssumption DEF Order
<1>7. tr \in Trade  BY <1>2, <1>5 DEF Trade, TypeOK, Order
<1>8. /\ trades' = Append(trades, tr) /\ feed' = feed
      /\ outbox' = [outbox EXCEPT ![t] = Append(outbox[t], [type |-> "trade", trade |-> tr])]
  BY DEF Execute
<1>9. qty = Remaining(t) \/ qty = Remaining(m)  BY DEF MatchQty, Smaller
<1> HIDE DEF m, qty, tr
<1>10. \A x \in DOMAIN order :
         /\ order'[x].qty = order[x].qty
         /\ order'[x].filled = IF x \in {t, m} THEN order[x].filled + qty ELSE order[x].filled
  <2> SUFFICES ASSUME NEW x \in DOMAIN order
               PROVE  /\ order'[x].qty = order[x].qty
                      /\ order'[x].filled = IF x \in {t, m} THEN order[x].filled + qty
                                            ELSE order[x].filled
    OBVIOUS
  <2>1. order[x] \in Order  BY <1>6
  <2>2. order'[x] = [order[x] EXCEPT
             !.filled = IF x \in {t, m} THEN @ + qty ELSE @,
             !.status = IF x = m THEN MakerStatus(m, qty) ELSE @]
    BY <1>5
  <2> QED BY ONLY <2>1, <2>2 DEF Order
<1>11. /\ order[t].filled \in Int /\ order[t].qty \in Int
       /\ order[m].filled \in Int /\ order[m].qty \in Int
  <2>1. t \in DOMAIN order /\ m \in DOMAIN order  BY <1>2, <1>5
  <2> QED BY ONLY <1>6, <2>1
<1>12. /\ order'[t].filled = order[t].filled + qty
       /\ order'[m].filled = order[m].filled + qty
  <2>1. t \in DOMAIN order /\ m \in DOMAIN order  BY <1>2, <1>5
  <2> QED BY ONLY <1>10, <2>1
<1>13. /\ order[t].qty - order[t].filled > 0
       /\ order[m].qty - order[m].filled > 0
       /\ \/ qty = order[t].qty - order[t].filled
          \/ qty = order[m].qty - order[m].filled
  BY ONLY <1>4, <1>9 DEF Remaining
<1>14. order[t].filled < order[t].qty /\ order[m].filled < order[m].qty
  BY ONLY <1>11, <1>13
<1>15. order'[t].filled = order[t].qty \/ order'[m].filled = order[m].qty
  BY ONLY <1>11, <1>12, <1>13
<1> QED BY ONLY <1>2, <1>5, <1>7, <1>8, <1>10, <1>14, <1>15 DEF m, qty, tr

\* Two orders trade at most once, because a trade leaves one with nothing.
LEMMA ExecuteSpends ==
  ASSUME BookInv, TradesArePlaced, OneIsSpent, NEW t \in Orders, Execute(t)
  PROVE  /\ OneIsSpent'
         /\ \E tr \in Trade :
              /\ tr.taker = t /\ \A i \in 1..Len(trades) : trades[i] # tr
              /\ trades' = Append(trades, tr) /\ feed' = feed
              /\ outbox' = [outbox EXCEPT ![t] = Append(outbox[t], [type |-> "trade", trade |-> tr])]
<1> DEFINE m  == BestOrder(OppositeLevels(t))
           tr == [maker |-> m, taker |-> t, price |-> order[m].price, qty |-> MatchQty(t, m)]
<1>1. /\ t \in DOMAIN order /\ m \in DOMAIN order /\ m # t
      /\ order[t].filled < order[t].qty /\ order[m].filled < order[m].qty
      /\ DOMAIN order' = DOMAIN order
      /\ \A x \in DOMAIN order : order'[x].qty = order[x].qty
      /\ \A x \in DOMAIN order \ {t, m} : order'[x].filled = order[x].filled
      /\ order'[t].filled = order[t].qty \/ order'[m].filled = order[m].qty
      /\ tr \in Trade /\ trades' = Append(trades, tr)
      /\ outbox' = [outbox EXCEPT ![t] = Append(outbox[t], [type |-> "trade", trade |-> tr])]
      /\ feed' = feed
  BY ExecuteMeets
<1>2. tr.maker = m /\ tr.taker = t  OBVIOUS
<1>3. trades \in Seq(Trade) /\ Len(trades) \in Nat
  BY LenProperties DEF BookInv, EngineInv, TypeOK
<1>4. order[t].filled \in Int /\ order[m].filled \in Int /\ order[t].qty \in Int /\ order[m].qty \in Int
  <2>1. order[t] \in Order /\ order[m] \in Order  BY <1>1 DEF BookInv, EngineInv, TypeOK
  <2> HIDE DEF m
  <2> QED BY <2>1, EngineAssumption DEF Order
<1> HIDE DEF m, tr
<1>5. /\ Len(trades') = Len(trades) + 1 /\ trades'[Len(trades) + 1] = tr
      /\ \A i \in 1..Len(trades) : trades'[i] = trades[i]
  BY ONLY <1>1, <1>3, AppendProperties
<1>6. order[t].filled # order[t].qty /\ order[m].filled # order[m].qty
  BY ONLY <1>1, <1>4
<1>7. ASSUME NEW i \in 1..Len(trades), trades[i] = tr PROVE FALSE
  BY <1>2, <1>6, <1>7 DEF OneIsSpent
<1>8. ASSUME NEW i \in 1..Len(trades')
      PROVE  \/ order'[trades'[i].maker].filled = order'[trades'[i].maker].qty
             \/ order'[trades'[i].taker].filled = order'[trades'[i].taker].qty
  <2>1. CASE i \in 1..Len(trades)
    <3> DEFINE a == trades[i].maker
               b == trades[i].taker
    <3>1. a \in DOMAIN order /\ b \in DOMAIN order  BY <2>1 DEF TradesArePlaced
    <3>2. order[a].filled = order[a].qty \/ order[b].filled = order[b].qty
      BY <2>1 DEF OneIsSpent
    <3>3. trades'[i].maker = a /\ trades'[i].taker = b  BY <1>5, <2>1
    <3> HIDE DEF a, b
    <3> QED BY ONLY <1>1, <1>6, <3>1, <3>2, <3>3
  <2>2. CASE i = Len(trades) + 1  BY <1>1, <1>2, <1>5, <2>2
  <2> QED BY <1>3, <1>5, <2>1, <2>2
<1>9. OneIsSpent'  BY <1>8 DEF OneIsSpent
<1>10. \A i \in 1..Len(trades) : trades[i] # tr  BY <1>7
<1> QED BY ONLY <1>1, <1>2, <1>9, <1>10

LEMMA EventFacts ==
  ASSUME TypeOK
  PROVE  /\ trades \in Seq(Trade)
         /\ \A o \in Orders : outbox[o] \in Seq(Event)
         /\ \A s \in Subscribers : feed[s] \in Seq(Event)
         /\ outbox \in [Orders -> Seq(Event)] /\ feed \in [Subscribers -> Seq(Event)]
BY DEF TypeOK

LEMMA SpentKept ==
  ASSUME TradesArePlaced, OneIsSpent, FillsKept
  PROVE  TradesArePlaced' /\ OneIsSpent'
BY DEF TradesArePlaced, OneIsSpent, FillsKept

LEMMA EventsUntouched ==
  ASSUME OutboxInv, ToldInv, UNCHANGED <<trades, outbox, feed>>
  PROVE  OutboxInv' /\ ToldInv'
BY DEF OutboxInv, ToldInv

LEMMA ExecuteEvents ==
  ASSUME TypeOK, OutboxInv, ToldInv, NEW t \in Orders,
         NEW tr \in Trade, tr.taker = t, \A i \in 1..Len(trades) : trades[i] # tr,
         trades' = Append(trades, tr), feed' = feed,
         outbox' = [outbox EXCEPT ![t] = Append(outbox[t], [type |-> "trade", trade |-> tr])]
  PROVE  OutboxInv' /\ ToldInv'
<1> DEFINE e == [type |-> "trade", trade |-> tr]
           U == Append(trades, tr)
<1>1. e \in Event /\ e.type = "trade" /\ e.trade = tr /\ e.trade.taker = t
  BY DEF Event
<1>2. trades' = U /\ outbox' = [outbox EXCEPT ![t] = Append(outbox[t], e)]
  OBVIOUS
<1>3. U = Append(trades, tr)  OBVIOUS
<1> HIDE DEF e, U
<1>4. /\ MadeIn(U, tr)
      /\ \A q : MadeOf(trades, q) => MadeOf(U, q)
      /\ \A q : MadeOf(trades, q) /\ InLine(trades, q) => InLine(U, q)
      /\ \A q, r : MadeOf(trades, q) /\ MadeOf(trades, r) /\ Behind(trades, q, r) => Behind(U, q, r)
      /\ \A q, d : MadeOf(trades, q) /\ d.trade = tr => \A i \in 1..Len(q) : KeptIn(U, q[i], d)
  BY <1>3, EventFacts, OneMoreTrade
<1>5. ASSUME NEW o \in Orders
      PROVE  /\ MadeOf(U, outbox'[o]) /\ OwnOf(outbox'[o], o) /\ InLine(U, outbox'[o])
             /\ \A s \in Subscribers : Behind(U, feed[s], outbox'[o])
  <2>1. /\ MadeOf(trades, outbox[o]) /\ OwnOf(outbox[o], o) /\ InLine(trades, outbox[o])
        /\ MadeOf(U, outbox[o]) /\ InLine(U, outbox[o]) /\ outbox[o] \in Seq(Event)
    BY <1>4, EventFacts DEF OutboxInv
  <2>2. ASSUME NEW s \in Subscribers
        PROVE  /\ MadeOf(trades, feed[s]) /\ Behind(U, feed[s], outbox[o]) /\ feed[s] \in Seq(Event)
    BY <1>4, <2>1, EventFacts DEF ToldInv
  <2>3. CASE o # t
    <3>1. outbox'[o] = outbox[o]  BY <1>2, <2>3, EventFacts
    <3> QED BY ONLY <2>1, <2>2, <3>1
  <2>4. CASE o = t
    <3>1. outbox'[o] = Append(outbox[o], e)  BY <1>2, <2>4, EventFacts
    <3>2. \A i \in 1..Len(outbox[o]) : KeptIn(U, outbox[o][i], e)  BY <1>1, <1>4, <2>1
    <3>3. MadeOf(U, Append(outbox[o], e)) /\ InLine(U, Append(outbox[o], e))
      BY ONLY <1>1, <1>4, <2>1, <3>2, AppendEvent
    <3>4. OwnOf(Append(outbox[o], e), o)  BY ONLY <1>1, <2>1, <2>4, AppendEvent
    <3>5. ASSUME NEW s \in Subscribers PROVE Behind(U, feed[s], Append(outbox[o], e))
      <4>1. \A i \in 1..Len(feed[s]) : KeptIn(U, feed[s][i], e)  BY <1>1, <1>4, <2>2
      <4> QED BY ONLY <1>1, <2>1, <2>2, <4>1, AppendEvent
    <3> QED BY ONLY <3>1, <3>3, <3>4, <3>5
  <2> QED BY <2>3, <2>4
<1>6. ASSUME NEW s \in Subscribers PROVE MadeOf(U, feed[s]) /\ InLine(U, feed[s])
  BY <1>4 DEF ToldInv
<1>7. OutboxInv'  BY <1>2, <1>5 DEF OutboxInv
<1>8. ToldInv'  BY <1>2, <1>5, <1>6 DEF ToldInv
<1> QED BY <1>7, <1>8

\* A book update tells no trade.
LEMMA RestEvents ==
  ASSUME TypeOK, OutboxInv, ToldInv, NEW t \in Orders, Rest(t)
  PROVE  OutboxInv' /\ ToldInv'
<1> DEFINE e == [type |-> "book_update", by |-> t]
<1>1. e \in Event /\ e.type # "trade"  BY DEF Event
<1>2. /\ trades' = trades /\ feed' = feed
      /\ outbox' = [outbox EXCEPT ![t] = Append(outbox[t], e)]
  BY DEF Rest
<1> HIDE DEF e
<1>3. \A d : KeptIn(trades, d, e)  BY <1>1 DEF KeptIn, OfOneTaker
<1>4. ASSUME NEW o \in Orders
      PROVE  /\ MadeOf(trades, outbox'[o]) /\ OwnOf(outbox'[o], o) /\ InLine(trades, outbox'[o])
             /\ \A s \in Subscribers : Behind(trades, feed[s], outbox'[o])
  <2>1. /\ MadeOf(trades, outbox[o]) /\ OwnOf(outbox[o], o) /\ InLine(trades, outbox[o])
        /\ outbox[o] \in Seq(Event)
        /\ \A s \in Subscribers : Behind(trades, feed[s], outbox[o]) /\ feed[s] \in Seq(Event)
    BY EventFacts DEF OutboxInv, ToldInv
  <2>2. outbox'[o] = outbox[o] \/ outbox'[o] = Append(outbox[o], e)
    BY <1>2, EventFacts
  <2>3. /\ MadeOf(trades, Append(outbox[o], e)) /\ OwnOf(Append(outbox[o], e), o)
        /\ InLine(trades, Append(outbox[o], e))
    BY ONLY <1>1, <1>3, <2>1, AppendEvent
  <2>4. ASSUME NEW s \in Subscribers PROVE Behind(trades, feed[s], Append(outbox[o], e))
    BY ONLY <1>1, <1>3, <2>1, AppendEvent
  <2> QED BY ONLY <2>1, <2>2, <2>3, <2>4
<1>5. OutboxInv'  BY <1>2, <1>4 DEF OutboxInv
<1>6. ToldInv'  BY <1>2, <1>4 DEF ToldInv
<1> QED BY <1>5, <1>6

\* Emit: each channel takes the event or drops it.
LEMMA EmitEvents ==
  ASSUME TypeOK, OutboxInv, ToldInv, NEW t \in Orders, outbox[t] # <<>>, Emit(t)
  PROVE  OutboxInv' /\ ToldInv'
<1> DEFINE q == outbox[t]
           e == Head(q)
           u == Tail(q)
<1>1. /\ trades' = trades
      /\ outbox' = [outbox EXCEPT ![t] = u]
      /\ feed' = [s \in Subscribers |->
                    IF Len(feed[s]) < FeedCap THEN Append(feed[s], e) ELSE feed[s]]
  BY DEF Emit
<1>2. q \in Seq(Event) /\ q # <<>> /\ MadeOf(trades, q) /\ OwnOf(q, t) /\ InLine(trades, q)
  BY EventFacts DEF OutboxInv
<1> HIDE DEF q
<1>3. /\ e \in Event /\ u \in Seq(Event)
      /\ MadeOf(trades, u) /\ OwnOf(u, t) /\ InLine(trades, u)
      /\ e.type = "trade" => MadeIn(trades, e.trade) /\ e.trade.taker = t
      /\ \A k \in 1..Len(u) : KeptIn(trades, e, u[k])
  BY ONLY <1>2, DropEvent
<1> HIDE DEF e, u
<1>4. ASSUME NEW o \in Orders
      PROVE  /\ outbox'[o] \in Seq(Event)
             /\ MadeOf(trades, outbox'[o]) /\ OwnOf(outbox'[o], o) /\ InLine(trades, outbox'[o])
             /\ \A k \in 1..Len(outbox'[o]) : KeptIn(trades, e, outbox'[o][k])
  <2>1. CASE o = t
    <3>1. outbox'[o] = u  BY <1>1, <2>1, EventFacts
    <3> QED BY ONLY <1>3, <2>1, <3>1
  <2>2. CASE o # t
    <3>1. outbox'[o] = outbox[o]  BY <1>1, <2>2, EventFacts
    <3>2. /\ outbox[o] \in Seq(Event) /\ MadeOf(trades, outbox[o]) /\ OwnOf(outbox[o], o)
          /\ InLine(trades, outbox[o])
      BY EventFacts DEF OutboxInv
    <3>3. \A k \in 1..Len(outbox[o]) : KeptIn(trades, e, outbox[o][k])
      BY <1>3, <2>2, <3>2 DEF OwnOf, KeptIn, OfOneTaker
    <3> QED BY ONLY <3>1, <3>2, <3>3
  <2> QED BY <2>1, <2>2
<1>5. ASSUME NEW s \in Subscribers
      PROVE  /\ MadeOf(trades, feed'[s]) /\ InLine(trades, feed'[s])
             /\ \A o \in Orders : Behind(trades, feed'[s], outbox'[o])
  <2>1. /\ feed[s] \in Seq(Event) /\ MadeOf(trades, feed[s]) /\ InLine(trades, feed[s])
        /\ \A o \in Orders : Behind(trades, feed[s], outbox[o])
    BY EventFacts DEF ToldInv
  <2>2. Behind(trades, feed[s], q)  BY <2>1 DEF q
  <2>3. /\ Behind(trades, feed[s], u)
        /\ \A i \in 1..Len(feed[s]) : KeptIn(trades, feed[s][i], e)
    BY ONLY <1>2, <2>1, <2>2, DropEvent DEF e, u
  <2>4. ASSUME NEW o \in Orders PROVE Behind(trades, feed[s], outbox'[o])
    <3>1. outbox'[o] = u \/ outbox'[o] = outbox[o]  BY <1>1, EventFacts
    <3> QED BY ONLY <2>1, <2>3, <3>1
  <2>5. /\ MadeOf(trades, Append(feed[s], e)) /\ InLine(trades, Append(feed[s], e))
    BY ONLY <1>3, <2>1, <2>3, AppendEvent
  <2>6. ASSUME NEW o \in Orders PROVE Behind(trades, Append(feed[s], e), outbox'[o])
    BY ONLY <1>3, <1>4, <2>1, <2>4, AppendEvent
  <2>7. feed'[s] = feed[s] \/ feed'[s] = Append(feed[s], e)  BY <1>1
  <2> QED BY ONLY <2>1, <2>4, <2>5, <2>6, <2>7
<1>6. OutboxInv'  BY <1>1, <1>4 DEF OutboxInv
<1>7. ToldInv'  BY <1>1, <1>5 DEF ToldInv
<1> QED BY <1>6, <1>7

LEMMA ReceiveEvents ==
  ASSUME TypeOK, OutboxInv, ToldInv, NEW c \in Subscribers, Receive(c)
  PROVE  OutboxInv' /\ ToldInv'
<1>1. /\ trades' = trades /\ outbox' = outbox /\ feed[c] # <<>>
      /\ feed' = [feed EXCEPT ![c] = Tail(feed[c])]
  BY DEF Receive
<1>2. ASSUME NEW s \in Subscribers
      PROVE  /\ MadeOf(trades, feed'[s]) /\ InLine(trades, feed'[s])
             /\ \A o \in Orders : Behind(trades, feed'[s], outbox[o])
  <2>1. /\ feed[s] \in Seq(Event) /\ MadeOf(trades, feed[s]) /\ InLine(trades, feed[s])
        /\ \A o \in Orders : Behind(trades, feed[s], outbox[o]) /\ outbox[o] \in Seq(Event)
    BY EventFacts DEF ToldInv
  <2>2. CASE s # c
    <3>1. feed'[s] = feed[s]  BY <1>1, <2>2, EventFacts
    <3> QED BY ONLY <2>1, <3>1
  <2>3. CASE s = c
    <3>1. feed'[s] = Tail(feed[s]) /\ feed[s] # <<>>  BY <1>1, <2>3, EventFacts
    <3>2. MadeOf(trades, Tail(feed[s])) /\ InLine(trades, Tail(feed[s]))
      BY ONLY <2>1, <3>1, DropEvent
    <3>3. ASSUME NEW o \in Orders PROVE Behind(trades, Tail(feed[s]), outbox[o])
      BY ONLY <2>1, <3>1, DropEvent
    <3> QED BY ONLY <3>1, <3>2, <3>3
  <2> QED BY <2>2, <2>3
<1>3. OutboxInv'  BY <1>1 DEF OutboxInv
<1>4. ToldInv'  BY <1>1, <1>2 DEF ToldInv
<1> QED BY <1>3, <1>4

LEMMA NextFeed == BookInv /\ FeedInv /\ [Next]_vars => FeedInv'
<1> SUFFICES ASSUME BookInv, FeedInv, [Next]_vars PROVE FeedInv'  OBVIOUS
<1>0. /\ EngineInv /\ TypeOK /\ CallsAreBacked
      /\ TradesArePlaced /\ OneIsSpent /\ OutboxInv /\ ToldInv
  BY DEF BookInv, EngineInv, FeedInv
<1>1. ASSUME NEW t \in Orders, Execute(t) PROVE FeedInv'
  <2>1. OneIsSpent' /\ OutboxInv' /\ ToldInv'
    <3>1. /\ OneIsSpent'
          /\ \E tr \in Trade :
               /\ tr.taker = t /\ \A i \in 1..Len(trades) : trades[i] # tr
               /\ trades' = Append(trades, tr) /\ feed' = feed
               /\ outbox' = [outbox EXCEPT ![t] = Append(outbox[t], [type |-> "trade", trade |-> tr])]
      BY <1>0, <1>1, ExecuteSpends
    <3>2. PICK tr \in Trade :
            /\ tr.taker = t /\ \A i \in 1..Len(trades) : trades[i] # tr
            /\ trades' = Append(trades, tr) /\ feed' = feed
            /\ outbox' = [outbox EXCEPT ![t] = Append(outbox[t], [type |-> "trade", trade |-> tr])]
      BY <3>1
    <3>3. OutboxInv' /\ ToldInv'  BY <1>0, <3>2, ExecuteEvents
    <3> QED BY <3>1, <3>3
  <2>2. t \in DOMAIN order  BY <1>0, <1>1 DEF Execute, CallsAreBacked
  <2>3. TradesArePlaced'  BY <1>0, <1>1, <2>2, ExecutePlaces
  <2> QED BY <2>1, <2>3 DEF FeedInv
<1>2. ASSUME FillsKept PROVE FeedInv'
  <2>1. TradesArePlaced' /\ OneIsSpent'  BY <1>0, <1>2, SpentKept
  <2>2. ASSUME UNCHANGED <<trades, outbox, feed>> PROVE OutboxInv' /\ ToldInv'
    BY <1>0, <2>2, EventsUntouched
  <2>3. ASSUME NEW t \in Orders, Rest(t) PROVE OutboxInv' /\ ToldInv'
    BY <1>0, <2>3, RestEvents
  <2>4. ASSUME NEW t \in Orders, Emit(t) PROVE OutboxInv' /\ ToldInv'
    <3>1. outbox[t] # <<>>  BY <1>0, <2>4 DEF CallsAreBacked, Emit
    <3> QED BY <1>0, <2>4, <3>1, EmitEvents
  <2>5. ASSUME NEW s \in Subscribers, Receive(s) PROVE OutboxInv' /\ ToldInv'
    BY <1>0, <2>5, ReceiveEvents
  <2>6. ASSUME NEW o \in Orders, NEW r \in Requests, Submit(o, r.user, r.side, r.price, r.qty)
        PROVE  UNCHANGED <<trades, outbox, feed>>
    BY <2>6 DEF Submit, feedVars
  <2>7. ASSUME NEW o \in Orders,
               \/ Acquire(o) \/ SkipOwn(o) \/ StopMatching(o)
               \/ ReAdd(o) \/ Complete(o) \/ Cancel(o)
        PROVE  UNCHANGED <<trades, outbox, feed>>
    BY <2>7 DEF Acquire, SkipOwn, StopMatching, ReAdd, Complete, Cancel, TakeOff, feedVars
  <2>8. ASSUME NEW t \in Orders, Execute(t) PROVE OutboxInv' /\ ToldInv'
    BY <1>1, <2>8 DEF FeedInv
  <2>9. CASE UNCHANGED vars
    <3>1. UNCHANGED <<trades, outbox, feed>>  BY <2>9 DEF vars
    <3> QED BY <2>1, <2>2, <3>1 DEF FeedInv
  <2>10. CASE Next
    <3>1. OutboxInv' /\ ToldInv'
      BY <2>2, <2>3, <2>4, <2>5, <2>6, <2>7, <2>8, <2>10 DEF Next, HolderStep
    <3> QED BY <2>1, <3>1 DEF FeedInv
  <2> QED BY <2>9, <2>10
<1>3. ASSUME NEW t \in DOMAIN order, Execute(t) PROVE FeedInv'
  <2>1. t \in Orders  BY <1>0 DEF TypeOK
  <2> QED BY <1>1, <1>3, <2>1
<1> QED BY <1>0, <1>2, <1>3, OnlyExecuteFills

LEMMA InitFeed == Init => FeedInv
<1> SUFFICES ASSUME Init PROVE FeedInv  OBVIOUS
<1>1. trades = <<>>  BY DEF Init
<1>2. 1..Len(trades) = {}  BY <1>1
<1>3. TradesArePlaced /\ OneIsSpent  BY ONLY <1>2 DEF TradesArePlaced, OneIsSpent
<1>4. \A o \in Orders : outbox[o] = <<>>  BY DEF Init
<1>5. \A s \in Subscribers : feed[s] = <<>>  BY DEF Init
<1>6. \A i \in 1..Len(<<>>) : FALSE  OBVIOUS
<1>7. \A T, q, o : /\ MadeOf(T, <<>>) /\ OwnOf(<<>>, o) /\ InLine(T, <<>>)
                   /\ Behind(T, <<>>, q)
  BY ONLY <1>6 DEF MadeOf, OwnOf, InLine, Behind
<1>8. OutboxInv  BY <1>4, <1>7 DEF OutboxInv
<1>9. ToldInv  BY <1>5, <1>7 DEF ToldInv
<1> QED BY <1>3, <1>8, <1>9 DEF FeedInv

LEMMA InvFeed == FeedInv => FeedKeepsTakerOrder
<1> SUFFICES ASSUME FeedInv, NEW s \in Subscribers
             PROVE  /\ \A i \in 1..Len(feed[s]) :
                         feed[s][i].type = "trade" => Made(feed[s][i].trade)
                    /\ \A i, k \in 1..Len(feed[s]) :
                         i < k /\ OfOneTaker(feed[s][i], feed[s][k])
                           => MadeBefore(feed[s][i].trade, feed[s][k].trade)
  BY DEF FeedKeepsTakerOrder
<1>1. MadeOf(trades, feed[s]) /\ InLine(trades, feed[s])  BY DEF FeedInv, ToldInv
<1>2. \A i \in 1..Len(feed[s]) : feed[s][i].type = "trade" => Made(feed[s][i].trade)
  BY <1>1 DEF MadeOf, MadeIn, Made
<1>3. \A i, k \in 1..Len(feed[s]) :
        i < k /\ OfOneTaker(feed[s][i], feed[s][k])
          => MadeBefore(feed[s][i].trade, feed[s][k].trade)
  BY <1>1 DEF InLine, KeptIn, MadeBefore
<1> QED BY <1>2, <1>3

\* Whatever a full channel drops, however slowly it is read and however the
\* calls of other takers interleave, what a subscriber is told of one taker's
\* trades are trades that were made, each once, in the order they were made
\* (engine.go:107-114, 292-303).
THEOREM FeedTellsInOrder == Spec => []FeedKeepsTakerOrder
<1>1. Init => FeedInv  BY InitFeed
<1>2. BookInv /\ FeedInv /\ [Next]_vars => FeedInv'  BY NextFeed
<1>3. FeedInv => FeedKeepsTakerOrder  BY InvFeed
<1> QED BY <1>1, <1>2, <1>3, BookInvariant, PTL DEF Spec

-----------------------------------------------------------------------------
(* Folds from the left, round by round.                                    *)

\* A set of numbers up to n that is not empty has its maximum.
LEMMA MaxOfSet ==
  ASSUME NEW n \in Nat, NEW s \in SUBSET (1..n), s # {}
  PROVE  Max(s) \in s /\ \A y \in s : Max(s) >= y
<1> DEFINE HasMax(r) == \E x \in r : \A y \in r : x >= y
           G == {m \in Nat : \A r \in SUBSET (1..m) : r # {} => HasMax(r)}
<1>1. 0 \in G
  <2>1. 1..0 = {}  OBVIOUS
  <2> QED BY <2>1
<1>2. ASSUME NEW m \in Nat, m \in G PROVE m + 1 \in G
  <2> SUFFICES ASSUME NEW r \in SUBSET (1..(m + 1)), r # {} PROVE HasMax(r)  OBVIOUS
  <2>1. CASE m + 1 \in r  BY <2>1
  <2>2. CASE m + 1 \notin r
    <3>1. r \in SUBSET (1..m)  BY <2>2
    <3> QED BY <1>2, <3>1
  <2> QED BY <2>1, <2>2
<1> HIDE DEF G
<1>3. \A m \in Nat : m \in G  BY <1>1, <1>2, NatInductive
<1>4. HasMax(s)  BY <1>3 DEF G
<1> QED BY <1>4 DEF Max

\* The folds of the library take the largest index off what is left of 1..n.
LEMMA WithoutMax ==
  ASSUME NEW n \in Nat
  PROVE  /\ \A s \in SUBSET (1..(n + 1)) : s # {} => s \ {Max(s)} \in SUBSET (1..n)
         /\ Max(1..(n + 1)) = n + 1
         /\ (1..(n + 1)) \ {Max(1..(n + 1))} = 1..n
<1> DEFINE m == n + 1
<1>0. m \in Nat /\ m = n + 1  OBVIOUS
<1> HIDE DEF m
<1>1. ASSUME NEW s \in SUBSET (1..m), s # {} PROVE s \ {Max(s)} \in SUBSET (1..n)
  <2>1. Max(s) \in s /\ \A y \in s : Max(s) >= y  BY <1>0, <1>1, MaxOfSet
  <2> DEFINE x == Max(s)
  <2>2. x \in s /\ \A y \in s : x >= y  BY <2>1
  <2> HIDE DEF x
  <2>3. s \ {x} \in SUBSET (1..n)
    <3> SUFFICES ASSUME NEW y \in s, y # x PROVE y \in 1..n  OBVIOUS
    <3>1. x \in 1..m /\ y \in 1..m /\ x >= y  BY <2>2
    <3> QED BY ONLY <1>0, <3>1, y # x, n \in Nat
  <2> QED BY <2>3 DEF x
<1>2. Max(1..m) = m
  <2> DEFINE x == Max(1..m)
  <2>1. m \in 1..m  BY <1>0
  <2>2. x \in 1..m /\ x >= m
    <3>1. x \in 1..m /\ \A y \in 1..m : x >= y  BY <1>0, <2>1, MaxOfSet
    <3> HIDE DEF x
    <3> QED BY <2>1, <3>1
  <2> HIDE DEF x
  <2>3. x = m  BY <1>0, <2>2
  <2> QED BY <2>3 DEF x
<1>3. (1..m) \ {m} = 1..n  BY <1>0
<1> QED BY <1>1, <1>2, <1>3 DEF m

\* A set in as many numbers as it has elements.
LEMMA ListedSet ==
  ASSUME NEW S, IsFiniteSet(S)
  PROVE  DOMAIN SetToSeq(S) = 1..Cardinality(S)
<1>1. ExistsBijection(1..Cardinality(S), S)  BY FS_CardinalityType
<1>2. \E f \in [1..Cardinality(S) -> S] : IsInjective(f)
  BY <1>1 DEF ExistsBijection, Bijection, Injection
<1> QED BY <1>2 DEF SetToSeq

\* The rounds of the matching loop.
IsLoop(g, st0, t, D) ==
  g = [s \in D |-> IF s = {} THEN st0 ELSE MatchStep(g[s \ {Max(s)}], t)]

\* The recursive function behind the fold of MatchLoop exists.
LEMMA LoopExists ==
  ASSUME NEW st0, NEW t, NEW n \in Nat
  PROVE  \E g : IsLoop(g, st0, t, SUBSET (1..n))
<1> DEFINE G == {m \in Nat : \E g : IsLoop(g, st0, t, SUBSET (1..m))}
<1>1. 0 \in G
  <2>1. \A s \in SUBSET (1..0) : s = {}  OBVIOUS
  <2>2. IsLoop([s \in SUBSET (1..0) |-> st0], st0, t, SUBSET (1..0))  BY <2>1 DEF IsLoop
  <2> QED BY <2>2
<1>2. ASSUME NEW m \in Nat, m \in G PROVE m + 1 \in G
  <2>1. PICK g : IsLoop(g, st0, t, SUBSET (1..m))  BY <1>2
  <2> DEFINE h == [s \in SUBSET (1..(m + 1)) |->
                     IF s = {} THEN st0 ELSE MatchStep(g[s \ {Max(s)}], t)]
  <2>2. ASSUME NEW s \in SUBSET (1..m) PROVE h[s] = g[s]
    <3>1. s \in SUBSET (1..(m + 1))  OBVIOUS
    <3>2. g[s] = IF s = {} THEN st0 ELSE MatchStep(g[s \ {Max(s)}], t)  BY <2>1 DEF IsLoop
    <3> QED BY <3>1, <3>2
  <2>3. \A s \in SUBSET (1..(m + 1)) : s # {} => h[s \ {Max(s)}] = g[s \ {Max(s)}]
    BY <2>2, WithoutMax
  <2>4. h = [s \in SUBSET (1..(m + 1)) |->
               IF s = {} THEN st0 ELSE MatchStep(h[s \ {Max(s)}], t)]
    BY <2>3
  <2>5. IsLoop(h, st0, t, SUBSET (1..(m + 1)))  BY ONLY <2>4 DEF IsLoop
  <2> QED BY <2>5
<1> HIDE DEF G
<1>3. n \in G  BY <1>1, <1>2, NatInductive
<1> QED BY <1>3 DEF G

\* What matchOrder begins with: no order skipped, no trade made.
LoopStart(bk, heap, t) ==
  [heap |-> heap, levels |-> bk[Opposite(heap[t].side)], skipped |-> <<>>, trades |-> <<>>]

\* g[k] is what n rounds leave after k of them.
Rounds(g, st0, t, n) ==
  g[0] = st0 /\ \A k \in 0..(n - 1) : g[k + 1] = MatchStep(g[k], t)

\* MatchLoop is what as many rounds leave as there are orders.
LEMMA LoopInRounds ==
  ASSUME NEW bk, NEW heap, NEW t, IsFiniteSet(DOMAIN heap)
  PROVE  LET n == Cardinality(DOMAIN heap)
         IN  \E g : /\ Rounds(g, LoopStart(bk, heap, t), t, n)
                    /\ MatchLoop(bk, heap, t) = g[n]
<1> DEFINE n == Cardinality(DOMAIN heap)
           st0 == LoopStart(bk, heap, t)
           f == CHOOSE g : IsLoop(g, st0, t, SUBSET (1..n))
           r == [k \in 0..n |-> f[1..k]]
<1>0. n \in Nat  BY FS_CardinalityType
<1>1. DOMAIN SetToSeq(DOMAIN heap) = 1..n  BY ListedSet
<1>2. MatchLoop(bk, heap, t) = f[1..n]
  BY <1>1 DEF MatchLoop, FoldLeft, MapThenFoldSet, IsLoop, LoopStart
<1>3. IsLoop(f, st0, t, SUBSET (1..n))  BY <1>0, LoopExists
<1> HIDE DEF f, n, st0
<1>4. f[{}] = st0  BY <1>3 DEF IsLoop
<1>5. ASSUME NEW k \in 0..(n - 1) PROVE f[1..(k + 1)] = MatchStep(f[1..k], t)
  <2>1. /\ k \in Nat /\ 1..(k + 1) \in SUBSET (1..n)
        /\ 1..(k + 1) # {}
    <3>1. k \in Nat /\ k + 1 <= n  BY <1>0
    <3>2. 1 \in 1..(k + 1)  BY <3>1
    <3>3. \A j \in 1..(k + 1) : j \in 1..n  BY <1>0, <3>1
    <3> QED BY <3>1, <3>2, <3>3
  <2>2. f[1..(k + 1)] = MatchStep(f[(1..(k + 1)) \ {Max(1..(k + 1))}], t)
    BY <1>3, <2>1 DEF IsLoop
  <2>3. (1..(k + 1)) \ {Max(1..(k + 1))} = 1..k  BY <2>1, WithoutMax
  <2> QED BY <2>2, <2>3
<1>6. 1..0 = {}  OBVIOUS
<1>7. \A k \in 0..n : r[k] = f[1..k]  OBVIOUS
<1>8. 0 \in 0..n /\ n \in 0..n /\ \A k \in 0..(n - 1) : k \in 0..n /\ k + 1 \in 0..n  BY <1>0
<1> HIDE DEF r
<1>9. r[0] = st0  BY <1>4, <1>6, <1>7, <1>8
<1>10. \A k \in 0..(n - 1) : r[k + 1] = MatchStep(r[k], t)  BY <1>5, <1>7, <1>8
<1>11. Rounds(r, st0, t, n) /\ MatchLoop(bk, heap, t) = r[n]
  BY <1>2, <1>7, <1>8, <1>9, <1>10 DEF Rounds
<1> QED BY <1>11 DEF n, st0

\* The orders put back, one after the other.
IsPut(g, levels, heap, q, D) ==
  g = [s \in D |-> IF s = {} THEN levels ELSE PutBack(g[s \ {Max(s)}], heap, q[Max(s)])]

\* The recursive function behind the fold of PutAllBack exists.
LEMMA PutExists ==
  ASSUME NEW levels, NEW heap, NEW q, NEW n \in Nat
  PROVE  \E g : IsPut(g, levels, heap, q, SUBSET (1..n))
<1> DEFINE G == {m \in Nat : \E g : IsPut(g, levels, heap, q, SUBSET (1..m))}
<1>1. 0 \in G
  <2>1. \A s \in SUBSET (1..0) : s = {}  OBVIOUS
  <2>2. IsPut([s \in SUBSET (1..0) |-> levels], levels, heap, q, SUBSET (1..0))
    BY <2>1 DEF IsPut
  <2> QED BY <2>2
<1>2. ASSUME NEW m \in Nat, m \in G PROVE m + 1 \in G
  <2>1. PICK g : IsPut(g, levels, heap, q, SUBSET (1..m))  BY <1>2
  <2> DEFINE h == [s \in SUBSET (1..(m + 1)) |->
                     IF s = {} THEN levels ELSE PutBack(g[s \ {Max(s)}], heap, q[Max(s)])]
  <2>2. ASSUME NEW s \in SUBSET (1..m) PROVE h[s] = g[s]
    <3>1. s \in SUBSET (1..(m + 1))  OBVIOUS
    <3>2. g[s] = IF s = {} THEN levels ELSE PutBack(g[s \ {Max(s)}], heap, q[Max(s)])
      BY <2>1 DEF IsPut
    <3> QED BY <3>1, <3>2
  <2>3. \A s \in SUBSET (1..(m + 1)) : s # {} => h[s \ {Max(s)}] = g[s \ {Max(s)}]
    BY <2>2, WithoutMax
  <2>4. h = [s \in SUBSET (1..(m + 1)) |->
               IF s = {} THEN levels ELSE PutBack(h[s \ {Max(s)}], heap, q[Max(s)])]
    BY <2>3
  <2>5. IsPut(h, levels, heap, q, SUBSET (1..(m + 1)))  BY ONLY <2>4 DEF IsPut
  <2> QED BY <2>5
<1> HIDE DEF G
<1>3. n \in G  BY <1>1, <1>2, NatInductive
<1> QED BY <1>3 DEF G

\* g[k] is what the levels are with the first k orders back.
PutRounds(g, levels, heap, q) ==
  g[0] = levels /\ \A k \in 0..(Len(q) - 1) : g[k + 1] = PutBack(g[k], heap, q[k + 1])

\* PutAllBack is what the levels are when the last order is back.
LEMMA PutInRounds ==
  ASSUME NEW levels, NEW heap, NEW S, NEW q \in Seq(S)
  PROVE  \E g : PutRounds(g, levels, heap, q) /\ PutAllBack(levels, heap, q) = g[Len(q)]
<1> DEFINE n == Len(q)
           f == CHOOSE g : IsPut(g, levels, heap, q, SUBSET (1..n))
           r == [k \in 0..n |-> f[1..k]]
<1>0. n \in Nat  BY LenProperties
<1>1. DOMAIN q = 1..n  BY LenProperties
<1>2. PutAllBack(levels, heap, q) = f[1..n]
  BY <1>1 DEF PutAllBack, FoldLeft, MapThenFoldSet, IsPut
<1>3. IsPut(f, levels, heap, q, SUBSET (1..n))  BY <1>0, PutExists
<1> HIDE DEF f, n
<1>4. f[{}] = levels  BY <1>3 DEF IsPut
<1>5. ASSUME NEW k \in 0..(n - 1) PROVE f[1..(k + 1)] = PutBack(f[1..k], heap, q[k + 1])
  <2>1. /\ k \in Nat /\ 1..(k + 1) \in SUBSET (1..n)
        /\ 1..(k + 1) # {}
    <3>1. k \in Nat /\ k + 1 <= n  BY <1>0
    <3>2. 1 \in 1..(k + 1)  BY <3>1
    <3>3. \A j \in 1..(k + 1) : j \in 1..n  BY <1>0, <3>1
    <3> QED BY <3>1, <3>2, <3>3
  <2>2. f[1..(k + 1)] = PutBack(f[(1..(k + 1)) \ {Max(1..(k + 1))}], heap, q[Max(1..(k + 1))])
    BY <1>3, <2>1 DEF IsPut
  <2>3. (1..(k + 1)) \ {Max(1..(k + 1))} = 1..k /\ Max(1..(k + 1)) = k + 1
    BY <2>1, WithoutMax
  <2> QED BY <2>2, <2>3
<1>6. 1..0 = {}  OBVIOUS
<1>7. \A k \in 0..n : r[k] = f[1..k]  OBVIOUS
<1>8. 0 \in 0..n /\ n \in 0..n /\ \A k \in 0..(n - 1) : k \in 0..n /\ k + 1 \in 0..n  BY <1>0
<1> HIDE DEF r
<1>9. r[0] = levels  BY <1>4, <1>6, <1>7, <1>8
<1>10. \A k \in 0..(n - 1) : r[k + 1] = PutBack(r[k], heap, q[k + 1])  BY <1>5, <1>7, <1>8
<1>11. PutRounds(r, levels, heap, q) /\ PutAllBack(levels, heap, q) = r[n]
  BY <1>2, <1>7, <1>8, <1>9, <1>10 DEF PutRounds, n
<1> QED BY <1>11 DEF n

-----------------------------------------------------------------------------
(* One iteration of the loop and one step of the goroutine.                *)

\* What an iteration does: the loop's variables, and when it ends.
Looping(h, l, q, T) == [heap |-> h, levels |-> l, skipped |-> q, trades |-> T]

Ends(h, l, t) ==
  \/ Unfilled(h[t]) = 0
  \/ l = <<>>
  \/ ~ WillTrade(h[t], h[BestOrder(l)])

\* A loop that has ended stands still.
LEMMA RoundEnds ==
  ASSUME NEW h, NEW l, NEW q, NEW T, NEW t, Ends(h, l, t)
  PROVE  MatchStep(Looping(h, l, q, T), t) = Looping(h, l, q, T)
BY DEF MatchStep, Looping, Ends

\* An order of the taker's own goes from the levels to the skipped ones.
LEMMA RoundSkips ==
  ASSUME NEW h, NEW l, NEW q, NEW T, NEW t, ~ Ends(h, l, t),
         h[t].user = h[BestOrder(l)].user
  PROVE  MatchStep(Looping(h, l, q, T), t)
           = Looping(h, DequeueBest(l), Append(q, BestOrder(l)), T)
BY DEF MatchStep, Looping, Ends

\* A part of the heap changes as the heap does.
LEMMA PartOfHeap ==
  ASSUME NEW D, NEW h \in [D -> Order], NEW H \in SUBSET D, NEW t \in H, NEW m \in H,
         t # m, NEW f, NEW s
  PROVE  [o \in H |-> [h EXCEPT ![t].filled = @ + f, ![m].filled = @ + f, ![m].status = s][o]]
           = [[o \in H |-> h[o]] EXCEPT ![t].filled = @ + f, ![m].filled = @ + f, ![m].status = s]
<1> DEFINE a == [h EXCEPT ![t].filled = @ + f, ![m].filled = @ + f, ![m].status = s]
           g == [o \in H |-> h[o]]
           b == [g EXCEPT ![t].filled = @ + f, ![m].filled = @ + f, ![m].status = s]
<1>1. DOMAIN a = D /\ DOMAIN b = H /\ DOMAIN h = D /\ \A o \in H : o \in D /\ g[o] = h[o]
  OBVIOUS
<1>2. /\ a[t] = [h[t] EXCEPT !.filled = @ + f]
      /\ b[t] = [g[t] EXCEPT !.filled = @ + f]
  BY <1>1
<1>3. /\ a[m] = [h[m] EXCEPT !.filled = @ + f, !.status = s]
      /\ b[m] = [g[m] EXCEPT !.filled = @ + f, !.status = s]
  BY <1>1
<1>4. \A o \in H \ {t, m} : a[o] = h[o] /\ b[o] = g[o]
  BY <1>1
<1>5. b = [o \in H |-> b[o]]  OBVIOUS
<1> HIDE DEF a, b, g
<1>6. \A o \in H : a[o] = b[o]  BY ONLY <1>1, <1>2, <1>3, <1>4, t \in H, m \in H
<1>7. [o \in H |-> a[o]] = b  BY ONLY <1>5, <1>6
<1> QED BY <1>7 DEF a, b, g

-----------------------------------------------------------------------------

\* What the holder of the mutex has come to: the variables of its loop, for the
\* orders that were on the heap when it took the mutex.
HeldHeap == [o \in DOMAIN before.heap |-> order[o]]

TradesSince == SubSeq(trades, before.made + 1, Len(trades))

Stage == Looping(HeldHeap, OppositeLevels(mu), skipped, TradesSince)

\* Every iteration but the last takes one more order off the book.
TakenOff == DOMAIN before.heap \ (BookIds \cup {mu})

HolderInv ==
  /\ mu \in DOMAIN before.heap /\ DOMAIN before.heap \subseteq DOMAIN order
  /\ IsFiniteSet(DOMAIN before.heap)
  /\ before.made \in 0..Len(trades)
  /\ BookIds \cup QueueIds(skipped) \subseteq DOMAIN before.heap
  /\ \A o \in DOMAIN before.heap : /\ order[o].user = before.heap[o].user
                                   /\ order[o].side = before.heap[o].side
                                   /\ order[o].price = before.heap[o].price
  /\ order[mu].status = before.heap[mu].status
  /\ book[order[mu].side] = before.book[order[mu].side]

\* The loop has run k rounds.
MatchingInv ==
  LET n == Cardinality(DOMAIN before.heap)
  IN  \A g : Rounds(g, LoopStart(before.book, before.heap, mu), mu, n) =>
        \E k \in Nat : /\ g[k] = Stage
                       /\ k <= Cardinality(TakenOff) + (IF Remaining(mu) = 0 THEN 1 ELSE 0)

\* The loop has ended, and k of the skipped orders are back.
ReturningInv ==
  LET end == MatchLoop(before.book, before.heap, mu)
  IN  /\ end.heap = HeldHeap /\ end.trades = TradesSince
      /\ end.skipped \in Seq(DOMAIN before.heap)
      /\ \A g : PutRounds(g, end.levels, before.heap, end.skipped) =>
           \E k \in 0..Len(end.skipped) :
             /\ OppositeLevels(mu) = g[k]
             /\ skipped = SubSeq(end.skipped, k + 1, Len(end.skipped))

AtomicInv ==
  /\ IsFiniteSet(DOMAIN order)
  /\ mu # NoOne => /\ HolderInv
                   /\ pc[mu] = "match" => MatchingInv
                   /\ pc[mu] = "readd" => ReturningInv

-----------------------------------------------------------------------------

\* The code's conditions in the loop are those of the function.
LEMMA GuardsAgree ==
  ASSUME EngineInv, BookShape, HolderInv
  PROVE  CanMatch(mu) <=> ~ Ends(HeldHeap, OppositeLevels(mu), mu)
<1> DEFINE l == OppositeLevels(mu)
           m == BestOrder(l)
<1>0. mu \in DOMAIN order /\ mu \in DOMAIN before.heap  BY DEF HolderInv
<1>1. Remaining(mu) \in Nat
  BY <1>0, EngineAssumption DEF EngineInv, TypeOK, Order, NeverOverfilled, Remaining
<1>2. ASSUME l # <<>> PROVE l[1].queue # <<>> /\ m \in BookIds
  <2>1. Opposite(order[mu].side) \in Sides  BY DEF Opposite, Sides
  <2>2. Full(l)  BY <2>1 DEF BookShape, SlicesInv, OppositeLevels
  <2>3. l \in Seq(LevelType(DOMAIN order, Prices))
    BY <2>1 DEF EngineInv, TypeOK, OppositeLevels
  <2>4. 1 \in 1..Len(l)  BY <1>2, <2>3, EmptySeq
  <2>5. l[1].queue # <<>> /\ l[1].queue \in Seq(DOMAIN order)
    BY <2>2, <2>3, <2>4, LevelParts DEF Full
  <2>6. m \in QueueIds(l[1].queue)  BY <2>5, EmptySeq DEF BestOrder, QueueIds
  <2>7. m \in LevelIds(l)  BY <2>4, <2>6 DEF LevelIds
  <2>8. LevelIds(l) \subseteq BookIds  BY <2>1 DEF OppositeLevels, BookIds, Sides
  <2> QED BY <2>5, <2>7, <2>8
<1>3. HeldHeap[mu] = order[mu]  BY <1>0 DEF HeldHeap
<1>4. l # <<>> => l[1].queue # <<>> /\ HeldHeap[m] = order[m]
  BY <1>2 DEF HolderInv, HeldHeap
<1>5. CanMatch(mu) <=> Remaining(mu) > 0 /\ l # <<>> /\ Crosses(mu, m)
  BY <1>4 DEF CanMatch, HasBest
<1> HIDE DEF l, m
<1>6. Ends(HeldHeap, l, mu) <=> \/ Unfilled(order[mu]) = 0 \/ l = <<>>
                                \/ ~ WillTrade(order[mu], order[m])
  BY <1>3, <1>4 DEF Ends, m
<1>7. WillTrade(order[mu], order[m]) <=> Crosses(mu, m)  BY DEF WillTrade, Crosses
<1>8. Unfilled(order[mu]) = Remaining(mu)  BY DEF Unfilled, Remaining
<1> QED BY <1>1, <1>5, <1>6, <1>7, <1>8 DEF l

\* Where the holder stands does not depend on what goes on around it.
LEMMA HolderUntouched ==
  ASSUME TypeOK, AtomicInv, mu # NoOne, IsFiniteSet(DOMAIN order'),
         UNCHANGED <<book, mu, skipped, trades, before>>, pc'[mu] = pc[mu],
         DOMAIN order \subseteq DOMAIN order', \A o \in DOMAIN order : order'[o] = order[o]
  PROVE  AtomicInv'
<1>1. HolderInv  BY DEF AtomicInv
<1>2. mu \in DOMAIN order /\ order'[mu] = order[mu]  BY <1>1 DEF HolderInv
<1>3. HeldHeap' = HeldHeap  BY <1>1 DEF HolderInv, HeldHeap
<1>4. BookIds' = BookIds /\ TakenOff' = TakenOff  BY DEF BookIds, TakenOff
<1>5. TradesSince' = TradesSince  BY DEF TradesSince
<1>6. OppositeLevels(mu)' = OppositeLevels(mu)  BY <1>2 DEF OppositeLevels
<1>7. Stage' = Stage  BY <1>3, <1>5, <1>6 DEF Stage
<1>8. Remaining(mu)' = Remaining(mu)  BY <1>2 DEF Remaining
<1>9. HolderInv'  BY <1>1, <1>2, <1>4 DEF HolderInv
<1>10. MatchingInv => MatchingInv'  BY <1>4, <1>7, <1>8 DEF MatchingInv
<1>11. ReturningInv => ReturningInv'  BY <1>3, <1>5, <1>6 DEF ReturningInv
<1> QED BY <1>9, <1>10, <1>11 DEF AtomicInv

-----------------------------------------------------------------------------
(* Step by step: taking the mutex, the rounds of the loop, putting back,   *)
(* letting go.                                                             *)

\* PlaceOrder takes the mutex: the loop has run no round.
LEMMA AcquireAtomic ==
  ASSUME BookInv, BookInv', AtomicInv, NEW o \in Orders, Acquire(o), before' = ASnapshot
  PROVE  AtomicInv'
<1>1. /\ pc[o] = "lock" /\ mu = NoOne /\ mu' = o /\ skipped' = <<>>
      /\ pc' = [pc EXCEPT ![o] = "match"]
      /\ UNCHANGED <<order, book, index, trades>>
  BY DEF Acquire, bookVars
<1>2. /\ before'.book = book /\ before'.heap = order /\ before'.made = Len(trades)
  BY DEF ASnapshot
<1>3. TypeOK /\ EngineInv /\ BookShape /\ IsFiniteSet(DOMAIN order)
  BY DEF BookInv, EngineInv, AtomicInv
<1>4. /\ o \in DOMAIN order /\ pc'[o] = "match" /\ Len(trades) \in Nat
      /\ order = [x \in DOMAIN order |-> order[x]]
  BY <1>1, <1>3, LenProperties DEF EngineInv, CallsAreBacked, TypeOK
<1>5. BookIds' = BookIds /\ BookIds \subseteq DOMAIN order /\ QueueIds(skipped') = {}
  BY <1>1, <1>3, BookIdsPlace, EmptyQueue DEF BookIds, BookShape
<1>6. HolderInv'  BY <1>1, <1>2, <1>3, <1>4, <1>5 DEF HolderInv
<1>7. TradesSince' = <<>>
  BY <1>1, <1>2, <1>4, SubSeqEmpty DEF TradesSince
<1>8. OppositeLevels(o)' = book[Opposite(order[o].side)]  BY <1>1 DEF OppositeLevels
<1>9. HeldHeap' = order  BY <1>1, <1>2, <1>4 DEF HeldHeap
<1>10. Stage' = LoopStart(before'.book, before'.heap, mu')
  BY <1>1, <1>2, <1>7, <1>8, <1>9 DEF Stage, Looping, LoopStart
<1>11. MatchingInv'
  <2> SUFFICES ASSUME NEW g, Rounds(g, LoopStart(before'.book, before'.heap, mu'), mu',
                                    Cardinality(DOMAIN before'.heap))
               PROVE  \E k \in Nat : /\ g[k] = Stage'
                                     /\ k <= Cardinality(TakenOff') + (IF Remaining(mu)' = 0 THEN 1 ELSE 0)
    BY DEF MatchingInv
  <2>1. g[0] = Stage'  BY <1>10 DEF Rounds
  <2>2. Cardinality(TakenOff') \in Nat
    <3>1. TakenOff' \subseteq DOMAIN order  BY <1>2 DEF TakenOff
    <3> QED BY <1>3, <3>1, FS_Subset, FS_CardinalityType
  <2> QED BY <2>1, <2>2
<1> QED BY <1>1, <1>3, <1>4, <1>6, <1>11 DEF AtomicInv

\* There are more rounds than orders that the loop can take off.
LEMMA RoundsLeft ==
  ASSUME HolderInv, mu \notin BookIds
  PROVE  /\ Cardinality(TakenOff) \in Nat /\ IsFiniteSet(TakenOff)
         /\ Cardinality(TakenOff) + 1 <= Cardinality(DOMAIN before.heap)
         /\ Cardinality(DOMAIN before.heap) \in Nat
<1> DEFINE H == DOMAIN before.heap
           T == TakenOff
<1>1. IsFiniteSet(H) /\ mu \in H /\ T \subseteq H \ {mu}  BY DEF HolderInv, TakenOff
<1> HIDE DEF H, T
<1>2. IsFiniteSet(H \ {mu}) /\ Cardinality(H \ {mu}) = Cardinality(H) - 1
  BY <1>1, FS_RemoveElement
<1>3. IsFiniteSet(T) /\ Cardinality(T) <= Cardinality(H \ {mu})  BY ONLY <1>1, <1>2, FS_Subset
<1>4. Cardinality(T) \in Nat /\ Cardinality(H) \in Nat  BY <1>1, <1>3, FS_CardinalityType
<1>5. Cardinality(T) + 1 <= Cardinality(H)  BY ONLY <1>2, <1>3, <1>4
<1> QED BY <1>3, <1>4, <1>5 DEF H, T

\* A step of the goroutine that is a round of the loop.
LEMMA OneMoreRound ==
  ASSUME HolderInv, MatchingInv, mu \notin BookIds, mu' = mu, before' = before,
         Remaining(mu) # 0, Stage' = MatchStep(Stage, mu),
         \/ \E m \in BookIds : BookIds' = BookIds \ {m}
         \/ BookIds' = BookIds /\ Remaining(mu)' = 0
  PROVE  MatchingInv'
<1> DEFINE n == Cardinality(DOMAIN before.heap)
           c == Cardinality(TakenOff)
           d == Cardinality(TakenOff')
           st0 == LoopStart(before.book, before.heap, mu)
           r == IF Remaining(mu)' = 0 THEN 1 ELSE 0
<1>1. c \in Nat /\ n \in Nat /\ c + 1 <= n  BY RoundsLeft
<1>2. c + 1 <= d + r /\ d \in Nat
  <2>1. CASE BookIds' = BookIds /\ Remaining(mu)' = 0
    <3>1. TakenOff' = TakenOff  BY <2>1 DEF TakenOff
    <3> QED BY <1>1, <2>1, <3>1
  <2>2. ASSUME NEW m \in BookIds, BookIds' = BookIds \ {m} PROVE c + 1 <= d + r /\ d \in Nat
    <3>1. m \in DOMAIN before.heap /\ m # mu  BY DEF HolderInv
    <3>2. TakenOff' = TakenOff \cup {m} /\ m \notin TakenOff  BY <2>2, <3>1 DEF TakenOff
    <3>3. IsFiniteSet(TakenOff)  BY RoundsLeft
    <3>4. d = c + 1  BY <3>2, <3>3, FS_AddElement
    <3> HIDE DEF c, d
    <3> QED BY <1>1, <3>4
  <2> QED BY <2>1, <2>2
<1> SUFFICES ASSUME NEW g, Rounds(g, st0, mu, n)
             PROVE  \E k \in Nat : g[k] = Stage' /\ k <= d + r
  BY DEF MatchingInv
<1>3. PICK k \in Nat : g[k] = Stage /\ k <= c + (IF Remaining(mu) = 0 THEN 1 ELSE 0)
  BY DEF MatchingInv
<1> HIDE DEF n, c, d, st0, r
<1>4. k <= c  BY <1>1, <1>3
<1>5. k \in 0..(n - 1)  BY <1>1, <1>4
<1>6. g[k + 1] = Stage'  BY <1>3, <1>5 DEF Rounds
<1>7. k + 1 \in Nat /\ k + 1 <= d + r
  <2>1. r \in Nat  BY DEF r
  <2> QED BY ONLY <1>1, <1>2, <1>4, <2>1, k \in Nat
<1> QED BY <1>6, <1>7

\* What a round of the goroutine leaves as it was.
LEMMA HolderKept ==
  ASSUME TypeOK, HolderInv, mu' = mu, before' = before, PlacesKept,
         order'[mu].status = order[mu].status, Len(trades) <= Len(trades'), Len(trades') \in Nat,
         Len(trades) \in Nat,
         BookIds' \cup QueueIds(skipped') \subseteq BookIds \cup QueueIds(skipped),
         book'[order[mu].side] = book[order[mu].side]
  PROVE  HolderInv'
<1>1. \A o \in DOMAIN before.heap : o \in DOMAIN order  BY DEF HolderInv
<1>2. before.made \in 0..Len(trades')  BY DEF HolderInv
<1> QED BY <1>1, <1>2 DEF HolderInv, PlacesKept

\* A skip is a round.
LEMMA SkipOwnAtomic ==
  ASSUME BookInv, BookInv', AtomicInv, NEW t \in Orders, SkipOwn(t), before' = before
  PROVE  AtomicInv'
<1> DEFINE m == BestOrder(OppositeLevels(t))
           opp == Opposite(order[t].side)
<1>1. /\ pc[t] = "match" /\ CanMatch(t) /\ order[t].user = order[m].user /\ TakeBestOff(t)
      /\ skipped' = Append(skipped, m)
      /\ UNCHANGED <<order, mu, pc, trades>>
  BY DEF SkipOwn
<1>0. /\ EngineInv /\ TypeOK /\ TypeOK' /\ BookShape /\ t \in DOMAIN order /\ mu = t
      /\ mu # NoOne /\ t \notin BookIds
  BY <1>1, HolderFacts DEF BookInv, EngineInv
<1>2. HolderInv /\ MatchingInv  BY <1>0, <1>1 DEF AtomicInv
<1>3. PlacesKept  BY <1>1 DEF PlacesKept
<1>4. m \in BookIds /\ BookIds' = BookIds \ {m}
  BY <1>0, <1>1, <1>3, BestFacts, BookServed DEF BookShape
<1>5. book' = [book EXCEPT ![opp] = DequeueBest(@)]  BY <1>1 DEF TakeBestOff
<1>6. /\ opp \in Sides /\ order[t].side \in Sides /\ opp # order[t].side
      /\ DOMAIN book = Sides
  BY <1>0 DEF TypeOK, Order, Opposite, Sides
<1>7. /\ book'[opp] = DequeueBest(book[opp])
      /\ book'[order[t].side] = book[order[t].side]
  BY <1>5, <1>6
<1>8. QueueIds(skipped') = QueueIds(skipped) \cup {m}
  <2>1. skipped \in Seq(DOMAIN order) /\ m \in DOMAIN order
    BY <1>0, <1>4, BookIdsPlace DEF TypeOK, BookShape
  <2>2. m \notin QueueIds(skipped) /\ Once(skipped)
    BY <1>1, <1>4, HolderFacts DEF SkippedInv
  <2> QED BY ONLY <1>1, <2>1, <2>2, AppendQueue
<1>9. HolderInv'
  <2>1. Len(trades) \in Nat  BY <1>0, LenProperties DEF TypeOK
  <2>2. BookIds' \cup QueueIds(skipped') \subseteq BookIds \cup QueueIds(skipped)
    BY <1>4, <1>8
  <2> HIDE DEF m, opp
  <2> QED BY <1>0, <1>1, <1>2, <1>3, <1>7, <2>1, <2>2, HolderKept
<1>10. Stage' = MatchStep(Stage, t)
  <2>1. /\ t \in DOMAIN before.heap /\ m \in DOMAIN before.heap
        /\ HeldHeap[t] = order[t] /\ HeldHeap[m] = order[m]
    BY <1>0, <1>2, <1>4 DEF HolderInv, HeldHeap
  <2>2. ~ Ends(HeldHeap, OppositeLevels(t), t)  BY <1>0, <1>1, <1>2, GuardsAgree
  <2>3. OppositeLevels(t)' = DequeueBest(OppositeLevels(t))
    BY <1>1, <1>7 DEF OppositeLevels
  <2>4. HeldHeap' = HeldHeap /\ TradesSince' = TradesSince
    BY <1>1 DEF HeldHeap, TradesSince
  <2>5. MatchStep(Looping(HeldHeap, OppositeLevels(t), skipped, TradesSince), t)
          = Looping(HeldHeap, DequeueBest(OppositeLevels(t)), Append(skipped, m), TradesSince)
    BY <1>1, <2>1, <2>2, RoundSkips
  <2> QED BY <1>0, <1>1, <2>3, <2>4, <2>5 DEF Stage
<1>11. MatchingInv'
  <2>1. Remaining(t) # 0  BY <1>1 DEF CanMatch
  <2> HIDE DEF m
  <2> QED BY <1>0, <1>1, <1>2, <1>4, <1>10, <2>1, OneMoreRound
<1> QED BY <1>0, <1>1, <1>9, <1>11 DEF AtomicInv

\* The rest of a sequence grows as the sequence does.
LEMMA SuffixAppend ==
  ASSUME NEW S, NEW s \in Seq(S), NEW e \in S, NEW i \in 0..Len(s)
  PROVE  SubSeq(Append(s, e), i + 1, Len(Append(s, e))) = Append(SubSeq(s, i + 1, Len(s)), e)
<1> DEFINE u == Append(s, e)
           a == SubSeq(u, i + 1, Len(u))
           b == SubSeq(s, i + 1, Len(s))
           c == Append(b, e)
<1>0. Len(s) \in Nat  BY LenProperties
<1>1. /\ u \in Seq(S) /\ Len(u) = Len(s) + 1
      /\ \A j \in 1..Len(s) : u[j] = s[j]
      /\ u[Len(s) + 1] = e
  BY AppendProperties
<1> HIDE DEF u
<1>2. /\ a \in Seq(S) /\ Len(a) = Len(s) + 1 - i
      /\ \A j \in 1..(Len(s) + 1 - i) : a[j] = u[i + j]
  <2>1. \A j \in (i + 1)..Len(u) : u[j] \in S  BY <1>0, <1>1, ElementOfSeq
  <2>2. i + 1 \in Int /\ Len(u) \in Int /\ i + 1 <= Len(u)  BY <1>0, <1>1
  <2>3. /\ a \in Seq(S) /\ Len(a) = Len(u) - (i + 1) + 1
        /\ \A j \in 1..(Len(u) - (i + 1) + 1) : a[j] = u[(i + 1) + j - 1]
    BY ONLY <2>1, <2>2, SubSeqProperties
  <2> QED BY <1>0, <1>1, <2>3
<1>3. /\ b \in Seq(S) /\ Len(b) = Len(s) - i
      /\ \A j \in 1..(Len(s) - i) : b[j] = s[i + j]
  <2>1. \A j \in (i + 1)..Len(s) : s[j] \in S  BY <1>0, ElementOfSeq
  <2>2. /\ b \in Seq(S) /\ Len(b) = IF i + 1 <= Len(s) THEN Len(s) - (i + 1) + 1 ELSE 0
        /\ \A j \in 1..(Len(s) - (i + 1) + 1) : b[j] = s[(i + 1) + j - 1]
    BY <1>0, <2>1, SubSeqProperties
  <2> QED BY <1>0, <2>2
<1> HIDE DEF a, b
<1>4. /\ c \in Seq(S) /\ Len(c) = Len(s) - i + 1
      /\ \A j \in 1..(Len(s) - i) : c[j] = b[j]
      /\ c[Len(s) - i + 1] = e
  BY <1>3, AppendProperties
<1> HIDE DEF c
<1>5. ASSUME NEW j \in 1..Len(a) PROVE a[j] = c[j]
  <2>1. CASE j <= Len(s) - i
    <3>1. j \in 1..(Len(s) - i) /\ j \in 1..(Len(s) + 1 - i) /\ i + j \in 1..Len(s)
      BY <1>0, <1>2, <2>1
    <3>2. a[j] = u[i + j] /\ c[j] = b[j] /\ b[j] = s[i + j] /\ u[i + j] = s[i + j]
      BY ONLY <1>1, <1>2, <1>3, <1>4, <3>1
    <3> QED BY ONLY <3>2
  <2>2. CASE j = Len(s) - i + 1
    <3>1. j \in 1..(Len(s) + 1 - i) /\ i + j = Len(s) + 1  BY <1>0, <2>2
    <3>2. a[j] = u[i + j] /\ u[i + j] = e /\ c[j] = e
      BY ONLY <1>1, <1>2, <1>4, <2>2, <3>1
    <3> QED BY ONLY <3>2
  <2>3. j \in 1..(Len(s) + 1 - i)  BY <1>2
  <2>4. j <= Len(s) - i \/ j = Len(s) - i + 1  BY ONLY <1>0, <2>3, i \in 0..Len(s)
  <2> QED BY ONLY <2>1, <2>2, <2>4
<1>6. Len(a) = Len(c)  BY <1>0, <1>2, <1>4
<1>7. a = c  BY ONLY <1>2, <1>4, <1>5, <1>6, SeqEqual
<1> QED BY <1>7 DEF a, b, c, u

\* The rest of a sequence loses its head as more of the sequence is done.
LEMMA SuffixTail ==
  ASSUME NEW S, NEW q \in Seq(S), NEW k \in 0..Len(q)
  PROVE  /\ SubSeq(q, k + 1, Len(q)) = <<>> => k = Len(q)
         /\ SubSeq(q, k + 1, Len(q)) # <<>> =>
              /\ k + 1 \in 1..Len(q)
              /\ Head(SubSeq(q, k + 1, Len(q))) = q[k + 1]
              /\ Tail(SubSeq(q, k + 1, Len(q))) = SubSeq(q, k + 1 + 1, Len(q))
<1>0. Len(q) \in Nat /\ k \in Int  BY LenProperties
<1>1. \A j \in (k + 1)..Len(q) : q[j] \in S  BY <1>0, ElementOfSeq
<1>2. k = Len(q) => SubSeq(q, k + 1, Len(q)) = <<>>
  BY <1>0, SubSeqEmpty
<1>3. ASSUME k < Len(q)
      PROVE  /\ SubSeq(q, k + 1, Len(q)) # <<>>
             /\ k + 1 \in 1..Len(q)
             /\ Head(SubSeq(q, k + 1, Len(q))) = q[k + 1]
             /\ Tail(SubSeq(q, k + 1, Len(q))) = SubSeq(q, k + 1 + 1, Len(q))
  <2> DEFINE i == k + 1
             n == Len(q)
             r == SubSeq(q, i, n)
  <2>1. i \in Int /\ n \in Int /\ i <= n /\ i \in 1..Len(q) /\ n \in i..Len(q)
    BY <1>0, <1>3
  <2>2. \A j \in i..n : q[j] \in S  BY <1>1
  <2> HIDE DEF i, n
  <2>3. Len(r) = n - i + 1  BY ONLY <2>1, <2>2, SubSeqProperties
  <2>4. r # <<>>  BY <2>1, <2>3, EmptySeq
  <2>5. Head(r) = q[i] /\ Tail(r) = SubSeq(q, i + 1, n)  BY <2>1, HeadTailOfSubSeq
  <2> QED BY ONLY <2>1, <2>4, <2>5 DEF i, n
<1> QED BY <1>0, <1>2, <1>3

\* A trade is a round.
LEMMA ExecuteAtomic ==
  ASSUME BookInv, BookInv', AtomicInv, NEW t \in Orders, Execute(t), before' = before
  PROVE  AtomicInv'
<1> DEFINE m   == BestOrder(OppositeLevels(t))
           opp == Opposite(order[t].side)
           qty == MatchQty(t, m)
           tr  == [maker |-> m, taker |-> t, price |-> order[m].price, qty |-> qty]
           all == MakerStatus(m, qty) = "filled"
<1>1. /\ pc[t] = "match" /\ CanMatch(t) /\ order[t].user # order[m].user
      /\ order' = [order EXCEPT ![t].filled = @ + qty, ![m].filled = @ + qty,
                                ![m].status = MakerStatus(m, qty)]
      /\ IF all THEN TakeBestOff(t) ELSE UNCHANGED bookVars
      /\ trades' = Append(trades, tr)
      /\ UNCHANGED <<mu, pc, skipped>>
  BY DEF Execute
<1>0. /\ EngineInv /\ TypeOK /\ TypeOK' /\ BookShape /\ t \in DOMAIN order /\ mu = t
      /\ mu # NoOne /\ t \notin BookIds
  BY <1>1, HolderFacts DEF BookInv, EngineInv
<1>2. HolderInv /\ MatchingInv  BY <1>0, <1>1 DEF AtomicInv
<1>3. /\ PlacesKept /\ DOMAIN order' = DOMAIN order /\ m \in BookIds /\ m # t
      /\ order'[t].status = order[t].status
  BY ExecuteOpen
<1>4. /\ qty \in 0..MaxQty /\ qty <= Remaining(t) /\ qty <= Remaining(m)
      /\ order'[t] = [order[t] EXCEPT !.filled = @ + qty]
  <2>1. /\ qty \in 0..MaxQty /\ qty <= Remaining(t) /\ qty <= Remaining(m)
        /\ order'[t] = [order[t] EXCEPT
             !.filled = IF t \in {t, m} THEN @ + qty ELSE @,
             !.status = IF t = m THEN MakerStatus(m, qty) ELSE @]
    BY <1>0, ExecuteEffect
  <2>2. order[t] \in Order  BY <1>0 DEF TypeOK
  <2> HIDE DEF m, qty
  <2>3. order'[t] = [order[t] EXCEPT !.filled = @ + qty]  BY ONLY <1>3, <2>1, <2>2 DEF Order
  <2> QED BY <2>1, <2>3
<1>5. /\ opp \in Sides /\ order[t].side \in Sides /\ opp # order[t].side
      /\ DOMAIN book = Sides
  BY <1>0 DEF TypeOK, Order, Opposite, Sides
<1>6. /\ book'[opp] = IF all THEN DequeueBest(book[opp]) ELSE book[opp]
      /\ book'[order[t].side] = book[order[t].side]
      /\ BookIds' = IF all THEN BookIds \ {m} ELSE BookIds
  <2>1. CASE all
    <3>1. book' = [book EXCEPT ![opp] = DequeueBest(@)]
      BY <1>1, <2>1 DEF TakeBestOff
    <3>2. BookIds' = BookIds \ {m}
      BY <1>0, <1>1, <1>3, <2>1, BookServed
    <3> QED BY <1>5, <2>1, <3>1, <3>2
  <2>2. CASE ~ all
    <3>1. book' = book  BY <1>1, <2>2 DEF bookVars
    <3> QED BY <2>2, <3>1 DEF BookIds
  <2> QED BY <2>1, <2>2
<1>7. /\ Remaining(t) \in Nat /\ Remaining(m) \in Nat /\ qty \in Int
      /\ Remaining(t)' = Remaining(t) - qty
  <2>1. m \in DOMAIN order  BY <1>0, <1>3, BookIdsPlace DEF BookShape
  <2>2. \A x \in {t, m} : /\ order[x].filled \in 0..MaxQty /\ order[x].qty \in 1..MaxQty
                          /\ order[x].filled <= order[x].qty /\ order[x] \in Order
    BY <1>0, <2>1 DEF EngineInv, TypeOK, Order, NeverOverfilled
  <2>3. MaxQty \in Nat  BY EngineAssumption
  <2>4. order'[t].filled = order[t].filled + qty /\ order'[t].qty = order[t].qty
    BY <1>4, <2>2 DEF Order
  <2> HIDE DEF m, qty
  <2> QED BY <1>4, <2>2, <2>3, <2>4 DEF Remaining
<1>8. ~ all => Remaining(t)' = 0
  <2>1. ~ all => Remaining(m) - qty > 0  BY <1>7 DEF MakerStatus
  <2>2. qty = IF Remaining(t) <= Remaining(m) THEN Remaining(t) ELSE Remaining(m)
    BY DEF MatchQty, Smaller
  <2> HIDE DEF m, qty, all
  <2> QED BY ONLY <1>7, <2>1, <2>2
<1>9. /\ tr \in Trade /\ trades \in Seq(Trade) /\ before.made \in 0..Len(trades)
      /\ Len(trades) \in Nat
  <2>1. m \in DOMAIN order /\ DOMAIN order \subseteq Orders
    BY <1>0, <1>3, BookIdsPlace DEF BookShape, TypeOK
  <2>2. order[m].price \in Prices  BY <1>0, <2>1 DEF TypeOK, Order
  <2>3. trades \in Seq(Trade)  BY <1>0 DEF TypeOK
  <2> QED BY <1>0, <1>2, <1>4, <2>1, <2>2, <2>3, LenProperties DEF Trade, HolderInv
<1>10. HolderInv'
  <2>1. Len(trades') = Len(trades) + 1  BY <1>1, <1>9, AppendProperties
  <2>2. BookIds' \cup QueueIds(skipped') \subseteq BookIds \cup QueueIds(skipped)
    BY <1>1, <1>6
  <2> HIDE DEF m, opp, qty, tr, all
  <2> QED BY <1>0, <1>1, <1>2, <1>3, <1>6, <1>9, <2>1, <2>2, HolderKept
<1>11. Stage' = MatchStep(Stage, t)
  <2>1. /\ t \in DOMAIN before.heap /\ m \in DOMAIN before.heap
        /\ HeldHeap[t] = order[t] /\ HeldHeap[m] = order[m]
    BY <1>0, <1>2, <1>3 DEF HolderInv, HeldHeap
  <2>2. ~ Ends(HeldHeap, OppositeLevels(t), t)  BY <1>0, <1>1, <1>2, GuardsAgree
  <2>3. OppositeLevels(t)' = IF all THEN DequeueBest(OppositeLevels(t)) ELSE OppositeLevels(t)
    <3>1. order'[t].side = order[t].side  BY <1>0, <1>3 DEF PlacesKept
    <3>2. OppositeLevels(t)' = book'[opp] /\ OppositeLevels(t) = book[opp]
      BY <3>1 DEF OppositeLevels
    <3> HIDE DEF opp, all
    <3> QED BY <1>6, <3>2
  <2>4. TradesSince' = Append(TradesSince, tr)
    <3> HIDE DEF tr
    <3> QED BY <1>1, <1>9, SuffixAppend DEF TradesSince
  <2>5. FillQty(HeldHeap, t, m) = qty
    BY <2>1 DEF FillQty, Unfilled, MatchQty, Smaller, Remaining
  <2>6. /\ (qty >= Unfilled(HeldHeap[m])) <=> all
        /\ MakerStatus(m, qty) = IF all THEN "filled" ELSE "partially_filled"
    <3>1. Unfilled(HeldHeap[m]) = Remaining(m)  BY <2>1 DEF Unfilled, Remaining
    <3>2. all <=> Remaining(m) - qty <= 0  BY DEF MakerStatus
    <3>3. MakerStatus(m, qty) = IF all THEN "filled" ELSE "partially_filled"
      BY DEF MakerStatus
    <3> HIDE DEF all, qty, m
    <3> QED BY ONLY <1>7, <3>1, <3>2, <3>3
  <2>7. HeldHeap' = [HeldHeap EXCEPT ![t].filled = @ + qty, ![m].filled = @ + qty,
                       ![m].status = IF all THEN "filled" ELSE "partially_filled"]
    <3>1. HeldHeap' = [o \in DOMAIN before.heap |-> order'[o]]  BY DEF HeldHeap
    <3>2. order \in [DOMAIN order -> Order] /\ DOMAIN before.heap \subseteq DOMAIN order
      BY <1>0, <1>2 DEF TypeOK, HolderInv
    <3> DEFINE st == MakerStatus(m, qty)
    <3> HIDE DEF m, qty, all, st
    <3>3. [o \in DOMAIN before.heap |->
             [order EXCEPT ![t].filled = @ + qty, ![m].filled = @ + qty, ![m].status = st][o]]
           = [HeldHeap EXCEPT ![t].filled = @ + qty, ![m].filled = @ + qty, ![m].status = st]
      BY <1>3, <2>1, <3>2, PartOfHeap DEF HeldHeap
    <3> QED BY <1>1, <2>6, <3>1, <3>3 DEF st
  <2>8. MatchStep(Looping(HeldHeap, OppositeLevels(t), skipped, TradesSince), t)
          = Looping(HeldHeap', OppositeLevels(t)', skipped, TradesSince')
    <3> DEFINE h == HeldHeap
               l == OppositeLevels(t)
               s == IF all THEN "filled" ELSE "partially_filled"
               k == IF all THEN DequeueBest(l) ELSE l
    <3>1. m = BestOrder(l) /\ h[t].user # h[m].user /\ ~ Ends(h, l, t)
      BY <1>1, <2>1, <2>2
    <3>2. /\ tr = [maker |-> m, taker |-> t, qty |-> qty, price |-> h[m].price]
          /\ s = IF qty >= Unfilled(h[m]) THEN "filled" ELSE "partially_filled"
          /\ k = IF qty >= Unfilled(h[m]) THEN DequeueBest(l) ELSE l
      BY <2>1, <2>6
    <3>3. HeldHeap' = [h EXCEPT ![t].filled = @ + qty, ![m].filled = @ + qty, ![m].status = s]
      BY <2>7
    <3>4. OppositeLevels(t)' = k  BY <2>3
    <3>5. qty = FillQty(h, t, m)  BY <2>5
    <3> HIDE DEF m, qty, all, tr, h, l, s, k
    <3>6. MatchStep(Looping(h, l, skipped, TradesSince), t) =
            Looping([h EXCEPT ![t].filled = @ + qty, ![m].filled = @ + qty, ![m].status = s],
                    k, skipped, Append(TradesSince, tr))
      BY ONLY <3>1, <3>2, <3>5 DEF MatchStep, Looping, Ends
    <3>7. MatchStep(Looping(h, l, skipped, TradesSince), t)
            = Looping(HeldHeap', OppositeLevels(t)', skipped, TradesSince')
      BY ONLY <2>4, <3>3, <3>4, <3>6
    <3> QED BY <3>7 DEF h, l
  <2> QED BY <1>0, <1>1, <2>8 DEF Stage
<1>12. MatchingInv'
  <2>1. Remaining(t) # 0  BY <1>1 DEF CanMatch
  <2>2. (\E x \in BookIds : BookIds' = BookIds \ {x}) \/ (BookIds' = BookIds /\ Remaining(t)' = 0)
    BY <1>3, <1>6, <1>8
  <2> HIDE DEF m, qty, all, tr, opp
  <2> QED BY <1>0, <1>1, <1>2, <1>11, <2>1, <2>2, OneMoreRound
<1> QED BY <1>0, <1>1, <1>3, <1>10, <1>12 DEF AtomicInv

\* A loop that has ended runs its remaining rounds in place.
LEMMA RoundsEnd ==
  ASSUME NEW g, NEW st0, NEW t, NEW n \in Nat, Rounds(g, st0, t, n),
         NEW k \in 0..n, MatchStep(g[k], t) = g[k]
  PROVE  g[n] = g[k]
<1> DEFINE G == {i \in Nat : k + i <= n => g[k + i] = g[k]}
<1>1. 0 \in G
  <2>1. k + 0 = k  OBVIOUS
  <2> QED BY <2>1
<1>2. ASSUME NEW i \in Nat, i \in G PROVE i + 1 \in G
  <2> SUFFICES ASSUME k + (i + 1) <= n PROVE g[k + (i + 1)] = g[k]  OBVIOUS
  <2>1. k + i \in 0..(n - 1) /\ (k + i) + 1 = k + (i + 1) /\ k + i <= n  OBVIOUS
  <2>2. g[k + i] = g[k]  BY <1>2, <2>1
  <2>3. g[(k + i) + 1] = MatchStep(g[k + i], t)  BY <2>1 DEF Rounds
  <2> QED BY <2>1, <2>2, <2>3
<1> HIDE DEF G
<1>3. \A i \in Nat : i \in G  BY <1>1, <1>2, NatInductive
<1>4. n - k \in Nat /\ k + (n - k) = n /\ n <= n  OBVIOUS
<1>5. k + (n - k) <= n => g[k + (n - k)] = g[k]  BY <1>3, <1>4 DEF G
<1> QED BY ONLY <1>4, <1>5

\* The loop of the goroutine ends where that of the function does.
LEMMA StopMatchingAtomic ==
  ASSUME BookInv, BookInv', AtomicInv, NEW t \in Orders, StopMatching(t), before' = before
  PROVE  AtomicInv'
<1> DEFINE n   == Cardinality(DOMAIN before.heap)
           st0 == LoopStart(before.book, before.heap, t)
           end == MatchLoop(before.book, before.heap, t)
<1>1. /\ pc[t] = "match" /\ ~ CanMatch(t) /\ pc' = [pc EXCEPT ![t] = "readd"]
      /\ UNCHANGED <<order, book, mu, skipped, trades>>
  BY DEF StopMatching, bookVars
<1>0. /\ EngineInv /\ TypeOK /\ TypeOK' /\ BookShape /\ t \in DOMAIN order /\ mu = t
      /\ mu # NoOne /\ t \notin BookIds
  BY <1>1, HolderFacts DEF BookInv, EngineInv
<1>2. HolderInv /\ MatchingInv  BY <1>0, <1>1 DEF AtomicInv
<1>3. MatchStep(Stage, t) = Stage
  <2>1. Ends(HeldHeap, OppositeLevels(t), t)  BY <1>0, <1>1, <1>2, GuardsAgree
  <2> QED BY <1>0, <2>1, RoundEnds DEF Stage
<1>4. PICK g : Rounds(g, st0, t, n) /\ end = g[n]
  <2>1. IsFiniteSet(DOMAIN before.heap)  BY <1>2 DEF HolderInv
  <2> QED BY <2>1, LoopInRounds
<1>5. PICK k \in Nat : /\ g[k] = Stage
                       /\ k <= Cardinality(TakenOff) + (IF Remaining(t) = 0 THEN 1 ELSE 0)
  BY <1>0, <1>2, <1>4 DEF MatchingInv
<1>6. n \in Nat /\ k \in 0..n
  <2>1. /\ Cardinality(TakenOff) \in Nat /\ n \in Nat
        /\ Cardinality(TakenOff) + 1 <= n
    BY <1>0, <1>2, RoundsLeft
  <2> HIDE DEF n
  <2> QED BY <1>5, <2>1
<1> HIDE DEF n, st0, end
<1>7. end = Stage  BY <1>3, <1>4, <1>5, <1>6, RoundsEnd
<1>8. /\ end.heap = HeldHeap /\ end.levels = OppositeLevels(t)
      /\ end.skipped = skipped /\ end.trades = TradesSince
  BY <1>0, <1>7 DEF Stage, Looping
<1>9. skipped \in Seq(DOMAIN before.heap)
  <2>1. skipped \in Seq(DOMAIN order) /\ Len(skipped) \in Nat /\ DOMAIN skipped = 1..Len(skipped)
    BY <1>0, LenProperties DEF TypeOK
  <2>2. \A j \in 1..Len(skipped) : skipped[j] \in DOMAIN before.heap
    BY <1>2 DEF HolderInv, QueueIds
  <2>3. skipped = [j \in 1..Len(skipped) |-> skipped[j]]  BY <2>1, LenProperties
  <2> QED BY <2>1, <2>2, <2>3, SeqDef
<1>10. ReturningInv'
  <2>1. HeldHeap' = HeldHeap /\ TradesSince' = TradesSince
    BY <1>1 DEF HeldHeap, TradesSince
  <2>2. OppositeLevels(t)' = OppositeLevels(t)  BY <1>1 DEF OppositeLevels
  <2>3. ASSUME NEW p, PutRounds(p, end.levels, before.heap, end.skipped)
        PROVE  \E j \in 0..Len(end.skipped) :
                 /\ OppositeLevels(t)' = p[j]
                 /\ skipped' = SubSeq(end.skipped, j + 1, Len(end.skipped))
    <3>1. p[0] = OppositeLevels(t)'  BY <1>8, <2>2, <2>3 DEF PutRounds
    <3>2. SubSeq(skipped, 0 + 1, Len(skipped)) = skipped  BY <1>9, SubSeqFull
    <3>3. 0 \in 0..Len(end.skipped)  BY <1>8, <1>9, LenProperties
    <3> QED BY <1>1, <1>8, <3>1, <3>2, <3>3
  <2> QED BY <1>0, <1>1, <1>8, <1>9, <2>1, <2>3 DEF ReturningInv, end
<1>11. HolderInv'  BY <1>0, <1>1, <1>2 DEF HolderInv, BookIds
<1>12. pc'[t] = "readd"  BY <1>0, <1>1 DEF TypeOK
<1> QED BY <1>0, <1>1, <1>10, <1>11, <1>12 DEF AtomicInv

\* Where the holder is when k orders are back.
LEMMA ReturningAt ==
  ASSUME TypeOK, HolderInv, ReturningInv, mu \in DOMAIN order
  PROVE  LET end == MatchLoop(before.book, before.heap, mu)
         IN  \A p : PutRounds(p, end.levels, before.heap, end.skipped) =>
               \E k \in 0..Len(end.skipped) :
                 /\ OppositeLevels(mu) = p[k]
                 /\ skipped = <<>> => k = Len(end.skipped)
                 /\ skipped # <<>> =>
                      /\ k + 1 \in 0..Len(end.skipped)
                      /\ Tail(skipped) = SubSeq(end.skipped, k + 1 + 1, Len(end.skipped))
                      /\ p[k + 1] = PutBack(p[k], before.heap, Head(skipped))
<1> DEFINE end == MatchLoop(before.book, before.heap, mu)
           q == end.skipped
<1> SUFFICES ASSUME NEW p, PutRounds(p, end.levels, before.heap, q)
             PROVE  \E k \in 0..Len(q) :
                      /\ OppositeLevels(mu) = p[k]
                      /\ skipped = <<>> => k = Len(q)
                      /\ skipped # <<>> =>
                           /\ k + 1 \in 0..Len(q)
                           /\ Tail(skipped) = SubSeq(q, k + 1 + 1, Len(q))
                           /\ p[k + 1] = PutBack(p[k], before.heap, Head(skipped))
  OBVIOUS
<1>1. q \in Seq(DOMAIN before.heap)  BY DEF ReturningInv
<1>2. PICK k \in 0..Len(q) : /\ OppositeLevels(mu) = p[k]
                             /\ skipped = SubSeq(q, k + 1, Len(q))
  BY DEF ReturningInv
<1> HIDE DEF q, end
<1>3. skipped = <<>> => k = Len(q)  BY <1>1, <1>2, SuffixTail
<1>4. skipped # <<>> => /\ k + 1 \in 1..Len(q) /\ Head(skipped) = q[k + 1]
                        /\ Tail(skipped) = SubSeq(q, k + 1 + 1, Len(q))
  BY <1>1, <1>2, SuffixTail
<1>5. Len(q) \in Nat  BY <1>1, LenProperties
<1>6. skipped # <<>> => k \in 0..(Len(q) - 1) /\ k + 1 \in 0..Len(q)  BY <1>4, <1>5
<1>7. skipped # <<>> => p[k + 1] = PutBack(p[k], before.heap, Head(skipped))
  BY <1>4, <1>6 DEF PutRounds
<1> QED BY <1>2, <1>3, <1>4, <1>6, <1>7

\* A skipped order goes back where the function puts it.
LEMMA ReAddAtomic ==
  ASSUME BookInv, BookInv', AtomicInv, NEW t \in Orders, ReAdd(t), before' = before
  PROVE  AtomicInv'
<1> DEFINE o   == Head(skipped)
           opp == Opposite(order[t].side)
           end == MatchLoop(before.book, before.heap, t)
<1>1. /\ pc[t] = "readd" /\ skipped # <<>> /\ PutOnBook(o) /\ skipped' = Tail(skipped)
      /\ UNCHANGED <<order, mu, pc, trades>>
  BY DEF ReAdd
<1>0. /\ EngineInv /\ TypeOK /\ TypeOK' /\ BookShape /\ SkippedInv /\ t \in DOMAIN order
      /\ mu = t /\ mu # NoOne
  BY <1>1, HolderFacts DEF BookInv, EngineInv
<1>2. HolderInv /\ ReturningInv  BY <1>0, <1>1 DEF AtomicInv
<1>3. /\ o \in QueueIds(skipped) /\ QueueIds(Tail(skipped)) = QueueIds(skipped) \ {o}
      /\ o \in DOMAIN order /\ o \notin BookIds /\ order[o].side = opp
  <2>1. skipped \in Seq(DOMAIN order) /\ Once(skipped)  BY <1>0 DEF TypeOK, SkippedInv
  <2>2. o \in QueueIds(skipped) /\ QueueIds(Tail(skipped)) = QueueIds(skipped) \ {o}
    BY <1>1, <2>1, TailQueue
  <2> HIDE DEF o
  <2> QED BY <1>0, <2>1, <2>2, IdsType DEF SkippedInv
<1>4. PlacesKept  BY <1>1 DEF PlacesKept
<1>5. BookIds' = BookIds \cup {o}
  <2> HIDE DEF o
  <2> QED BY <1>0, <1>1, <1>3, <1>4, BookJoined
<1>6. /\ opp \in Sides /\ order[t].side \in Sides /\ opp # order[t].side
      /\ DOMAIN book = Sides
  BY <1>0 DEF TypeOK, Order, Opposite, Sides
<1>7. /\ book'[opp] = AddOrder(opp, book[opp], order[o].price, o)
      /\ book'[order[t].side] = book[order[t].side]
  <2>1. book' = [book EXCEPT ![opp] = AddOrder(opp, @, order[o].price, o)]
    BY <1>1, <1>3 DEF PutOnBook
  <2> QED BY <1>6, <2>1
<1>8. HolderInv'
  <2>1. Len(trades) \in Nat  BY <1>0, LenProperties DEF TypeOK
  <2>2. BookIds' \cup QueueIds(skipped') \subseteq BookIds \cup QueueIds(skipped)
    BY <1>1, <1>3, <1>5
  <2> HIDE DEF o, opp
  <2> QED BY <1>0, <1>1, <1>2, <1>4, <1>7, <2>1, <2>2, HolderKept
<1>9. o \in DOMAIN before.heap /\ before.heap[o].side = opp /\ before.heap[o].price = order[o].price
  BY <1>2, <1>3 DEF HolderInv
<1>10. OppositeLevels(t)' = PutBack(OppositeLevels(t), before.heap, o)
  <2>1. OppositeLevels(t)' = book'[opp] /\ OppositeLevels(t) = book[opp]
    BY <1>1 DEF OppositeLevels
  <2> HIDE DEF o, opp
  <2> QED BY <1>7, <1>9, <2>1 DEF PutBack
<1>11. ReturningInv'
  <2>1. HeldHeap' = HeldHeap /\ TradesSince' = TradesSince
    BY <1>1 DEF HeldHeap, TradesSince
  <2>2. /\ end.heap = HeldHeap /\ end.trades = TradesSince
        /\ end.skipped \in Seq(DOMAIN before.heap)
    BY <1>0, <1>2 DEF ReturningInv
  <2>3. ASSUME NEW p, PutRounds(p, end.levels, before.heap, end.skipped)
        PROVE  \E j \in 0..Len(end.skipped) :
                 /\ OppositeLevels(t)' = p[j]
                 /\ skipped' = SubSeq(end.skipped, j + 1, Len(end.skipped))
    <3>1. PICK k \in 0..Len(end.skipped) :
            /\ OppositeLevels(t) = p[k]
            /\ k + 1 \in 0..Len(end.skipped)
            /\ Tail(skipped) = SubSeq(end.skipped, k + 1 + 1, Len(end.skipped))
            /\ p[k + 1] = PutBack(p[k], before.heap, o)
      BY <1>0, <1>1, <1>2, <2>3, ReturningAt
    <3> HIDE DEF end, o
    <3> QED BY <1>1, <1>10, <3>1
  <2> QED BY <1>0, <1>1, <2>1, <2>2, <2>3 DEF ReturningInv
<1> QED BY <1>0, <1>1, <1>8, <1>11 DEF AtomicInv

\* What the call leaves when it lets go of the mutex.
Released ==
  LET call == PlaceCall(before.book, before.heap, mu)
  IN  /\ book' = call.book
      /\ TradesSince' = call.trades
      /\ \A o \in DOMAIN before.heap : order'[o] = call.heap[o]

\* All skipped orders are back, and the other side is as the function has it.
LEMMA AllBack ==
  ASSUME TypeOK, HolderInv, ReturningInv, skipped = <<>>, mu \in DOMAIN order
  PROVE  LET end == MatchLoop(before.book, before.heap, mu)
         IN  /\ OppositeLevels(mu) = PutAllBack(end.levels, before.heap, end.skipped)
             /\ end.heap = HeldHeap /\ end.trades = TradesSince
<1> DEFINE end == MatchLoop(before.book, before.heap, mu)
<1>1. /\ end.heap = HeldHeap /\ end.trades = TradesSince
      /\ end.skipped \in Seq(DOMAIN before.heap)
  BY DEF ReturningInv
<1>2. PICK p : /\ PutRounds(p, end.levels, before.heap, end.skipped)
               /\ PutAllBack(end.levels, before.heap, end.skipped) = p[Len(end.skipped)]
  <2> HIDE DEF end
  <2> QED BY <1>1, PutInRounds
<1>3. PICK k \in 0..Len(end.skipped) : OppositeLevels(mu) = p[k] /\ k = Len(end.skipped)
  BY <1>2, ReturningAt
<1> QED BY <1>1, <1>2, <1>3

\* The book that a call leaves, side by side.
LEMMA ReleasedBook ==
  ASSUME NEW bk, NEW heap, NEW t, NEW b, NEW side \in Sides, side = heap[t].side,
         DOMAIN b = Sides, b = [s \in Sides |-> b[s]],
         LET end == MatchLoop(bk, heap, t)
         IN  /\ b[Opposite(side)] = PutAllBack(end.levels, heap, end.skipped)
             /\ b[side] = IF Unfilled(end.heap[t]) > 0 THEN PutBack(bk[side], heap, t)
                                                       ELSE bk[side]
  PROVE  b = PlaceCall(bk, heap, t).book
<1> DEFINE end == MatchLoop(bk, heap, t)
           opp == PutAllBack(end.levels, heap, end.skipped)
           rests == Unfilled(end.heap[t]) > 0
<1>1. PlaceCall(bk, heap, t).book
        = [s \in Sides |-> IF s # side THEN opp
                           ELSE IF rests THEN PutBack(bk[s], heap, t) ELSE bk[s]]
  BY DEF PlaceCall
<1>2. b[Opposite(side)] = opp /\ b[side] = IF rests THEN PutBack(bk[side], heap, t) ELSE bk[side]
  OBVIOUS
<1> HIDE DEF opp, rests, end
<1>3. \A s \in Sides : s # side => s = Opposite(side)  BY DEF Sides, Opposite
<1>4. \A s \in Sides : b[s] = IF s # side THEN opp
                              ELSE IF rests THEN PutBack(bk[s], heap, t) ELSE bk[s]
  BY <1>2, <1>3
<1> QED BY <1>1, <1>4

\* The orders that a call leaves.
LEMMA ReleasedHeap ==
  ASSUME HolderInv, MatchLoop(before.book, before.heap, mu).heap = HeldHeap,
         NEW s, order' = [order EXCEPT ![mu].status = s],
         s = PlaceCall(before.book, before.heap, mu).heap[mu].status,
         PlaceCall(before.book, before.heap, mu).heap = [HeldHeap EXCEPT ![mu].status = s],
         NEW o \in DOMAIN before.heap
  PROVE  order'[o] = PlaceCall(before.book, before.heap, mu).heap[o]
<1> DEFINE h == PlaceCall(before.book, before.heap, mu).heap
<1>1. h = [HeldHeap EXCEPT ![mu].status = s]  OBVIOUS
<1> HIDE DEF h
<1>2. /\ mu \in DOMAIN order /\ o \in DOMAIN order /\ mu \in DOMAIN HeldHeap
      /\ o \in DOMAIN HeldHeap /\ HeldHeap[o] = order[o] /\ HeldHeap[mu] = order[mu]
  BY DEF HolderInv, HeldHeap
<1>3. CASE o = mu
  <2>1. order'[o] = [order[mu] EXCEPT !.status = s]  BY <1>2, <1>3
  <2>2. h[o] = [HeldHeap[mu] EXCEPT !.status = s]  BY <1>1, <1>2, <1>3
  <2> QED BY <1>2, <2>1, <2>2 DEF h
<1>4. CASE o # mu
  <2>1. order'[o] = order[o]  BY <1>2, <1>4
  <2>2. h[o] = HeldHeap[o]  BY <1>1, <1>2, <1>4
  <2> QED BY <1>2, <2>1, <2>2 DEF h
<1> QED BY <1>3, <1>4

\* The taker rests: the mutex is released with what the function returns.
LEMMA RestAtomic ==
  ASSUME BookInv, BookInv', AtomicInv, NEW t \in Orders, Rest(t), before' = before
  PROVE  AtomicInv' /\ Released
<1> DEFINE end  == MatchLoop(before.book, before.heap, t)
           side == order[t].side
           call == PlaceCall(before.book, before.heap, t)
           s    == IF order[t].filled > 0 THEN "partially_filled" ELSE order[t].status
<1>1. /\ pc[t] = "readd" /\ skipped = <<>> /\ Remaining(t) > 0 /\ PutOnBook(t)
      /\ order' = [order EXCEPT ![t].status =
                     IF order[t].filled > 0 THEN "partially_filled" ELSE @]
      /\ mu' = NoOne /\ UNCHANGED <<trades>>
  BY DEF Rest
<1>0. /\ TypeOK /\ TypeOK' /\ t \in DOMAIN order /\ mu = t /\ mu # NoOne
  BY <1>1, HolderFacts DEF BookInv, EngineInv
<1>2. HolderInv /\ ReturningInv  BY <1>0, <1>1 DEF AtomicInv
<1>3. order' = [order EXCEPT ![t].status = s]  BY <1>0, <1>1
<1>4. AtomicInv'
  <2>1. DOMAIN order' = DOMAIN order  BY <1>3
  <2> QED BY <1>1, <2>1 DEF AtomicInv
<1>5. /\ OppositeLevels(t) = PutAllBack(end.levels, before.heap, end.skipped)
      /\ end.heap = HeldHeap /\ end.trades = TradesSince
  BY <1>0, <1>1, <1>2, AllBack
<1>6. /\ t \in DOMAIN before.heap /\ HeldHeap[t] = order[t]
      /\ before.heap[t].side = side /\ before.heap[t].price = order[t].price
      /\ before.heap[t].status = order[t].status /\ book[side] = before.book[side]
  BY <1>0, <1>2 DEF HolderInv, HeldHeap
<1>7. Unfilled(end.heap[t]) > 0  BY <1>1, <1>5, <1>6 DEF Unfilled, Remaining
<1>8. side \in Sides /\ Opposite(side) \in Sides /\ Opposite(side) # side /\ DOMAIN book = Sides
  BY <1>0 DEF TypeOK, Order, Opposite, Sides
<1>9. /\ book'[side] = PutBack(before.book[side], before.heap, t)
      /\ book'[Opposite(side)] = OppositeLevels(t)
      /\ DOMAIN book' = Sides /\ book' = [x \in Sides |-> book'[x]]
  <2>1. book' = [book EXCEPT ![side] = AddOrder(side, @, order[t].price, t)]
    BY <1>1 DEF PutOnBook
  <2>2. book'[side] = AddOrder(side, book[side], order[t].price, t)  BY <1>8, <2>1
  <2>3. book'[Opposite(side)] = book[Opposite(side)]  BY <1>8, <2>1
  <2>4. DOMAIN book' = Sides /\ book' = [x \in Sides |-> book'[x]]  BY <1>8, <2>1
  <2> HIDE DEF side
  <2> QED BY <1>6, <2>2, <2>3, <2>4 DEF PutBack, OppositeLevels, side
<1>10. book' = call.book
  <2> HIDE DEF side
  <2>1. side = before.heap[t].side  BY <1>6
  <2> QED BY ONLY <1>5, <1>7, <1>8, <1>9, <2>1, ReleasedBook
<1>11. /\ call.heap = [HeldHeap EXCEPT ![t].status = s]
       /\ call.trades = end.trades
  <2> DEFINE st == IF ~ (Unfilled(end.heap[t]) > 0) THEN "filled"
                   ELSE IF end.heap[t].filled > 0 THEN "partially_filled"
                   ELSE before.heap[t].status
  <2>1. /\ call.heap = [end.heap EXCEPT ![t].status = st]
        /\ call.trades = end.trades
    BY DEF PlaceCall
  <2>2. st = s  BY <1>5, <1>6, <1>7
  <2> HIDE DEF st, s, end, call
  <2> QED BY <1>5, <2>1, <2>2
<1>12. call.heap[t].status = s
  <2>1. t \in DOMAIN HeldHeap  BY <1>6 DEF HeldHeap
  <2>2. HeldHeap[t] = [HeldHeap[t] EXCEPT !.status = order[t].status] /\ "status" \in DOMAIN HeldHeap[t]
    BY <1>0, <1>6 DEF TypeOK, Order
  <2> HIDE DEF s, call
  <2>3. call.heap[t] = [HeldHeap[t] EXCEPT !.status = s]  BY <1>11, <2>1
  <2> QED BY <2>2, <2>3
<1>13. ASSUME NEW o \in DOMAIN before.heap PROVE order'[o] = call.heap[o]
  <2> HIDE DEF s, end
  <2> QED BY ONLY <1>0, <1>2, <1>3, <1>5, <1>11, <1>12, ReleasedHeap, o \in DOMAIN before.heap DEF end
<1>14. TradesSince' = TradesSince  BY <1>1 DEF TradesSince
<1> HIDE DEF s, end, side
<1> QED BY <1>0, <1>4, <1>5, <1>10, <1>11, <1>13, <1>14 DEF Released

\* The taker is filled: the mutex is released with what the function returns.
LEMMA CompleteAtomic ==
  ASSUME BookInv, BookInv', AtomicInv, NEW t \in Orders, Complete(t), before' = before
  PROVE  AtomicInv' /\ Released
<1> DEFINE end  == MatchLoop(before.book, before.heap, t)
           side == order[t].side
           call == PlaceCall(before.book, before.heap, t)
<1>1. /\ pc[t] = "readd" /\ skipped = <<>> /\ Remaining(t) <= 0
      /\ order' = [order EXCEPT ![t].status = "filled"]
      /\ mu' = NoOne /\ UNCHANGED <<trades, book>>
  BY DEF Complete, bookVars
<1>0. /\ TypeOK /\ t \in DOMAIN order /\ mu = t /\ mu # NoOne
  BY <1>1, HolderFacts DEF BookInv, EngineInv
<1>2. HolderInv /\ ReturningInv  BY <1>0, <1>1 DEF AtomicInv
<1>4. AtomicInv'
  <2>1. DOMAIN order' = DOMAIN order  BY <1>1
  <2> QED BY <1>1, <2>1 DEF AtomicInv
<1>5. /\ OppositeLevels(t) = PutAllBack(end.levels, before.heap, end.skipped)
      /\ end.heap = HeldHeap /\ end.trades = TradesSince
  BY <1>0, <1>1, <1>2, AllBack
<1>6. /\ t \in DOMAIN before.heap /\ HeldHeap[t] = order[t]
      /\ before.heap[t].side = side /\ book[side] = before.book[side]
  BY <1>0, <1>2 DEF HolderInv, HeldHeap
<1>7. ~ (Unfilled(end.heap[t]) > 0)
  <2>1. Remaining(t) \in Int  BY <1>0, EngineAssumption DEF TypeOK, Order, Remaining
  <2>2. Unfilled(end.heap[t]) = Remaining(t)  BY <1>5, <1>6 DEF Unfilled, Remaining
  <2> QED BY <1>1, <2>1, <2>2
<1>8. /\ side \in Sides /\ DOMAIN book' = Sides /\ book' = [x \in Sides |-> book'[x]]
  BY <1>0, <1>1 DEF TypeOK, Order
<1>9. book'[side] = before.book[side] /\ book'[Opposite(side)] = OppositeLevels(t)
  BY <1>1, <1>6 DEF OppositeLevels
<1>10. book' = call.book
  <2> HIDE DEF side
  <2>1. side = before.heap[t].side  BY <1>6
  <2> QED BY ONLY <1>5, <1>7, <1>8, <1>9, <2>1, ReleasedBook
<1>11. /\ call.heap = [HeldHeap EXCEPT ![t].status = "filled"]
       /\ call.trades = end.trades
  <2>1. /\ call.heap = [end.heap EXCEPT ![t].status =
                          IF ~ (Unfilled(end.heap[t]) > 0) THEN "filled"
                          ELSE IF end.heap[t].filled > 0 THEN "partially_filled"
                          ELSE before.heap[t].status]
        /\ call.trades = end.trades
    BY DEF PlaceCall
  <2> HIDE DEF end, call
  <2> QED BY <1>5, <1>7, <2>1
<1>12. call.heap[t].status = "filled"
  <2>1. t \in DOMAIN HeldHeap  BY <1>6 DEF HeldHeap
  <2>2. "status" \in DOMAIN HeldHeap[t]  BY <1>0, <1>6 DEF TypeOK, Order
  <2> HIDE DEF call
  <2>3. call.heap[t] = [HeldHeap[t] EXCEPT !.status = "filled"]  BY <1>11, <2>1
  <2> QED BY <2>2, <2>3
<1>13. ASSUME NEW o \in DOMAIN before.heap PROVE order'[o] = call.heap[o]
  <2> HIDE DEF end
  <2> QED BY ONLY <1>0, <1>1, <1>2, <1>5, <1>11, <1>12, ReleasedHeap, o \in DOMAIN before.heap DEF end
<1>14. TradesSince' = TradesSince  BY <1>1 DEF TradesSince
<1> HIDE DEF end, side
<1> QED BY <1>0, <1>4, <1>5, <1>10, <1>11, <1>13, <1>14 DEF Released

\* Nobody holds the mutex at first.
LEMMA InitAtomic == AInit => AtomicInv
<1> SUFFICES ASSUME AInit PROVE AtomicInv  OBVIOUS
<1>1. DOMAIN order = {} /\ mu = NoOne  BY DEF AInit, Init
<1> QED BY <1>1, FS_EmptySet DEF AtomicInv

\* Steps of those who do not hold the mutex.
LEMMA QuietAtomic ==
  ASSUME BookInv, AtomicInv, UNCHANGED <<book, mu, skipped, trades, before>>,
         mu # NoOne => pc'[mu] = pc[mu], IsFiniteSet(DOMAIN order'),
         DOMAIN order \subseteq DOMAIN order', \A o \in DOMAIN order : order'[o] = order[o]
  PROVE  AtomicInv'
<1>1. CASE mu = NoOne  BY <1>1 DEF AtomicInv
<1>2. CASE mu # NoOne
  <2>1. TypeOK  BY DEF BookInv, EngineInv
  <2> QED BY ONLY <1>2, <2>1, AtomicInv, UNCHANGED <<book, mu, skipped, trades, before>>,
                  mu # NoOne => pc'[mu] = pc[mu], IsFiniteSet(DOMAIN order'),
                  DOMAIN order \subseteq DOMAIN order',
                  \A o \in DOMAIN order : order'[o] = order[o], HolderUntouched
<1> QED BY <1>1, <1>2

\* A new order does not touch the orders that were there.
LEMMA SubmitAtomic ==
  ASSUME BookInv, AtomicInv, NEW o \in Orders, NEW u, NEW s, NEW p, NEW q,
         Submit(o, u, s, p, q), before' = before
  PROVE  AtomicInv' /\ mu' = mu
<1>1. /\ o \notin DOMAIN order
      /\ order' = [x \in DOMAIN order \cup {o} |->
                     IF x # o THEN order[x]
                     ELSE [user |-> u, side |-> s, price |-> p,
                           qty |-> q, filled |-> 0, status |-> "open"]]
      /\ pc' = [pc EXCEPT ![o] = "lock"]
      /\ UNCHANGED <<book, mu, skipped, trades>>
  BY DEF Submit, bookVars
<1>2. DOMAIN order' = DOMAIN order \cup {o} /\ \A x \in DOMAIN order : order'[x] = order[x]
  BY <1>1
<1>3. IsFiniteSet(DOMAIN order')  BY <1>2, FS_AddElement DEF AtomicInv
<1>4. ASSUME mu # NoOne PROVE pc'[mu] = pc[mu]
  <2>1. mu \in DOMAIN order /\ mu # o  BY <1>1, <1>4 DEF AtomicInv, HolderInv
  <2> QED BY <1>1, <2>1 DEF BookInv, EngineInv, TypeOK
<1> QED BY <1>1, <1>2, <1>3, <1>4, QuietAtomic

\* The events go out after the mutex is released.
LEMMA EmitAtomic ==
  ASSUME BookInv, AtomicInv, NEW o \in Orders, Emit(o), before' = before
  PROVE  AtomicInv' /\ mu' = mu
<1>1. /\ pc[o] = "emit" /\ pc' = [pc EXCEPT ![o] = EmitNext(outbox'[o])]
      /\ UNCHANGED <<order, book, mu, skipped, trades>>
  BY DEF Emit, bookVars
<1>2. ASSUME mu # NoOne PROVE pc'[mu] = pc[mu]
  <2>1. mu \in Orders /\ mu # o
    BY <1>1, <1>2 DEF BookInv, EngineInv, TypeOK, CallsInv
  <2> QED BY <1>1, <2>1 DEF BookInv, EngineInv, TypeOK
<1> QED BY <1>1, <1>2, QuietAtomic DEF AtomicInv

\* CancelOrder has its turn while the mutex is free.
LEMMA CancelAtomic ==
  ASSUME AtomicInv, NEW o, Cancel(o)
  PROVE  AtomicInv' /\ mu' = mu
<1>1. mu = NoOne /\ mu' = mu /\ DOMAIN order' = DOMAIN order  BY DEF Cancel, TakeOff
<1> QED BY <1>1 DEF AtomicInv

\* A subscriber reads its own channel.
LEMMA ReceiveAtomic ==
  ASSUME BookInv, AtomicInv, NEW s, Receive(s), before' = before
  PROVE  AtomicInv' /\ mu' = mu
<1>1. UNCHANGED <<order, book, mu, pc, skipped, trades>>  BY DEF Receive, bookVars
<1> QED BY <1>1, QuietAtomic DEF AtomicInv

\* Every step keeps AtomicInv, and one that releases the mutex leaves what the
\* function returns.
LEMMA NextAtomic ==
  ASSUME BookInv, BookInv', AtomicInv, [ANext]_allVars
  PROVE  /\ AtomicInv'
         /\ mu # NoOne /\ mu' = NoOne => Released /\ before' = before /\ trades' = trades
<1>1. CASE UNCHANGED allVars
  <2>1. UNCHANGED <<order, book, mu, pc, skipped, trades, before>>
    BY <1>1 DEF allVars, vars
  <2> QED BY <2>1, QuietAtomic DEF AtomicInv
<1>2. ASSUME ANext, NEW o \in Orders, Acquire(o)
      PROVE  AtomicInv' /\ mu = NoOne
  <2>1. mu = NoOne /\ mu' = o  BY <1>2 DEF Acquire
  <2>2. before' = ASnapshot  BY <1>2, <2>1, EngineAssumption DEF ANext
  <2> QED BY <1>2, <2>1, <2>2, AcquireAtomic
<1>3. ASSUME ANext, ~ (mu = NoOne /\ mu' # NoOne) PROVE before' = before
  BY <1>3 DEF ANext
<1>4. ASSUME ANext, NEW o \in Orders, HolderStep(o)
      PROVE  /\ AtomicInv'
             /\ mu' = NoOne => Released /\ before' = before /\ trades' = trades
  <2>0. mu # NoOne
    <3>1. pc[o] \in {"match", "readd"}
      BY <1>4 DEF HolderStep, SkipOwn, Execute, StopMatching, ReAdd, Rest, Complete
    <3> QED BY <3>1, HolderFacts
  <2>1. before' = before  BY <1>3, <1>4, <2>0
  <2>2. CASE SkipOwn(o)
    <3>1. mu' = mu  BY <2>2 DEF SkipOwn
    <3> QED BY <2>0, <2>1, <2>2, <3>1, SkipOwnAtomic
  <2>3. CASE Execute(o)
    <3>1. mu' = mu  BY <2>3 DEF Execute
    <3> QED BY <2>0, <2>1, <2>3, <3>1, ExecuteAtomic
  <2>4. CASE StopMatching(o)
    <3>1. mu' = mu  BY <2>4 DEF StopMatching
    <3> QED BY <2>0, <2>1, <2>4, <3>1, StopMatchingAtomic
  <2>5. CASE ReAdd(o)
    <3>1. mu' = mu  BY <2>5 DEF ReAdd
    <3> QED BY <2>0, <2>1, <2>5, <3>1, ReAddAtomic
  <2>6. CASE Rest(o)
    <3>1. trades' = trades  BY <2>6 DEF Rest
    <3> QED BY <2>1, <2>6, <3>1, RestAtomic
  <2>7. CASE Complete(o)
    <3>1. trades' = trades  BY <2>7 DEF Complete
    <3> QED BY <2>1, <2>7, <3>1, CompleteAtomic
  <2> QED BY <1>4, <2>2, <2>3, <2>4, <2>5, <2>6, <2>7 DEF HolderStep
<1>5. ASSUME ANext, NEW o \in Orders, NEW r \in Requests,
             Submit(o, r.user, r.side, r.price, r.qty)
      PROVE  AtomicInv' /\ mu' = mu
  <2>1. mu' = mu  BY <1>5 DEF Submit
  <2> QED BY <1>3, <1>5, <2>1, SubmitAtomic
<1>6. ASSUME ANext, NEW o \in Orders, Emit(o) PROVE AtomicInv' /\ mu' = mu
  <2>1. mu' = mu  BY <1>6 DEF Emit
  <2> QED BY <1>3, <1>6, <2>1, EmitAtomic
<1>7. ASSUME NEW o \in Orders, Cancel(o) PROVE AtomicInv' /\ mu' = mu
  BY <1>7, CancelAtomic
<1>8. ASSUME ANext, NEW s \in Subscribers, Receive(s) PROVE AtomicInv' /\ mu' = mu
  <2>1. mu' = mu  BY <1>8 DEF Receive
  <2> QED BY <1>3, <1>8, <2>1, ReceiveAtomic
<1>9. CASE ANext
  <2>1. Next  BY <1>9 DEF ANext
  <2>2. CASE \E o \in Orders :
               \/ \E r \in Requests : Submit(o, r.user, r.side, r.price, r.qty)
               \/ Acquire(o) \/ HolderStep(o) \/ Emit(o) \/ Cancel(o)
    <3> PICK o \in Orders :
               \/ \E r \in Requests : Submit(o, r.user, r.side, r.price, r.qty)
               \/ Acquire(o) \/ HolderStep(o) \/ Emit(o) \/ Cancel(o)
      BY <2>2
    <3>1. CASE \E r \in Requests : Submit(o, r.user, r.side, r.price, r.qty)
      BY <1>5, <1>9, <3>1
    <3>2. CASE Acquire(o)  BY <1>2, <1>9, <3>2
    <3>3. CASE HolderStep(o)  BY <1>4, <1>9, <3>3
    <3>4. CASE Emit(o)  BY <1>6, <1>9, <3>4
    <3>5. CASE Cancel(o)  BY <1>7, <3>5
    <3> QED BY <3>1, <3>2, <3>3, <3>4, <3>5
  <2>3. CASE \E s \in Subscribers : Receive(s)  BY <1>8, <1>9, <2>3
  <2> QED BY <2>1, <2>2, <2>3 DEF Next
<1> QED BY <1>1, <1>9 DEF allVars, vars

\* PlaceOrder is atomic: whoever releases the mutex leaves the book, the trades
\* and the orders that PlaceCall returns for what it found when it took the
\* mutex, however many orders were submitted and events emitted meanwhile
\* (engine.go:81-105).
THEOREM EngineCallsAreAtomic == ASpec => CallsAreAtomic
<1> DEFINE Atomic ==
      mu # NoOne /\ mu' = NoOne =>
        LET call == PlaceCall(before.book, before.heap, mu)
        IN  /\ book' = call.book
            /\ done' = call.trades
            /\ \A o \in DOMAIN before.heap : order'[o] = call.heap[o]
<1>1. ASpec => Spec
  <2>1. AInit => Init  BY DEF AInit
  <2>2. [ANext]_allVars => [Next]_vars  BY DEF ANext, allVars, vars
  <2> QED BY <2>1, <2>2, PTL DEF ASpec, Spec
<1>2. BookInv /\ BookInv' /\ AtomicInv /\ [ANext]_allVars => AtomicInv'  BY NextAtomic
<1>3. ASpec => []AtomicInv
  BY <1>1, <1>2, InitAtomic, BookInvariant, PTL DEF ASpec
<1>4. BookInv /\ BookInv' /\ AtomicInv /\ [ANext]_allVars => [Atomic]_allVars
  <2> SUFFICES ASSUME BookInv, BookInv', AtomicInv, ANext, mu # NoOne, mu' = NoOne
               PROVE  Atomic
    BY DEF Atomic
  <2>1. Released /\ before' = before /\ trades' = trades  BY NextAtomic
  <2>2. done' = SubSeq(trades, before.made + 1, Len(trades))  BY DEF ANext
  <2>3. TradesSince' = TradesSince  BY <2>1 DEF TradesSince
  <2>4. done' = PlaceCall(before.book, before.heap, mu).trades
    BY <2>1, <2>2, <2>3 DEF Released, TradesSince
  <2> QED BY <2>1, <2>4 DEF Released
<1>5. ASpec => [][Atomic]_allVars
  BY <1>1, <1>3, <1>4, BookInvariant, PTL DEF ASpec
<1> QED BY <1>5 DEF CallsAreAtomic

=============================================================================
