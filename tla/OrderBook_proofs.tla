--------------------------- MODULE OrderBook_proofs ---------------------------
(****************************************************************************)
(* Proofs about OrderBook.tla, for every price range, tick size, level and  *)
(* map capacity, and word size.                                             *)
(****************************************************************************)
EXTENDS OrderBook, SequenceTheorems, FiniteSetTheorems, TLAPS

----------------------------------------------------------------------------
(* Extrema and sequences                                                    *)

LEMMA MinOfNats ==
    ASSUME NEW S, S \subseteq Nat, S # {}
    PROVE  Min(S) \in S /\ \A y \in S : Min(S) <= y
<1>1. \E x \in S : \A y \in S : ~(<<y, x>> \in OpToRel(<, Nat))
  BY WFMin, NatLessThanWellFounded
<1>2. PICK x \in S : \A y \in S : ~(<<y, x>> \in OpToRel(<, Nat))
  BY <1>1
<1>3. \A y \in S : ~(y < x)
  <2>1. OpToRel(<, Nat) = {ss \in Nat \X Nat : ss[1] < ss[2]}
    BY Zenon DEF OpToRel
  <2>2. ASSUME NEW y \in S, y < x
        PROVE  <<y, x>> \in {ss \in Nat \X Nat : ss[1] < ss[2]}
    BY <2>2
  <2>. QED
    BY <1>2, <2>1, <2>2, Zenon
<1>4. \A y \in S : x <= y
  BY <1>3
<1>. QED
  BY <1>4 DEF Min

LEMMA MaxOfBounded ==
    ASSUME NEW N \in Nat, NEW S, S \subseteq 0..N, S # {}
    PROVE  Max(S) \in S /\ \A y \in S : Max(S) >= y
<1>. DEFINE T == {n \in 0..N : N - n \in S}
<1>1. T \subseteq Nat /\ T # {}
  <2>1. PICK x \in S : TRUE
    OBVIOUS
  <2>2. x \in Nat /\ N - x \in 0..N /\ N - (N - x) = x
    BY <2>1
  <2>3. N - x \in T
    BY <2>1, <2>2
  <2>4. T \subseteq Nat
    OBVIOUS
  <2>. QED
    BY <2>3, <2>4
<1>2. Min(T) \in T /\ \A n \in T : Min(T) <= n
  BY <1>1, MinOfNats
<1>3. PICK x \in S : \A y \in S : x >= y
  <2>1. \A y \in S : N - y \in T
    <3>1. SUFFICES ASSUME NEW y \in S
                   PROVE  N - y \in T
      OBVIOUS
    <3>2. y \in Nat /\ N - y \in 0..N /\ N - (N - y) = y
      BY <3>1
    <3>. QED
      BY <3>2
  <2>2. N - Min(T) \in S /\ Min(T) \in Nat
    BY <1>2
  <2>3. \A y \in S : N - Min(T) >= y
    BY <1>2, <2>1, <2>2
  <2>. QED
    BY <2>2, <2>3
<1>. QED
  BY <1>3 DEF Max

\* RemoveFirst leaves a sequence without the id alone, and otherwise closes
\* the gap at its first occurrence.
LEMMA RemoveFirstCases ==
    ASSUME NEW T, NEW ids \in Seq(T), NEW id
    PROVE  \/ /\ \A k \in 1..Len(ids) : ids[k] # id
              /\ RemoveFirst(ids, id) = ids
           \/ \E m \in 1..Len(ids) :
                 /\ ids[m] = id
                 /\ \A k \in 1..(m - 1) : ids[k] # id
                 /\ RemoveFirst(ids, id) \in Seq(T)
                 /\ Len(RemoveFirst(ids, id)) = Len(ids) - 1
                 /\ \A k \in 1..(Len(ids) - 1) :
                       RemoveFirst(ids, id)[k] = IF k < m THEN ids[k] ELSE ids[k + 1]
<1>1. CASE \A k \in 1..Len(ids) : ids[k] # id
  BY <1>1 DEF RemoveFirst
<1>2. CASE \E k \in 1..Len(ids) : ids[k] = id
  <2>. DEFINE I == {k \in 1..Len(ids) : ids[k] = id}
             m == Min(I)
             a == SubSeq(ids, 1, m - 1)
             b == SubSeq(ids, m + 1, Len(ids))
  <2>1. m \in I /\ \A k \in I : m <= k
    <3>1. I \subseteq Nat /\ I # {}
      BY <1>2
    <3>. HIDE DEF I
    <3>. QED
      BY <3>1, MinOfNats
  <2>2. m \in 1..Len(ids) /\ ids[m] = id /\ Len(ids) \in Nat /\ m \in Nat
    BY <2>1
  <2>3. \A k \in 1..(m - 1) : ids[k] # id
    BY <2>1, <2>2
  <2>4. RemoveFirst(ids, id) = a \o b
    BY <1>2 DEF RemoveFirst, RemoveAt, SelectInSeq
  <2>5. \A k \in 1..Len(ids) : ids[k] \in T
    OBVIOUS
  <2>. HIDE DEF m, I
  <2>6. /\ a \in Seq(T) /\ Len(a) = m - 1
        /\ \A k \in 1..(m - 1) : a[k] = ids[k]
    <3>1. \A k \in 1..(m - 1) : ids[k] \in T
      BY <2>2, <2>5
    <3>2. m - 1 \in Int /\ 1 \in Int
      BY <2>2
    <3>3. /\ a \in Seq(T)
          /\ Len(a) = IF 1 <= m - 1 THEN (m - 1) - 1 + 1 ELSE 0
          /\ \A k \in 1..((m - 1) - 1 + 1) : a[k] = ids[1 + k - 1]
      BY <3>1, <3>2, SubSeqProperties
    <3>. HIDE DEF a
    <3>. QED
      BY <2>2, <3>3
  <2>7. /\ b \in Seq(T) /\ Len(b) = Len(ids) - m
        /\ \A k \in 1..(Len(ids) - m) : b[k] = ids[m + k]
    <3>1. \A k \in (m + 1)..Len(ids) : ids[k] \in T
      BY <2>2, <2>5
    <3>2. m + 1 \in Int /\ Len(ids) \in Int
      BY <2>2
    <3>3. /\ b \in Seq(T)
          /\ Len(b) = IF m + 1 <= Len(ids) THEN Len(ids) - (m + 1) + 1 ELSE 0
          /\ \A k \in 1..(Len(ids) - (m + 1) + 1) : b[k] = ids[(m + 1) + k - 1]
      BY <3>1, <3>2, SubSeqProperties
    <3>. HIDE DEF b
    <3>. QED
      BY <2>2, <3>3
  <2>. HIDE DEF a, b
  <2>8. /\ a \o b \in Seq(T)
        /\ Len(a \o b) = Len(a) + Len(b)
        /\ \A k \in 1..(Len(a) + Len(b)) :
              (a \o b)[k] = IF k <= Len(a) THEN a[k] ELSE b[k - Len(a)]
    BY <2>6, <2>7, ConcatProperties
  <2>9. Len(a) + Len(b) = Len(ids) - 1
    BY <2>2, <2>6, <2>7
  <2>10. ASSUME NEW k \in 1..(Len(ids) - 1)
         PROVE  (a \o b)[k] = IF k < m THEN ids[k] ELSE ids[k + 1]
    <3>1. CASE k < m
      BY <2>2, <2>6, <2>8, <2>9, <3>1
    <3>2. CASE ~(k < m)
      <4>1. k - Len(a) \in 1..(Len(ids) - m) /\ m + (k - Len(a)) = k + 1
            /\ ~(k <= Len(a))
        BY <2>2, <2>6, <3>2
      <4>. QED
        BY <2>7, <2>8, <2>9, <3>2, <4>1
    <3>. QED
      BY <3>1, <3>2
  <2>. QED
    BY <2>2, <2>3, <2>4, <2>8, <2>9, <2>10
<1>. QED
  BY <1>1, <1>2

----------------------------------------------------------------------------
(* Sums over finite sets.  SumFunctionOnSet is a fold, defined by recursion *)
(* over an element chosen from the set: that the recursion has a solution,  *)
(* and that the order of the terms does not matter, is shown by way of the  *)
(* smallest subset for which it would fail.                                 *)

\* Of the subsets of a finite set that fail some test there is a smallest one.
LEMMA SmallestSubset ==
    ASSUME NEW S, IsFiniteSet(S), NEW B, B \subseteq SUBSET S, B # {}
    PROVE  \E T \in B : \A U \in SUBSET T : U # T => U \notin B
<1>1. B \subseteq FiniteSubsetsOf(S)
  BY FS_FiniteSubsetsOfFinite, Zenon
<1>2. \E T \in B : \A U \in B : ~(<<U, T>> \in StrictSubsetOrdering(S))
  BY <1>1, WFMin, FS_StrictSubsetOrderingWellFounded
<1>3. PICK T \in B : \A U \in B : ~(<<U, T>> \in StrictSubsetOrdering(S))
  BY <1>2
<1>4. ASSUME NEW U \in SUBSET T, U # T, U \in B
      PROVE  FALSE
  <2>1. <<U, T>> \in StrictSubsetOrdering(S)
    BY <1>4, <1>1 DEF StrictSubsetOrdering, FiniteSubsetsOf
  <2>. QED
    BY <1>3, <1>4, <2>1
<1>. QED
  BY <1>3, <1>4, Zenon

\* The element a sum over s takes first.
First(s) == CHOOSE x \in s : TRUE

LEMMA FirstIn ==
    ASSUME NEW s, s # {}
    PROVE  First(s) \in s
BY DEF First

\* h holds the sum of f over every subset of S.
Sums(f, S, h) ==
    h = [s \in SUBSET S |-> IF s = {} THEN 0 ELSE f[First(s)] + h[s \ {First(s)}]]

LEMMA SumIsSums ==
    ASSUME NEW f, NEW S
    PROVE  SumFunctionOnSet(f, S) = (CHOOSE h : Sums(f, S, h))[S]
BY Zenon DEF SumFunctionOnSet, FoldFunctionOnSet, MapThenFoldSet, Sums, First

LEMMA SumsUnique ==
    ASSUME NEW f, NEW S, IsFiniteSet(S), NEW g, Sums(f, S, g), NEW h, Sums(f, S, h)
    PROVE  g = h
<1>. DEFINE B == {s \in SUBSET S : g[s] # h[s]}
<1>1. ASSUME B # {}
      PROVE  FALSE
  <2>1. PICK s \in B : \A u \in SUBSET s : u # s => u \notin B
    <3>1. B \subseteq SUBSET S
      OBVIOUS
    <3>. HIDE DEF B
    <3>. QED
      BY <1>1, <3>1, SmallestSubset
  <2>2. /\ g[s] = IF s = {} THEN 0 ELSE f[First(s)] + g[s \ {First(s)}]
        /\ h[s] = IF s = {} THEN 0 ELSE f[First(s)] + h[s \ {First(s)}]
    BY Zenon DEF Sums
  <2>3. s # {}
    BY <2>2
  <2>4. s \ {First(s)} \in SUBSET s /\ s \ {First(s)} # s
    BY <2>3, FirstIn
  <2>5. g[s \ {First(s)}] = h[s \ {First(s)}]
    BY <2>1, <2>4
  <2>. QED
    BY <2>2, <2>3, <2>5
<1>2. g = [s \in SUBSET S |-> g[s]] /\ h = [s \in SUBSET S |-> h[s]]
  BY Zenon DEF Sums
<1>. QED
  BY <1>1, <1>2

LEMMA SumsExist ==
    ASSUME NEW f, NEW S, IsFiniteSet(S)
    PROVE  Sums(f, S, [s \in SUBSET S |-> SumFunctionOnSet(f, s)])
<1>. DEFINE V(s) == SumFunctionOnSet(f, s)
            all(T) == [s \in SUBSET T |-> V(s)]
            B == {T \in SUBSET S : ~Sums(f, T, all(T))}
<1>1. ASSUME B # {}
      PROVE  FALSE
  <2>1. PICK T \in B : \A U \in SUBSET T : U # T => U \notin B
    <3>1. B \subseteq SUBSET S
      OBVIOUS
    <3>. HIDE DEF B
    <3>. QED
      BY <1>1, <3>1, SmallestSubset
  <2>2. ASSUME NEW U \in SUBSET T, U # T
        PROVE  Sums(f, U, all(U))
    BY <2>1, <2>2
  <2>3. \A s \in SUBSET T : s # T => V(s) = IF s = {} THEN 0 ELSE f[First(s)] + V(s \ {First(s)})
    <3>1. SUFFICES ASSUME NEW s \in SUBSET T, s # T
                   PROVE  V(s) = IF s = {} THEN 0 ELSE f[First(s)] + V(s \ {First(s)})
      BY Zenon
    <3>2. all(s) = [u \in SUBSET s |-> IF u = {} THEN 0 ELSE f[First(u)] + all(s)[u \ {First(u)}]]
      BY <2>2, <3>1, Zenon DEF Sums
    <3>3. s \in SUBSET s /\ s \ {First(s)} \in SUBSET s
      OBVIOUS
    <3>4. all(s)[s] = V(s) /\ all(s)[s \ {First(s)}] = V(s \ {First(s)})
      BY <3>3, Zenon
    <3>5. all(s)[s] = IF s = {} THEN 0 ELSE f[First(s)] + all(s)[s \ {First(s)}]
      BY <3>2, <3>3, Zenon
    <3>. QED
      BY <3>4, <3>5, Zenon
  <2>. DEFINE h == [s \in SUBSET T |-> IF s = {} THEN 0 ELSE f[First(s)] + V(s \ {First(s)})]
  <2>4. Sums(f, T, h)
    <3>1. ASSUME NEW s \in SUBSET T, s # {}
          PROVE  h[s \ {First(s)}] = V(s \ {First(s)})
      <4>1. s \ {First(s)} \in SUBSET T /\ s \ {First(s)} # T
        BY <3>1, FirstIn
      <4>. HIDE DEF V
      <4>. QED
        BY <2>3, <4>1
    <3>2. h = [s \in SUBSET T |-> IF s = {} THEN 0 ELSE f[First(s)] + h[s \ {First(s)}]]
      BY <3>1, Zenon
    <3>. QED
      BY <3>2, Zenon DEF Sums
  <2>5. V(T) = h[T]
    <3>1. Sums(f, T, CHOOSE g : Sums(f, T, g))
      BY <2>4, Zenon
    <3>2. IsFiniteSet(T)
      BY FS_Subset
    <3>3. (CHOOSE g : Sums(f, T, g)) = h
      BY <2>4, <3>1, <3>2, SumsUnique, Zenon
    <3>. QED
      BY <3>3, SumIsSums, Zenon
  <2>6. \A s \in SUBSET T : h[s] = V(s)
    <3>. HIDE DEF V
    <3>1. \A s \in SUBSET T : s # T => h[s] = V(s)
      BY <2>3
    <3>. HIDE DEF h
    <3>. QED
      BY <2>5, <3>1
  <2>7. h = all(T)
    BY <2>6, Zenon
  <2>. QED
    BY <2>1, <2>4, <2>7, Zenon
<1>2. S \in SUBSET S
  OBVIOUS
<1>. QED
  BY <1>1, <1>2, Zenon

\* A sum is the first element's term and the sum of the rest.
LEMMA SumFirst ==
    ASSUME NEW f, NEW S, IsFiniteSet(S)
    PROVE  SumFunctionOnSet(f, S) =
              IF S = {} THEN 0
              ELSE f[First(S)] + SumFunctionOnSet(f, S \ {First(S)})
<1>. DEFINE h == [s \in SUBSET S |-> SumFunctionOnSet(f, s)]
<1>1. Sums(f, S, h)
  BY SumsExist, Zenon
<1>2. S \in SUBSET S /\ S \ {First(S)} \in SUBSET S
  OBVIOUS
<1>3. h[S] = IF S = {} THEN 0 ELSE f[First(S)] + h[S \ {First(S)}]
  BY <1>1, <1>2, Zenon DEF Sums
<1>. QED
  BY <1>2, <1>3, Zenon

LEMMA SumOfNone ==
    ASSUME NEW f
    PROVE  SumFunctionOnSet(f, {}) = 0
BY FS_EmptySet, SumFirst

LEMMA SumIsNat ==
    ASSUME NEW f, NEW S, IsFiniteSet(S), \A x \in S : f[x] \in Nat
    PROVE  SumFunctionOnSet(f, S) \in Nat
<1>. DEFINE B == {T \in SUBSET S : SumFunctionOnSet(f, T) \notin Nat}
<1>1. ASSUME B # {}
      PROVE  FALSE
  <2>1. PICK T \in B : \A U \in SUBSET T : U # T => U \notin B
    <3>1. B \subseteq SUBSET S
      OBVIOUS
    <3>. HIDE DEF B
    <3>. QED
      BY <1>1, <3>1, SmallestSubset
  <2>2. IsFiniteSet(T) /\ T \in SUBSET S
    BY FS_Subset
  <2>3. T # {}
    <3>1. SumFunctionOnSet(f, T) \notin Nat
      BY <2>1
    <3>2. SumFunctionOnSet(f, {}) \in Nat
      BY SumOfNone
    <3>. QED
      BY <3>1, <3>2, Zenon
  <2>4. First(T) \in S /\ First(T) \in T
    BY <2>2, <2>3, FirstIn
  <2>5. SumFunctionOnSet(f, T \ {First(T)}) \in Nat
    BY <2>1, <2>2, <2>4
  <2>6. SumFunctionOnSet(f, T) = f[First(T)] + SumFunctionOnSet(f, T \ {First(T)})
    BY <2>2, <2>3, SumFirst
  <2>. QED
    BY <2>1, <2>4, <2>5, <2>6
<1>. QED
  BY <1>1

\* The terms of a sum may be taken in any order.
LEMMA SumAny ==
    ASSUME NEW f, NEW S, IsFiniteSet(S), \A x \in S : f[x] \in Nat, NEW y \in S
    PROVE  SumFunctionOnSet(f, S) = f[y] + SumFunctionOnSet(f, S \ {y})
<1>. DEFINE V(s) == SumFunctionOnSet(f, s)
            B == {T \in SUBSET S : \E x \in T : V(T) # f[x] + V(T \ {x})}
<1>1. ASSUME B # {}
      PROVE  FALSE
  <2>1. PICK T \in B : \A U \in SUBSET T : U # T => U \notin B
    <3>1. B \subseteq SUBSET S
      OBVIOUS
    <3>. HIDE DEF B
    <3>. QED
      BY <1>1, <3>1, SmallestSubset
  <2>2. T \in SUBSET S /\ IsFiniteSet(T)
    BY FS_Subset
  <2>3. PICK x \in T : V(T) # f[x] + V(T \ {x})
    BY <2>1
  <2>. DEFINE z == First(T)
              R == (T \ {x}) \ {z}
  <2>4. z \in T /\ V(T) = f[z] + V(T \ {z})
    BY <2>2, <2>3, FirstIn, SumFirst
  <2>5. x # z
    BY <2>3, <2>4
  <2>. HIDE DEF z, V
  <2>6. /\ T \ {x} \in SUBSET T /\ T \ {x} # T /\ z \in T \ {x}
        /\ T \ {z} \in SUBSET T /\ T \ {z} # T /\ x \in T \ {z}
    BY <2>3, <2>4, <2>5
  <2>7. V(T \ {x}) = f[z] + V(R)
    BY <2>1, <2>2, <2>6
  <2>8. (T \ {z}) \ {x} = R
    OBVIOUS
  <2>9. V(T \ {z}) = f[x] + V(R)
    <3>1. V(T \ {z}) = f[x] + V((T \ {z}) \ {x})
      BY <2>1, <2>2, <2>6
    <3>. QED
      BY <2>8, <3>1
  <2>10. V(R) \in Nat
    <3>1. R \in SUBSET S /\ IsFiniteSet(R)
      BY <2>2, FS_Subset
    <3>. QED
      BY <3>1, SumIsNat DEF V
  <2>11. f[x] \in Nat /\ f[z] \in Nat
    BY <2>2, <2>3, <2>4
  <2>. QED
    BY <2>3, <2>4, <2>7, <2>9, <2>10, <2>11
<1>2. S \in SUBSET S
  OBVIOUS
<1>. QED
  BY <1>1, <1>2

\* A sum depends on the terms over its set only.
LEMMA SumSame ==
    ASSUME NEW f, NEW g, NEW S, IsFiniteSet(S), \A x \in S : f[x] = g[x]
    PROVE  SumFunctionOnSet(f, S) = SumFunctionOnSet(g, S)
<1>. DEFINE B == {T \in SUBSET S : SumFunctionOnSet(f, T) # SumFunctionOnSet(g, T)}
<1>1. ASSUME B # {}
      PROVE  FALSE
  <2>1. PICK T \in B : \A U \in SUBSET T : U # T => U \notin B
    <3>1. B \subseteq SUBSET S
      OBVIOUS
    <3>. HIDE DEF B
    <3>. QED
      BY <1>1, <3>1, SmallestSubset
  <2>2. IsFiniteSet(T) /\ T \in SUBSET S
    BY FS_Subset
  <2>3. T # {}
    BY <2>1, <2>2, SumFirst
  <2>4. First(T) \in S /\ First(T) \in T
    BY <2>2, <2>3, FirstIn
  <2>5. SumFunctionOnSet(f, T \ {First(T)}) = SumFunctionOnSet(g, T \ {First(T)})
    BY <2>1, <2>2, <2>4
  <2>6. /\ SumFunctionOnSet(f, T) = f[First(T)] + SumFunctionOnSet(f, T \ {First(T)})
        /\ SumFunctionOnSet(g, T) = g[First(T)] + SumFunctionOnSet(g, T \ {First(T)})
    BY <2>2, <2>3, SumFirst
  <2>. QED
    BY <2>1, <2>4, <2>5, <2>6
<1>. QED
  BY <1>1

\* A sum grows by the term of a new element.
LEMMA SumAdd ==
    ASSUME NEW f, NEW S, IsFiniteSet(S), NEW y, y \notin S,
           \A x \in S \cup {y} : f[x] \in Nat
    PROVE  SumFunctionOnSet(f, S \cup {y}) = f[y] + SumFunctionOnSet(f, S)
<1>1. IsFiniteSet(S \cup {y}) /\ y \in S \cup {y}
  BY FS_AddElement
<1>2. (S \cup {y}) \ {y} = S
  OBVIOUS
<1>. QED
  BY <1>1, <1>2, SumAny

\* No term exceeds the sum, and a sum of zeros is zero.
LEMMA SumMember ==
    ASSUME NEW f, NEW S, IsFiniteSet(S), \A x \in S : f[x] \in Nat, NEW y \in S
    PROVE  f[y] <= SumFunctionOnSet(f, S)
<1>1. IsFiniteSet(S \ {y}) /\ \A x \in S \ {y} : f[x] \in Nat
  BY FS_RemoveElement
<1>2. SumFunctionOnSet(f, S \ {y}) \in Nat
  BY <1>1, SumIsNat
<1>. QED
  BY <1>2, SumAny

\* A sum of terms within a bound.
LEMMA SumBounded ==
    ASSUME NEW f, NEW S, IsFiniteSet(S), NEW m \in Nat,
           \A x \in S : f[x] \in Nat /\ f[x] <= m
    PROVE  SumFunctionOnSet(f, S) <= Cardinality(S) * m
<1>. DEFINE B == {T \in SUBSET S : ~(SumFunctionOnSet(f, T) <= Cardinality(T) * m)}
<1>1. ASSUME B # {}
      PROVE  FALSE
  <2>1. PICK T \in B : \A U \in SUBSET T : U # T => U \notin B
    <3>1. B \subseteq SUBSET S
      OBVIOUS
    <3>. HIDE DEF B
    <3>. QED
      BY <1>1, <3>1, SmallestSubset
  <2>2. IsFiniteSet(T) /\ T \in SUBSET S /\ Cardinality(T) \in Nat
    BY FS_Subset, FS_CardinalityType
  <2>3. T # {}
    <3>1. ~(SumFunctionOnSet(f, T) <= Cardinality(T) * m)
      BY <2>1
    <3>2. 0 <= 0 * m
      OBVIOUS
    <3>. QED
      BY <3>1, <3>2, SumOfNone, FS_EmptySet
  <2>. DEFINE y == First(T)
              R == T \ {y}
  <2>4. y \in S /\ y \in T
    BY <2>2, <2>3, FirstIn
  <2>5. Cardinality(R) = Cardinality(T) - 1 /\ IsFiniteSet(R)
    BY <2>2, <2>4, FS_RemoveElement
  <2>6. R \in SUBSET T /\ R # T /\ R \in SUBSET S
    BY <2>2, <2>4
  <2>7. SumFunctionOnSet(f, R) <= Cardinality(R) * m
    BY <2>1, <2>6
  <2>8. SumFunctionOnSet(f, T) = f[y] + SumFunctionOnSet(f, R)
    BY <2>2, <2>3, SumFirst
  <2>9. SumFunctionOnSet(f, R) \in Nat
    BY <2>5, <2>6, SumIsNat
  <2>. DEFINE c == Cardinality(T)
              v == SumFunctionOnSet(f, R)
  <2>10. f[y] + v <= c * m
    <3>1. f[y] \in Nat /\ f[y] <= m /\ v \in Nat /\ c \in Nat /\ v <= (c - 1) * m
      BY <2>2, <2>4, <2>5, <2>7, <2>9
    <3>. HIDE DEF v, c, y
    <3>2. (c - 1) * m = c * m - m /\ c * m \in Nat
      BY <3>1
    <3>. QED
      BY <3>1, <3>2
  <2>. QED
    BY <2>1, <2>8, <2>10
<1>2. S \in SUBSET S
  OBVIOUS
<1>. QED
  BY <1>1, <1>2

----------------------------------------------------------------------------
(* Totals modulo the word size                                              *)

LEMMA DivMod ==
    ASSUME NEW n \in Int, NEW w \in Nat \ {0}
    PROVE  n = w * (n \div w) + (n % w) /\ n \div w \in Int /\ (n % w) \in 0..(w - 1)
OBVIOUS

LEMMA ModUnique ==
    ASSUME NEW w \in Nat \ {0}, NEW k \in Int, NEW r \in 0..(w - 1)
    PROVE  (w * k + r) % w = r
<1>. DEFINE n == w * k + r
            d == k - (n \div w)
<1>1. n \in Int
  OBVIOUS
<1>2. n = w * (n \div w) + (n % w) /\ n \div w \in Int /\ (n % w) \in 0..(w - 1)
  BY <1>1, DivMod
<1>3. d \in Int /\ w * d = (n % w) - r
  BY <1>2
<1>. HIDE DEF d
<1>4. w * d < w /\ w * d > -w
  BY <1>2, <1>3
<1>5. d = 0
  BY <1>3, <1>4
<1>. QED
  BY <1>2, <1>3, <1>5

LEMMA ModSum ==
    ASSUME NEW w \in Nat \ {0}, NEW a \in Int, NEW q \in Int
    PROVE  ((a % w) + q) % w = (a + q) % w
<1>. DEFINE m == (a % w) + q
            j == a \div w
            k == m \div w
<1>1. a = w * (a \div w) + (a % w) /\ a \div w \in Int /\ (a % w) \in 0..(w - 1)
  BY DivMod
<1>2. m \in Int
  BY <1>1
<1>3. m = w * (m \div w) + (m % w) /\ m \div w \in Int /\ (m % w) \in 0..(w - 1)
  BY <1>2, DivMod
<1>4. a + q = (w * j + w * k) + (m % w)
  BY <1>1, <1>3
<1>5. w * j + w * k = w * (j + k) /\ j + k \in Int
  BY <1>1, <1>3
<1>6. (w * (j + k) + (m % w)) % w = m % w
  BY <1>3, <1>5, ModUnique
<1>. QED
  BY <1>4, <1>5, <1>6

----------------------------------------------------------------------------
(* What one operation does to a book                                        *)

Level == [total : Amounts, ids : Seq(OrderIds)]
Levels == [Sides -> [LevelIndex -> Level]]

LEMMA Constants ==
    /\ MinPrice \in Nat \ {0} /\ MaxPrice \in Nat
    /\ Word \in Nat \ {0} /\ MaxPerLevel \in Nat \ {0} /\ MaxOrders \in Nat
    /\ Prices \subseteq Nat /\ Prices \subseteq 0..(MaxPrice + 1)
    /\ \A n \in Int : n % Word \in Amounts
    /\ \A p \in Prices : PriceIndex(p) \in LevelIndex
    /\ Absent \notin Order
<1>1. MinPrice \in Nat \ {0} /\ MaxPrice \in Nat
      /\ Word \in Nat \ {0} /\ MaxPerLevel \in Nat \ {0} /\ MaxOrders \in Nat
      /\ \A p \in Prices : PriceIndex(p) \in LevelIndex
  BY BookAssumption
<1>2. Prices \subseteq Nat /\ Prices \subseteq 0..(MaxPrice + 1)
  BY <1>1 DEF Prices
<1>3. \A n \in Int : n % Word \in Amounts
  BY <1>1 DEF Amounts
<1>4. Absent \notin Order
  BY DEF Absent, Order, Sides
<1>. QED
  BY <1>1, <1>2, <1>3, <1>4

LEMMA FoundOrder ==
    ASSUME NEW b \in Books, NEW id \in OrderIds, Found(b, id)
    PROVE  /\ b.orders[id] \in Order
           /\ b.orders[id].price \in Prices /\ b.orders[id].quantity \in Amounts
           /\ b.orders[id].side \in Sides
           /\ PriceIndex(b.orders[id].price) \in LevelIndex
<1>1. b.orders[id] \in Order
  BY DEF Books, Found
<1>. QED
  BY <1>1, Constants DEF Order

\* The rescan ends at a price of the range or at the value for "none".
LEMMA NextBestInRange ==
    ASSUME NEW side \in Sides, NEW levels, NEW price
    PROVE  NextBest(side, levels, price) \in 0..(MaxPrice + 1)
<1>. DEFINE filled == {p \in Prices : levels[PriceIndex(p)].total > 0}
            below == {0} \cup {p \in filled : p <= price}
            above == {MaxPrice + 1} \cup {p \in filled : p > price}
<1>1. MaxPrice + 1 \in Nat /\ Prices \subseteq 0..(MaxPrice + 1)
  BY Constants
<1>2. below \subseteq {0} \cup Prices /\ below # {}
  BY Zenon
<1>3. above \subseteq {MaxPrice + 1} \cup Prices /\ above # {}
  BY Zenon
<1>4. NextBest(side, levels, price) = IF side = "Bid" THEN Max(below) ELSE Min(above)
  BY DEF NextBest
<1>. HIDE DEF below, above
<1>5. Max(below) \in 0..(MaxPrice + 1)
  <2>1. below \subseteq 0..(MaxPrice + 1)
    BY <1>1, <1>2
  <2>. QED
    BY <1>1, <1>2, <2>1, MaxOfBounded
<1>6. Min(above) \in 0..(MaxPrice + 1)
  <2>1. above \subseteq 0..(MaxPrice + 1) /\ above \subseteq Nat
    BY <1>1, <1>3
  <2>. QED
    BY <1>3, <2>1, MinOfNats
<1>. QED
  BY <1>4, <1>5, <1>6

LEMMA PushType ==
    ASSUME NEW ids \in Seq(OrderIds), NEW id \in OrderIds
    PROVE  Push(ids, id) \in Seq(OrderIds)
BY AppendProperties DEF Push

LEMMA RemoveFirstType ==
    ASSUME NEW ids \in Seq(OrderIds), NEW id
    PROVE  RemoveFirst(ids, id) \in Seq(OrderIds)
BY RemoveFirstCases

\* insert, once accepted: the entry, its level and nothing else.
LEMMA PlaceEffect ==
    ASSUME NEW b \in Books, NEW id \in OrderIds, NEW order \in Order
    PROVE  /\ Place(b, id, order) \in Books
           /\ Place(b, id, order).orders = [b.orders EXCEPT ![id] = order]
           /\ LevelOf(Place(b, id, order), order).ids = Push(LevelOf(b, order).ids, id)
           /\ \A t \in Sides, j \in LevelIndex :
                 t # order.side \/ j # PriceIndex(order.price)
                   => Place(b, id, order).level[t][j] = b.level[t][j]
<1>. DEFINE s == order.side
            i == PriceIndex(order.price)
            c == Place(b, id, order)
            l == [total |-> (b.level[s][i].total + order.quantity) % Word,
                  ids |-> Push(b.level[s][i].ids, id)]
            level == [b.level EXCEPT ![s][i] = l]
            best == [b.best EXCEPT ![s] =
                       IF Better(s, order.price, @) THEN order.price ELSE @]
<1>1. s \in Sides /\ order.price \in Prices /\ order.quantity \in Amounts
      /\ i \in LevelIndex
  BY Constants DEF Order
<1>2. /\ b.level \in Levels /\ b.best \in [Sides -> 0..(MaxPrice + 1)]
      /\ b.orders \in [OrderIds -> Order \cup {Absent}]
  BY DEF Books, Levels, Level
<1>3. l \in Level
  <2>1. b.level[s][i] \in Level
    BY <1>1, <1>2 DEF Levels
  <2>2. b.level[s][i].total + order.quantity \in Int
    BY <1>1, <2>1 DEF Level, Amounts
  <2>3. Push(b.level[s][i].ids, id) \in Seq(OrderIds)
    BY <2>1, PushType DEF Level
  <2>. QED
    BY <2>2, <2>3, Constants DEF Level
<1>4. c = [orders |-> [b.orders EXCEPT ![id] = order], level |-> level, best |-> best]
  BY Zenon DEF Place
<1>5. best \in [Sides -> 0..(MaxPrice + 1)]
  BY <1>1, <1>2, Constants
<1>6. [b.orders EXCEPT ![id] = order] \in [OrderIds -> Order \cup {Absent}]
  BY <1>2
<1>. HIDE DEF s, i, l
<1>7. /\ level \in Levels
      /\ level[s][i] = l
      /\ \A t \in Sides, j \in LevelIndex :
            t # s \/ j # i => level[t][j] = b.level[t][j]
  <2>1. level = [b.level EXCEPT ![s][i] = l]
    OBVIOUS
  <2>. HIDE DEF level
  <2>. QED
    BY <1>1, <1>2, <1>3, <2>1 DEF Levels
<1>. HIDE DEF c, level, best
<1>8. c \in Books
  BY <1>4, <1>5, <1>6, <1>7 DEF Books, Levels, Level
<1>9. c.orders = [b.orders EXCEPT ![id] = order] /\ c.level = level
  BY <1>4
<1>10. l.ids = Push(b.level[s][i].ids, id)
  BY DEF l
<1>11. c.level[s][i].ids = Push(b.level[s][i].ids, id)
  BY <1>7, <1>9, <1>10
<1>. QED
  BY <1>7, <1>8, <1>9, <1>11, Zenon DEF LevelOf, s, i, c

\* cancel, and the first half of modify.
LEMMA TakeOutEffect ==
    ASSUME NEW b \in Books, NEW id \in OrderIds, Found(b, id)
    PROVE  /\ TakeOut(b, id) \in Books
           /\ TakeOut(b, id).orders = [b.orders EXCEPT ![id] = Absent]
           /\ LevelOf(TakeOut(b, id), b.orders[id]).ids =
                 RemoveFirst(LevelOf(b, b.orders[id]).ids, id)
           /\ \A t \in Sides, j \in LevelIndex :
                 t # b.orders[id].side \/ j # PriceIndex(b.orders[id].price)
                   => TakeOut(b, id).level[t][j] = b.level[t][j]
<1>. DEFINE o == b.orders[id]
            s == o.side
            i == PriceIndex(o.price)
            c == TakeOut(b, id)
            total == (b.level[s][i].total - o.quantity) % Word
            l == [total |-> total, ids |-> RemoveFirst(b.level[s][i].ids, id)]
            level == [b.level EXCEPT ![s][i] =
                        [total |-> total, ids |-> RemoveFirst(@.ids, id)]]
            best == [b.best EXCEPT ![s] =
                       IF total = 0 /\ o.price = @
                       THEN NextBest(s, level[s], o.price) ELSE @]
<1>1. s \in Sides /\ o.quantity \in Amounts /\ i \in LevelIndex
  BY FoundOrder
<1>2. /\ b.level \in Levels /\ b.best \in [Sides -> 0..(MaxPrice + 1)]
      /\ b.orders \in [OrderIds -> Order \cup {Absent}]
  BY DEF Books, Levels, Level
<1>3. l \in Level
  <2>1. b.level[s][i] \in Level
    BY <1>1, <1>2 DEF Levels
  <2>2. b.level[s][i].total - o.quantity \in Int
    BY <1>1, <2>1 DEF Level, Amounts
  <2>3. RemoveFirst(b.level[s][i].ids, id) \in Seq(OrderIds)
    BY <2>1, RemoveFirstType DEF Level
  <2>. QED
    BY <2>2, <2>3, Constants DEF Level
<1>4. c = [orders |-> [b.orders EXCEPT ![id] = Absent], level |-> level, best |-> best]
  BY Zenon DEF TakeOut
<1>5. level = [b.level EXCEPT ![s][i] = l]
  BY <1>1, <1>2 DEF Levels
<1>. HIDE DEF level
<1>6. best \in [Sides -> 0..(MaxPrice + 1)]
  <2>1. NextBest(s, level[s], o.price) \in 0..(MaxPrice + 1)
    BY <1>1, NextBestInRange
  <2>. HIDE DEF s, o, total
  <2>. QED
    BY <1>1, <1>2, <2>1
<1>7. [b.orders EXCEPT ![id] = Absent] \in [OrderIds -> Order \cup {Absent}]
  BY <1>2
<1>. HIDE DEF o, s, i, l
<1>8. /\ level \in Levels
      /\ level[s][i] = l
      /\ \A t \in Sides, j \in LevelIndex :
            t # s \/ j # i => level[t][j] = b.level[t][j]
  BY <1>1, <1>2, <1>3, <1>5 DEF Levels
<1>. HIDE DEF c, best
<1>9. c \in Books
  BY <1>4, <1>6, <1>7, <1>8 DEF Books, Levels, Level
<1>10. c.orders = [b.orders EXCEPT ![id] = Absent] /\ c.level = level
  BY <1>4
<1>11. l.ids = RemoveFirst(b.level[s][i].ids, id)
  BY DEF l
<1>12. c.level[s][i].ids = RemoveFirst(b.level[s][i].ids, id)
  BY <1>8, <1>10, <1>11
<1>. QED
  BY <1>8, <1>9, <1>10, <1>12, Zenon DEF LevelOf, o, s, i, c

LEMMA AmountDifference ==
    ASSUME NEW m \in Amounts, NEW n \in Amounts, n < m
    PROVE  m - n \in Amounts
BY BookAssumption DEF Amounts

\* A fill that leaves the order resting changes two numbers only.
LEMMA LessenEffect ==
    ASSUME NEW b \in Books, NEW id \in OrderIds, Found(b, id),
           NEW quantity \in Amounts, quantity < b.orders[id].quantity
    PROVE  /\ Lessen(b, id, quantity) \in Books
           /\ \A x \in OrderIds, s \in Sides, i \in LevelIndex :
                 RestsAt(Lessen(b, id, quantity), x, s, i) <=> RestsAt(b, x, s, i)
           /\ \A s \in Sides, i \in LevelIndex :
                 Lessen(b, id, quantity).level[s][i].ids = b.level[s][i].ids
<1>. DEFINE o == b.orders[id]
            s == o.side
            i == PriceIndex(o.price)
            c == Lessen(b, id, quantity)
            l == [b.level[s][i] EXCEPT !.total = (@ - quantity) % Word]
            r == [o EXCEPT !.quantity = @ - quantity]
            level == [b.level EXCEPT ![s][i] = l]
            orders == [b.orders EXCEPT ![id] = r]
<1>1. s \in Sides /\ i \in LevelIndex /\ o \in Order
  BY FoundOrder
<1>2. /\ b.level \in Levels /\ b.best \in [Sides -> 0..(MaxPrice + 1)]
      /\ b.orders \in [OrderIds -> Order \cup {Absent}]
  BY DEF Books, Levels, Level
<1>3. l \in Level /\ l.ids = b.level[s][i].ids
  <2>1. b.level[s][i] \in Level
    BY <1>1, <1>2 DEF Levels
  <2>2. b.level[s][i].total - quantity \in Int
    BY <2>1 DEF Level, Amounts
  <2>3. (b.level[s][i].total - quantity) % Word \in Amounts
    BY <2>2, Constants
  <2>. QED
    BY <2>1, <2>3 DEF Level
<1>4. r \in Order /\ r.side = o.side /\ r.price = o.price
  <2>1. o.quantity \in Amounts
    BY <1>1 DEF Order
  <2>2. o.quantity - quantity \in Amounts
    BY <2>1, AmountDifference, Zenon
  <2>. QED
    BY <1>1, <2>2 DEF Order
<1>5. c = [b EXCEPT !.orders = orders, !.level = level]
  BY <1>1, <1>2 DEF Lessen, Books, Levels
<1>6. orders \in [OrderIds -> Order \cup {Absent}]
  BY <1>2, <1>4
<1>7. \A x \in OrderIds :
         /\ (orders[x] # Absent) <=> (b.orders[x] # Absent)
         /\ orders[x].side = b.orders[x].side
         /\ orders[x].price = b.orders[x].price
  <2>1. r # Absent /\ o # Absent
    BY <1>1, <1>4, Constants
  <2>. HIDE DEF r
  <2>. QED
    BY <1>2, <1>4, <2>1
<1>. HIDE DEF s, i, l
<1>8. /\ level \in Levels
      /\ \A t \in Sides, j \in LevelIndex : level[t][j].ids = b.level[t][j].ids
  <2>1. level[s][i] = l
    BY <1>1, <1>2 DEF Levels
  <2>2. \A t \in Sides, j \in LevelIndex :
           t # s \/ j # i => level[t][j] = b.level[t][j]
    BY <1>1, <1>2 DEF Levels
  <2>3. level \in Levels
    BY <1>1, <1>2, <1>3 DEF Levels
  <2>. HIDE DEF level
  <2>. QED
    BY <1>3, <2>1, <2>2, <2>3
<1>. HIDE DEF c, level, orders
<1>9. c.orders = orders /\ c.level = level /\ c \in Books
  BY <1>2, <1>5, <1>6, <1>8 DEF Books, Levels, Level
<1>. QED
  <2>1. \A x \in OrderIds, t \in Sides, j \in LevelIndex :
           RestsAt(c, x, t, j) <=> RestsAt(b, x, t, j)
    BY <1>7, <1>9 DEF RestsAt, Found
  <2>2. \A t \in Sides, j \in LevelIndex : c.level[t][j].ids = b.level[t][j].ids
    BY <1>8, <1>9
  <2>. QED
    BY <1>9, <2>1, <2>2 DEF c

----------------------------------------------------------------------------
(* The FIFOs stay sound                                                     *)

Elems(ids) == {ids[k] : k \in 1..Len(ids)}
Distinct(ids) == \A j, k \in 1..Len(ids) : ids[j] = ids[k] => j = k

LEMMA QueuesByElems ==
    ASSUME NEW b
    PROVE  QueuesSound(b) <=>
             \A s \in Sides, i \in LevelIndex :
                /\ \A x \in Elems(b.level[s][i].ids) : RestsAt(b, x, s, i)
                /\ Distinct(b.level[s][i].ids)
<1>1. ASSUME NEW s, NEW i, NEW ids
      PROVE  (\A k \in 1..Len(ids) : RestsAt(b, ids[k], s, i))
                <=> (\A x \in Elems(ids) : RestsAt(b, x, s, i))
  <2>1. ASSUME \A k \in 1..Len(ids) : RestsAt(b, ids[k], s, i)
        PROVE  \A x \in Elems(ids) : RestsAt(b, x, s, i)
    BY <2>1, Zenon DEF Elems
  <2>2. ASSUME \A x \in Elems(ids) : RestsAt(b, x, s, i)
        PROVE  \A k \in 1..Len(ids) : RestsAt(b, ids[k], s, i)
    <3>1. \A k \in 1..Len(ids) : ids[k] \in Elems(ids)
      BY Zenon DEF Elems
    <3>. QED
      BY <2>2, <3>1, Zenon
  <2>. QED
    BY <2>1, <2>2
<1>2. QueuesSound(b) <=>
        \A s \in Sides, i \in LevelIndex :
           /\ \A k \in 1..Len(b.level[s][i].ids) : RestsAt(b, b.level[s][i].ids[k], s, i)
           /\ Distinct(b.level[s][i].ids)
  BY Zenon DEF QueuesSound, Distinct
<1>. QED
  BY <1>1, <1>2, Zenon

LEMMA PushedIds ==
    ASSUME NEW ids \in Seq(OrderIds), NEW id \in OrderIds,
           id \notin Elems(ids), Distinct(ids)
    PROVE  Elems(Push(ids, id)) \subseteq Elems(ids) \cup {id} /\ Distinct(Push(ids, id))
<1>1. CASE Len(ids) >= MaxPerLevel
  BY <1>1 DEF Push
<1>2. CASE ~(Len(ids) >= MaxPerLevel)
  <2>. DEFINE new == Append(ids, id)
  <2>1. /\ Len(new) = Len(ids) + 1 /\ Len(ids) \in Nat
        /\ \A k \in 1..Len(ids) : new[k] = ids[k]
        /\ new[Len(ids) + 1] = id
    BY AppendProperties
  <2>2. Push(ids, id) = new
    BY <1>2 DEF Push
  <2>. HIDE DEF new
  <2>3. Elems(new) \subseteq Elems(ids) \cup {id}
    BY <2>1 DEF Elems
  <2>4. Distinct(new)
    BY <2>1 DEF Elems, Distinct
  <2>. QED
    BY <2>2, <2>3, <2>4
<1>. QED
  BY <1>1, <1>2

LEMMA RemovedIds ==
    ASSUME NEW ids \in Seq(OrderIds), NEW id, Distinct(ids)
    PROVE  /\ Elems(RemoveFirst(ids, id)) \subseteq Elems(ids) \ {id}
           /\ Distinct(RemoveFirst(ids, id))
<1>. DEFINE new == RemoveFirst(ids, id)
<1>1. CASE (\A k \in 1..Len(ids) : ids[k] # id) /\ new = ids
  BY <1>1 DEF Elems
<1>2. CASE \E m \in 1..Len(ids) :
              /\ ids[m] = id
              /\ Len(new) = Len(ids) - 1
              /\ \A k \in 1..(Len(ids) - 1) : new[k] = IF k < m THEN ids[k] ELSE ids[k + 1]
  <2>1. PICK m \in 1..Len(ids) :
              /\ ids[m] = id
              /\ Len(new) = Len(ids) - 1
              /\ \A k \in 1..(Len(ids) - 1) : new[k] = IF k < m THEN ids[k] ELSE ids[k + 1]
    BY <1>2
  <2>. DEFINE from(k) == IF k < m THEN k ELSE k + 1
  <2>2. \A k \in 1..Len(new) :
           from(k) \in 1..Len(ids) /\ from(k) # m /\ new[k] = ids[from(k)]
    BY <2>1
  <2>3. \A j, k \in 1..Len(new) : from(j) = from(k) => j = k
    BY <2>1
  <2>. HIDE DEF from, new
  <2>4. \A k \in 1..Len(new) : new[k] # id
    BY <2>1, <2>2 DEF Distinct
  <2>5. Elems(new) \subseteq Elems(ids) \ {id}
    BY <2>2, <2>4 DEF Elems
  <2>6. ASSUME NEW j \in 1..Len(new), NEW k \in 1..Len(new), new[j] = new[k]
        PROVE  j = k
    <3>1. from(j) = from(k)
      BY <2>2, <2>6, Zenon DEF Distinct
    <3>. QED
      BY <2>3, <3>1
  <2>. QED
    BY <2>5, <2>6, Zenon DEF Distinct, new
<1>. QED
  BY <1>1, <1>2, RemoveFirstCases

\* An order that no FIFO can name yet joins the end of one.
LEMMA PlaceKeepsQueues ==
    ASSUME NEW b \in Books, NEW id \in OrderIds, NEW order \in Order,
           ~Found(b, id), QueuesSound(b)
    PROVE  QueuesSound(Place(b, id, order))
<1>. DEFINE c == Place(b, id, order)
<1>1. /\ c \in Books /\ c.orders = [b.orders EXCEPT ![id] = order]
      /\ LevelOf(c, order).ids = Push(LevelOf(b, order).ids, id)
      /\ \A t \in Sides, j \in LevelIndex :
            t # order.side \/ j # PriceIndex(order.price) => c.level[t][j] = b.level[t][j]
  BY PlaceEffect
<1>2. /\ \A x \in OrderIds \ {id} : c.orders[x] = b.orders[x]
      /\ c.orders[id] = order /\ order # Absent
  BY <1>1, Constants DEF Books
<1>. HIDE DEF c
<1>3. ASSUME NEW t \in Sides, NEW j \in LevelIndex
      PROVE  /\ \A x \in Elems(c.level[t][j].ids) : RestsAt(c, x, t, j)
             /\ Distinct(c.level[t][j].ids)
  <2>. DEFINE old == b.level[t][j].ids
              new == c.level[t][j].ids
  <2>1. /\ \A x \in Elems(old) : RestsAt(b, x, t, j)
        /\ Distinct(old)
    BY QueuesByElems, Zenon
  <2>2. old \in Seq(OrderIds) /\ Elems(old) \subseteq OrderIds
    BY DEF Books, Elems
  <2>. HIDE DEF old, new
  <2>3. id \notin Elems(old)
    BY <2>1 DEF RestsAt
  <2>4. \A x \in Elems(old) : RestsAt(c, x, t, j)
    BY <1>2, <2>1, <2>2, <2>3 DEF RestsAt, Found
  <2>5. CASE t = order.side /\ j = PriceIndex(order.price)
    <3>1. new = Push(old, id)
      BY <1>1, <2>5 DEF LevelOf, old, new
    <3>2. RestsAt(c, id, t, j)
      BY <1>2, <2>5 DEF RestsAt, Found
    <3>3. Elems(new) \subseteq Elems(old) \cup {id} /\ Distinct(new)
      BY <2>1, <2>2, <2>3, <3>1, PushedIds
    <3>. QED
      BY <2>4, <3>2, <3>3 DEF new
  <2>6. CASE ~(t = order.side /\ j = PriceIndex(order.price))
    <3>1. new = old
      BY <1>1, <2>6 DEF old, new
    <3>. QED
      BY <2>1, <2>4, <3>1 DEF new
  <2>. QED
    BY <2>5, <2>6
<1>. QED
  BY <1>3, QueuesByElems, Zenon DEF c

\* The removed id leaves the only FIFO that can name it.
LEMMA TakeOutKeepsQueues ==
    ASSUME NEW b \in Books, NEW id \in OrderIds, Found(b, id), QueuesSound(b)
    PROVE  QueuesSound(TakeOut(b, id)) /\ ~Found(TakeOut(b, id), id)
<1>. DEFINE c == TakeOut(b, id)
            s == b.orders[id].side
            i == PriceIndex(b.orders[id].price)
<1>1. /\ c \in Books /\ c.orders = [b.orders EXCEPT ![id] = Absent]
      /\ c.level[s][i].ids = RemoveFirst(b.level[s][i].ids, id)
      /\ \A t \in Sides, j \in LevelIndex :
            t # s \/ j # i => c.level[t][j] = b.level[t][j]
  BY TakeOutEffect, Zenon DEF LevelOf
<1>2. /\ \A x \in OrderIds \ {id} : c.orders[x] = b.orders[x]
      /\ c.orders[id] = Absent
  BY <1>1 DEF Books
<1>. HIDE DEF c
<1>3. ASSUME NEW t \in Sides, NEW j \in LevelIndex
      PROVE  /\ \A x \in Elems(c.level[t][j].ids) : RestsAt(c, x, t, j)
             /\ Distinct(c.level[t][j].ids)
  <2>. DEFINE old == b.level[t][j].ids
              new == c.level[t][j].ids
  <2>1. /\ \A x \in Elems(old) : RestsAt(b, x, t, j)
        /\ Distinct(old)
    BY QueuesByElems, Zenon
  <2>2. old \in Seq(OrderIds) /\ Elems(old) \subseteq OrderIds
    BY DEF Books, Elems
  <2>. HIDE DEF old, new
  <2>3. \A x \in Elems(old) \ {id} : RestsAt(c, x, t, j)
    BY <1>2, <2>1, <2>2 DEF RestsAt, Found
  <2>4. CASE t = s /\ j = i
    <3>1. new = RemoveFirst(old, id)
      BY <1>1, <2>4 DEF old, new
    <3>2. Elems(new) \subseteq Elems(old) \ {id} /\ Distinct(new)
      BY <2>1, <2>2, <3>1, RemovedIds
    <3>. QED
      BY <2>3, <3>2 DEF new
  <2>5. CASE ~(t = s /\ j = i)
    <3>1. new = old
      BY <1>1, <2>5 DEF old, new
    <3>2. id \notin Elems(old)
      BY <2>1, <2>5 DEF RestsAt
    <3>. QED
      BY <2>1, <2>3, <3>1, <3>2 DEF new
  <2>. QED
    BY <2>4, <2>5
<1>4. QueuesSound(c)
  BY <1>3, QueuesByElems, Zenon
<1>. QED
  BY <1>2, <1>4 DEF Found, c

LEMMA LessenKeepsQueues ==
    ASSUME NEW b \in Books, NEW id \in OrderIds, Found(b, id), QueuesSound(b),
           NEW quantity \in Amounts, quantity < b.orders[id].quantity
    PROVE  QueuesSound(Lessen(b, id, quantity))
<1>. DEFINE c == Lessen(b, id, quantity)
<1>1. /\ \A x \in OrderIds, s \in Sides, i \in LevelIndex :
            RestsAt(c, x, s, i) <=> RestsAt(b, x, s, i)
      /\ \A s \in Sides, i \in LevelIndex : c.level[s][i].ids = b.level[s][i].ids
  BY LessenEffect, Zenon
<1>. HIDE DEF c
<1>2. \A s \in Sides, i \in LevelIndex : Elems(b.level[s][i].ids) \subseteq OrderIds
  BY DEF Books, Elems
<1>3. \A s \in Sides, i \in LevelIndex :
         /\ \A x \in Elems(b.level[s][i].ids) : RestsAt(b, x, s, i)
         /\ Distinct(b.level[s][i].ids)
  BY QueuesByElems, Zenon
<1>4. \A s \in Sides, i \in LevelIndex :
         /\ \A x \in Elems(c.level[s][i].ids) : RestsAt(c, x, s, i)
         /\ Distinct(c.level[s][i].ids)
  BY <1>1, <1>2, <1>3
<1>. QED
  BY <1>4, QueuesByElems, Zenon DEF c

----------------------------------------------------------------------------
(* The map keeps a slot free for whoever is taken out                       *)

Resting(b) == {o \in OrderIds : Found(b, o)}

MapSound(b) ==
    /\ \A id \in ReservedIds : ~Found(b, id)
    /\ Cardinality(Resting(b)) <= MaxOrders

LEMMA RestingFinite ==
    ASSUME NEW b
    PROVE  IsFiniteSet(Resting(b)) /\ Cardinality(Resting(b)) \in Nat
<1>1. Resting(b) \subseteq OrderIds /\ IsFiniteSet(OrderIds)
  BY BookAssumption DEF Resting
<1>2. IsFiniteSet(Resting(b))
  BY <1>1, FS_Subset, Zenon
<1>. QED
  BY <1>2, FS_CardinalityType

LEMMA PlaceKeepsMap ==
    ASSUME NEW b \in Books, NEW id \in OrderIds, NEW order \in Order,
           MapSound(b), ~Found(b, id), ~MapRefuses(b, id)
    PROVE  MapSound(Place(b, id, order))
<1>. DEFINE c == Place(b, id, order)
<1>1. c.orders = [b.orders EXCEPT ![id] = order] /\ order # Absent
  BY PlaceEffect, Constants
<1>. HIDE DEF c
<1>2. \A x \in OrderIds : Found(c, x) <=> Found(b, x) \/ x = id
  BY <1>1 DEF Books, Found
<1>3. Resting(c) = Resting(b) \cup {id} /\ id \notin Resting(b)
  BY <1>2 DEF Resting
<1>4. Cardinality(Resting(c)) = Cardinality(Resting(b)) + 1
  BY <1>3, RestingFinite, FS_AddElement
<1>5. id \notin ReservedIds /\ ~(Cardinality(Resting(b)) >= MaxOrders)
  BY Zenon DEF MapRefuses, Resting
<1>6. Cardinality(Resting(c)) <= MaxOrders
  BY <1>4, <1>5, RestingFinite, Constants
<1>7. \A x \in ReservedIds : ~Found(c, x)
  BY <1>2, <1>5, BookAssumption DEF MapSound
<1>. QED
  BY <1>6, <1>7 DEF MapSound, c

\* After TakeOut the map accepts the id again: this is why modify, which takes
\* the order out first, cannot lose it.
LEMMA TakeOutKeepsMap ==
    ASSUME NEW b \in Books, NEW id \in OrderIds, Found(b, id), MapSound(b)
    PROVE  MapSound(TakeOut(b, id)) /\ ~MapRefuses(TakeOut(b, id), id)
<1>. DEFINE c == TakeOut(b, id)
<1>1. c.orders = [b.orders EXCEPT ![id] = Absent]
  BY TakeOutEffect
<1>. HIDE DEF c
<1>2. \A x \in OrderIds : Found(c, x) <=> Found(b, x) /\ x # id
  BY <1>1 DEF Books, Found
<1>3. Resting(c) = Resting(b) \ {id} /\ id \in Resting(b)
  BY <1>2 DEF Resting
<1>4. Cardinality(Resting(c)) = Cardinality(Resting(b)) - 1
  BY <1>3, RestingFinite, FS_RemoveElement
<1>5. Cardinality(Resting(c)) < MaxOrders
  BY <1>4, RestingFinite, Constants DEF MapSound
<1>6. \A x \in ReservedIds : ~Found(c, x)
  BY <1>2, BookAssumption DEF MapSound
<1>7. id \notin ReservedIds
  BY DEF MapSound
<1>8. MapSound(c)
  BY <1>5, <1>6, RestingFinite, Constants DEF MapSound
<1>9. ~(Cardinality(Resting(c)) >= MaxOrders)
  BY <1>5, RestingFinite, Constants
<1>10. ~MapRefuses(c, id)
  BY <1>7, <1>9, Zenon DEF MapRefuses, Resting
<1>. QED
  BY <1>8, <1>10 DEF c

LEMMA LessenKeepsMap ==
    ASSUME NEW b \in Books, NEW id \in OrderIds, Found(b, id), MapSound(b),
           NEW quantity \in Amounts, quantity < b.orders[id].quantity
    PROVE  MapSound(Lessen(b, id, quantity))
<1>. DEFINE c == Lessen(b, id, quantity)
<1>1. /\ c \in Books /\ Sides # {}
      /\ \A x \in OrderIds, s \in Sides, i \in LevelIndex :
            RestsAt(c, x, s, i) <=> RestsAt(b, x, s, i)
  BY LessenEffect DEF Sides
<1>. HIDE DEF c
<1>2. ASSUME NEW x \in OrderIds
      PROVE  Found(c, x) <=> Found(b, x)
  <2>1. ASSUME NEW d \in Books
        PROVE  Found(d, x) <=> \E s \in Sides, i \in LevelIndex : RestsAt(d, x, s, i)
    BY FoundOrder, Zenon DEF RestsAt
  <2>. QED
    BY <1>1, <2>1
<1>3. Resting(c) = Resting(b)
  BY <1>2 DEF Resting
<1>. QED
  BY <1>2, <1>3, BookAssumption DEF MapSound, c

----------------------------------------------------------------------------
(* The totals of the levels                                                 *)

\* The total of every level is what the orders the map holds at it add up to.
TotalsSound(b) ==
    \A s \in Sides, i \in LevelIndex : b.level[s][i].total = QuantityAt(b, s, i) % Word

Quantity(b) == [id \in OrderIds |-> b.orders[id].quantity]

LEMMA QuantityType ==
    ASSUME NEW b \in Books
    PROVE  \A x \in OrderIds : Quantity(b)[x] \in Nat /\ Quantity(b)[x] = b.orders[x].quantity
<1>1. ASSUME NEW x \in OrderIds
      PROVE  b.orders[x].quantity \in Nat
  <2>1. b.orders[x] \in Order \/ b.orders[x] = Absent
    BY DEF Books
  <2>. QED
    BY <2>1, Constants DEF Order, Amounts, Absent
<1>. QED
  BY <1>1 DEF Quantity

LEMMA RestingAtFinite ==
    ASSUME NEW b, NEW s, NEW i
    PROVE  IsFiniteSet(RestingAt(b, s, i)) /\ RestingAt(b, s, i) \subseteq OrderIds
<1>1. RestingAt(b, s, i) \subseteq OrderIds /\ IsFiniteSet(OrderIds)
  BY BookAssumption DEF RestingAt
<1>. QED
  BY <1>1, FS_Subset, Zenon

LEMMA QuantityAtType ==
    ASSUME NEW b \in Books, NEW s, NEW i
    PROVE  /\ QuantityAt(b, s, i) = SumFunctionOnSet(Quantity(b), RestingAt(b, s, i))
           /\ QuantityAt(b, s, i) \in Nat
<1>1. QuantityAt(b, s, i) = SumFunctionOnSet(Quantity(b), RestingAt(b, s, i))
  BY Zenon DEF QuantityAt, Quantity
<1>2. SumFunctionOnSet(Quantity(b), RestingAt(b, s, i)) \in Nat
  BY QuantityType, RestingAtFinite, SumIsNat
<1>. QED
  BY <1>1, <1>2

\* From b to c a level has kept its orders, or one has joined them.
SameAt(b, c, s, i) ==
    /\ RestingAt(c, s, i) = RestingAt(b, s, i)
    /\ \A x \in RestingAt(b, s, i) : c.orders[x].quantity = b.orders[x].quantity

JoinedAt(b, c, s, i, id) ==
    /\ id \notin RestingAt(b, s, i) /\ RestingAt(c, s, i) = RestingAt(b, s, i) \cup {id}
    /\ \A x \in RestingAt(b, s, i) : c.orders[x].quantity = b.orders[x].quantity

LEMMA QuantityAtSame ==
    ASSUME NEW b \in Books, NEW c \in Books, NEW s, NEW i, SameAt(b, c, s, i)
    PROVE  QuantityAt(c, s, i) = QuantityAt(b, s, i)
<1>1. \A x \in RestingAt(b, s, i) : Quantity(c)[x] = Quantity(b)[x]
  BY QuantityType, RestingAtFinite DEF SameAt
<1>2. SumFunctionOnSet(Quantity(c), RestingAt(b, s, i))
        = SumFunctionOnSet(Quantity(b), RestingAt(b, s, i))
  BY <1>1, RestingAtFinite, SumSame
<1>. QED
  BY <1>2, QuantityAtType DEF SameAt

LEMMA QuantityAtJoined ==
    ASSUME NEW b \in Books, NEW c \in Books, NEW s, NEW i, NEW id \in OrderIds,
           JoinedAt(b, c, s, i, id)
    PROVE  QuantityAt(c, s, i) = QuantityAt(b, s, i) + c.orders[id].quantity
<1>. DEFINE R == RestingAt(b, s, i)
            q == Quantity(c)
<1>1. IsFiniteSet(R) /\ \A x \in R \cup {id} : q[x] \in Nat
  BY QuantityType, RestingAtFinite
<1>2. SumFunctionOnSet(q, R \cup {id}) = q[id] + SumFunctionOnSet(q, R)
  BY <1>1, SumAdd DEF JoinedAt
<1>3. SumFunctionOnSet(q, R) = SumFunctionOnSet(Quantity(b), R)
  <2>1. \A x \in R : q[x] = Quantity(b)[x]
    BY QuantityType, RestingAtFinite DEF JoinedAt
  <2>. QED
    BY <1>1, <2>1, SumSame
<1>4. QuantityAt(c, s, i) = SumFunctionOnSet(q, R \cup {id})
  BY QuantityAtType DEF JoinedAt
<1>5. QuantityAt(b, s, i) = SumFunctionOnSet(Quantity(b), R) /\ QuantityAt(b, s, i) \in Nat
  BY QuantityAtType
<1>6. q[id] = c.orders[id].quantity /\ q[id] \in Nat
  BY QuantityType
<1>. HIDE DEF q, R
<1>. QED
  BY <1>2, <1>3, <1>4, <1>5, <1>6

LEMMA PlaceFigures ==
    ASSUME NEW b \in Books, NEW id \in OrderIds, NEW order \in Order
    PROVE  LET s == order.side
               i == PriceIndex(order.price)
               c == Place(b, id, order)
           IN  /\ c.level[s][i].total = (b.level[s][i].total + order.quantity) % Word
               /\ c.best = [b.best EXCEPT ![s] =
                              IF Better(s, order.price, @) THEN order.price ELSE @]
<1>. DEFINE s == order.side
            i == PriceIndex(order.price)
            l == [total |-> (b.level[s][i].total + order.quantity) % Word,
                  ids |-> Push(b.level[s][i].ids, id)]
            best == [b.best EXCEPT ![s] =
                       IF Better(s, order.price, @) THEN order.price ELSE @]
<1>1. s \in Sides /\ i \in LevelIndex /\ b.level \in Levels
  BY Constants DEF Order, Books, Levels, Level
<1>2. Place(b, id, order) = [orders |-> [b.orders EXCEPT ![id] = order],
                             level |-> [b.level EXCEPT ![s][i] = l], best |-> best]
  BY Zenon DEF Place
<1>. HIDE DEF s, i, l, best
<1>3. [b.level EXCEPT ![s][i] = l][s][i] = l
  BY <1>1 DEF Levels
<1>4. l.total = (b.level[s][i].total + order.quantity) % Word
  BY DEF l
<1>5. Place(b, id, order).level[s][i] = l /\ Place(b, id, order).best = best
  BY <1>2, <1>3
<1>. QED
  BY <1>4, <1>5 DEF s, i, best

LEMMA TakeOutFigures ==
    ASSUME NEW b \in Books, NEW id \in OrderIds, Found(b, id)
    PROVE  LET o == b.orders[id]
               s == o.side
               i == PriceIndex(o.price)
               c == TakeOut(b, id)
           IN  /\ c.level[s][i].total = (b.level[s][i].total - o.quantity) % Word
               /\ c.best = [b.best EXCEPT ![s] =
                              IF c.level[s][i].total = 0 /\ o.price = @
                              THEN NextBest(s, c.level[s], o.price) ELSE @]
<1>. DEFINE o == b.orders[id]
            s == o.side
            i == PriceIndex(o.price)
            total == (b.level[s][i].total - o.quantity) % Word
            level == [b.level EXCEPT ![s][i] =
                        [total |-> total, ids |-> RemoveFirst(@.ids, id)]]
            best == [b.best EXCEPT ![s] =
                       IF total = 0 /\ o.price = @
                       THEN NextBest(s, level[s], o.price) ELSE @]
<1>1. s \in Sides /\ i \in LevelIndex /\ b.level \in Levels
  BY FoundOrder DEF Books, Levels, Level
<1>2. TakeOut(b, id) = [orders |-> [b.orders EXCEPT ![id] = Absent],
                        level |-> level, best |-> best]
  BY Zenon DEF TakeOut
<1>. HIDE DEF s, i, o, total
<1>3. level[s][i].total = total
  BY <1>1 DEF Levels
<1>. HIDE DEF level
<1>4. TakeOut(b, id).level = level /\ TakeOut(b, id).best = best
  BY <1>2
<1>. QED
  BY <1>3, <1>4, Zenon DEF o, s, i, total, best

LEMMA LessenFigures ==
    ASSUME NEW b \in Books, NEW id \in OrderIds, Found(b, id),
           NEW quantity \in Amounts, quantity < b.orders[id].quantity
    PROVE  LET o == b.orders[id]
               s == o.side
               i == PriceIndex(o.price)
               c == Lessen(b, id, quantity)
           IN  /\ c.orders = [b.orders EXCEPT ![id].quantity = @ - quantity]
               /\ c.orders[id].quantity = o.quantity - quantity
               /\ c.level[s][i].total = (b.level[s][i].total - quantity) % Word
               /\ \A t \in Sides, j \in LevelIndex :
                     t # s \/ j # i => c.level[t][j] = b.level[t][j]
               /\ c.best = b.best
<1>. DEFINE o == b.orders[id]
            s == o.side
            i == PriceIndex(o.price)
            total == (b.level[s][i].total - quantity) % Word
            orders == [b.orders EXCEPT ![id].quantity = @ - quantity]
            level == [b.level EXCEPT ![s][i].total = (@ - quantity) % Word]
<1>1. s \in Sides /\ i \in LevelIndex /\ b.level \in Levels /\ o \in Order
  BY FoundOrder DEF Books, Levels, Level
<1>2. Lessen(b, id, quantity) = [b EXCEPT !.orders[id].quantity = @ - quantity,
                                          !.level[s][i].total = (@ - quantity) % Word]
  BY Zenon DEF Lessen
<1>3. Lessen(b, id, quantity) = [b EXCEPT !.orders = orders, !.level = level]
  BY <1>2
<1>4. orders[id].quantity = o.quantity - quantity
  BY <1>1 DEF Books, Order
<1>. HIDE DEF s, i, o
<1>5. level[s][i].total = total
  BY <1>1 DEF Levels, Level
<1>6. \A t \in Sides, j \in LevelIndex : t # s \/ j # i => level[t][j] = b.level[t][j]
  BY <1>1 DEF Levels
<1>. HIDE DEF orders, level, total
<1>7. /\ Lessen(b, id, quantity).orders = orders
      /\ Lessen(b, id, quantity).level = level
      /\ Lessen(b, id, quantity).best = b.best
  BY <1>3 DEF Books
<1>. QED
  BY <1>4, <1>5, <1>6, <1>7, Zenon DEF o, s, i, total, orders

\* Placing an order adds its quantity to its level, and to no other.
LEMMA PlaceQuantity ==
    ASSUME NEW b \in Books, NEW id \in OrderIds, NEW order \in Order, ~Found(b, id),
           NEW s \in Sides, NEW i \in LevelIndex
    PROVE  QuantityAt(Place(b, id, order), s, i) =
             IF s = order.side /\ i = PriceIndex(order.price)
             THEN QuantityAt(b, s, i) + order.quantity ELSE QuantityAt(b, s, i)
<1>. DEFINE c == Place(b, id, order)
<1>1. c \in Books /\ c.orders = [b.orders EXCEPT ![id] = order]
  BY PlaceEffect
<1>. HIDE DEF c
<1>2. /\ \A x \in OrderIds \ {id} : c.orders[x] = b.orders[x]
      /\ c.orders[id] = order /\ order # Absent /\ b.orders[id] = Absent
  BY <1>1, Constants DEF Books, Found
<1>3. id \notin RestingAt(b, s, i)
  BY DEF RestingAt, RestsAt
<1>4. CASE s = order.side /\ i = PriceIndex(order.price)
  <2>1. RestingAt(c, s, i) = RestingAt(b, s, i) \cup {id}
    BY <1>2, <1>4 DEF RestingAt, RestsAt, Found
  <2>2. \A x \in RestingAt(b, s, i) : c.orders[x].quantity = b.orders[x].quantity
    BY <1>2, <1>3, RestingAtFinite
  <2>3. QuantityAt(c, s, i) = QuantityAt(b, s, i) + c.orders[id].quantity
    <3>1. JoinedAt(b, c, s, i, id)
      BY <1>3, <2>1, <2>2, Zenon DEF JoinedAt
    <3>2. c \in Books
      BY <1>1
    <3>. QED
      BY <3>1, <3>2, QuantityAtJoined
  <2>. QED
    BY <1>2, <1>4, <2>3 DEF c
<1>5. CASE ~(s = order.side /\ i = PriceIndex(order.price))
  <2>1. RestingAt(c, s, i) = RestingAt(b, s, i)
    BY <1>2, <1>5 DEF RestingAt, RestsAt, Found
  <2>2. \A x \in RestingAt(b, s, i) : c.orders[x].quantity = b.orders[x].quantity
    BY <1>2, <1>3, RestingAtFinite
  <2>3. QuantityAt(c, s, i) = QuantityAt(b, s, i)
    <3>1. SameAt(b, c, s, i)
      BY <2>1, <2>2, Zenon DEF SameAt
    <3>. QED
      BY <1>1, <3>1, QuantityAtSame
  <2>. QED
    BY <1>5, <2>3, Zenon DEF c
<1>. QED
  BY <1>4, <1>5

\* Taking an order out takes its quantity off its level, and off no other.
LEMMA TakeOutQuantity ==
    ASSUME NEW b \in Books, NEW id \in OrderIds, Found(b, id),
           NEW s \in Sides, NEW i \in LevelIndex
    PROVE  QuantityAt(TakeOut(b, id), s, i) =
             IF s = b.orders[id].side /\ i = PriceIndex(b.orders[id].price)
             THEN QuantityAt(b, s, i) - b.orders[id].quantity ELSE QuantityAt(b, s, i)
<1>. DEFINE c == TakeOut(b, id)
<1>1. c \in Books /\ c.orders = [b.orders EXCEPT ![id] = Absent]
  BY TakeOutEffect
<1>. HIDE DEF c
<1>2. /\ \A x \in OrderIds \ {id} : c.orders[x] = b.orders[x]
      /\ c.orders[id] = Absent /\ b.orders[id] # Absent
  BY <1>1 DEF Books, Found
<1>3. id \notin RestingAt(c, s, i)
  BY <1>2 DEF RestingAt, RestsAt, Found
<1>4. \A x \in RestingAt(c, s, i) : b.orders[x].quantity = c.orders[x].quantity
  BY <1>2, <1>3, RestingAtFinite
<1>5. CASE s = b.orders[id].side /\ i = PriceIndex(b.orders[id].price)
  <2>1. RestingAt(b, s, i) = RestingAt(c, s, i) \cup {id}
    BY <1>2, <1>5 DEF RestingAt, RestsAt, Found
  <2>2. QuantityAt(b, s, i) = QuantityAt(c, s, i) + b.orders[id].quantity
    <3>1. JoinedAt(c, b, s, i, id)
      BY <1>3, <1>4, <2>1, Zenon DEF JoinedAt
    <3>. QED
      BY <1>1, <3>1, QuantityAtJoined
  <2>3. QuantityAt(c, s, i) \in Nat /\ b.orders[id].quantity \in Nat
    BY <1>1, QuantityAtType, QuantityType
  <2>4. QuantityAt(c, s, i) = QuantityAt(b, s, i) - b.orders[id].quantity
    BY <2>2, <2>3
  <2>. QED
    BY <1>5, <2>4, Zenon DEF c
<1>6. CASE ~(s = b.orders[id].side /\ i = PriceIndex(b.orders[id].price))
  <2>1. RestingAt(b, s, i) = RestingAt(c, s, i)
    BY <1>2, <1>6 DEF RestingAt, RestsAt, Found
  <2>2. QuantityAt(b, s, i) = QuantityAt(c, s, i)
    <3>1. SameAt(c, b, s, i)
      BY <1>4, <2>1, Zenon DEF SameAt
    <3>. QED
      BY <1>1, <3>1, QuantityAtSame
  <2>. QED
    BY <1>6, <2>2, Zenon DEF c
<1>. QED
  BY <1>5, <1>6

\* A partial fill takes what was filled off the level.
LEMMA LessenQuantity ==
    ASSUME NEW b \in Books, NEW id \in OrderIds, Found(b, id),
           NEW quantity \in Amounts, quantity < b.orders[id].quantity,
           NEW s \in Sides, NEW i \in LevelIndex
    PROVE  QuantityAt(Lessen(b, id, quantity), s, i) =
             IF s = b.orders[id].side /\ i = PriceIndex(b.orders[id].price)
             THEN QuantityAt(b, s, i) - quantity ELSE QuantityAt(b, s, i)
<1>. DEFINE c == Lessen(b, id, quantity)
            R == RestingAt(b, s, i) \ {id}
<1>1. /\ c \in Books
      /\ \A x \in OrderIds : RestsAt(c, x, s, i) <=> RestsAt(b, x, s, i)
      /\ c.orders = [b.orders EXCEPT ![id].quantity = @ - quantity]
      /\ c.orders[id].quantity = b.orders[id].quantity - quantity
  BY LessenEffect, LessenFigures
<1>. HIDE DEF c
<1>2. RestingAt(c, s, i) = RestingAt(b, s, i)
  BY <1>1 DEF RestingAt
<1>3. \A x \in OrderIds \ {id} : c.orders[x] = b.orders[x]
  BY <1>1 DEF Books
<1>4. id \in RestingAt(b, s, i) <=>
        s = b.orders[id].side /\ i = PriceIndex(b.orders[id].price)
  BY DEF RestingAt, RestsAt
<1>5. CASE id \in RestingAt(b, s, i)
  <2>1. /\ IsFiniteSet(R) /\ R \subseteq OrderIds
        /\ RestingAt(b, s, i) = R \cup {id} /\ id \notin R
    BY <1>5, RestingAtFinite, FS_RemoveElement
  <2>. DEFINE v(d) == SumFunctionOnSet(Quantity(d), R)
  <2>2. ASSUME NEW d \in Books
        PROVE  v(d) \in Nat
               /\ SumFunctionOnSet(Quantity(d), R \cup {id}) = d.orders[id].quantity + v(d)
    <3>1. /\ \A x \in R \cup {id} : Quantity(d)[x] \in Nat
          /\ Quantity(d)[id] = d.orders[id].quantity
      BY <2>1, QuantityType
    <3>2. SumFunctionOnSet(Quantity(d), R \cup {id}) = Quantity(d)[id] + v(d)
      BY <2>1, <3>1, SumAdd
    <3>3. v(d) \in Nat
      BY <2>1, <3>1, SumIsNat
    <3>. QED
      BY <3>1, <3>2, <3>3
  <2>3. v(c) = v(b)
    <3>1. ASSUME NEW x \in R
          PROVE  Quantity(c)[x] = Quantity(b)[x]
      <4>1. x \in OrderIds \ {id}
        BY <2>1
      <4>2. /\ Quantity(c)[x] = c.orders[x].quantity
            /\ Quantity(b)[x] = b.orders[x].quantity
        BY <1>1, <4>1, QuantityType
      <4>. QED
        BY <1>3, <4>1, <4>2
    <3>. QED
      BY <2>1, <3>1, SumSame
  <2>4. /\ QuantityAt(c, s, i) = c.orders[id].quantity + v(c)
        /\ QuantityAt(b, s, i) = b.orders[id].quantity + v(b)
        /\ v(b) \in Nat
    <3>. HIDE DEF v, R
    <3>1. /\ QuantityAt(c, s, i) = SumFunctionOnSet(Quantity(c), R \cup {id})
          /\ QuantityAt(b, s, i) = SumFunctionOnSet(Quantity(b), R \cup {id})
      BY <1>1, <1>2, <2>1, QuantityAtType
    <3>. QED
      BY <1>1, <2>2, <3>1
  <2>5. b.orders[id].quantity \in Nat /\ quantity \in Nat
    BY QuantityType, Constants DEF Amounts
  <2>. HIDE DEF v
  <2>6. QuantityAt(c, s, i) = QuantityAt(b, s, i) - quantity
    BY <1>1, <2>3, <2>4, <2>5
  <2>. QED
    BY <1>4, <1>5, <2>6, Zenon DEF c
<1>6. CASE id \notin RestingAt(b, s, i)
  <2>1. \A x \in RestingAt(b, s, i) : c.orders[x].quantity = b.orders[x].quantity
    BY <1>3, <1>6, RestingAtFinite
  <2>2. QuantityAt(c, s, i) = QuantityAt(b, s, i)
    <3>1. SameAt(b, c, s, i)
      BY <1>2, <2>1, Zenon DEF SameAt
    <3>. QED
      BY <1>1, <3>1, QuantityAtSame
  <2>. QED
    BY <1>4, <1>6, <2>2, Zenon DEF c
<1>. QED
  BY <1>5, <1>6

LEMMA PlaceKeepsTotals ==
    ASSUME NEW b \in Books, NEW id \in OrderIds, NEW order \in Order, ~Found(b, id),
           TotalsSound(b)
    PROVE  TotalsSound(Place(b, id, order))
<1>. DEFINE c == Place(b, id, order)
<1>1. SUFFICES ASSUME NEW s \in Sides, NEW i \in LevelIndex
               PROVE  c.level[s][i].total = QuantityAt(c, s, i) % Word
  BY Zenon DEF TotalsSound
<1>2. b.level[s][i].total = QuantityAt(b, s, i) % Word /\ QuantityAt(b, s, i) \in Int
  BY QuantityAtType DEF TotalsSound
<1>3. order.quantity \in Int /\ Word \in Nat \ {0}
  BY Constants DEF Order, Amounts
<1>4. CASE s = order.side /\ i = PriceIndex(order.price)
  <2>1. c.level[s][i].total = (b.level[s][i].total + order.quantity) % Word
    BY <1>4, PlaceFigures
  <2>2. QuantityAt(c, s, i) = QuantityAt(b, s, i) + order.quantity
    BY <1>4, PlaceQuantity
  <2>. HIDE DEF c
  <2>. QED
    BY <1>2, <1>3, <2>1, <2>2, ModSum
<1>5. CASE ~(s = order.side /\ i = PriceIndex(order.price))
  <2>1. \A t \in Sides, j \in LevelIndex :
           t # order.side \/ j # PriceIndex(order.price)
             => c.level[t][j] = b.level[t][j]
    BY PlaceEffect
  <2>2. QuantityAt(c, s, i) = QuantityAt(b, s, i)
    BY <1>5, PlaceQuantity, Zenon
  <2>. HIDE DEF c
  <2>3. c.level[s][i] = b.level[s][i]
    BY <1>5, <2>1, Zenon
  <2>. QED
    BY <1>2, <2>2, <2>3, Zenon
<1>. QED
  BY <1>4, <1>5

LEMMA TakeOutKeepsTotals ==
    ASSUME NEW b \in Books, NEW id \in OrderIds, Found(b, id), TotalsSound(b)
    PROVE  TotalsSound(TakeOut(b, id))
<1>. DEFINE c == TakeOut(b, id)
            q == b.orders[id].quantity
<1>1. SUFFICES ASSUME NEW s \in Sides, NEW i \in LevelIndex
               PROVE  c.level[s][i].total = QuantityAt(c, s, i) % Word
  BY Zenon DEF TotalsSound
<1>2. b.level[s][i].total = QuantityAt(b, s, i) % Word /\ QuantityAt(b, s, i) \in Int
  BY QuantityAtType DEF TotalsSound
<1>3. q \in Nat /\ Word \in Nat \ {0} /\ b.level[s][i].total \in Nat
  <2>1. b.level[s][i].total \in Amounts
    BY DEF Books
  <2>. QED
    BY <2>1, FoundOrder, Constants DEF Amounts
<1>4. CASE s = b.orders[id].side /\ i = PriceIndex(b.orders[id].price)
  <2>1. c.level[s][i].total = (b.level[s][i].total - q) % Word
    BY <1>4, TakeOutFigures
  <2>2. QuantityAt(c, s, i) = QuantityAt(b, s, i) - q
    BY <1>4, TakeOutQuantity
  <2>. HIDE DEF c, q
  <2>3. ((QuantityAt(b, s, i) % Word) + (-q)) % Word = (QuantityAt(b, s, i) + (-q)) % Word
    BY <1>2, <1>3, ModSum
  <2>4. /\ b.level[s][i].total - q = b.level[s][i].total + (-q)
        /\ QuantityAt(b, s, i) - q = QuantityAt(b, s, i) + (-q)
    BY <1>2, <1>3
  <2>. QED
    BY <1>2, <2>1, <2>2, <2>3, <2>4
<1>5. CASE ~(s = b.orders[id].side /\ i = PriceIndex(b.orders[id].price))
  <2>1. \A t \in Sides, j \in LevelIndex :
           t # b.orders[id].side \/ j # PriceIndex(b.orders[id].price)
             => c.level[t][j] = b.level[t][j]
    BY TakeOutEffect
  <2>2. QuantityAt(c, s, i) = QuantityAt(b, s, i)
    BY <1>5, TakeOutQuantity, Zenon
  <2>. HIDE DEF c
  <2>3. c.level[s][i] = b.level[s][i]
    BY <1>5, <2>1, Zenon
  <2>. QED
    BY <1>2, <2>2, <2>3, Zenon
<1>. QED
  BY <1>4, <1>5

LEMMA LessenKeepsTotals ==
    ASSUME NEW b \in Books, NEW id \in OrderIds, Found(b, id), TotalsSound(b),
           NEW quantity \in Amounts, quantity < b.orders[id].quantity
    PROVE  TotalsSound(Lessen(b, id, quantity))
<1>. DEFINE c == Lessen(b, id, quantity)
<1>1. SUFFICES ASSUME NEW s \in Sides, NEW i \in LevelIndex
               PROVE  c.level[s][i].total = QuantityAt(c, s, i) % Word
  BY Zenon DEF TotalsSound
<1>2. b.level[s][i].total = QuantityAt(b, s, i) % Word /\ QuantityAt(b, s, i) \in Int
  BY QuantityAtType DEF TotalsSound
<1>3. quantity \in Nat /\ Word \in Nat \ {0} /\ b.level[s][i].total \in Nat
  BY Constants DEF Amounts, Books
<1>4. CASE s = b.orders[id].side /\ i = PriceIndex(b.orders[id].price)
  <2>1. c.level[s][i].total = (b.level[s][i].total - quantity) % Word
    BY <1>4, LessenFigures
  <2>2. QuantityAt(c, s, i) = QuantityAt(b, s, i) - quantity
    BY <1>4, LessenQuantity
  <2>. HIDE DEF c
  <2>3. ((QuantityAt(b, s, i) % Word) + (-quantity)) % Word
          = (QuantityAt(b, s, i) + (-quantity)) % Word
    BY <1>2, <1>3, ModSum
  <2>4. /\ b.level[s][i].total - quantity = b.level[s][i].total + (-quantity)
        /\ QuantityAt(b, s, i) - quantity = QuantityAt(b, s, i) + (-quantity)
    BY <1>2, <1>3
  <2>. QED
    BY <1>2, <2>1, <2>2, <2>3, <2>4
<1>5. CASE ~(s = b.orders[id].side /\ i = PriceIndex(b.orders[id].price))
  <2>1. \A t \in Sides, j \in LevelIndex :
           t # b.orders[id].side \/ j # PriceIndex(b.orders[id].price)
             => c.level[t][j] = b.level[t][j]
    BY LessenFigures
  <2>2. QuantityAt(c, s, i) = QuantityAt(b, s, i)
    BY <1>5, LessenQuantity, Zenon
  <2>. HIDE DEF c
  <2>3. c.level[s][i] = b.level[s][i]
    BY <1>5, <2>1, Zenon
  <2>. QED
    BY <1>2, <2>2, <2>3, Zenon
<1>. QED
  BY <1>4, <1>5

----------------------------------------------------------------------------
(* One call keeps a book sound                                              *)

Sound(b) == b \in Books /\ QueuesSound(b) /\ MapSound(b) /\ TotalsSound(b)

LEMMA InsertSound ==
    ASSUME NEW b, Sound(b), NEW id \in OrderIds,
           NEW price \in Nat, NEW quantity \in Amounts, NEW side \in Sides
    PROVE  LET order == [price |-> price, quantity |-> quantity, side |-> side]
           IN  Sound(Insert(b, id, order)) /\ InsertResult(b, id, order) \in Results
<1>. DEFINE order == [price |-> price, quantity |-> quantity, side |-> side]
<1>1. InsertResult(b, id, order) \in Results
  BY DEF InsertResult, Results
<1>2. CASE InsertResult(b, id, order) = "Ok"
  <2>1. order.price \in Prices /\ ~Found(b, id) /\ ~MapRefuses(b, id)
    BY <1>2 DEF InsertResult
  <2>2. order \in Order
    BY <2>1 DEF Order
  <2>. HIDE DEF order
  <2>3. Sound(Place(b, id, order))
    BY <2>1, <2>2, PlaceEffect, PlaceKeepsQueues, PlaceKeepsMap, PlaceKeepsTotals DEF Sound
  <2>. QED
    BY <1>1, <1>2, <2>3 DEF Insert, order
<1>3. CASE InsertResult(b, id, order) # "Ok"
  BY <1>1, <1>3 DEF Insert
<1>. QED
  BY <1>2, <1>3

LEMMA CancelSound ==
    ASSUME NEW b, Sound(b), NEW id \in OrderIds
    PROVE  Sound(Cancel(b, id)) /\ CancelResult(b, id) \in Results
<1>1. CASE Found(b, id)
  BY <1>1, TakeOutEffect, TakeOutKeepsQueues, TakeOutKeepsMap, TakeOutKeepsTotals
     DEF Sound, Cancel, CancelResult, Results
<1>2. CASE ~Found(b, id)
  BY <1>2 DEF Cancel, CancelResult, Results
<1>. QED
  BY <1>1, <1>2

\* modify succeeds whenever it passes its two checks.
LEMMA ModifySound ==
    ASSUME NEW b, Sound(b), NEW id \in OrderIds, NEW price \in Nat, NEW quantity \in Amounts
    PROVE  /\ Sound(Modify(b, id, price, quantity))
           /\ ModifyResult(b, id, price, quantity) \in Results
           /\ ModifyResult(b, id, price, quantity) # "Ok"
                => Modify(b, id, price, quantity) = b
<1>1. CASE price \in Prices /\ Found(b, id)
  <2>. DEFINE c == TakeOut(b, id)
              order == Updated(b, id, price, quantity)
  <2>1. c \in Books /\ QueuesSound(c) /\ MapSound(c) /\ TotalsSound(c)
        /\ ~Found(c, id) /\ ~MapRefuses(c, id)
    BY <1>1, TakeOutEffect, TakeOutKeepsQueues, TakeOutKeepsMap, TakeOutKeepsTotals DEF Sound
  <2>2. order \in Order /\ order.price \in Prices
    BY <1>1, FoundOrder DEF Order, Updated, Sound
  <2>. HIDE DEF c, order
  <2>3. InsertResult(c, id, order) = "Ok"
    BY <2>1, <2>2 DEF InsertResult
  <2>4. Sound(Place(c, id, order))
    BY <2>1, <2>2, PlaceEffect, PlaceKeepsQueues, PlaceKeepsMap, PlaceKeepsTotals DEF Sound
  <2>5. Modify(b, id, price, quantity) = Place(c, id, order)
    BY <1>1, <2>3 DEF Modify, Insert, c, order
  <2>6. ModifyResult(b, id, price, quantity) = "Ok"
    BY <1>1, <2>3 DEF ModifyResult, c, order
  <2>. QED
    BY <2>4, <2>5, <2>6 DEF Results
<1>2. CASE ~(price \in Prices /\ Found(b, id))
  BY <1>2 DEF Modify, ModifyResult, Results
<1>. QED
  BY <1>1, <1>2

LEMMA ReduceSound ==
    ASSUME NEW b, Sound(b), NEW id \in OrderIds, NEW quantity \in Amounts
    PROVE  Sound(Reduce(b, id, quantity))
<1>1. CASE ~Found(b, id)
  BY <1>1 DEF Reduce
<1>2. CASE Found(b, id) /\ quantity >= b.orders[id].quantity
  BY <1>2, TakeOutEffect, TakeOutKeepsQueues, TakeOutKeepsMap, TakeOutKeepsTotals DEF Sound, Reduce
<1>3. CASE Found(b, id) /\ ~(quantity >= b.orders[id].quantity)
  <2>1. quantity < b.orders[id].quantity
    <3>1. b.orders[id].quantity \in Amounts
      BY <1>3, FoundOrder DEF Sound
    <3>. QED
      BY <1>3, <3>1, Constants DEF Amounts
  <2>2. Sound(Lessen(b, id, quantity))
    BY <1>3, <2>1, LessenEffect, LessenKeepsQueues, LessenKeepsMap, LessenKeepsTotals DEF Sound
  <2>. QED
    BY <1>3, <2>2 DEF Reduce
<1>. QED
  BY <1>1, <1>2, <1>3

----------------------------------------------------------------------------
(* Time priority: what a call does to the order of a FIFO                   *)

\* The FIFOs of b and c differ at most in where id is, and then it is last.
Kept(old, new, id) ==
    new = old \/ (RemoveFirst(new, id) = RemoveFirst(old, id)
                    /\ (Contains(new, id) => Last(new) = id))

OthersKept(b, c, id) ==
    \A s \in Sides, i \in LevelIndex : Kept(b.level[s][i].ids, c.level[s][i].ids, id)

LEMMA KeptTwice ==
    ASSUME NEW b, NEW c, NEW d, NEW id, OthersKept(b, c, id), OthersKept(c, d, id)
    PROVE  OthersKept(b, d, id)
<1>1. ASSUME NEW x, NEW y, NEW z, Kept(x, y, id), Kept(y, z, id)
      PROVE  Kept(x, z, id)
  <2>1. CASE y = x \/ z = y
    BY <1>1, <2>1
  <2>2. CASE y # x /\ z # y
    <3>1. RemoveFirst(y, id) = RemoveFirst(x, id)
      BY <1>1, <2>2 DEF Kept
    <3>2. RemoveFirst(z, id) = RemoveFirst(y, id) /\ (Contains(z, id) => Last(z) = id)
      BY <1>1, <2>2 DEF Kept
    <3>. QED
      BY <3>1, <3>2 DEF Kept
  <2>. QED
    BY <2>1, <2>2
<1>. QED
  BY <1>1, Zenon DEF OthersKept

LEMMA AbsentId ==
    ASSUME NEW ids, NEW id, id \notin Elems(ids)
    PROVE  RemoveFirst(ids, id) = ids /\ ~Contains(ids, id)
<1>1. ~ \E k \in 1..Len(ids) : ids[k] = id
  BY Zenon DEF Elems
<1>. QED
  BY <1>1, Zenon DEF RemoveFirst, Contains

LEMMA RemoveFirstOf ==
    ASSUME NEW ids \in Seq(OrderIds), NEW id, \E k \in 1..Len(ids) : ids[k] = id
    PROVE  \E m \in 1..Len(ids) :
              /\ ids[m] = id
              /\ RemoveFirst(ids, id) \in Seq(OrderIds)
              /\ Len(RemoveFirst(ids, id)) = Len(ids) - 1
              /\ \A k \in 1..(Len(ids) - 1) :
                    RemoveFirst(ids, id)[k] = IF k < m THEN ids[k] ELSE ids[k + 1]
BY RemoveFirstCases

\* An id that joins a FIFO joins it at the end, if at all.
LEMMA PushKeepsOthers ==
    ASSUME NEW ids \in Seq(OrderIds), NEW id \in OrderIds, id \notin Elems(ids)
    PROVE  Kept(ids, Push(ids, id), id)
<1>1. CASE Len(ids) >= MaxPerLevel
  BY <1>1 DEF Push, Kept
<1>2. CASE ~(Len(ids) >= MaxPerLevel)
  <2>. DEFINE new == Append(ids, id)
              rest == RemoveFirst(new, id)
  <2>1. /\ new \in Seq(OrderIds) /\ Len(new) = Len(ids) + 1 /\ Len(ids) \in Nat
        /\ \A k \in 1..Len(ids) : new[k] = ids[k]
        /\ new[Len(ids) + 1] = id
    BY AppendProperties
  <2>2. Push(ids, id) = new
    BY <1>2 DEF Push
  <2>. HIDE DEF new
  <2>3. PICK m \in 1..Len(new) :
           /\ new[m] = id
           /\ rest \in Seq(OrderIds) /\ Len(rest) = Len(new) - 1
           /\ \A k \in 1..(Len(new) - 1) : rest[k] = IF k < m THEN new[k] ELSE new[k + 1]
    <3>1. \E k \in 1..Len(new) : new[k] = id
      BY <2>1
    <3>2. new \in Seq(OrderIds)
      BY <2>1
    <3>. QED
      BY <3>1, <3>2, RemoveFirstOf
  <2>4. \A k \in 1..Len(ids) : new[k] # id
    BY <2>1 DEF Elems
  <2>5. m = Len(ids) + 1
    BY <2>1, <2>3, <2>4
  <2>. HIDE DEF rest
  <2>6. Len(rest) = Len(ids) /\ \A k \in 1..Len(ids) : rest[k] = ids[k]
    BY <2>1, <2>3, <2>5
  <2>7. rest = ids
    BY <2>3, <2>6, SeqEqual
  <2>8. RemoveFirst(ids, id) = ids
    BY AbsentId
  <2>9. Last(new) = id
    BY <2>1 DEF Last
  <2>. QED
    BY <2>2, <2>7, <2>8, <2>9 DEF Kept, rest
<1>. QED
  BY <1>1, <1>2

LEMMA RemoveKeepsOthers ==
    ASSUME NEW ids \in Seq(OrderIds), NEW id, Distinct(ids)
    PROVE  Kept(ids, RemoveFirst(ids, id), id)
<1>1. id \notin Elems(RemoveFirst(ids, id))
  BY RemovedIds
<1>. QED
  BY <1>1, AbsentId, Zenon DEF Kept

LEMMA PlaceKeepsOthers ==
    ASSUME NEW b \in Books, NEW id \in OrderIds, NEW order \in Order,
           ~Found(b, id), QueuesSound(b)
    PROVE  OthersKept(b, Place(b, id, order), id)
<1>. DEFINE c == Place(b, id, order)
            t == order.side
            j == PriceIndex(order.price)
<1>1. t \in Sides /\ j \in LevelIndex
  BY Constants DEF Order
<1>2. /\ c.level[t][j].ids = Push(b.level[t][j].ids, id)
      /\ \A s \in Sides, i \in LevelIndex : s # t \/ i # j => c.level[s][i] = b.level[s][i]
  BY PlaceEffect DEF LevelOf
<1>3. b.level[t][j].ids \in Seq(OrderIds)
  BY <1>1 DEF Books
<1>4. id \notin Elems(b.level[t][j].ids)
  BY <1>1, QueuesByElems, Zenon DEF RestsAt
<1>. HIDE DEF c, t, j
<1>5. Kept(b.level[t][j].ids, c.level[t][j].ids, id)
  BY <1>2, <1>3, <1>4, PushKeepsOthers
<1>6. OthersKept(b, c, id)
  BY <1>2, <1>5 DEF OthersKept, Kept
<1>. QED
  BY <1>6 DEF c

LEMMA TakeOutKeepsOthers ==
    ASSUME NEW b \in Books, NEW id \in OrderIds, Found(b, id), QueuesSound(b)
    PROVE  OthersKept(b, TakeOut(b, id), id)
<1>. DEFINE c == TakeOut(b, id)
            t == b.orders[id].side
            j == PriceIndex(b.orders[id].price)
<1>1. t \in Sides /\ j \in LevelIndex
  BY FoundOrder
<1>2. /\ c.level[t][j].ids = RemoveFirst(b.level[t][j].ids, id)
      /\ \A s \in Sides, i \in LevelIndex : s # t \/ i # j => c.level[s][i] = b.level[s][i]
  BY TakeOutEffect DEF LevelOf
<1>3. b.level[t][j].ids \in Seq(OrderIds)
  BY <1>1 DEF Books
<1>4. Distinct(b.level[t][j].ids)
  BY <1>1, QueuesByElems, Zenon
<1>. HIDE DEF c, t, j
<1>5. Kept(b.level[t][j].ids, c.level[t][j].ids, id)
  BY <1>2, <1>3, <1>4, RemoveKeepsOthers
<1>6. OthersKept(b, c, id)
  BY <1>2, <1>5 DEF OthersKept, Kept
<1>. QED
  BY <1>6 DEF c

LEMMA InsertKeepsOthers ==
    ASSUME NEW b, Sound(b), NEW id \in OrderIds,
           NEW price, NEW quantity \in Amounts, NEW side \in Sides
    PROVE  LET order == [price |-> price, quantity |-> quantity, side |-> side]
           IN  OthersKept(b, Insert(b, id, order), id)
<1>. DEFINE order == [price |-> price, quantity |-> quantity, side |-> side]
<1>1. CASE InsertResult(b, id, order) = "Ok"
  <2>1. order.price \in Prices /\ ~Found(b, id)
    BY <1>1 DEF InsertResult
  <2>2. order \in Order
    BY <2>1 DEF Order
  <2>. HIDE DEF order
  <2>. QED
    BY <1>1, <2>1, <2>2, PlaceKeepsOthers DEF Insert, Sound, order
<1>2. CASE InsertResult(b, id, order) # "Ok"
  BY <1>2 DEF Insert, OthersKept, Kept
<1>. QED
  BY <1>1, <1>2

LEMMA CancelKeepsOthers ==
    ASSUME NEW b, Sound(b), NEW id \in OrderIds
    PROVE  OthersKept(b, Cancel(b, id), id)
BY TakeOutKeepsOthers DEF Sound, Cancel, OthersKept, Kept

LEMMA ModifyKeepsOthers ==
    ASSUME NEW b, Sound(b), NEW id \in OrderIds, NEW price \in Nat, NEW quantity \in Amounts
    PROVE  OthersKept(b, Modify(b, id, price, quantity), id)
<1>1. CASE price \in Prices /\ Found(b, id)
  <2>. DEFINE c == TakeOut(b, id)
              order == Updated(b, id, price, quantity)
  <2>1. c \in Books /\ QueuesSound(c) /\ ~Found(c, id) /\ OthersKept(b, c, id)
    BY <1>1, TakeOutEffect, TakeOutKeepsQueues, TakeOutKeepsOthers DEF Sound
  <2>2. order \in Order
    BY <1>1, FoundOrder DEF Order, Updated, Sound
  <2>. HIDE DEF c, order
  <2>3. OthersKept(b, Place(c, id, order), id)
    BY <2>1, <2>2, PlaceKeepsOthers, KeptTwice
  <2>. QED
    BY <1>1, <2>1, <2>3 DEF Modify, Insert, c, order
<1>2. CASE ~(price \in Prices /\ Found(b, id))
  BY <1>2 DEF Modify, OthersKept, Kept
<1>. QED
  BY <1>1, <1>2

LEMMA ReduceKeepsOthers ==
    ASSUME NEW b, Sound(b), NEW id \in OrderIds, NEW quantity \in Amounts
    PROVE  OthersKept(b, Reduce(b, id, quantity), id)
<1>1. CASE ~Found(b, id)
  BY <1>1 DEF Reduce, OthersKept, Kept
<1>2. CASE Found(b, id) /\ quantity >= b.orders[id].quantity
  BY <1>2, TakeOutKeepsOthers DEF Sound, Reduce
<1>3. CASE Found(b, id) /\ ~(quantity >= b.orders[id].quantity)
  <2>1. b.orders[id].quantity \in Amounts
    BY <1>3, FoundOrder DEF Sound
  <2>2. quantity < b.orders[id].quantity
    BY <1>3, <2>1, Constants DEF Amounts
  <2>3. \A s \in Sides, i \in LevelIndex :
           Lessen(b, id, quantity).level[s][i].ids = b.level[s][i].ids
    BY <1>3, <2>2, LessenEffect DEF Sound
  <2>. QED
    BY <1>3, <2>3 DEF Reduce, OthersKept, Kept
<1>. QED
  BY <1>1, <1>2, <1>3

LEMMA NextKeepsOthers ==
    ASSUME Sound(book), BookNext
    PROVE  \E id \in OrderIds : OthersKept(book, book', id)
<1>1. PICK id \in OrderIds :
         \/ CancelOrder(id)
         \/ \E quantity \in Quantities :
               \/ ReduceOrder(id, quantity)
               \/ \E price \in InputPrices :
                     \/ ModifyOrder(id, price, quantity)
                     \/ \E side \in Sides : InsertOrder(id, price, quantity, side)
  BY Zenon DEF BookNext
<1>2. Quantities \subseteq Amounts /\ InputPrices \subseteq Nat
  BY BookAssumption
<1>3. CASE CancelOrder(id)
  BY <1>3, CancelKeepsOthers DEF CancelOrder
<1>4. ASSUME NEW quantity \in Quantities, ReduceOrder(id, quantity)
      PROVE  OthersKept(book, book', id)
  BY <1>2, <1>4, ReduceKeepsOthers DEF ReduceOrder
<1>5. ASSUME NEW quantity \in Quantities, NEW price \in InputPrices,
             ModifyOrder(id, price, quantity)
      PROVE  OthersKept(book, book', id)
  BY <1>2, <1>5, ModifyKeepsOthers DEF ModifyOrder
<1>6. ASSUME NEW quantity \in Quantities, NEW price \in InputPrices, NEW side \in Sides,
             InsertOrder(id, price, quantity, side)
      PROVE  OthersKept(book, book', id)
  BY <1>2, <1>6, InsertKeepsOthers DEF InsertOrder
<1>. QED
  BY <1>1, <1>3, <1>4, <1>5, <1>6

----------------------------------------------------------------------------
(* The best price, one operation at a time                                 *)

\* What BestPriceExact says of a book; and the best price of a side without a
\* best order is the one no order could fail to beat.
BestSound(b) ==
    \A s \in Sides :
        /\ HasBest(b, s) \/ b.best[s] = Nobody[s]
        /\ HasBest(b, s) =>
             \E x \in OrderIds :
                Found(b, x) /\ b.orders[x].side = s /\ b.orders[x].price = b.best[s]
        /\ \A x \in OrderIds :
             Found(b, x) /\ b.orders[x].side = s /\ b.orders[x].quantity > 0 =>
                ~Better(s, b.orders[x].price, b.best[s])

\* No level holds so much that its total has wrapped around.
LevelsFit(b) == \A s \in Sides, i \in LevelIndex : QuantityAt(b, s, i) < Word

LEMMA OneLevelPerPrice ==
    ASSUME TickSize = 1, NEW p \in Prices, NEW q \in Prices,
           PriceIndex(p) = PriceIndex(q)
    PROVE  p = q
<1>1. MinPrice \in Nat /\ p \in Nat /\ q \in Nat
  BY Constants
<1>2. p - MinPrice = q - MinPrice
  BY <1>1 DEF PriceIndex
<1>. QED
  BY <1>1, <1>2

LEMMA BestType ==
    ASSUME NEW b \in Books
    PROVE  b.best \in [Sides -> Nat] /\ \A s \in Sides : b.best[s] \in 0..(MaxPrice + 1)
<1>1. b.best \in [Sides -> 0..(MaxPrice + 1)] /\ MaxPrice \in Nat
  BY Constants DEF Books
<1>. QED
  BY <1>1

LEMMA OrderQuantity ==
    ASSUME NEW b \in Books, NEW x \in OrderIds
    PROVE  b.orders[x].quantity \in Nat
BY QuantityType

\* The level at a price has a total exactly if an order with quantity rests there.
LEMMA LevelFilled ==
    ASSUME NEW b \in Books, TotalsSound(b), LevelsFit(b), TickSize = 1,
           NEW s \in Sides, NEW p \in Prices
    PROVE  b.level[s][PriceIndex(p)].total > 0 <=>
             \E x \in OrderIds : /\ Found(b, x) /\ b.orders[x].side = s
                                 /\ b.orders[x].price = p /\ b.orders[x].quantity > 0
<1>. DEFINE i == PriceIndex(p)
            R == RestingAt(b, s, i)
            v == QuantityAt(b, s, i)
<1>1. i \in LevelIndex
  BY Constants
<1>2. /\ v \in Nat /\ v = SumFunctionOnSet(Quantity(b), R)
      /\ IsFiniteSet(R) /\ R \subseteq OrderIds
      /\ \A x \in R : Quantity(b)[x] \in Nat /\ Quantity(b)[x] = b.orders[x].quantity
  BY QuantityAtType, RestingAtFinite, QuantityType
<1>3. b.level[s][i].total = v
  <2>1. b.level[s][i].total = v % Word /\ v < Word
    BY <1>1 DEF TotalsSound, LevelsFit
  <2>. HIDE DEF v
  <2>. QED
    BY <1>2, <2>1, Constants
<1>4. \A x \in OrderIds :
         x \in R <=> Found(b, x) /\ b.orders[x].side = s /\ b.orders[x].price = p
  <2>1. SUFFICES ASSUME NEW x \in OrderIds
                 PROVE  x \in R <=> /\ Found(b, x) /\ b.orders[x].side = s
                                    /\ b.orders[x].price = p
    OBVIOUS
  <2>2. x \in R <=> Found(b, x) /\ b.orders[x].side = s /\ PriceIndex(b.orders[x].price) = i
    BY DEF RestingAt, RestsAt
  <2>3. Found(b, x) => b.orders[x].price \in Prices
    BY FoundOrder
  <2>4. Found(b, x) /\ PriceIndex(b.orders[x].price) = i => b.orders[x].price = p
    BY <2>3, OneLevelPerPrice, Zenon
  <2>. QED
    BY <2>2, <2>4
<1>. HIDE DEF i, R, v
<1>5. v > 0 <=> \E x \in R : b.orders[x].quantity > 0
  <2>1. ASSUME NEW x \in R, b.orders[x].quantity > 0
        PROVE  v > 0
    <3>1. Quantity(b)[x] <= v
      BY <1>2, SumMember
    <3>. QED
      BY <1>2, <2>1, <3>1
  <2>2. ASSUME \A x \in R : ~(b.orders[x].quantity > 0)
        PROVE  ~(v > 0)
    <3>1. 0 \in Nat /\ \A x \in R : Quantity(b)[x] \in Nat /\ Quantity(b)[x] <= 0
      BY <1>2, <2>2
    <3>2. v <= Cardinality(R) * 0
      BY <1>2, <3>1, SumBounded
    <3>3. Cardinality(R) \in Nat
      BY <1>2, FS_CardinalityType
    <3>. QED
      BY <1>2, <3>2, <3>3
  <2>. QED
    BY <2>1, <2>2
<1>6. (\E x \in R : b.orders[x].quantity > 0) <=>
        \E x \in OrderIds : /\ Found(b, x) /\ b.orders[x].side = s
                            /\ b.orders[x].price = p /\ b.orders[x].quantity > 0
  BY <1>2, <1>4
<1>. QED
  BY <1>3, <1>5, <1>6 DEF i

\* Without an order the sums only shrink.
LEMMA TakeOutFits ==
    ASSUME NEW b \in Books, NEW id \in OrderIds, Found(b, id), LevelsFit(b)
    PROVE  LevelsFit(TakeOut(b, id))
<1>. SUFFICES ASSUME NEW s \in Sides, NEW i \in LevelIndex
              PROVE  QuantityAt(TakeOut(b, id), s, i) < Word
  BY Zenon DEF LevelsFit
<1>1. QuantityAt(b, s, i) \in Nat /\ QuantityAt(b, s, i) < Word
      /\ b.orders[id].quantity \in Nat /\ Word \in Nat
  BY QuantityAtType, OrderQuantity, Constants DEF LevelsFit
<1>2. \/ QuantityAt(TakeOut(b, id), s, i) = QuantityAt(b, s, i) - b.orders[id].quantity
      \/ QuantityAt(TakeOut(b, id), s, i) = QuantityAt(b, s, i)
  BY TakeOutQuantity, Zenon
<1>. QED
  BY <1>1, <1>2

LEMMA PlaceKeepsBest ==
    ASSUME NEW b \in Books, NEW id \in OrderIds, NEW order \in Order, ~Found(b, id),
           BestSound(b)
    PROVE  BestSound(Place(b, id, order))
<1>. DEFINE c == Place(b, id, order)
            o == order.side
<1>1. /\ c \in Books /\ c.orders = [b.orders EXCEPT ![id] = order]
      /\ c.best = [b.best EXCEPT ![o] =
                     IF Better(o, order.price, @) THEN order.price ELSE @]
  <2>1. c \in Books /\ c.orders = [b.orders EXCEPT ![id] = order]
    BY PlaceEffect
  <2>2. c.best = [b.best EXCEPT ![o] =
                    IF Better(o, order.price, @) THEN order.price ELSE @]
    BY PlaceFigures
  <2>. QED
    BY <2>1, <2>2, Zenon
<1>2. /\ o \in Sides /\ order.price \in Nat /\ b.best \in [Sides -> Nat]
      /\ order.price \in Prices
  <2>1. b.best \in [Sides -> Nat]
    BY BestType
  <2>2. o \in Sides /\ order.price \in Prices
    BY DEF Order
  <2>. QED
    BY <2>1, <2>2, Constants
<1>. HIDE DEF c, o
<1>3. /\ \A x \in OrderIds \ {id} : c.orders[x] = b.orders[x]
      /\ c.orders[id] = order /\ Found(c, id)
      /\ \A x \in OrderIds : Found(c, x) <=> x = id \/ Found(b, x)
  BY <1>1, Constants DEF Books, Found
<1>4. \A s \in Sides : s # o => c.best[s] = b.best[s]
  BY <1>1, <1>2
<1>5. c.best[o] = IF Better(o, order.price, b.best[o]) THEN order.price ELSE b.best[o]
  BY <1>1, <1>2
<1>6. SUFFICES ASSUME NEW s \in Sides
               PROVE  /\ HasBest(c, s) \/ c.best[s] = Nobody[s]
                      /\ HasBest(c, s) =>
                           \E x \in OrderIds :
                              Found(c, x) /\ c.orders[x].side = s /\ c.orders[x].price = c.best[s]
                      /\ \A x \in OrderIds :
                           Found(c, x) /\ c.orders[x].side = s /\ c.orders[x].quantity > 0 =>
                              ~Better(s, c.orders[x].price, c.best[s])
  BY Zenon DEF BestSound, c
<1>7. /\ HasBest(b, s) \/ b.best[s] = Nobody[s]
      /\ HasBest(b, s) =>
           \E x \in OrderIds :
              Found(b, x) /\ b.orders[x].side = s /\ b.orders[x].price = b.best[s]
      /\ \A x \in OrderIds :
           Found(b, x) /\ b.orders[x].side = s /\ b.orders[x].quantity > 0 =>
              ~Better(s, b.orders[x].price, b.best[s])
  BY Zenon DEF BestSound
<1>8. \A x \in OrderIds : Found(b, x) => x # id /\ b.orders[x].price \in Nat
  BY FoundOrder, Constants
<1>9. HasBest(c, s) =>
        \E x \in OrderIds :
           Found(c, x) /\ c.orders[x].side = s /\ c.orders[x].price = c.best[s]
  <2>1. CASE c.best[s] = b.best[s]
    BY <1>3, <1>7, <1>8, <2>1 DEF HasBest
  <2>2. CASE c.best[s] # b.best[s]
    BY <1>3, <1>4, <1>5, <2>2 DEF o
  <2>. QED
    BY <2>1, <2>2
<1>10. ASSUME NEW x \in OrderIds, Found(c, x), c.orders[x].side = s, c.orders[x].quantity > 0
       PROVE  ~Better(s, c.orders[x].price, c.best[s])
  <2>1. CASE x = id
    <3>1. s = o /\ c.orders[x].price = order.price
      BY <1>3, <1>10, <2>1 DEF o
    <3>. QED
      BY <1>2, <1>5, <3>1 DEF Better, Sides
  <2>2. CASE x # id
    <3>1. ~Better(s, c.orders[x].price, b.best[s]) /\ c.orders[x].price \in Nat
      BY <1>3, <1>7, <1>8, <1>10, <2>2
    <3>2. c.best[s] = b.best[s] \/ (s = o /\ c.best[s] = order.price
                                       /\ Better(s, order.price, b.best[s]))
      BY <1>4, <1>5
    <3>. QED
      BY <1>2, <3>1, <3>2 DEF Better
  <2>. QED
    BY <2>1, <2>2
<1>11. HasBest(c, s) \/ c.best[s] = Nobody[s]
  BY <1>2, <1>4, <1>5, <1>7 DEF HasBest
<1>. QED
  BY <1>9, <1>10, <1>11

\* Where the rescan ends: at a level that has a total, or nowhere; and every
\* level it passed on the way, and every one beyond that has a total, is worse.
LEMMA NextBestIs ==
    ASSUME NEW side \in Sides, NEW levels, NEW price \in Prices
    PROVE  LET best == NextBest(side, levels, price)
           IN  /\ best \in Prices \/ best = Nobody[side]
               /\ best \in Prices => levels[PriceIndex(best)].total > 0
               /\ \A p \in Prices :
                    levels[PriceIndex(p)].total > 0 /\ Better(side, p, best)
                      => Better(side, p, price) \/ (side = "Ask" /\ p = price)
<1>. DEFINE filled == {p \in Prices : levels[PriceIndex(p)].total > 0}
            below == {0} \cup {p \in filled : p <= price}
            above == {MaxPrice + 1} \cup {p \in filled : p > price}
            best == NextBest(side, levels, price)
<1>1. MaxPrice \in Nat /\ MaxPrice + 1 \in Nat /\ Prices \subseteq Nat /\ Prices \subseteq 0..(MaxPrice + 1)
      /\ 0 \notin Prices /\ MaxPrice + 1 \notin Prices
  BY Constants DEF Prices
<1>2. filled \subseteq Prices
  OBVIOUS
<1>3. best = IF side = "Bid" THEN Max(below) ELSE Min(above)
  BY DEF NextBest
<1>4. CASE side = "Bid"
  <2>1. below \subseteq 0..(MaxPrice + 1) /\ below # {}
    <3>1. below \subseteq {0} \cup Prices /\ below # {}
      BY Zenon
    <3>. HIDE DEF below
    <3>. QED
      BY <1>1, <3>1
  <2>2. /\ \A y \in below : y = 0 \/ (y \in filled /\ y <= price)
        /\ \A p \in filled : p <= price => p \in below
    OBVIOUS
  <2>. HIDE DEF below
  <2>3. best \in below /\ \A y \in below : best >= y
    <3>1. Max(below) \in below /\ \A y \in below : Max(below) >= y
      BY <1>1, <2>1, MaxOfBounded
    <3>. QED
      BY <1>3, <1>4, <3>1
  <2>. HIDE DEF best
  <2>4. best \in Prices => levels[PriceIndex(best)].total > 0
    BY <1>1, <2>2, <2>3
  <2>5. ASSUME NEW p \in Prices, levels[PriceIndex(p)].total > 0, Better(side, p, best)
        PROVE  Better(side, p, price)
    <3>1. p \in filled /\ p \in Nat /\ best \in Nat /\ price \in Nat /\ p > best
      BY <1>1, <1>4, <2>1, <2>3, <2>5 DEF Better
    <3>2. ~(p <= price)
      BY <2>2, <2>3, <3>1
    <3>. QED
      BY <1>4, <3>1, <3>2 DEF Better
  <2>6. best \in Prices \/ best = Nobody[side]
    BY <1>2, <1>4, <2>2, <2>3 DEF Nobody
  <2>. QED
    BY <2>4, <2>5, <2>6 DEF best
<1>5. CASE side = "Ask"
  <2>1. above \subseteq Nat /\ above # {}
    BY <1>1, <1>2
  <2>2. /\ \A y \in above : y = MaxPrice + 1 \/ (y \in filled /\ y > price)
        /\ \A p \in filled : p > price => p \in above
    OBVIOUS
  <2>. HIDE DEF above
  <2>3. best \in above /\ \A y \in above : best <= y
    BY <1>1, <1>3, <1>5, <2>1, MinOfNats
  <2>. HIDE DEF best
  <2>4. best \in Prices => levels[PriceIndex(best)].total > 0
    BY <1>1, <2>2, <2>3
  <2>5. ASSUME NEW p \in Prices, levels[PriceIndex(p)].total > 0, Better(side, p, best)
        PROVE  Better(side, p, price) \/ (side = "Ask" /\ p = price)
    <3>1. p \in filled /\ p \in Nat /\ best \in Nat /\ price \in Nat /\ p < best
      BY <1>1, <1>5, <2>1, <2>3, <2>5 DEF Better
    <3>2. ~(p > price)
      BY <2>2, <2>3, <3>1
    <3>. QED
      BY <1>5, <3>1, <3>2 DEF Better
  <2>6. best \in Prices \/ best = Nobody[side]
    BY <1>2, <1>5, <2>2, <2>3 DEF Nobody
  <2>. QED
    BY <2>4, <2>5, <2>6 DEF best
<1>. QED
  BY <1>4, <1>5 DEF Sides

LEMMA TakeOutKeepsBest ==
    ASSUME NEW b \in Books, NEW id \in OrderIds, Found(b, id), TickSize = 1,
           TotalsSound(b), LevelsFit(b), BestSound(b)
    PROVE  BestSound(TakeOut(b, id))
<1>. DEFINE c == TakeOut(b, id)
            o == b.orders[id].side
            price == b.orders[id].price
            i == PriceIndex(price)
<1>1. c \in Books /\ c.orders = [b.orders EXCEPT ![id] = Absent]
      /\ TotalsSound(c) /\ LevelsFit(c)
  BY TakeOutEffect, TakeOutKeepsTotals, TakeOutFits
<1>2. c.best = [b.best EXCEPT ![o] =
                  IF c.level[o][i].total = 0 /\ price = @
                  THEN NextBest(o, c.level[o], price) ELSE @]
  BY TakeOutFigures, Zenon
<1>3. o \in Sides /\ price \in Prices /\ price \in Nat /\ b.best \in [Sides -> Nat]
  BY FoundOrder, BestType, Constants
<1>. HIDE DEF c, o, price, i
<1>4. /\ \A x \in OrderIds \ {id} : c.orders[x] = b.orders[x]
      /\ \A x \in OrderIds : Found(c, x) <=> x # id /\ Found(b, x)
  BY <1>1 DEF Books, Found
<1>5. \A s \in Sides : s # o => c.best[s] = b.best[s]
  BY <1>2, <1>3
<1>6. c.best[o] = IF c.level[o][i].total = 0 /\ price = b.best[o]
                  THEN NextBest(o, c.level[o], price) ELSE b.best[o]
  BY <1>2, <1>3
<1>7. SUFFICES ASSUME NEW s \in Sides
               PROVE  /\ HasBest(c, s) \/ c.best[s] = Nobody[s]
                      /\ HasBest(c, s) =>
                           \E x \in OrderIds :
                              Found(c, x) /\ c.orders[x].side = s /\ c.orders[x].price = c.best[s]
                      /\ \A x \in OrderIds :
                           Found(c, x) /\ c.orders[x].side = s /\ c.orders[x].quantity > 0 =>
                              ~Better(s, c.orders[x].price, c.best[s])
  BY Zenon DEF BestSound, c
<1>8. /\ HasBest(b, s) \/ b.best[s] = Nobody[s]
      /\ HasBest(b, s) =>
           \E x \in OrderIds :
              Found(b, x) /\ b.orders[x].side = s /\ b.orders[x].price = b.best[s]
      /\ \A x \in OrderIds :
           Found(b, x) /\ b.orders[x].side = s /\ b.orders[x].quantity > 0 =>
              ~Better(s, b.orders[x].price, b.best[s])
  BY Zenon DEF BestSound
<1>9. \A p \in Prices :
         c.level[s][PriceIndex(p)].total > 0 <=>
             \E x \in OrderIds : /\ Found(c, x) /\ c.orders[x].side = s
                                 /\ c.orders[x].price = p /\ c.orders[x].quantity > 0
  <2>1. c \in Books /\ TotalsSound(c) /\ LevelsFit(c)
    BY <1>1
  <2>. QED
    BY <2>1, LevelFilled
<1>10. CASE s = o /\ c.level[o][i].total = 0 /\ price = b.best[o]
  <2>. DEFINE best == NextBest(s, c.level[s], price)
  <2>1. c.best[s] = best
    BY <1>6, <1>10
  <2>2. /\ best \in Prices \/ best = Nobody[s]
        /\ best \in Prices => c.level[s][PriceIndex(best)].total > 0
        /\ \A p \in Prices :
              c.level[s][PriceIndex(p)].total > 0 /\ Better(s, p, best)
                 => Better(s, p, price) \/ (s = "Ask" /\ p = price)
    BY <1>3, NextBestIs
  <2>. HIDE DEF best
  <2>3. HasBest(c, s) =>
          \E x \in OrderIds :
             Found(c, x) /\ c.orders[x].side = s /\ c.orders[x].price = c.best[s]
    BY <1>9, <2>1, <2>2, Zenon DEF HasBest
  <2>4. ASSUME NEW x \in OrderIds, Found(c, x), c.orders[x].side = s,
               c.orders[x].quantity > 0, Better(s, c.orders[x].price, c.best[s])
        PROVE  FALSE
    <3>. DEFINE p == c.orders[x].price
    <3>1. p \in Prices
      BY <1>1, <2>4, FoundOrder
    <3>2. c.level[s][PriceIndex(p)].total > 0
      BY <1>9, <2>4, <3>1
    <3>3. ~Better(s, p, price)
      BY <1>4, <1>8, <1>10, <2>4
    <3>. HIDE DEF p
    <3>4. p = price
      BY <2>1, <2>2, <2>4, <3>1, <3>2, <3>3 DEF p
    <3>5. c.level[s][i].total > 0 /\ c.level[s][i].total = 0
      BY <1>10, <3>2, <3>4 DEF i
    <3>. QED
      BY <3>5
  <2>. QED
    BY <2>1, <2>2, <2>3, <2>4 DEF HasBest
<1>11. CASE ~(s = o /\ c.level[o][i].total = 0 /\ price = b.best[o])
  <2>1. c.best[s] = b.best[s]
    BY <1>5, <1>6, <1>11
  <2>2. ASSUME NEW x \in OrderIds, Found(c, x), c.orders[x].side = s, c.orders[x].quantity > 0
        PROVE  ~Better(s, c.orders[x].price, c.best[s])
    BY <1>4, <1>8, <2>1, <2>2
  <2>3. ASSUME HasBest(c, s)
        PROVE  \E x \in OrderIds :
                  Found(c, x) /\ c.orders[x].side = s /\ c.orders[x].price = c.best[s]
    <3>1. PICK x \in OrderIds :
             Found(b, x) /\ b.orders[x].side = s /\ b.orders[x].price = b.best[s]
      BY <1>8, <2>1, <2>3 DEF HasBest
    <3>2. CASE x # id
      BY <1>4, <2>1, <3>1, <3>2
    <3>3. CASE x = id
      <4>1. s = o /\ price = b.best[o]
        BY <3>1, <3>3 DEF o, price
      <4>2. c.level[s][i].total # 0 /\ c.level[s][i].total \in Nat
        <5>1. i \in LevelIndex
          BY <1>3, Constants DEF i
        <5>2. c.level[s][i].total \in Amounts
          BY <1>1, <5>1 DEF Books
        <5>. QED
          BY <1>11, <4>1, <5>2, Constants DEF Amounts
      <4>3. c.level[s][PriceIndex(price)].total > 0
        BY <4>2 DEF i
      <4>. QED
        BY <1>3, <1>9, <2>1, <4>1, <4>3
    <3>. QED
      BY <3>2, <3>3
  <2>. QED
    BY <1>8, <2>1, <2>2, <2>3 DEF HasBest
<1>. QED
  BY <1>10, <1>11

LEMMA LessenKeepsBest ==
    ASSUME NEW b \in Books, NEW id \in OrderIds, Found(b, id),
           NEW quantity \in Amounts, quantity < b.orders[id].quantity, BestSound(b)
    PROVE  BestSound(Lessen(b, id, quantity))
<1>. DEFINE c == Lessen(b, id, quantity)
<1>1. c \in Books
  BY LessenEffect
<1>2. c.orders = [b.orders EXCEPT ![id].quantity = @ - quantity] /\ c.best = b.best
  BY LessenFigures
<1>. HIDE DEF c
<1>3. b.orders[id] \in Order /\ quantity \in Nat /\ b.orders[id].quantity \in Nat
  BY FoundOrder, OrderQuantity, Constants DEF Amounts
<1>4. \A x \in OrderIds :
         /\ Found(c, x) <=> Found(b, x)
         /\ c.orders[x].side = b.orders[x].side
         /\ c.orders[x].price = b.orders[x].price
         /\ c.orders[x].quantity > 0 => b.orders[x].quantity > 0
  <2>1. SUFFICES ASSUME NEW x \in OrderIds
                 PROVE  /\ Found(c, x) <=> Found(b, x)
                        /\ c.orders[x].side = b.orders[x].side
                        /\ c.orders[x].price = b.orders[x].price
                        /\ c.orders[x].quantity > 0 => b.orders[x].quantity > 0
    OBVIOUS
  <2>2. CASE x # id
    <3>1. c.orders[x] = b.orders[x]
      BY <1>2, <2>2 DEF Books
    <3>. QED
      BY <3>1 DEF Found
  <2>3. CASE x = id
    <3>1. c.orders[x] = [b.orders[id] EXCEPT !.quantity = @ - quantity]
      BY <1>2, <2>3 DEF Books
    <3>2. /\ c.orders[x].side = b.orders[id].side
          /\ c.orders[x].price = b.orders[id].price
      BY <1>3, <3>1 DEF Order
    <3>3. b.orders[id].side \in Sides
      BY <1>3 DEF Order
    <3>4. c.orders[x] # Absent
      BY <3>2, <3>3 DEF Absent, Sides
    <3>5. b.orders[id].quantity > 0
      BY <1>3
    <3>. QED
      BY <2>3, <3>2, <3>4, <3>5 DEF Found
  <2>. QED
    BY <2>2, <2>3
<1>5. BestSound(c)
  BY <1>2, <1>4 DEF BestSound, HasBest
<1>. QED
  BY <1>5 DEF c

----------------------------------------------------------------------------
(* What one call comes to                                                   *)

\* One call changes nothing, takes an order out, places one with a quantity of
\* Q, does both in turn, or lessens one.
OneCall(b, c, Q) ==
    \/ c = b
    \/ \E id \in OrderIds : Found(b, id) /\ c = TakeOut(b, id)
    \/ \E id \in OrderIds, order \in Order :
          order.quantity \in Q /\ ~Found(b, id) /\ c = Place(b, id, order)
    \/ \E id \in OrderIds, order \in Order :
          order.quantity \in Q /\ Found(b, id) /\ c = Place(TakeOut(b, id), id, order)
    \/ \E id \in OrderIds, quantity \in Amounts :
          /\ Found(b, id) /\ quantity < b.orders[id].quantity
          /\ c = Lessen(b, id, quantity)

LEMMA InsertCall ==
    ASSUME NEW b, NEW id \in OrderIds, NEW Q, NEW price \in Nat,
           NEW quantity \in Amounts, quantity \in Q, NEW side \in Sides
    PROVE  OneCall(b, Insert(b, id, [price |-> price, quantity |-> quantity,
                                     side |-> side]), Q)
<1>. DEFINE order == [price |-> price, quantity |-> quantity, side |-> side]
<1>1. CASE InsertResult(b, id, order) = "Ok"
  <2>1. order.price \in Prices /\ ~Found(b, id)
    BY <1>1 DEF InsertResult
  <2>2. order \in Order /\ order.quantity \in Q
    BY <2>1 DEF Order
  <2>3. Insert(b, id, order) = Place(b, id, order)
    BY <1>1, Zenon DEF Insert
  <2>. QED
    BY <2>1, <2>2, <2>3, Zenon DEF OneCall
<1>2. CASE InsertResult(b, id, order) # "Ok"
  BY <1>2, Zenon DEF Insert, OneCall
<1>. QED
  BY <1>1, <1>2

LEMMA CancelCall ==
    ASSUME NEW b, NEW id \in OrderIds, NEW Q
    PROVE  OneCall(b, Cancel(b, id), Q)
BY Zenon DEF Cancel, OneCall

LEMMA ModifyCall ==
    ASSUME NEW b, Sound(b), NEW id \in OrderIds, NEW Q,
           NEW price \in Nat, NEW quantity \in Amounts, quantity \in Q
    PROVE  OneCall(b, Modify(b, id, price, quantity), Q)
<1>1. CASE price \in Prices /\ Found(b, id)
  <2>. DEFINE c == TakeOut(b, id)
              order == Updated(b, id, price, quantity)
  <2>1. ~Found(c, id) /\ ~MapRefuses(c, id)
    BY <1>1, TakeOutKeepsQueues, TakeOutKeepsMap DEF Sound
  <2>2. order \in Order /\ order.price \in Prices /\ order.quantity \in Q
    BY <1>1, FoundOrder DEF Order, Updated, Sound
  <2>. HIDE DEF c, order
  <2>3. InsertResult(c, id, order) = "Ok"
    BY <2>1, <2>2 DEF InsertResult
  <2>4. Modify(b, id, price, quantity) = Place(TakeOut(b, id), id, order)
    BY <1>1, <2>3 DEF Modify, Insert, c, order
  <2>. QED
    BY <1>1, <2>2, <2>4, Zenon DEF OneCall
<1>2. CASE ~(price \in Prices /\ Found(b, id))
  BY <1>2, Zenon DEF Modify, OneCall
<1>. QED
  BY <1>1, <1>2

LEMMA ReduceCall ==
    ASSUME NEW b, Sound(b), NEW id \in OrderIds, NEW quantity \in Amounts, NEW Q
    PROVE  OneCall(b, Reduce(b, id, quantity), Q)
<1>1. CASE ~Found(b, id)
  BY <1>1, Zenon DEF Reduce, OneCall
<1>2. CASE Found(b, id) /\ quantity >= b.orders[id].quantity
  BY <1>2, Zenon DEF Reduce, OneCall
<1>3. CASE Found(b, id) /\ ~(quantity >= b.orders[id].quantity)
  <2>1. quantity < b.orders[id].quantity
    BY <1>3, OrderQuantity, Constants DEF Sound, Amounts
  <2>2. Reduce(b, id, quantity) = Lessen(b, id, quantity)
    BY <1>3, Zenon DEF Reduce
  <2>. QED
    BY <1>3, <2>1, <2>2, Zenon DEF OneCall
<1>. QED
  BY <1>1, <1>2, <1>3

LEMMA NextCall ==
    ASSUME Sound(book), BookNext
    PROVE  OneCall(book, book', Quantities)
<1>1. PICK id \in OrderIds :
         \/ CancelOrder(id)
         \/ \E quantity \in Quantities :
               \/ ReduceOrder(id, quantity)
               \/ \E price \in InputPrices :
                     \/ ModifyOrder(id, price, quantity)
                     \/ \E side \in Sides : InsertOrder(id, price, quantity, side)
  BY Zenon DEF BookNext
<1>2. Quantities \subseteq Amounts /\ InputPrices \subseteq Nat
  BY BookAssumption
<1>3. CASE CancelOrder(id)
  BY <1>3, CancelCall DEF CancelOrder
<1>4. ASSUME NEW quantity \in Quantities, ReduceOrder(id, quantity)
      PROVE  OneCall(book, book', Quantities)
  BY <1>2, <1>4, ReduceCall DEF ReduceOrder
<1>5. ASSUME NEW quantity \in Quantities, NEW price \in InputPrices,
             ModifyOrder(id, price, quantity)
      PROVE  OneCall(book, book', Quantities)
  BY <1>2, <1>5, ModifyCall DEF ModifyOrder
<1>6. ASSUME NEW quantity \in Quantities, NEW price \in InputPrices, NEW side \in Sides,
             InsertOrder(id, price, quantity, side)
      PROVE  OneCall(book, book', Quantities)
  BY <1>2, <1>6, InsertCall DEF InsertOrder
<1>. QED
  BY <1>1, <1>3, <1>4, <1>5, <1>6

----------------------------------------------------------------------------
(* The best price                                                           *)

LEMMA CallKeepsBest ==
    ASSUME NEW b, Sound(b), NEW c, NEW Q, OneCall(b, c, Q), TickSize = 1,
           LevelsFit(b), BestSound(b)
    PROVE  BestSound(c)
<1>1. b \in Books /\ TotalsSound(b)
  BY DEF Sound
<1>2. ASSUME NEW id \in OrderIds, Found(b, id)
      PROVE  /\ BestSound(TakeOut(b, id)) /\ TakeOut(b, id) \in Books
             /\ ~Found(TakeOut(b, id), id)
  BY <1>1, <1>2, TakeOutKeepsBest, TakeOutEffect, TakeOutKeepsQueues DEF Sound
<1>3. CASE c = b
  BY <1>3
<1>4. CASE \E id \in OrderIds : Found(b, id) /\ c = TakeOut(b, id)
  BY <1>2, <1>4
<1>5. CASE \E id \in OrderIds, order \in Order :
              order.quantity \in Q /\ ~Found(b, id) /\ c = Place(b, id, order)
  BY <1>1, <1>5, PlaceKeepsBest
<1>6. CASE \E id \in OrderIds, order \in Order :
              order.quantity \in Q /\ Found(b, id) /\ c = Place(TakeOut(b, id), id, order)
  BY <1>2, <1>6, PlaceKeepsBest
<1>7. CASE \E id \in OrderIds, quantity \in Amounts :
              /\ Found(b, id) /\ quantity < b.orders[id].quantity
              /\ c = Lessen(b, id, quantity)
  BY <1>1, <1>7, LessenKeepsBest
<1>. QED
  BY <1>3, <1>4, <1>5, <1>6, <1>7, Zenon DEF OneCall

----------------------------------------------------------------------------
(* The quantities of the orders                                             *)

\* The map's orders have quantities of Q only.
QuantitiesIn(b, Q) == \A x \in OrderIds : Found(b, x) => b.orders[x].quantity \in Q

LEMMA PlaceQuantitiesIn ==
    ASSUME NEW b \in Books, NEW id \in OrderIds, NEW order \in Order, NEW Q,
           order.quantity \in Q, QuantitiesIn(b, Q)
    PROVE  QuantitiesIn(Place(b, id, order), Q)
<1>1. Place(b, id, order).orders = [b.orders EXCEPT ![id] = order]
  BY PlaceEffect
<1>. QED
  BY <1>1 DEF QuantitiesIn, Found, Books

LEMMA TakeOutQuantitiesIn ==
    ASSUME NEW b \in Books, NEW id \in OrderIds, Found(b, id), NEW Q, QuantitiesIn(b, Q)
    PROVE  QuantitiesIn(TakeOut(b, id), Q)
<1>1. TakeOut(b, id).orders = [b.orders EXCEPT ![id] = Absent]
  BY TakeOutEffect
<1>. QED
  BY <1>1 DEF QuantitiesIn, Found, Books

LEMMA CallKeepsQuantitiesIn ==
    ASSUME NEW b, Sound(b), NEW c, NEW Q, OneCall(b, c, Q),
           \A q \in Q \cap Nat : 1..q \subseteq Q, QuantitiesIn(b, Q)
    PROVE  QuantitiesIn(c, Q)
<1>1. b \in Books
  BY DEF Sound
<1>2. ASSUME NEW id \in OrderIds, Found(b, id)
      PROVE  QuantitiesIn(TakeOut(b, id), Q) /\ TakeOut(b, id) \in Books
  BY <1>1, <1>2, TakeOutQuantitiesIn, TakeOutEffect
<1>3. CASE c = b
  BY <1>3
<1>4. CASE \E id \in OrderIds : Found(b, id) /\ c = TakeOut(b, id)
  BY <1>2, <1>4
<1>5. CASE \E id \in OrderIds, order \in Order :
              order.quantity \in Q /\ ~Found(b, id) /\ c = Place(b, id, order)
  BY <1>1, <1>5, PlaceQuantitiesIn
<1>6. CASE \E id \in OrderIds, order \in Order :
              order.quantity \in Q /\ Found(b, id) /\ c = Place(TakeOut(b, id), id, order)
  BY <1>2, <1>6, PlaceQuantitiesIn
<1>7. ASSUME NEW id \in OrderIds, NEW quantity \in Amounts,
             Found(b, id), quantity < b.orders[id].quantity
      PROVE  QuantitiesIn(Lessen(b, id, quantity), Q)
  <2>. DEFINE d == Lessen(b, id, quantity)
  <2>1. d.orders = [b.orders EXCEPT ![id].quantity = @ - quantity]
        /\ d.orders[id].quantity = b.orders[id].quantity - quantity
    BY <1>1, <1>7, LessenFigures
  <2>. HIDE DEF d
  <2>2. \A x \in OrderIds \ {id} : d.orders[x] = b.orders[x]
    BY <1>1, <2>1 DEF Books
  <2>3. b.orders[id].quantity \in Q \cap Nat /\ quantity \in Nat
    BY <1>1, <1>7, OrderQuantity, Constants DEF QuantitiesIn, Amounts
  <2>4. d.orders[id].quantity \in 1..b.orders[id].quantity
    BY <1>7, <2>1, <2>3
  <2>5. d.orders[id].quantity \in Q
    BY <2>3, <2>4
  <2>. QED
    BY <2>2, <2>5 DEF QuantitiesIn, Found, d
<1>. QED
  BY <1>3, <1>4, <1>5, <1>6, <1>7, Zenon DEF OneCall

\* A map of at most MaxOrders orders of bounded quantities never fills a level
\* beyond the word size.
LEMMA BoundedLevelsFit ==
    ASSUME NEW b, Sound(b), NEW most \in Nat, QuantitiesIn(b, 0..most),
           MaxOrders * most < Word
    PROVE  LevelsFit(b)
<1>. SUFFICES ASSUME NEW s \in Sides, NEW i \in LevelIndex
              PROVE  QuantityAt(b, s, i) < Word
  BY Zenon DEF LevelsFit
<1>. DEFINE R == RestingAt(b, s, i)
<1>1. b \in Books /\ Cardinality(Resting(b)) <= MaxOrders
  BY DEF Sound, MapSound
<1>2. QuantityAt(b, s, i) = SumFunctionOnSet(Quantity(b), R) /\ QuantityAt(b, s, i) \in Nat
  BY <1>1, QuantityAtType
<1>3. \A x \in R : Quantity(b)[x] \in Nat /\ Quantity(b)[x] <= most
  BY <1>1, QuantityType, RestingAtFinite DEF QuantitiesIn, RestingAt, RestsAt
<1>4. IsFiniteSet(R) /\ R \in SUBSET Resting(b)
  <2>1. R \in SUBSET Resting(b)
    BY DEF RestingAt, RestsAt, Resting
  <2>. QED
    BY <2>1, RestingAtFinite
<1>. HIDE DEF R
<1>5. QuantityAt(b, s, i) <= Cardinality(R) * most
  BY <1>2, <1>3, <1>4, SumBounded
<1>6. Cardinality(R) \in Nat /\ Cardinality(R) <= Cardinality(Resting(b))
      /\ Cardinality(Resting(b)) \in Nat
  BY <1>4, RestingFinite, FS_Subset, FS_CardinalityType
<1>. DEFINE n == Cardinality(R)
            low == n * most
            high == MaxOrders * most
<1>7. n \in Nat /\ n <= MaxOrders /\ MaxOrders \in Nat /\ Word \in Nat
  BY <1>1, <1>6, Constants
<1>. HIDE DEF n
<1>8. low <= high /\ low \in Nat /\ high \in Nat
  BY <1>7
<1>9. QuantityAt(b, s, i) <= low /\ high < Word
  BY <1>5 DEF n
<1>. HIDE DEF low, high
<1>. QED
  BY <1>2, <1>7, <1>8, <1>9

----------------------------------------------------------------------------
(* Every order waits in a FIFO                                              *)

\* What RestingOrdersQueued says of a book.
AllQueued(b) ==
    \A x \in OrderIds, s \in Sides, i \in LevelIndex :
        RestsAt(b, x, s, i) => x \in Elems(b.level[s][i].ids)

\* No level is asked to hold more orders than its FIFO has slots.
LevelsHaveRoom(b) ==
    \A s \in Sides, i \in LevelIndex : Cardinality(RestingAt(b, s, i)) <= MaxPerLevel

LEMMA QueuedByElems ==
    ASSUME NEW b \in Books
    PROVE  AllQueued(b) <=>
             \A id \in OrderIds :
                Found(b, id) => Contains(LevelOf(b, b.orders[id]).ids, id)
<1>1. \A ids, id : Contains(ids, id) <=> id \in Elems(ids)
  BY Zenon DEF Contains, Elems
<1>2. ASSUME NEW id \in OrderIds, Found(b, id)
      PROVE  b.orders[id].side \in Sides /\ PriceIndex(b.orders[id].price) \in LevelIndex
  BY <1>2, FoundOrder
<1>. QED
  BY <1>1, <1>2, Zenon DEF AllQueued, RestsAt, LevelOf

\* A FIFO that names every order of its level names each of them once.
LEMMA QueueLength ==
    ASSUME NEW b \in Books, QueuesSound(b), NEW s \in Sides, NEW i \in LevelIndex
    PROVE  LET ids == b.level[s][i].ids
           IN  Len(ids) = Cardinality(Elems(ids)) /\ Elems(ids) \subseteq RestingAt(b, s, i)
<1>. DEFINE ids == b.level[s][i].ids
<1>1. ids \in Seq(OrderIds) /\ Distinct(ids) /\ \A x \in Elems(ids) : RestsAt(b, x, s, i)
  BY QueuesByElems DEF Books
<1>. HIDE DEF ids
<1>2. Elems(ids) \subseteq RestingAt(b, s, i)
  BY <1>1 DEF RestingAt, Elems
<1>3. Len(ids) \in Nat /\ ids \in [1..Len(ids) -> Elems(ids)]
  BY <1>1 DEF Elems
<1>4. ids \in Bijection(1..Len(ids), Elems(ids))
  <2>1. ids \in Injection(1..Len(ids), Elems(ids))
    BY <1>1, <1>3 DEF Distinct, Injection, IsInjective
  <2>2. ids \in Surjection(1..Len(ids), Elems(ids))
    BY <1>3 DEF Elems, Surjection
  <2>. QED
    BY <2>1, <2>2 DEF Bijection
<1>5. Cardinality(Elems(ids)) = Len(ids)
  BY <1>3, <1>4, FS_CountingElements DEF ExistsBijection
<1>. QED
  BY <1>2, <1>5 DEF ids

\* Nothing but the id itself leaves a FIFO.
LEMMA PushedStays ==
    ASSUME NEW ids \in Seq(OrderIds), NEW id \in OrderIds
    PROVE  /\ Elems(ids) \subseteq Elems(Push(ids, id))
           /\ Len(ids) < MaxPerLevel => id \in Elems(Push(ids, id))
<1>1. CASE Len(ids) >= MaxPerLevel
  BY <1>1, Constants DEF Push
<1>2. CASE ~(Len(ids) >= MaxPerLevel)
  <2>. DEFINE new == Append(ids, id)
  <2>1. /\ Len(new) = Len(ids) + 1 /\ Len(ids) \in Nat
        /\ \A k \in 1..Len(ids) : new[k] = ids[k]
        /\ new[Len(ids) + 1] = id
    BY AppendProperties
  <2>2. Push(ids, id) = new
    BY <1>2 DEF Push
  <2>. HIDE DEF new
  <2>3. 1..Len(ids) \subseteq 1..Len(new) /\ Len(ids) + 1 \in 1..Len(new)
    BY <2>1
  <2>. QED
    BY <2>1, <2>2, <2>3, Zenon DEF Elems
<1>. QED
  BY <1>1, <1>2

LEMMA RemovedStays ==
    ASSUME NEW ids \in Seq(OrderIds), NEW id
    PROVE  Elems(ids) \ {id} \subseteq Elems(RemoveFirst(ids, id))
<1>. DEFINE new == RemoveFirst(ids, id)
<1>1. CASE new = ids
  BY <1>1
<1>2. CASE \E m \in 1..Len(ids) :
              /\ ids[m] = id
              /\ \A k \in 1..(m - 1) : ids[k] # id
              /\ new \in Seq(OrderIds)
              /\ Len(new) = Len(ids) - 1
              /\ \A k \in 1..(Len(ids) - 1) : new[k] = IF k < m THEN ids[k] ELSE ids[k + 1]
  <2>1. PICK m \in 1..Len(ids) :
              /\ ids[m] = id
              /\ Len(new) = Len(ids) - 1
              /\ \A k \in 1..(Len(ids) - 1) : new[k] = IF k < m THEN ids[k] ELSE ids[k + 1]
    BY <1>2
  <2>2. Len(ids) \in Nat /\ m \in Nat
    OBVIOUS
  <2>. HIDE DEF new
  <2>3. SUFFICES ASSUME NEW x \in Elems(ids), x # id
                 PROVE  x \in Elems(new)
    BY DEF new
  <2>4. PICK k \in 1..Len(ids) : ids[k] = x
    BY DEF Elems
  <2>5. CASE k < m
    <3>1. k \in 1..Len(new) /\ new[k] = x
      BY <2>1, <2>2, <2>4, <2>5
    <3>. QED
      BY <3>1 DEF Elems
  <2>6. CASE ~(k < m)
    <3>1. k # m
      BY <2>1, <2>3, <2>4
    <3>2. k - 1 \in 1..(Len(ids) - 1) /\ ~(k - 1 < m) /\ (k - 1) + 1 = k
      BY <2>2, <2>6, <3>1
    <3>3. k - 1 \in 1..Len(new) /\ new[k - 1] = x
      BY <2>1, <2>4, <3>2
    <3>. QED
      BY <3>3 DEF Elems
  <2>. QED
    BY <2>5, <2>6
<1>. QED
  BY <1>1, <1>2, RemoveFirstCases

LEMMA PlaceKeepsQueued ==
    ASSUME NEW b \in Books, NEW id \in OrderIds, NEW order \in Order,
           ~Found(b, id), QueuesSound(b), AllQueued(b),
           LevelsHaveRoom(Place(b, id, order))
    PROVE  AllQueued(Place(b, id, order))
<1>. DEFINE c == Place(b, id, order)
            t == order.side
            j == PriceIndex(order.price)
            ids == b.level[t][j].ids
<1>1. t \in Sides /\ j \in LevelIndex
  BY Constants DEF Order
<1>2. /\ c.orders = [b.orders EXCEPT ![id] = order]
      /\ c.level[t][j].ids = Push(ids, id)
      /\ \A s \in Sides, i \in LevelIndex : s # t \/ i # j => c.level[s][i] = b.level[s][i]
  BY PlaceEffect DEF LevelOf
<1>3. ids \in Seq(OrderIds)
  BY <1>1 DEF Books
<1>4. Len(ids) = Cardinality(Elems(ids)) /\ Elems(ids) \subseteq RestingAt(b, t, j)
  BY <1>1, QueueLength
<1>5. Cardinality(RestingAt(c, t, j)) <= MaxPerLevel
  BY <1>1, Zenon DEF LevelsHaveRoom
<1>. HIDE DEF c, t, j, ids
<1>6. /\ \A x \in OrderIds \ {id} : c.orders[x] = b.orders[x]
      /\ c.orders[id] = order
  BY <1>2 DEF Books
<1>7. Found(c, id)
  BY <1>6, Constants DEF Found
<1>8. \A s, i, x : x \in OrderIds /\ x # id => (RestsAt(c, x, s, i) <=> RestsAt(b, x, s, i))
  BY <1>6, Zenon DEF RestsAt, Found
<1>9. \A s, i : RestsAt(c, id, s, i) => s = t /\ i = j
  BY <1>6 DEF RestsAt, t, j
<1>10. RestsAt(c, id, t, j)
  BY <1>6, <1>7 DEF RestsAt, t, j
<1>11. Len(ids) < MaxPerLevel
  <2>1. id \notin Elems(ids) /\ Elems(ids) \subseteq OrderIds
    BY <1>4, RestingAtFinite DEF RestingAt, RestsAt
  <2>2. Elems(ids) \cup {id} \subseteq RestingAt(c, t, j)
    BY <1>4, <1>8, <1>10, <2>1 DEF RestingAt
  <2>3. IsFiniteSet(RestingAt(c, t, j)) /\ IsFiniteSet(Elems(ids))
    <3>1. IsFiniteSet(RestingAt(c, t, j)) /\ IsFiniteSet(RestingAt(b, t, j))
      BY RestingAtFinite
    <3>. QED
      BY <1>4, <3>1, FS_Subset
  <2>4. Cardinality(Elems(ids) \cup {id}) = Cardinality(Elems(ids)) + 1
    BY <2>1, <2>3, FS_AddElement
  <2>5. Cardinality(Elems(ids) \cup {id}) <= Cardinality(RestingAt(c, t, j))
    BY <2>2, <2>3, FS_Subset
  <2>6. Cardinality(RestingAt(c, t, j)) \in Nat /\ Cardinality(Elems(ids)) \in Nat
    BY <2>3, FS_CardinalityType
  <2>7. Cardinality(Elems(ids)) + 1 <= MaxPerLevel /\ MaxPerLevel \in Nat
    <3>1. ASSUME NEW m \in Nat, NEW n \in Nat, NEW k, k = m + 1, k <= n, n <= MaxPerLevel
          PROVE  m + 1 <= MaxPerLevel
      BY <3>1, Constants
    <3>. QED
      BY <1>5, <2>4, <2>5, <2>6, <3>1, Constants, Zenon
  <2>. QED
    BY <1>4, <2>6, <2>7
<1>12. Elems(ids) \subseteq Elems(Push(ids, id)) /\ id \in Elems(Push(ids, id))
  BY <1>3, <1>11, PushedStays
<1>13. ASSUME NEW x \in OrderIds, NEW s \in Sides, NEW i \in LevelIndex, RestsAt(c, x, s, i)
       PROVE  x \in Elems(c.level[s][i].ids)
  <2>1. CASE x = id
    BY <1>2, <1>9, <1>12, <1>13, <2>1
  <2>2. CASE x # id
    <3>1. x \in Elems(b.level[s][i].ids)
      BY <1>8, <1>13, <2>2, Zenon DEF AllQueued
    <3>2. CASE s = t /\ i = j
      BY <1>2, <1>12, <3>1, <3>2 DEF ids
    <3>3. CASE ~(s = t /\ i = j)
      <4>1. c.level[s][i] = b.level[s][i]
        BY <1>2, <3>3
      <4>. QED
        BY <3>1, <4>1
    <3>. QED
      BY <3>2, <3>3
  <2>. QED
    BY <2>1, <2>2
<1>. QED
  BY <1>13, Zenon DEF AllQueued, c

LEMMA TakeOutKeepsQueued ==
    ASSUME NEW b \in Books, NEW id \in OrderIds, Found(b, id), AllQueued(b)
    PROVE  AllQueued(TakeOut(b, id))
<1>. DEFINE c == TakeOut(b, id)
            t == b.orders[id].side
            j == PriceIndex(b.orders[id].price)
            ids == b.level[t][j].ids
<1>1. t \in Sides /\ j \in LevelIndex
  BY FoundOrder
<1>2. /\ c.orders = [b.orders EXCEPT ![id] = Absent]
      /\ c.level[t][j].ids = RemoveFirst(ids, id)
      /\ \A s \in Sides, i \in LevelIndex : s # t \/ i # j => c.level[s][i] = b.level[s][i]
  BY TakeOutEffect DEF LevelOf
<1>3. ids \in Seq(OrderIds)
  BY <1>1 DEF Books
<1>. HIDE DEF c, t, j, ids
<1>4. ~Found(c, id) /\ \A x \in OrderIds \ {id} : c.orders[x] = b.orders[x]
  BY <1>2 DEF Books, Found
<1>5. Elems(ids) \ {id} \subseteq Elems(RemoveFirst(ids, id))
  BY <1>3, RemovedStays
<1>6. ASSUME NEW x \in OrderIds, NEW s \in Sides, NEW i \in LevelIndex, RestsAt(c, x, s, i)
      PROVE  x \in Elems(c.level[s][i].ids)
  <2>1. x # id
    BY <1>4, <1>6 DEF RestsAt
  <2>2. RestsAt(b, x, s, i)
    BY <1>4, <1>6, <2>1 DEF RestsAt, Found
  <2>3. x \in Elems(b.level[s][i].ids)
    BY <2>2, Zenon DEF AllQueued
  <2>4. CASE s = t /\ i = j
    BY <1>2, <1>5, <2>1, <2>3, <2>4 DEF ids
  <2>5. CASE ~(s = t /\ i = j)
    <3>1. c.level[s][i] = b.level[s][i]
      BY <1>2, <2>5
    <3>. QED
      BY <2>3, <3>1
  <2>. QED
    BY <2>4, <2>5
<1>. QED
  BY <1>6, Zenon DEF AllQueued, c

LEMMA LessenKeepsQueued ==
    ASSUME NEW b \in Books, NEW id \in OrderIds, Found(b, id),
           NEW quantity \in Amounts, quantity < b.orders[id].quantity, AllQueued(b)
    PROVE  AllQueued(Lessen(b, id, quantity))
<1>. DEFINE c == Lessen(b, id, quantity)
<1>1. /\ \A x \in OrderIds, s \in Sides, i \in LevelIndex :
            RestsAt(c, x, s, i) <=> RestsAt(b, x, s, i)
      /\ \A s \in Sides, i \in LevelIndex : c.level[s][i].ids = b.level[s][i].ids
  BY LessenEffect
<1>. HIDE DEF c
<1>2. AllQueued(c)
  BY <1>1, Zenon DEF AllQueued
<1>. QED
  BY <1>2 DEF c

\* Only the level an order joins needs room.
LEMMA CallKeepsQueued ==
    ASSUME NEW b, Sound(b), NEW c, NEW Q, OneCall(b, c, Q), LevelsHaveRoom(c), AllQueued(b)
    PROVE  AllQueued(c)
<1>1. b \in Books /\ QueuesSound(b)
  BY DEF Sound
<1>2. ASSUME NEW id \in OrderIds, Found(b, id)
      PROVE  /\ AllQueued(TakeOut(b, id)) /\ TakeOut(b, id) \in Books
             /\ QueuesSound(TakeOut(b, id)) /\ ~Found(TakeOut(b, id), id)
  BY <1>1, <1>2, TakeOutKeepsQueued, TakeOutEffect, TakeOutKeepsQueues
<1>3. CASE c = b
  BY <1>3
<1>4. CASE \E id \in OrderIds : Found(b, id) /\ c = TakeOut(b, id)
  BY <1>2, <1>4
<1>5. CASE \E id \in OrderIds, order \in Order :
              order.quantity \in Q /\ ~Found(b, id) /\ c = Place(b, id, order)
  BY <1>1, <1>5, PlaceKeepsQueued
<1>6. CASE \E id \in OrderIds, order \in Order :
              order.quantity \in Q /\ Found(b, id) /\ c = Place(TakeOut(b, id), id, order)
  BY <1>2, <1>6, PlaceKeepsQueued
<1>7. CASE \E id \in OrderIds, quantity \in Amounts :
              /\ Found(b, id) /\ quantity < b.orders[id].quantity
              /\ c = Lessen(b, id, quantity)
  BY <1>1, <1>7, LessenKeepsQueued
<1>. QED
  BY <1>3, <1>4, <1>5, <1>6, <1>7, Zenon DEF OneCall

----------------------------------------------------------------------------
(* The theorems                                                             *)

LEMMA InitSound ==
    ASSUME BookInit
    PROVE  Sound(book) /\ result \in Results
<1>. DEFINE orders == [id \in OrderIds |-> Absent]
            empty == [total |-> 0, ids |-> <<>>]
            level == [s \in Sides |-> [i \in LevelIndex |-> empty]]
<1>1. book = [orders |-> orders, level |-> level, best |-> Nobody] /\ result = "Ok"
  BY DEF BookInit, EmptyBook
<1>2. orders \in [OrderIds -> Order \cup {Absent}] /\ \A x \in OrderIds : orders[x] = Absent
  OBVIOUS
<1>3. empty \in Level /\ Len(empty.ids) = 0
  BY Constants DEF Level, Amounts
<1>4. Nobody \in [Sides -> 0..(MaxPrice + 1)]
  BY Constants DEF Nobody
<1>. HIDE DEF orders, empty
<1>5. level \in Levels /\ \A s \in Sides, i \in LevelIndex : level[s][i] = empty
  BY <1>3 DEF Levels
<1>. HIDE DEF level
<1>6. book \in Books
  BY <1>1, <1>2, <1>4, <1>5 DEF Books, Levels, Level
<1>7. QueuesSound(book)
  BY <1>1, <1>3, <1>5 DEF QueuesSound
<1>8. MapSound(book)
  <2>1. \A x \in OrderIds : ~Found(book, x)
    BY <1>1, <1>2 DEF Found
  <2>2. Resting(book) = {}
    BY <2>1 DEF Resting
  <2>3. Cardinality(Resting(book)) = 0
    BY <2>2, FS_EmptySet
  <2>. QED
    BY <2>1, <2>3, Constants, BookAssumption DEF MapSound
<1>9. TotalsSound(book)
  <2>1. SUFFICES ASSUME NEW s \in Sides, NEW i \in LevelIndex
                 PROVE  book.level[s][i].total = QuantityAt(book, s, i) % Word
    BY Zenon DEF TotalsSound
  <2>2. RestingAt(book, s, i) = {}
    BY <1>1, <1>2 DEF RestingAt, RestsAt, Found
  <2>3. QuantityAt(book, s, i) = 0
    BY <2>2, SumOfNone, Zenon DEF QuantityAt
  <2>4. book.level[s][i].total = 0
    BY <1>1, <1>5 DEF empty
  <2>5. 0 % Word = 0
    BY Constants
  <2>. QED
    BY <2>3, <2>4, <2>5
<1>. QED
  BY <1>1, <1>6, <1>7, <1>8, <1>9 DEF Sound, Results

LEMMA NextSound ==
    ASSUME Sound(book), result \in Results, BookNext
    PROVE  Sound(book)' /\ (result \in Results)' /\ (result' # "Ok" => book' = book)
<1>1. PICK id \in OrderIds :
         \/ CancelOrder(id)
         \/ \E quantity \in Quantities :
               \/ ReduceOrder(id, quantity)
               \/ \E price \in InputPrices :
                     \/ ModifyOrder(id, price, quantity)
                     \/ \E side \in Sides : InsertOrder(id, price, quantity, side)
  BY Zenon DEF BookNext
<1>2. CASE CancelOrder(id)
  <2>1. result' = CancelResult(book, id) /\ book' = Cancel(book, id)
    BY <1>2 DEF CancelOrder
  <2>2. Sound(Cancel(book, id)) /\ CancelResult(book, id) \in Results
    BY CancelSound
  <2>3. CancelResult(book, id) # "Ok" => Cancel(book, id) = book
    BY DEF CancelResult, Cancel
  <2>. QED
    BY <2>1, <2>2, <2>3 DEF Sound
<1>3. ASSUME NEW quantity \in Quantities, ReduceOrder(id, quantity)
      PROVE  Sound(book)' /\ (result \in Results)' /\ (result' # "Ok" => book' = book)
  <2>1. result' = CancelResult(book, id) /\ book' = Reduce(book, id, quantity)
    BY <1>3 DEF ReduceOrder
  <2>2. Sound(Reduce(book, id, quantity))
    BY ReduceSound, BookAssumption
  <2>3. CancelResult(book, id) \in Results
    BY CancelSound
  <2>4. CancelResult(book, id) # "Ok" => Reduce(book, id, quantity) = book
    BY DEF CancelResult, Reduce
  <2>. QED
    BY <2>1, <2>2, <2>3, <2>4 DEF Sound
<1>4. ASSUME NEW quantity \in Quantities, NEW price \in InputPrices,
             ModifyOrder(id, price, quantity)
      PROVE  Sound(book)' /\ (result \in Results)' /\ (result' # "Ok" => book' = book)
  <2>1. /\ result' = ModifyResult(book, id, price, quantity)
        /\ book' = Modify(book, id, price, quantity)
    BY <1>4 DEF ModifyOrder
  <2>2. /\ Sound(Modify(book, id, price, quantity))
        /\ ModifyResult(book, id, price, quantity) \in Results
        /\ ModifyResult(book, id, price, quantity) # "Ok"
             => Modify(book, id, price, quantity) = book
    BY ModifySound, BookAssumption
  <2>. QED
    BY <2>1, <2>2 DEF Sound
<1>5. ASSUME NEW quantity \in Quantities, NEW price \in InputPrices, NEW side \in Sides,
             InsertOrder(id, price, quantity, side)
      PROVE  Sound(book)' /\ (result \in Results)' /\ (result' # "Ok" => book' = book)
  <2>. DEFINE order == [price |-> price, quantity |-> quantity, side |-> side]
  <2>1. /\ result' = InsertResult(book, id, order)
        /\ book' = Insert(book, id, order)
    BY <1>5 DEF InsertOrder
  <2>2. Sound(Insert(book, id, order)) /\ InsertResult(book, id, order) \in Results
    BY InsertSound, BookAssumption
  <2>. HIDE DEF order
  <2>3. InsertResult(book, id, order) # "Ok" => Insert(book, id, order) = book
    BY DEF Insert
  <2>. QED
    BY <2>1, <2>2, <2>3 DEF Sound
<1>. QED
  BY <1>1, <1>2, <1>3, <1>4, <1>5

LEMMA InitFigures ==
    ASSUME BookInit, NEW Q
    PROVE  BestSound(book) /\ QuantitiesIn(book, Q) /\ AllQueued(book)
<1>1. \A x \in OrderIds : ~Found(book, x)
  BY DEF BookInit, EmptyBook, Found
<1>2. \A s \in Sides : ~HasBest(book, s) /\ book.best[s] = Nobody[s]
  BY Constants DEF BookInit, EmptyBook, Nobody, HasBest, Prices
<1>. QED
  BY <1>1, <1>2, Zenon DEF BestSound, QuantitiesIn, AllQueued, RestsAt

LEMMA BestByDefinition ==
    BestSound(book) => BestPriceExact
<1>. SUFFICES ASSUME BestSound(book), NEW s \in Sides
              PROVE  LET resting == {id \in OrderIds : Found(book, id) /\ book.orders[id].side = s}
                     IN  /\ HasBest(book, s) =>
                              \E id \in resting : book.orders[id].price = book.best[s]
                         /\ \A id \in resting :
                              book.orders[id].quantity > 0 =>
                                 ~Better(s, book.orders[id].price, book.best[s])
  BY Zenon DEF BestPriceExact
<1>1. /\ HasBest(book, s) =>
           \E x \in OrderIds :
              Found(book, x) /\ book.orders[x].side = s /\ book.orders[x].price = book.best[s]
      /\ \A x \in OrderIds :
           Found(book, x) /\ book.orders[x].side = s /\ book.orders[x].quantity > 0 =>
              ~Better(s, book.orders[x].price, book.best[s])
  BY Zenon DEF BestSound
<1>. QED
  BY <1>1, Zenon

BookInv == Sound(book) /\ result \in Results

\* The inductive invariant: the C++ types, the FIFOs' agreement with the map,
\* and the map's agreement with its own limits.
THEOREM BookSound == BookSpec => []BookInv
<1>1. BookInit => BookInv
  BY InitSound DEF BookInv
<1>2. BookInv /\ [BookNext]_bookVars => BookInv'
  <2>1. CASE BookNext
    BY <2>1, NextSound DEF BookInv
  <2>2. CASE UNCHANGED bookVars
    BY <2>2 DEF BookInv, bookVars, Sound
  <2>. QED
    BY <2>1, <2>2
<1>. QED
  BY <1>1, <1>2, PTL DEF BookSpec

\* Every reachable book is a book: prices, totals and best prices stay within
\* their ranges whatever the calls were.
THEOREM BookTypeCorrect == BookSpec => []BookTypeOK
<1>1. BookInv => BookTypeOK
  BY DEF BookInv, Sound, BookTypeOK
<1>. QED
  BY <1>1, BookSound, PTL

\* No FIFO ever names an order the map has forgotten, holds elsewhere, or
\* holds twice: a level never grows stale through cancel, reduce or modify.
THEOREM QueuesNeverStale == BookSpec => []QueuedOrdersRest
<1>1. BookInv => QueuedOrdersRest
  BY DEF BookInv, Sound, QueuedOrdersRest
<1>. QED
  BY <1>1, BookSound, PTL

\* The cached total of every level is the sum over the orders the map holds at
\* it, modulo the word size, also where orders found their level full and where
\* the sum has wrapped around.
THEOREM TotalsExact == BookSpec => []TotalsAgree
<1>1. BookInv => TotalsAgree
  BY Zenon DEF BookInv, Sound, TotalsSound, TotalsAgree
<1>. QED
  BY <1>1, BookSound, PTL

\* A refused call changes nothing.  For modify this needs the invariant: after
\* the order is out, the map accepts its id again, so the insert cannot fail
\* half way.
THEOREM RefusalsAreClean == BookSpec => RefusalLeavesBook
<1>1. BookInv /\ [BookNext]_bookVars => [result' # "Ok" => book' = book]_bookVars
  <2>1. CASE BookNext
    BY <2>1, NextSound DEF BookInv
  <2>2. CASE UNCHANGED bookVars
    BY <2>2
  <2>. QED
    BY <2>1, <2>2
<1>. QED
  BY <1>1, BookSound, PTL DEF BookSpec, RefusalLeavesBook

\* Time priority: one call moves at most one order within a FIFO, and only to
\* its end, also when modify takes the order out and inserts it again at the
\* price it had.
THEOREM TimePriorityKept == BookSpec => QueueOrderKept
<1>. DEFINE SameOrder ==
        \A s \in Sides, i \in LevelIndex :
          LET old == book.level[s][i].ids
              new == book'.level[s][i].ids
          IN  \/ new = old
              \/ \E id \in OrderIds :
                    /\ RemoveFirst(new, id) = RemoveFirst(old, id)
                    /\ Contains(new, id) => Last(new) = id
<1>1. BookInv /\ [BookNext]_bookVars => [SameOrder]_bookVars
  <2>1. ASSUME BookInv, BookNext PROVE SameOrder
    <3>1. PICK id \in OrderIds : OthersKept(book, book', id)
      BY <2>1, NextKeepsOthers DEF BookInv
    <3>. QED
      BY <3>1, Zenon DEF OthersKept, Kept
  <2>. QED
    BY <2>1
<1>. QED
  BY <1>1, BookSound, PTL DEF BookSpec, QueueOrderKept

TotalsFit == LevelsFit(book)
RoomForAll == LevelsHaveRoom(book)

\* With one price to a level, and as long as no total has wrapped around, the
\* cached best price is the best price: the rescan after a removal stops at
\* the first level that still has quantity, and never before it.
THEOREM BestPriceAlwaysExact ==
    ASSUME TickSize = 1
    PROVE  BookSpec /\ []TotalsFit => []BestPriceExact
<1>. DEFINE Inv == BookInv /\ BestSound(book)
<1>1. BookInit => Inv
  BY InitSound, InitFigures, Zenon DEF BookInv
<1>2. Inv /\ TotalsFit /\ [BookNext]_bookVars => Inv'
  <2>1. ASSUME Inv, TotalsFit, BookNext
        PROVE  Inv'
    <3>1. Sound(book) /\ BestSound(book) /\ LevelsFit(book)
      BY <2>1 DEF BookInv, TotalsFit
    <3>2. OneCall(book, book', Quantities)
      BY <2>1, <3>1, NextCall
    <3>3. BestSound(book')
      BY <3>1, <3>2, CallKeepsBest
    <3>4. BestSound(book)'
      BY <3>3 DEF BestSound, HasBest, Found
    <3>5. BookInv'
      BY <2>1, NextSound DEF BookInv
    <3>. QED
      BY <3>4, <3>5
  <2>2. ASSUME Inv, UNCHANGED bookVars
        PROVE  Inv'
    BY <2>2 DEF BookInv, bookVars, Sound, BestSound, HasBest, Found
  <2>. QED
    BY <2>1, <2>2
<1>3. Inv => BestPriceExact
  BY BestByDefinition
<1>. QED
  BY <1>1, <1>2, <1>3, PTL DEF BookSpec

\* No total wraps around when the map's limit and the largest quantity leave
\* it no way to: the totals then are the sums themselves.
THEOREM TotalsNeverWrap ==
    ASSUME NEW most \in Nat, Quantities \subseteq 0..most, MaxOrders * most < Word
    PROVE  BookSpec => []TotalsFit
<1>. DEFINE Inv == BookInv /\ QuantitiesIn(book, 0..most)
<1>1. BookInit => Inv
  BY InitSound, InitFigures, Zenon DEF BookInv
<1>2. Inv /\ [BookNext]_bookVars => Inv'
  <2>1. ASSUME Inv, BookNext
        PROVE  Inv'
    <3>. DEFINE Q == 0..most
    <3>1. Sound(book) /\ QuantitiesIn(book, Q)
      BY <2>1 DEF BookInv
    <3>2. OneCall(book, book', Q)
      <4>1. OneCall(book, book', Quantities)
        BY <2>1, <3>1, NextCall
      <4>. HIDE DEF Q
      <4>. QED
        BY <4>1, Zenon DEF OneCall, Q
    <3>3. \A q \in Q \cap Nat : 1..q \subseteq Q
      OBVIOUS
    <3>. HIDE DEF Q
    <3>4. QuantitiesIn(book', Q)
      BY <3>1, <3>2, <3>3, CallKeepsQuantitiesIn
    <3>5. QuantitiesIn(book, Q)'
      BY <3>4 DEF QuantitiesIn, Found, Q
    <3>6. BookInv'
      BY <2>1, NextSound DEF BookInv
    <3>. QED
      BY <3>5, <3>6 DEF Q
  <2>2. ASSUME Inv, UNCHANGED bookVars
        PROVE  Inv'
    BY <2>2 DEF BookInv, bookVars, Sound, QuantitiesIn, Found
  <2>. QED
    BY <2>1, <2>2
<1>3. Inv => TotalsFit
  BY BoundedLevelsFit DEF BookInv, TotalsFit
<1>. QED
  BY <1>1, <1>2, <1>3, PTL DEF BookSpec

\* The best price again, from the constants alone.
THEOREM BestPriceExactWithinBounds ==
    ASSUME TickSize = 1,
           NEW most \in Nat, Quantities \subseteq 0..most, MaxOrders * most < Word
    PROVE  BookSpec => []BestPriceExact
BY BestPriceAlwaysExact, TotalsNeverWrap, PTL

\* An order can only be out of reach of matching when its level was asked to
\* hold more orders than its FIFO has slots: while none is, every order of the
\* map waits in the FIFO of its level.
THEOREM OrdersReachable ==
    BookSpec /\ []RoomForAll => []RestingOrdersQueued
<1>. DEFINE Inv == BookInv /\ AllQueued(book)
<1>1. BookInit => Inv
  BY InitSound, InitFigures, Zenon DEF BookInv
<1>2. Inv /\ RoomForAll' /\ [BookNext]_bookVars => Inv'
  <2>1. ASSUME Inv, RoomForAll', BookNext
        PROVE  Inv'
    <3>1. Sound(book) /\ AllQueued(book)
      BY <2>1 DEF BookInv
    <3>2. LevelsHaveRoom(book')
      BY <2>1 DEF RoomForAll, LevelsHaveRoom, RestingAt, RestsAt, Found
    <3>3. OneCall(book, book', Quantities)
      BY <2>1, <3>1, NextCall
    <3>4. AllQueued(book')
      BY <3>1, <3>2, <3>3, CallKeepsQueued
    <3>5. AllQueued(book)'
      BY <3>4 DEF AllQueued, RestsAt, Found
    <3>6. BookInv'
      BY <2>1, NextSound DEF BookInv
    <3>. QED
      BY <3>5, <3>6
  <2>2. ASSUME Inv, UNCHANGED bookVars
        PROVE  Inv'
    BY <2>2 DEF BookInv, bookVars, Sound, AllQueued, RestsAt, Found
  <2>. QED
    BY <2>1, <2>2
<1>3. Inv => RestingOrdersQueued
  BY QueuedByElems DEF RestingOrdersQueued, BookInv, Sound
<1>. QED
  BY <1>1, <1>2, <1>3, PTL DEF BookSpec
=============================================================================
