----------------------------- MODULE DataProofs -----------------------------
(***************************************************************************)
(* Facts about data that the proofs of several components need: induction  *)
(* with the property as a set, sums over finite sets, and the existence of *)
(* functions defined by recursion.                                         *)
(***************************************************************************)
EXTENDS Integers, Functions, FiniteSetTheorems, WellFoundedInduction, TLAPS

-----------------------------------------------------------------------------
(* Induction, with the property as a set, so that the provers can use it.  *)

\* Every non-empty set of natural numbers has a least member.
LEMMA LeastNatural ==
    ASSUME NEW S \in SUBSET Nat, S # {}
    PROVE  \E n \in S : \A m \in S : n <= m
<1> DEFINE R == OpToRel(<, Nat)
<1>1. \E n \in S : \A m \in S : ~(<<m, n>> \in R)
  <2>1. IsWellFoundedOn(R, Nat)
    BY NatLessThanWellFounded
  <2> HIDE DEF R
  <2> QED BY <2>1, WFMin
<1>2. PICK n \in S : \A m \in S : ~(<<m, n>> \in R)
  BY <1>1
<1>3. ASSUME NEW m \in S PROVE n <= m
  <2>1. ~(m < n)
    BY <1>2 DEF OpToRel
  <2> QED BY <2>1
<1> QED BY <1>3

\* Induction over the natural numbers.
LEMMA NaturalInduction ==
    ASSUME NEW T, 0 \in T, \A n \in Nat : n \in T => n + 1 \in T
    PROVE  Nat \subseteq T
<1> SUFFICES ASSUME Nat \ T # {} PROVE FALSE
  OBVIOUS
<1>1. PICK n \in Nat \ T : \A m \in Nat \ T : n <= m
  BY LeastNatural
<1>2. n # 0 /\ n - 1 \in Nat /\ n - 1 + 1 = n
  BY <1>1
<1>3. n - 1 \in T
  BY <1>1, <1>2
<1> QED BY <1>1, <1>2, <1>3

\* Course-of-values induction.
LEMMA StrongInduction ==
    ASSUME NEW T, \A n \in Nat : (\A m \in 0..(n - 1) : m \in T) => n \in T
    PROVE  Nat \subseteq T
<1> SUFFICES ASSUME Nat \ T # {} PROVE FALSE
  OBVIOUS
<1>1. PICK n \in Nat \ T : \A m \in Nat \ T : n <= m
  BY LeastNatural
<1>2. \A m \in 0..(n - 1) : m \in T
  BY <1>1
<1> QED BY <1>1, <1>2

\* Induction over the subsets of a finite set, one element at a time.
LEMMA SubsetInduction ==
    ASSUME NEW S, IsFiniteSet(S), NEW T, {} \in T,
           \A s \in SUBSET S : \A x \in S \ s : s \in T => s \cup {x} \in T
    PROVE  SUBSET S \subseteq T
<1> DEFINE P == {n \in Nat : \A s \in SUBSET S : Cardinality(s) = n => s \in T}
<1>1. \A s \in SUBSET S : IsFiniteSet(s) /\ Cardinality(s) \in Nat
  BY FS_Subset, FS_CardinalityType
<1>2. 0 \in P
  BY <1>1, FS_EmptySet
<1>3. ASSUME NEW n \in Nat, n \in P PROVE n + 1 \in P
  <2> SUFFICES ASSUME NEW s \in SUBSET S, Cardinality(s) = n + 1 PROVE s \in T
    OBVIOUS
  <2>1. s # {} /\ IsFiniteSet(s)
    <3>1. Cardinality({}) = 0 /\ n + 1 # 0
      BY FS_EmptySet
    <3> QED BY <3>1, <1>1
  <2>2. PICK x : x \in s
    BY <2>1
  <2> DEFINE r == s \ {x}
  <2>3. r \in SUBSET S /\ x \in S \ r /\ r \cup {x} = s
    BY <2>2
  <2>4. Cardinality(r) = n
    <3>1. Cardinality(r) = Cardinality(s) - 1
      BY <2>1, <2>2, FS_RemoveElement
    <3> QED BY <3>1
  <2>5. r \in T
    BY <1>3, <2>3, <2>4
  <2> HIDE DEF r
  <2> QED BY <2>3, <2>5
<1>4. Nat \subseteq P
  <2> HIDE DEF P
  <2> QED BY <1>2, <1>3, NaturalInduction
<1> QED BY <1>1, <1>4

-----------------------------------------------------------------------------
(* Sums of a function over a finite set.                                   *)

\* The element a sum takes first.
First(s) == CHOOSE x \in s : TRUE

\* The equation the library defines a sum by, and the function it chooses.
SumStep(f, S, g) ==
    [s \in SUBSET S |-> IF s = {} THEN 0 ELSE f[First(s)] + g[s \ {First(s)}]]
SumTable(f, S) == CHOOSE g : g = SumStep(f, S, g)

LEMMA SumUnfolded ==
    ASSUME NEW f, NEW S PROVE SumFunctionOnSet(f, S) = SumTable(f, S)[S]
BY DEF SumFunctionOnSet, FoldFunctionOnSet, MapThenFoldSet, SumTable, SumStep, First

LEMMA FirstIn ==
    ASSUME NEW S, IsFiniteSet(S)
    PROVE  \A s \in SUBSET S : s # {} =>
              /\ First(s) \in s /\ First(s) \in S /\ s \ {First(s)} \in SUBSET S
              /\ Cardinality(s) \in Nat /\ Cardinality(s \ {First(s)}) = Cardinality(s) - 1
<1> SUFFICES ASSUME NEW s \in SUBSET S, s # {}
             PROVE  /\ First(s) \in s
                    /\ Cardinality(s) \in Nat
                    /\ Cardinality(s \ {First(s)}) = Cardinality(s) - 1
  OBVIOUS
<1>1. First(s) \in s
  BY DEF First
<1>2. IsFiniteSet(s)
  BY FS_Subset
<1> QED BY <1>1, <1>2, FS_CardinalityType, FS_RemoveElement

\* The equation has a solution.
LEMMA SumTableExists ==
    ASSUME NEW S, IsFiniteSet(S), NEW f, \A x \in S : f[x] \in Int
    PROVE  SumTable(f, S) = SumStep(f, S, SumTable(f, S))
<1> DEFINE Upto(n, g) == \A s \in SUBSET S :
                            Cardinality(s) <= n => g[s] = SumStep(f, S, g)[s]
           T == {n \in Nat : \E g \in [SUBSET S -> Int] : Upto(n, g)}
<1>1. \A s \in SUBSET S : IsFiniteSet(s) /\ Cardinality(s) \in Nat
  BY FS_Subset, FS_CardinalityType
<1>2. \A g \in [SUBSET S -> Int] : SumStep(f, S, g) \in [SUBSET S -> Int]
  <2> SUFFICES ASSUME NEW g \in [SUBSET S -> Int], NEW s \in SUBSET S
               PROVE  (IF s = {} THEN 0 ELSE f[First(s)] + g[s \ {First(s)}]) \in Int
    BY DEF SumStep
  <2> QED BY FirstIn
<1>3. \A g, s : s \in SUBSET S =>
        SumStep(f, S, g)[s] = IF s = {} THEN 0 ELSE f[First(s)] + g[s \ {First(s)}]
  BY DEF SumStep
<1>4. 0 \in T
  <2> DEFINE g == [s \in SUBSET S |-> 0]
  <2>1. g \in [SUBSET S -> Int]
    OBVIOUS
  <2>2. ASSUME NEW s \in SUBSET S, Cardinality(s) <= 0 PROVE g[s] = SumStep(f, S, g)[s]
    <3>1. s = {}
      BY <1>1, <2>2, FS_EmptySet
    <3> QED BY <3>1, <1>3
  <2> QED BY <2>1, <2>2
<1>5. ASSUME NEW n \in Nat, n \in T PROVE n + 1 \in T
  <2> PICK g \in [SUBSET S -> Int] : Upto(n, g)
    BY <1>5
  <2> DEFINE h == SumStep(f, S, g)
  <2>1. h \in [SUBSET S -> Int]
    BY <1>2
  <2>2. ASSUME NEW s \in SUBSET S, Cardinality(s) <= n + 1
        PROVE  h[s] = SumStep(f, S, h)[s]
    <3>1. CASE s = {}
      BY <3>1, <1>3
    <3>2. CASE s # {}
      <4> DEFINE r == s \ {First(s)}
      <4>1. r \in SUBSET S /\ Cardinality(r) <= n
        BY <3>2, <2>2, FirstIn
      <4>2. g[r] = h[r]
        BY <4>1
      <4>3. h[s] = f[First(s)] + g[r] /\ SumStep(f, S, h)[s] = f[First(s)] + h[r]
        BY <3>2, <1>3
      <4> QED BY <4>2, <4>3
    <3> QED BY <3>1, <3>2
  <2> QED BY <2>1, <2>2
<1>6. PICK g \in [SUBSET S -> Int] : Upto(Cardinality(S), g)
  <2>1. Nat \subseteq T
    <3> HIDE DEF T
    <3> QED BY <1>4, <1>5, NaturalInduction
  <2> QED BY <2>1, <1>1
<1>7. g = SumStep(f, S, g)
  <2> DEFINE h == SumStep(f, S, g)
  <2>1. \A s \in SUBSET S : g[s] = h[s]
    BY <1>6, FS_Subset
  <2>2. h \in [SUBSET S -> Int]
    BY <1>2
  <2> HIDE DEF h
  <2>3. g = h
    BY <2>1, <2>2
  <2> QED BY <2>3 DEF h
<1> HIDE DEF Upto, T
<1> QED BY <1>7 DEF SumTable

\* What a table says of a set does not depend on the table.
LEMMA SumTableOfSubset ==
    ASSUME NEW S, IsFiniteSet(S), NEW f, \A x \in S : f[x] \in Int
    PROVE  \A t \in SUBSET S : SumTable(f, S)[t] = SumFunctionOnSet(f, t)
<1> SUFFICES ASSUME NEW t \in SUBSET S
             PROVE  SumTable(f, S)[t] = SumTable(f, t)[t]
  BY SumUnfolded
<1> DEFINE g == SumTable(f, S)
           h == SumTable(f, t)
           P == {n \in Nat : \A s \in SUBSET t : Cardinality(s) <= n => g[s] = h[s]}
<1>1. IsFiniteSet(t)
  BY FS_Subset
<1>2. g = SumStep(f, S, g) /\ h = SumStep(f, t, h)
  BY <1>1, SumTableExists
<1> HIDE DEF g, h
<1>3. \A s \in SUBSET t :
        /\ g[s] = IF s = {} THEN 0 ELSE f[First(s)] + g[s \ {First(s)}]
        /\ h[s] = IF s = {} THEN 0 ELSE f[First(s)] + h[s \ {First(s)}]
  <2>1. \A s \in SUBSET S : SumStep(f, S, g)[s] = IF s = {} THEN 0 ELSE f[First(s)] + g[s \ {First(s)}]
    BY DEF SumStep
  <2>2. \A s \in SUBSET t : SumStep(f, t, h)[s] = IF s = {} THEN 0 ELSE f[First(s)] + h[s \ {First(s)}]
    BY DEF SumStep
  <2>3. \A s \in SUBSET t : s \in SUBSET S
    OBVIOUS
  <2> QED BY <1>2, <2>1, <2>2, <2>3
<1>4. 0 \in P
  <2> SUFFICES ASSUME NEW s \in SUBSET t, Cardinality(s) <= 0 PROVE g[s] = h[s]
    OBVIOUS
  <2>1. s = {}
    BY <1>1, FS_Subset, FS_CardinalityType, FS_EmptySet
  <2> QED BY <2>1, <1>3
<1>5. ASSUME NEW n \in Nat, n \in P PROVE n + 1 \in P
  <2> SUFFICES ASSUME NEW s \in SUBSET t, Cardinality(s) <= n + 1 PROVE g[s] = h[s]
    OBVIOUS
  <2>1. CASE s = {}
    BY <2>1, <1>3
  <2>2. CASE s # {}
    <3>1. s \ {First(s)} \in SUBSET t /\ Cardinality(s \ {First(s)}) <= n
      BY <2>2, <1>1, FirstIn
    <3>2. g[s \ {First(s)}] = h[s \ {First(s)}]
      BY <3>1, <1>5
    <3> QED BY <2>2, <3>2, <1>3
  <2> QED BY <2>1, <2>2
<1>6. Nat \subseteq P
  <2> HIDE DEF P
  <2> QED BY <1>4, <1>5, NaturalInduction
<1>7. Cardinality(t) \in Nat
  BY <1>1, FS_CardinalityType
<1> QED BY <1>6, <1>7 DEF g, h

\* The sum of nothing.
LEMMA SumEmpty == ASSUME NEW f PROVE SumFunctionOnSet(f, {}) = 0
<1>1. SumTable(f, {}) = SumStep(f, {}, SumTable(f, {}))
  BY FS_EmptySet, SumTableExists
<1>2. SumStep(f, {}, SumTable(f, {}))[{}] = 0
  BY DEF SumStep
<1> QED BY <1>1, <1>2, SumUnfolded

\* A sum takes its first element.
LEMMA SumFirst ==
    ASSUME NEW S, IsFiniteSet(S), S # {}, NEW f, \A x \in S : f[x] \in Int
    PROVE  SumFunctionOnSet(f, S) = f[First(S)] + SumFunctionOnSet(f, S \ {First(S)})
<1> DEFINE g == SumTable(f, S)
<1>1. g = SumStep(f, S, g)
  BY SumTableExists
<1> HIDE DEF g
<1>2. SumStep(f, S, g)[S] = f[First(S)] + g[S \ {First(S)}]
  BY DEF SumStep
<1>3. g[S] = SumFunctionOnSet(f, S) /\ g[S \ {First(S)}] = SumFunctionOnSet(f, S \ {First(S)})
  BY SumTableOfSubset DEF g
<1> QED BY <1>1, <1>2, <1>3

\* The sum of integers is an integer, of naturals a natural.
LEMMA SumType ==
    ASSUME NEW S, IsFiniteSet(S), NEW f, \A x \in S : f[x] \in Int
    PROVE  /\ SumFunctionOnSet(f, S) \in Int
           /\ (\A x \in S : f[x] >= 0) => SumFunctionOnSet(f, S) >= 0
<1> DEFINE P == {n \in Nat : \A s \in SUBSET S : Cardinality(s) = n =>
                    /\ SumFunctionOnSet(f, s) \in Int
                    /\ (\A x \in S : f[x] >= 0) => SumFunctionOnSet(f, s) >= 0}
<1>1. \A s \in SUBSET S : IsFiniteSet(s) /\ Cardinality(s) \in Nat
  BY FS_Subset, FS_CardinalityType
<1>2. 0 \in P
  BY <1>1, FS_EmptySet, SumEmpty
<1>3. ASSUME NEW n \in Nat, n \in P PROVE n + 1 \in P
  <2> SUFFICES ASSUME NEW s \in SUBSET S, Cardinality(s) = n + 1
               PROVE  /\ SumFunctionOnSet(f, s) \in Int
                      /\ (\A x \in S : f[x] >= 0) => SumFunctionOnSet(f, s) >= 0
    OBVIOUS
  <2>1. s # {}
    <3>1. Cardinality({}) = 0 /\ n + 1 # 0
      BY FS_EmptySet
    <3> QED BY <3>1
  <2> DEFINE r == s \ {First(s)}
  <2>2. First(s) \in S /\ r \in SUBSET S /\ Cardinality(r) = n
    BY <2>1, FirstIn
  <2>3. SumFunctionOnSet(f, s) = f[First(s)] + SumFunctionOnSet(f, r)
    BY <1>1, <2>1, SumFirst
  <2> HIDE DEF r
  <2>4. /\ SumFunctionOnSet(f, r) \in Int
        /\ (\A x \in S : f[x] >= 0) => SumFunctionOnSet(f, r) >= 0
    BY <1>3, <2>2
  <2> QED BY <2>2, <2>3, <2>4
<1>4. Nat \subseteq P
  <2> HIDE DEF P
  <2> QED BY <1>2, <1>3, NaturalInduction
<1> QED BY <1>1, <1>4

\* A sum takes its elements in any order.
LEMMA SumTakeOut ==
    ASSUME NEW S, IsFiniteSet(S), NEW f, \A x \in S : f[x] \in Int
    PROVE  \A x \in S : SumFunctionOnSet(f, S) = f[x] + SumFunctionOnSet(f, S \ {x})
<1> DEFINE P == {n \in Nat : \A s \in SUBSET S : Cardinality(s) = n =>
                    \A x \in s : SumFunctionOnSet(f, s) = f[x] + SumFunctionOnSet(f, s \ {x})}
<1>1. \A s \in SUBSET S : IsFiniteSet(s) /\ Cardinality(s) \in Nat
  BY FS_Subset, FS_CardinalityType
<1>2. 0 \in P
  BY <1>1, FS_EmptySet
<1>3. ASSUME NEW n \in Nat, n \in P PROVE n + 1 \in P
  <2> SUFFICES ASSUME NEW s \in SUBSET S, Cardinality(s) = n + 1, NEW x \in s
               PROVE  SumFunctionOnSet(f, s) = f[x] + SumFunctionOnSet(f, s \ {x})
    OBVIOUS
  <2> DEFINE y == First(s)
             r == s \ {y}
             q == s \ {x}
             b == r \ {x}
  <2>1. y \in S /\ y \in s /\ r \in SUBSET S /\ Cardinality(r) = n
    BY FirstIn
  <2>2. SumFunctionOnSet(f, s) = f[y] + SumFunctionOnSet(f, r)
    BY <1>1, SumFirst
  <2>3. CASE x = y
    BY <2>2, <2>3
  <2>4. CASE x # y
    <3>1. SumFunctionOnSet(f, r) = f[x] + SumFunctionOnSet(f, b)
      <4>1. x \in r
        BY <2>4
      <4> QED BY <4>1, <2>1, <1>3
    <3>2. q \in SUBSET S /\ Cardinality(q) = n /\ y \in q
      <4>1. Cardinality(q) = Cardinality(s) - 1
        BY <1>1, FS_RemoveElement
      <4> QED BY <4>1, <2>1, <2>4
    <3>3. SumFunctionOnSet(f, q) = f[y] + SumFunctionOnSet(f, q \ {y})
      BY <3>2, <1>3
    <3>4. q \ {y} = b
      OBVIOUS
    <3>5. f[x] \in Int /\ f[y] \in Int /\ SumFunctionOnSet(f, b) \in Int
      <4>1. b \in SUBSET S /\ IsFiniteSet(b) /\ \A z \in b : f[z] \in Int
        BY <1>1
      <4> QED BY <4>1, <2>1, SumType
    <3> HIDE DEF y, r, q, b
    <3>6. SumFunctionOnSet(f, q) = f[y] + SumFunctionOnSet(f, b)
      BY <3>3, <3>4
    <3>7. SumFunctionOnSet(f, s) = f[x] + SumFunctionOnSet(f, q)
      BY <2>2, <3>1, <3>5, <3>6
    <3> QED BY <3>7 DEF q
  <2> QED BY <2>3, <2>4
<1>4. Nat \subseteq P
  <2> HIDE DEF P
  <2> QED BY <1>2, <1>3, NaturalInduction
<1> QED BY <1>1, <1>4

\* A sum with one element more.
LEMMA SumAdd ==
    ASSUME NEW S, IsFiniteSet(S), NEW x, x \notin S, NEW f, \A y \in S \cup {x} : f[y] \in Int
    PROVE  SumFunctionOnSet(f, S \cup {x}) = f[x] + SumFunctionOnSet(f, S)
<1>1. IsFiniteSet(S \cup {x}) /\ (S \cup {x}) \ {x} = S
  BY FS_AddElement
<1> QED BY <1>1, SumTakeOut

\* Functions that agree on a set have the same sum over it.
LEMMA SumAgree ==
    ASSUME NEW S, IsFiniteSet(S), NEW f, NEW g, \A x \in S : f[x] \in Int /\ f[x] = g[x]
    PROVE  SumFunctionOnSet(f, S) = SumFunctionOnSet(g, S)
<1> DEFINE T == {s \in SUBSET S : SumFunctionOnSet(f, s) = SumFunctionOnSet(g, s)}
<1>1. {} \in T
  BY SumEmpty
<1>2. ASSUME NEW s \in SUBSET S, NEW x \in S \ s, s \in T PROVE s \cup {x} \in T
  <2>1. IsFiniteSet(s)
    BY FS_Subset
  <2>2. /\ SumFunctionOnSet(f, s \cup {x}) = f[x] + SumFunctionOnSet(f, s)
        /\ SumFunctionOnSet(g, s \cup {x}) = g[x] + SumFunctionOnSet(g, s)
    BY <2>1, SumAdd
  <2> QED BY <1>2, <2>2
<1>3. SUBSET S \subseteq T
  <2> HIDE DEF T
  <2> QED BY <1>1, <1>2, SubsetInduction
<1> QED BY <1>3

\* A sum whose function changes at one element.
LEMMA SumChange ==
    ASSUME NEW S, IsFiniteSet(S), NEW x \in S, NEW f, NEW g,
           \A y \in S : f[y] \in Int /\ g[y] \in Int,
           \A y \in S \ {x} : f[y] = g[y]
    PROVE  SumFunctionOnSet(g, S) = SumFunctionOnSet(f, S) - f[x] + g[x]
<1> DEFINE r == S \ {x}
<1>1. IsFiniteSet(r)
  BY FS_RemoveElement
<1>2. /\ SumFunctionOnSet(f, S) = f[x] + SumFunctionOnSet(f, r)
      /\ SumFunctionOnSet(g, S) = g[x] + SumFunctionOnSet(g, r)
  BY SumTakeOut
<1>3. SumFunctionOnSet(f, r) = SumFunctionOnSet(g, r) /\ SumFunctionOnSet(f, r) \in Int
  BY <1>1, SumAgree, SumType
<1> HIDE DEF r
<1> QED BY <1>2, <1>3

\* A sum of zeros.
LEMMA SumZero ==
    ASSUME NEW S, IsFiniteSet(S), NEW f, \A x \in S : f[x] = 0
    PROVE  SumFunctionOnSet(f, S) = 0
<1> DEFINE T == {s \in SUBSET S : SumFunctionOnSet(f, s) = 0}
<1>1. {} \in T
  BY SumEmpty
<1>2. ASSUME NEW s \in SUBSET S, NEW x \in S \ s, s \in T PROVE s \cup {x} \in T
  <2>1. IsFiniteSet(s)
    BY FS_Subset
  <2>2. SumFunctionOnSet(f, s \cup {x}) = f[x] + SumFunctionOnSet(f, s)
    <3>1. \A y \in s \cup {x} : f[y] \in Int
      OBVIOUS
    <3> QED BY <2>1, <3>1, SumAdd
  <2> QED BY <1>2, <2>2
<1>3. SUBSET S \subseteq T
  <2> HIDE DEF T
  <2> QED BY <1>1, <1>2, SubsetInduction
<1> QED BY <1>3

\* A sum of ones counts.
LEMMA SumCounts ==
    ASSUME NEW S, IsFiniteSet(S), NEW f, \A x \in S : f[x] = 1
    PROVE  SumFunctionOnSet(f, S) = Cardinality(S)
<1> DEFINE T == {s \in SUBSET S : SumFunctionOnSet(f, s) = Cardinality(s)}
<1>1. {} \in T
  BY SumEmpty, FS_EmptySet
<1>2. ASSUME NEW s \in SUBSET S, NEW x \in S \ s, s \in T PROVE s \cup {x} \in T
  <2>1. IsFiniteSet(s) /\ Cardinality(s) \in Nat
    BY FS_Subset, FS_CardinalityType
  <2>2. SumFunctionOnSet(f, s \cup {x}) = f[x] + SumFunctionOnSet(f, s)
    <3>1. \A y \in s \cup {x} : f[y] \in Int
      OBVIOUS
    <3> QED BY <2>1, <3>1, SumAdd
  <2>3. Cardinality(s \cup {x}) = Cardinality(s) + 1
    BY <2>1, FS_AddElement
  <2> QED BY <1>2, <2>1, <2>2, <2>3
<1>3. SUBSET S \subseteq T
  <2> HIDE DEF T
  <2> QED BY <1>1, <1>2, SubsetInduction
<1> QED BY <1>3

\* The elements of s whose key is a.
Group(k, s, a) == {x \in s : k[x] = a}
GroupSums(f, k, s, A) == [a \in A |-> SumFunctionOnSet(f, Group(k, s, a))]

\* A sum over a set is the sum of the sums over its groups.
LEMMA SumGrouped ==
    ASSUME NEW S, IsFiniteSet(S), NEW A, IsFiniteSet(A), NEW k \in [S -> A],
           NEW f, \A x \in S : f[x] \in Int
    PROVE  SumFunctionOnSet(f, S) = SumFunctionOnSet(GroupSums(f, k, S, A), A)
<1> DEFINE G(s) == [a \in A |-> SumFunctionOnSet(f, Group(k, s, a))]
           T == {s \in SUBSET S : SumFunctionOnSet(f, s) = SumFunctionOnSet(G(s), A)}
<1>1. {} \in T
  <2>1. \A a \in A : G({})[a] = 0
    BY SumEmpty DEF Group
  <2>2. SumFunctionOnSet(G({}), A) = 0
    <3> HIDE DEF G
    <3> QED BY <2>1, SumZero
  <2> QED BY <2>2, SumEmpty
<1>2. ASSUME NEW s \in SUBSET S, NEW x \in S \ s, s \in T PROVE s \cup {x} \in T
  <2> DEFINE g == G(s)
             h == G(s \cup {x})
  <2>1. IsFiniteSet(s)
    BY FS_Subset
  <2>2. \A a \in A : /\ IsFiniteSet(Group(k, s, a)) /\ Group(k, s, a) \in SUBSET S
                     /\ SumFunctionOnSet(f, Group(k, s, a)) \in Int
    <3> SUFFICES ASSUME NEW a \in A PROVE
                   /\ IsFiniteSet(Group(k, s, a)) /\ Group(k, s, a) \in SUBSET S
                   /\ SumFunctionOnSet(f, Group(k, s, a)) \in Int
      OBVIOUS
    <3>1. Group(k, s, a) \in SUBSET s /\ Group(k, s, a) \in SUBSET S
      BY DEF Group
    <3>2. IsFiniteSet(Group(k, s, a))
      BY <2>1, <3>1, FS_Subset
    <3> QED BY <3>1, <3>2, SumType
  <2>3. k[x] \in A /\ f[x] \in Int
    OBVIOUS
  <2>4. \A a \in A \ {k[x]} : Group(k, s \cup {x}, a) = Group(k, s, a)
    BY DEF Group
  <2>5. Group(k, s \cup {x}, k[x]) = Group(k, s, k[x]) \cup {x} /\ x \notin Group(k, s, k[x])
    BY DEF Group
  <2>6. SumFunctionOnSet(f, Group(k, s \cup {x}, k[x]))
          = f[x] + SumFunctionOnSet(f, Group(k, s, k[x]))
    BY <2>2, <2>3, <2>5, SumAdd
  <2>7. /\ \A a \in A : g[a] \in Int /\ h[a] \in Int
        /\ \A a \in A \ {k[x]} : g[a] = h[a]
        /\ h[k[x]] = f[x] + g[k[x]]
    <3>1. \A a \in A : g[a] = SumFunctionOnSet(f, Group(k, s, a))
                       /\ h[a] = SumFunctionOnSet(f, Group(k, s \cup {x}, a))
      OBVIOUS
    <3> HIDE DEF g, h
    <3>2. \A a \in A \ {k[x]} : g[a] = h[a]
      BY <2>4, <3>1
    <3>3. h[k[x]] = f[x] + g[k[x]]
      BY <2>3, <2>6, <3>1
    <3>4. \A a \in A : g[a] \in Int
      BY <2>2, <3>1
    <3> QED BY <2>3, <3>2, <3>3, <3>4
  <2>8. SumFunctionOnSet(f, s \cup {x}) = f[x] + SumFunctionOnSet(f, s)
    BY <2>1, SumAdd
  <2>9. SumFunctionOnSet(f, s) = SumFunctionOnSet(g, A)
    BY <1>2
  <2> HIDE DEF g, h
  <2>10. SumFunctionOnSet(h, A) = SumFunctionOnSet(g, A) - g[k[x]] + h[k[x]]
    BY <2>3, <2>7, SumChange
  <2>11. SumFunctionOnSet(g, A) \in Int
    BY <2>7, SumType
  <2>12. SumFunctionOnSet(f, s \cup {x}) = SumFunctionOnSet(h, A)
    BY <2>3, <2>7, <2>8, <2>9, <2>10, <2>11
  <2> QED BY <2>12 DEF h
<1>3. SUBSET S \subseteq T
  <2> HIDE DEF T
  <2> QED BY <1>1, <1>2, SubsetInduction
<1>4. S \in SUBSET S
  OBVIOUS
<1> QED BY <1>3, <1>4 DEF GroupSums

-----------------------------------------------------------------------------
(* Recursive functions.                                                    *)

\* f starts at e and goes on by step, up to last.
Iterates(f, last, T, e, step) ==
    /\ f \in [0..last -> T] /\ f[0] = e
    /\ \A n \in 1..last : f[n] = step[<<n, f[n - 1]>>]

\* A function defined by recursion over 0..last exists, and has its type.
LEMMA RecursionExists ==
    ASSUME NEW last \in Nat, NEW T, NEW e \in T, NEW step \in [(1..last) \X T -> T]
    PROVE  \E f : Iterates(f, last, T, e, step)
<1> DEFINE P == {m \in Nat : m <= last => \E f \in [0..last -> T] :
                    f[0] = e /\ \A n \in 1..m : f[n] = step[<<n, f[n - 1]>>]}
<1>1. 0 \in P
  <2> DEFINE f == [n \in 0..last |-> e]
  <2>1. f \in [0..last -> T] /\ f[0] = e
    OBVIOUS
  <2>2. \A n \in 1..0 : f[n] = step[<<n, f[n - 1]>>]
    OBVIOUS
  <2> HIDE DEF f
  <2> QED BY <2>1, <2>2
<1>2. ASSUME NEW m \in Nat, m \in P PROVE m + 1 \in P
  <2> SUFFICES ASSUME m + 1 <= last
               PROVE  \E f \in [0..last -> T] :
                         f[0] = e /\ \A n \in 1..(m + 1) : f[n] = step[<<n, f[n - 1]>>]
    OBVIOUS
  <2>1. PICK f \in [0..last -> T] :
          f[0] = e /\ \A n \in 1..m : f[n] = step[<<n, f[n - 1]>>]
    BY <1>2
  <2> DEFINE v == step[<<m + 1, f[m]>>]
             g == [f EXCEPT ![m + 1] = v]
  <2>2. v \in T
    <3>1. <<m + 1, f[m]>> \in (1..last) \X T
      OBVIOUS
    <3> QED BY <3>1
  <2> HIDE DEF v
  <2>3. /\ g \in [0..last -> T] /\ g[0] = f[0] /\ g[m + 1] = v
        /\ \A n \in 0..m : g[n] = f[n]
    BY <2>2
  <2> HIDE DEF g
  <2>4. ASSUME NEW n \in 1..(m + 1) PROVE g[n] = step[<<n, g[n - 1]>>]
    <3>1. CASE n = m + 1
      <4>1. g[n - 1] = f[m] /\ n - 1 = m
        BY <2>3, <3>1
      <4> QED BY <2>3, <3>1, <4>1 DEF v
    <3>2. CASE n # m + 1
      <4>1. n \in 1..m /\ n \in 0..m /\ n - 1 \in 0..m
        BY <3>2
      <4> QED BY <2>1, <2>3, <4>1
    <3> QED BY <3>1, <3>2
  <2> QED BY <2>1, <2>3, <2>4
<1>3. Nat \subseteq P
  <2> HIDE DEF P
  <2> QED BY <1>1, <1>2, NaturalInduction
<1>4. last \in P /\ last <= last
  <2> HIDE DEF P
  <2> QED BY <1>3
<1>5. \E f \in [0..last -> T] : f[0] = e /\ \A n \in 1..last : f[n] = step[<<n, f[n - 1]>>]
  BY <1>4
<1> QED BY <1>5 DEF Iterates

-----------------------------------------------------------------------------
(* Functions defined by recursion on a measure.                             *)

\* What F makes of f at v does not depend on f beyond the measure of v, and f
\* is a function that F defines.
Descends(F, m, S, T) ==
    \A v \in S : \A f, g \in [S -> T] :
        (\A u \in S : m[u] < m[v] => f[u] = g[u]) => F[<<v, f>>] = F[<<v, g>>]
Solves(f, F, S, T) == f \in [S -> T] /\ \A v \in S : f[v] = F[<<v, f>>]

\* A function defined by recursion on a measure exists, and has its type.
LEMMA RecursionByMeasure ==
    ASSUME NEW S, NEW T, T # {}, NEW m \in [S -> Nat],
           NEW F \in [S \X [S -> T] -> T], Descends(F, m, S, T)
    PROVE  \E f : Solves(f, F, S, T)
<1> DEFINE Upto(n, f) == \A v \in S : m[v] <= n => f[v] = F[<<v, f>>]
           P == {n \in Nat : \E f \in [S -> T] : Upto(n, f)}
           Step(f) == [v \in S |-> F[<<v, f>>]]
<1>1. ASSUME NEW f \in [S -> T]
      PROVE  Step(f) \in [S -> T] /\ \A v \in S : Step(f)[v] = F[<<v, f>>]
  <2>1. \A v \in S : <<v, f>> \in S \X [S -> T]
    OBVIOUS
  <2> QED BY <2>1
<1>2. ASSUME NEW f \in [S -> T], NEW h \in [S -> T], NEW v \in S,
             \A u \in S : m[u] < m[v] => f[u] = h[u]
      PROVE  F[<<v, f>>] = F[<<v, h>>]
  BY <1>2 DEF Descends
<1> HIDE DEF Step
<1>3. 0 \in P
  <2>1. PICK t : t \in T
    OBVIOUS
  <2> DEFINE f == [v \in S |-> t]
  <2>2. f \in [S -> T]
    BY <2>1
  <2> HIDE DEF f
  <2>3. Upto(0, Step(f))
    <3> SUFFICES ASSUME NEW v \in S, m[v] <= 0 PROVE Step(f)[v] = F[<<v, Step(f)>>]
      OBVIOUS
    <3> DEFINE h == Step(f)
    <3>1. h \in [S -> T] /\ h[v] = F[<<v, f>>]
      BY <1>1, <2>2
    <3> HIDE DEF h
    <3>2. \A u \in S : ~(m[u] < m[v])
      OBVIOUS
    <3>3. F[<<v, f>>] = F[<<v, h>>]
      BY <1>2, <2>2, <3>1, <3>2
    <3>4. h[v] = F[<<v, h>>]
      BY <3>1, <3>3
    <3> QED BY <3>4 DEF h
  <2>4. Step(f) \in [S -> T]
    BY <1>1, <2>2
  <2> HIDE DEF Upto
  <2> QED BY <2>3, <2>4
<1>4. ASSUME NEW n \in Nat, n \in P PROVE n + 1 \in P
  <2>1. PICK f \in [S -> T] : Upto(n, f)
    BY <1>4
  <2>2. Upto(n + 1, Step(f))
    <3> SUFFICES ASSUME NEW v \in S, m[v] <= n + 1 PROVE Step(f)[v] = F[<<v, Step(f)>>]
      OBVIOUS
    <3> DEFINE h == Step(f)
    <3>1. h \in [S -> T] /\ \A u \in S : h[u] = F[<<u, f>>]
      BY <1>1
    <3> HIDE DEF h
    <3>2. \A u \in S : m[u] < m[v] => m[u] <= n
      OBVIOUS
    <3>3. \A u \in S : m[u] < m[v] => f[u] = h[u]
      BY <2>1, <3>1, <3>2
    <3>4. F[<<v, f>>] = F[<<v, h>>]
      BY <1>2, <3>1, <3>3
    <3>5. h[v] = F[<<v, h>>]
      BY <3>1, <3>4
    <3> QED BY <3>5 DEF h
  <2>3. Step(f) \in [S -> T]
    BY <1>1
  <2> HIDE DEF Upto
  <2> QED BY <2>2, <2>3
<1>5. \A n \in Nat : \E f \in [S -> T] : Upto(n, f)
  <2>1. Nat \subseteq P
    <3> HIDE DEF P
    <3> QED BY <1>3, <1>4, NaturalInduction
  <2> QED BY <2>1
<1> DEFINE c(n) == CHOOSE f \in [S -> T] : Upto(n, f)
           g == [v \in S |-> c(m[v])[v]]
<1>6. \A n \in Nat : c(n) \in [S -> T] /\ Upto(n, c(n))
  BY <1>5
<1> HIDE DEF c
<1>7. ASSUME NEW n \in Nat, NEW k \in Nat, NEW v \in S, m[v] <= n, m[v] <= k
      PROVE  c(n)[v] = c(k)[v]
  <2> DEFINE Q == {l \in Nat : \A u \in S : m[u] = l /\ l <= n /\ l <= k => c(n)[u] = c(k)[u]}
  <2>1. ASSUME NEW l \in Nat, \A j \in 0..(l - 1) : j \in Q PROVE l \in Q
    <3> SUFFICES ASSUME NEW u \in S, m[u] = l, l <= n, l <= k PROVE c(n)[u] = c(k)[u]
      OBVIOUS
    <3>1. \A x \in S : m[x] < m[u] => m[x] \in 0..(l - 1) /\ m[x] <= n /\ m[x] <= k
      OBVIOUS
    <3>2. \A x \in S : m[x] < m[u] => c(n)[x] = c(k)[x]
      BY <2>1, <3>1
    <3>3. c(n)[u] = F[<<u, c(n)>>] /\ c(k)[u] = F[<<u, c(k)>>]
      BY <1>6
    <3> QED BY <1>2, <1>6, <3>2, <3>3
  <2>2. Nat \subseteq Q
    <3> HIDE DEF Q
    <3> QED BY <2>1, StrongInduction
  <2>3. m[v] \in Q
    <3> HIDE DEF Q
    <3> QED BY <2>2
  <2> QED BY <1>7, <2>3
<1>8. g \in [S -> T]
  BY <1>6
<1>9. \A v \in S : g[v] = c(m[v])[v]
  OBVIOUS
<1> HIDE DEF g
<1>10. ASSUME NEW v \in S PROVE g[v] = F[<<v, g>>]
  <2>0. m[v] \in Nat /\ m[v] <= m[v]
    OBVIOUS
  <2>1. c(m[v]) \in [S -> T] /\ c(m[v])[v] = F[<<v, c(m[v])>>]
    BY <1>6, <2>0
  <2>2. \A u \in S : m[u] < m[v] => c(m[v])[u] = g[u]
    BY <1>7, <1>9
  <2> QED BY <1>2, <1>8, <1>9, <2>1, <2>2
<1> QED BY <1>8, <1>10 DEF Solves

=============================================================================
