--------------------------- MODULE BetPagesProofs ---------------------------
(***************************************************************************)
(* Proofs about BetPages: types, the bets and the requests by identifier,  *)
(* the statistics as sums over the bets, and the spinners.                 *)
(***************************************************************************)
EXTENDS BetPages, DataProofs, TLAPS

-----------------------------------------------------------------------------
(* The list of a player's bets.                                            *)

\* The equation that defines the list, over the first n bets of `s`.
HistoryStep(s, a, g) ==
    [n \in 0..Len(s) |->
        IF n = 0 THEN <<>>
        ELSE IF s[n].address = a THEN Append(g[n - 1], s[n]) ELSE g[n - 1]]
HistoryTable(s, a) == CHOOSE g : g = HistoryStep(s, a, g)

LEMMA HistoryUnfolded ==
    ASSUME NEW a PROVE History(a) = HistoryTable(bets, a)[Len(bets)]
BY DEF History, HistoryTable, HistoryStep

LEMMA HistoryTableExists ==
    ASSUME NEW s \in Seq(Bet), NEW a
    PROVE  HistoryTable(s, a) = HistoryStep(s, a, HistoryTable(s, a))
<1> DEFINE T == Seq(Bet)
           last == Len(s)
           none == <<>>
           step == [x \in (1..last) \X T |->
                       IF s[x[1]].address = a THEN Append(x[2], s[x[1]]) ELSE x[2]]
<1>1. last \in Nat /\ none \in T
  OBVIOUS
<1>2. step \in [(1..last) \X T -> T]
  <2> SUFFICES ASSUME NEW x \in (1..last) \X T
               PROVE  (IF s[x[1]].address = a THEN Append(x[2], s[x[1]]) ELSE x[2]) \in T
    OBVIOUS
  <2>1. x[1] \in 1..Len(s) /\ x[2] \in Seq(Bet)
    OBVIOUS
  <2>2. s[x[1]] \in Bet
    BY <2>1
  <2> QED BY <2>1, <2>2
<1>3. \A n \in 1..last, h \in T :
        step[<<n, h>>] = IF s[n].address = a THEN Append(h, s[n]) ELSE h
  OBVIOUS
<1> HIDE DEF step, T, last, none
<1>4. PICK f : Iterates(f, last, T, none, step)
  BY <1>1, <1>2, RecursionExists
<1>5. ASSUME NEW n \in 0..last
      PROVE  f[n] = IF n = 0 THEN <<>>
                    ELSE IF s[n].address = a THEN Append(f[n - 1], s[n]) ELSE f[n - 1]
  <2>1. CASE n = 0
    BY <1>4, <2>1 DEF none, Iterates
  <2>2. CASE n # 0
    <3>1. n \in 1..last /\ n - 1 \in 0..last
      BY <1>1, <2>2
    <3>2. f[n - 1] \in T /\ f[n] = step[<<n, f[n - 1]>>]
      BY <1>4, <3>1 DEF Iterates
    <3> QED BY <1>3, <2>2, <3>1, <3>2
  <2> QED BY <2>1, <2>2
<1>6. f = HistoryStep(s, a, f)
  BY <1>4, <1>5 DEF HistoryStep, last, Iterates
<1> QED BY <1>6 DEF HistoryTable

\* The list has the type of a list, and as many bets as the statistics count.
LEMMA HistoryFacts ==
    ASSUME bets \in Seq(Bet), NEW a
    PROVE  History(a) \in Seq(Bet) /\ Len(History(a)) = Cardinality(Of(a))
<1> DEFINE g == HistoryTable(bets, a)
           last == Len(bets)
           first(n) == {i \in 1..n : bets[i].address = a}
           P == {n \in Nat : n <= last => g[n] \in Seq(Bet) /\ Len(g[n]) = Cardinality(first(n))}
<1>1. last \in Nat /\ \A n \in 1..last : bets[n] \in Bet
  OBVIOUS
<1>2. \A n \in 0..last :
        g[n] = IF n = 0 THEN <<>>
               ELSE IF bets[n].address = a THEN Append(g[n - 1], bets[n]) ELSE g[n - 1]
  <2>1. g = HistoryStep(bets, a, g)
    BY HistoryTableExists
  <2> HIDE DEF g
  <2> QED BY <2>1 DEF HistoryStep
<1> HIDE DEF g
<1>3. 0 \in P
  <2>1. first(0) = {} /\ g[0] = <<>>
    BY <1>1, <1>2
  <2>2. Cardinality(first(0)) = 0
    BY <2>1, FS_EmptySet
  <2>3. g[0] \in Seq(Bet) /\ Len(g[0]) = 0
    BY <2>1
  <2> HIDE DEF first
  <2> QED BY <2>2, <2>3
<1>4. ASSUME NEW n \in Nat, n \in P PROVE n + 1 \in P
  <2> SUFFICES ASSUME n + 1 <= last
               PROVE  g[n + 1] \in Seq(Bet) /\ Len(g[n + 1]) = Cardinality(first(n + 1))
    OBVIOUS
  <2>1. g[n] \in Seq(Bet) /\ Len(g[n]) = Cardinality(first(n))
    BY <1>1, <1>4
  <2>2. IsFiniteSet(first(n)) /\ Cardinality(first(n)) \in Nat
    <3>1. IsFiniteSet(1..n) /\ first(n) \in SUBSET (1..n)
      BY FS_Interval
    <3> QED BY <3>1, FS_Subset, FS_CardinalityType
  <2>3. n + 1 \in 0..last /\ n + 1 \in 1..last /\ n + 1 # 0 /\ (n + 1) - 1 = n
    BY <1>1
  <2>4. g[n + 1] = IF bets[n + 1].address = a THEN Append(g[n], bets[n + 1]) ELSE g[n]
    BY <1>2, <2>3
  <2>5. 1..(n + 1) = (1..n) \cup {n + 1} /\ n + 1 \notin 1..n
    OBVIOUS
  <2>6. CASE bets[n + 1].address = a
    <3>1. first(n + 1) = first(n) \cup {n + 1} /\ n + 1 \notin first(n)
      BY <2>5, <2>6
    <3>2. Cardinality(first(n + 1)) = Cardinality(first(n)) + 1
      BY <2>2, <3>1, FS_AddElement
    <3> HIDE DEF first
    <3>3. g[n + 1] = Append(g[n], bets[n + 1]) /\ bets[n + 1] \in Bet
      BY <1>1, <2>3, <2>4, <2>6
    <3> QED BY <2>1, <3>2, <3>3
  <2>7. CASE bets[n + 1].address # a
    <3>1. first(n + 1) = first(n)
      BY <2>5, <2>7
    <3> QED BY <2>1, <2>4, <2>7, <3>1
  <2> QED BY <2>6, <2>7
<1>5. Nat \subseteq P
  <2> HIDE DEF P
  <2> QED BY <1>3, <1>4, NaturalInduction
<1>6. first(last) = Of(a)
  BY DEF Of
<1>7. g[last] \in Seq(Bet) /\ Len(g[last]) = Cardinality(first(last))
  <2>1. last \in P
    <3> HIDE DEF P, last
    <3> QED BY <1>1, <1>5
  <2>2. last <= last
    BY <1>1
  <2> HIDE DEF last, first
  <2> QED BY <2>1, <2>2
<1>8. History(a) = g[last]
  BY HistoryUnfolded DEF g
<1> HIDE DEF last, first
<1> QED BY <1>6, <1>7, <1>8

-----------------------------------------------------------------------------
(* The statistics as sums over the bets.                                   *)

LEMMA FeeBounds ==
    ASSUME NEW x \in Nat
    PROVE  Fee(x) \in Nat /\ 100 * Fee(x) <= 3 * x /\ 3 * x - 99 <= 100 * Fee(x)
BY DEF Fee

\* The fees of the bets are natural, and a bet adds its own.
LEMMA FeesGrow ==
    ASSUME NEW s \in Seq(Bet), NEW b \in Bet
    PROVE  Fees(s) \in Nat /\ Fees(Append(s, b)) = Fees(s) + Fee(b.amount)
<1> DEFINE n == Len(s)
           t == Append(s, b)
           f == [i \in DOMAIN s |-> Fee(s[i].amount)]
           g == [i \in DOMAIN t |-> Fee(t[i].amount)]
<1>1. /\ n \in Nat /\ DOMAIN s = 1..n /\ DOMAIN t = (1..n) \cup {n + 1} /\ n + 1 \notin 1..n
      /\ t[n + 1] = b /\ \A i \in 1..n : t[i] = s[i] /\ s[i] \in Bet
  OBVIOUS
<1>2. IsFiniteSet(1..n)
  BY <1>1, FS_Interval
<1>3. \A i \in 1..n : s[i].amount \in Nat /\ b.amount \in Nat
  BY <1>1 DEF Bet
<1>4. \A i \in 1..n : f[i] \in Nat /\ g[i] = f[i]
  BY <1>1, <1>3, FeeBounds
<1>5. g[n + 1] = Fee(b.amount) /\ Fee(b.amount) \in Nat
  <2>1. b.amount \in Nat
    BY DEF Bet
  <2> QED BY <1>1, <2>1, FeeBounds
<1>6. Fees(s) = SumFunctionOnSet(f, 1..n) /\ Fees(t) = SumFunctionOnSet(g, (1..n) \cup {n + 1})
  <2>1. DOMAIN f = 1..n /\ DOMAIN g = (1..n) \cup {n + 1}
    BY <1>1
  <2>2. Fees(s) = SumFunctionOnSet(f, DOMAIN f) /\ Fees(t) = SumFunctionOnSet(g, DOMAIN g)
    BY DEF Fees, SumFunction
  <2> QED BY <2>1, <2>2
<1> HIDE DEF f, g, t
<1>7. SumFunctionOnSet(g, (1..n) \cup {n + 1}) = g[n + 1] + SumFunctionOnSet(g, 1..n)
  <2>1. \A i \in (1..n) \cup {n + 1} : g[i] \in Int
    BY <1>4, <1>5
  <2> QED BY <1>1, <1>2, <2>1, SumAdd
<1>8. SumFunctionOnSet(g, 1..n) = SumFunctionOnSet(f, 1..n) /\ SumFunctionOnSet(f, 1..n) \in Nat
  <2>1. \A i \in 1..n : f[i] \in Int /\ f[i] >= 0
    BY <1>4
  <2>2. SumFunctionOnSet(f, 1..n) \in Int /\ SumFunctionOnSet(f, 1..n) >= 0
    BY <1>2, <2>1, SumType
  <2> QED BY <1>2, <1>4, <2>1, <2>2, SumAgree
<1> QED BY <1>5, <1>6, <1>7, <1>8 DEF t

\* The fees of the bets are natural.
LEMMA FeesType == ASSUME NEW s \in Seq(Bet) PROVE Fees(s) \in Nat
<1> DEFINE f == [i \in DOMAIN s |-> Fee(s[i].amount)]
<1>1. DOMAIN s = 1..Len(s) /\ Len(s) \in Nat /\ \A i \in DOMAIN s : s[i] \in Bet
  OBVIOUS
<1>2. IsFiniteSet(DOMAIN s)
  BY <1>1, FS_Interval
<1>3. \A i \in DOMAIN s : f[i] \in Int /\ f[i] >= 0
  <2>1. \A i \in DOMAIN s : s[i].amount \in Nat
    BY <1>1 DEF Bet
  <2>2. \A i \in DOMAIN s : f[i] = Fee(s[i].amount)
    OBVIOUS
  <2> HIDE DEF f
  <2>3. \A i \in DOMAIN s : f[i] \in Nat
    BY <2>1, <2>2, FeeBounds
  <2> QED BY <2>3
<1>4. Fees(s) = SumFunctionOnSet(f, DOMAIN s)
  BY DEF Fees, SumFunction
<1> HIDE DEF f
<1> QED BY <1>2, <1>3, <1>4, SumType

LEMMA FeesOfNone == Fees(<<>>) = 0
<1> DEFINE f == [i \in DOMAIN <<>> |-> Fee(<<>>[i].amount)]
<1>1. DOMAIN f = {}
  OBVIOUS
<1>2. Fees(<<>>) = SumFunctionOnSet(f, DOMAIN f)
  BY DEF Fees, SumFunction
<1> HIDE DEF f
<1> QED BY <1>1, <1>2, SumEmpty

\* What the fees of a set of bets come to, against the exact edge of 3%.
LEMMA FeesOfAmounts ==
    ASSUME NEW S, IsFiniteSet(S), NEW w, \A i \in S : w[i] \in Nat,
           NEW f, \A i \in S : f[i] = Fee(w[i])
    PROVE  /\ 100 * SumFunctionOnSet(f, S) <= 3 * SumFunctionOnSet(w, S)
           /\ 3 * SumFunctionOnSet(w, S) - 99 * Cardinality(S) <= 100 * SumFunctionOnSet(f, S)
<1> DEFINE T == {s \in SUBSET S :
                   /\ 100 * SumFunctionOnSet(f, s) <= 3 * SumFunctionOnSet(w, s)
                   /\ 3 * SumFunctionOnSet(w, s) - 99 * Cardinality(s) <= 100 * SumFunctionOnSet(f, s)}
<1>1. {} \in T
  BY SumEmpty, FS_EmptySet
<1>2. ASSUME NEW s \in SUBSET S, NEW i \in S \ s, s \in T PROVE s \cup {i} \in T
  <2>1. IsFiniteSet(s) /\ Cardinality(s) \in Nat
    BY FS_Subset, FS_CardinalityType
  <2>2. \A j \in S : w[j] \in Int /\ f[j] \in Int
    BY FeeBounds
  <2>3. \A j \in s \cup {i} : w[j] \in Int /\ f[j] \in Int
    BY <2>2
  <2>4. /\ SumFunctionOnSet(w, s \cup {i}) = w[i] + SumFunctionOnSet(w, s)
        /\ SumFunctionOnSet(f, s \cup {i}) = f[i] + SumFunctionOnSet(f, s)
    BY <2>1, <2>3, SumAdd
  <2>5. SumFunctionOnSet(w, s) \in Int /\ SumFunctionOnSet(f, s) \in Int
    BY <2>1, <2>3, SumType
  <2>6. Cardinality(s \cup {i}) = Cardinality(s) + 1
    BY <2>1, FS_AddElement
  <2>7. w[i] \in Nat /\ f[i] \in Nat /\ 100 * f[i] <= 3 * w[i] /\ 3 * w[i] - 99 <= 100 * f[i]
    BY FeeBounds
  <2> QED BY <1>2, <2>1, <2>4, <2>5, <2>6, <2>7
<1>3. SUBSET S \subseteq T
  <2> HIDE DEF T
  <2> QED BY <1>1, <1>2, SubsetInduction
<1> QED BY <1>3

\* The statistics of a player are sums of natural numbers.
LEMMA WageredType ==
    ASSUME bets \in Seq(Bet), NEW a
    PROVE  /\ IsFiniteSet(Of(a)) /\ Of(a) \in SUBSET (1..Len(bets)) /\ IsFiniteSet(1..Len(bets))
           /\ Cardinality(Of(a)) \in Nat /\ Wagered(a) \in Nat
<1>1. Of(a) \in SUBSET (1..Len(bets)) /\ IsFiniteSet(1..Len(bets))
  BY FS_Interval DEF Of
<1>2. IsFiniteSet(Of(a)) /\ Cardinality(Of(a)) \in Nat
  BY <1>1, FS_Subset, FS_CardinalityType
<1> DEFINE w == [i \in DOMAIN bets |-> bets[i].amount]
<1>3. \A i \in Of(a) : w[i] \in Int /\ w[i] >= 0
  <2>1. \A i \in Of(a) : i \in DOMAIN bets /\ bets[i] \in Bet
    BY <1>1
  <2> QED BY <2>1 DEF Bet
<1> HIDE DEF w
<1>4. SumFunctionOnSet(w, Of(a)) \in Int /\ SumFunctionOnSet(w, Of(a)) >= 0
  BY <1>2, <1>3, SumType
<1> QED BY <1>1, <1>2, <1>4 DEF Wagered, w

\* The tiers, as get_player_stats and get_player_comp compute them.
LEMMA TiersAgree ==
    ASSUME NEW points \in Nat
    PROVE  /\ CompTier(points) \in 1..4
           /\ StatsTier(points) = Tiers[CompTier(points)]
           /\ Thresholds[CompTier(points)] <= points
           /\ CompTier(points) < 4 => points < Thresholds[CompTier(points) + 1]
<1> DEFINE R == {t \in 1..4 : points >= Thresholds[t]}
<1>1. CompTier(points) = CHOOSE x \in R : \A y \in R : x >= y
  BY DEF CompTier, Max
<1>2. /\ Thresholds[1] = 0 /\ Thresholds[2] = 100 /\ Thresholds[3] = 1000 /\ Thresholds[4] = 10000
      /\ Tiers[1] = "Bronze" /\ Tiers[2] = "Silver" /\ Tiers[3] = "Gold" /\ Tiers[4] = "Diamond"
  BY DEF Thresholds, Tiers
<1>3. 1 \in R /\ R \subseteq 1..4
  BY <1>2
<1>4. ASSUME NEW t \in R, \A y \in R : t >= y PROVE CompTier(points) = t
  <2> DEFINE c == CHOOSE x \in R : \A y \in R : x >= y
  <2>1. c \in R /\ \A y \in R : c >= y
    BY <1>4
  <2>2. c >= t /\ t >= c /\ c \in Int /\ t \in Int
    BY <1>3, <1>4, <2>1
  <2> HIDE DEF c
  <2>3. c = t
    BY <2>2
  <2> QED BY <1>1, <2>3 DEF c
<1>5. CASE points >= 10000
  <2>1. 4 \in R /\ \A y \in R : 4 >= y
    BY <1>2, <1>3, <1>5
  <2>2. CompTier(points) = 4
    BY <1>4, <2>1
  <2> QED BY <1>2, <1>5, <2>2 DEF StatsTier
<1>6. CASE points < 10000 /\ points >= 1000
  <2>1. 3 \in R /\ \A y \in R : 3 >= y
    BY <1>2, <1>3, <1>6
  <2>2. CompTier(points) = 3
    BY <1>4, <2>1
  <2> QED BY <1>2, <1>6, <2>2 DEF StatsTier
<1>7. CASE points < 1000 /\ points >= 100
  <2>1. 2 \in R /\ \A y \in R : 2 >= y
    BY <1>2, <1>3, <1>7
  <2>2. CompTier(points) = 2
    BY <1>4, <2>1
  <2> QED BY <1>2, <1>7, <2>2 DEF StatsTier
<1>8. CASE points < 100
  <2>1. 1 \in R /\ \A y \in R : 1 >= y
    BY <1>2, <1>3, <1>8
  <2>2. CompTier(points) = 1
    BY <1>4, <2>1
  <2> QED BY <1>2, <1>8, <2>2 DEF StatsTier
<1> QED BY <1>5, <1>6, <1>7, <1>8

LEMMA PlayerStatsTyped ==
    ASSUME bets \in Seq(Bet), NEW a \in Addresses
    PROVE  PlayerStats(a) \in PlayerStatsType
<1> DEFINE points == Wagered(a) \div PointPrice
<1>1. Wagered(a) \in Nat /\ Cardinality(Of(a)) \in Nat
  BY WageredType
<1>2. points \in Nat
  BY <1>1 DEF PointPrice
<1> HIDE DEF points
<1>3. StatsTier(points) \in Range(Tiers)
  BY <1>2, TiersAgree DEF Range, Tiers
<1> QED BY <1>1, <1>2, <1>3 DEF PlayerStats, PlayerStatsType, points

\* All players' bets are all bets, and all they wagered is all that was wagered.
LEMMA PlayersAddUp ==
    ASSUME bets \in Seq(Bet)
    PROVE  /\ SumFunction([a \in Addresses |-> Cardinality(Of(a))]) = Len(bets)
           /\ SumFunction([a \in Addresses |-> Wagered(a)])
                = SumFunctionOnSet([i \in DOMAIN bets |-> bets[i].amount], DOMAIN bets)
<1> DEFINE D == DOMAIN bets
           k == [i \in D |-> bets[i].address]
           one == [i \in D |-> 1]
           w == [i \in D |-> bets[i].amount]
           n == [a \in Addresses |-> Cardinality(Of(a))]
           W == [a \in Addresses |-> Wagered(a)]
           n1 == GroupSums(one, k, D, Addresses)
           W1 == GroupSums(w, k, D, Addresses)
<1>1. /\ D = 1..Len(bets) /\ Len(bets) \in Nat /\ IsFiniteSet(D) /\ Cardinality(D) = Len(bets)
      /\ \A i \in D : bets[i] \in Bet
  <2>1. D = 1..Len(bets) /\ Len(bets) \in Nat /\ \A i \in D : bets[i] \in Bet
    OBVIOUS
  <2> QED BY <2>1, FS_Interval
<1>2. k \in [D -> Addresses] /\ \A i \in D : one[i] = 1 /\ w[i] \in Nat
  BY <1>1 DEF Bet
<1>3. \A a \in Addresses : Group(k, D, a) = Of(a)
  BY DEF Group, Of
<1>4. W1 = W
  BY <1>3 DEF Wagered, GroupSums
<1>5. n1 = n
  <2> SUFFICES ASSUME NEW a \in Addresses
               PROVE  SumFunctionOnSet(one, Group(k, D, a)) = Cardinality(Of(a))
    BY DEF GroupSums
  <2>1. IsFiniteSet(Of(a)) /\ \A i \in Of(a) : one[i] = 1
    BY WageredType DEF Of
  <2> HIDE DEF one, k
  <2> QED BY <1>3, <2>1, SumCounts
<1>6. SumFunction(n) = SumFunctionOnSet(n, Addresses) /\ SumFunction(W) = SumFunctionOnSet(W, Addresses)
  <2>1. DOMAIN n = Addresses /\ DOMAIN W = Addresses
    OBVIOUS
  <2> HIDE DEF n, W
  <2> QED BY <2>1 DEF SumFunction
<1>7. SumFunctionOnSet(one, D) = Len(bets)
  <2> HIDE DEF one, D
  <2> QED BY <1>1, <1>2, SumCounts
<1> HIDE DEF D, k, one, w, n1, W1
<1>8. IsFiniteSet(Addresses)
  BY BetPagesAssumption
<1>9. SumFunctionOnSet(one, D) = SumFunctionOnSet(n1, Addresses)
  <2>1. \A i \in D : one[i] \in Int
    BY <1>2
  <2> QED BY <1>1, <1>2, <1>8, <2>1, SumGrouped DEF n1
<1>10. SumFunctionOnSet(w, D) = SumFunctionOnSet(W1, Addresses)
  <2>1. \A i \in D : w[i] \in Int
    BY <1>2
  <2> QED BY <1>1, <1>2, <1>8, <2>1, SumGrouped DEF W1
<1> HIDE DEF n, W
<1>11. SumFunction(n) = Len(bets) /\ SumFunction(W) = SumFunctionOnSet(w, D)
  BY <1>4, <1>5, <1>6, <1>7, <1>9, <1>10
<1> QED BY <1>11 DEF n, W, w, D

\* The routes agree in every state in which the counters count the bets.
LEMMA CountedRoutesAgree ==
    ASSUME TypeOK, Counted PROVE RoutesAgree
<1>1. bets \in Seq(Bet)
  BY DEF TypeOK
<1>2. ASSUME NEW a \in Addresses
      PROVE  LET stats == PlayerStats(a)
                 comp == PlayerComp(a)
             IN  /\ stats.tier = comp.tier
                 /\ stats.totalBets = Len(History(a))
                 /\ 0 <= comp.done /\ comp.done <= comp.of
                 /\ comp.tier # "Diamond" => comp.toNext > 0 /\ comp.done < comp.of
  <2> DEFINE points == Wagered(a) \div PointPrice
             t == CompTier(points)
  <2>1. points \in Nat
    <3>1. Wagered(a) \in Nat
      BY <1>1, WageredType
    <3> QED BY <3>1 DEF PointPrice
  <2> HIDE DEF points
  <2>2. /\ t \in 1..4 /\ StatsTier(points) = Tiers[t] /\ Thresholds[t] <= points
        /\ t < 4 => points < Thresholds[t + 1]
    BY <2>1, TiersAgree
  <2> HIDE DEF t
  <2>3. /\ PlayerStats(a).tier = StatsTier(points)
        /\ PlayerStats(a).totalBets = Cardinality(Of(a))
    BY DEF PlayerStats, points
  <2>4. PlayerComp(a) =
          IF t = 4 THEN [tier |-> Tiers[t], toNext |-> 0, done |-> 1, of |-> 1]
          ELSE [tier |-> Tiers[t], toNext |-> Thresholds[t + 1] - points,
                done |-> points - Thresholds[t], of |-> Thresholds[t + 1] - Thresholds[t]]
    BY DEF PlayerComp, points, t
  <2>5. Len(History(a)) = Cardinality(Of(a))
    BY <1>1, HistoryFacts
  <2>6. CASE t = 4
    <3>1. Tiers[4] = "Diamond"
      BY DEF Tiers
    <3> QED BY <2>2, <2>3, <2>4, <2>5, <2>6, <3>1
  <2>7. CASE t \in 1..3
    <3>1. Thresholds[t] \in Nat /\ Thresholds[t + 1] \in Nat
      BY <2>7 DEF Thresholds
    <3>2. t # 4 /\ t < 4
      BY <2>7
    <3> QED BY <2>1, <2>2, <2>3, <2>4, <2>5, <3>1, <3>2
  <2> QED BY <2>2, <2>6, <2>7
<1>3. poolStats.totalBets = SumFunction([a \in Addresses |-> PlayerStats(a).totalBets])
  <2>1. [a \in Addresses |-> PlayerStats(a).totalBets] = [a \in Addresses |-> Cardinality(Of(a))]
    BY DEF PlayerStats
  <2> QED BY <1>1, <2>1, PlayersAddUp DEF Counted
<1>4. LET edge == (SumFunction([a \in Addresses |-> Wagered(a)]) * 3) \div 100
      IN  poolStats.totalFees \in (edge - poolStats.totalBets)..edge
  <2> DEFINE D == DOMAIN bets
             w == [i \in D |-> bets[i].amount]
             f == [i \in D |-> Fee(bets[i].amount)]
             W == SumFunctionOnSet(w, D)
             F == SumFunctionOnSet(f, D)
             n == Len(bets)
  <2>1. IsFiniteSet(D) /\ Cardinality(D) = n /\ n \in Nat /\ \A i \in D : bets[i] \in Bet
    <3>1. D = 1..Len(bets) /\ Len(bets) \in Nat /\ \A i \in D : bets[i] \in Bet
      BY <1>1
    <3> QED BY <3>1, FS_Interval
  <2>2. \A i \in D : w[i] \in Nat /\ f[i] = Fee(w[i])
    BY <2>1 DEF Bet
  <2>3. poolStats.totalFees = F /\ poolStats.totalBets = n
    <3>1. Fees(bets) = F
      BY DEF Fees, SumFunction
    <3> QED BY <3>1 DEF Counted
  <2>4. SumFunction([a \in Addresses |-> Wagered(a)]) = W
    BY <1>1, PlayersAddUp
  <2> HIDE DEF D, w, f, n
  <2>5. 100 * F <= 3 * W /\ 3 * W - 99 * n <= 100 * F
    BY <2>1, <2>2, FeesOfAmounts
  <2>6. W \in Int /\ F \in Int
    <3>1. \A i \in D : w[i] \in Int /\ f[i] \in Int
      BY <2>2, FeeBounds
    <3> QED BY <2>1, <3>1, SumType
  <2> HIDE DEF W, F
  <2> DEFINE edge == (W * 3) \div 100
  <2>7. edge \in Int /\ 100 * edge <= 3 * W /\ 3 * W < 100 * edge + 100
    BY <2>6
  <2> HIDE DEF edge
  <2>8. F <= edge /\ edge - n <= F
    BY <2>1, <2>5, <2>6, <2>7
  <2> QED BY <2>1, <2>3, <2>4, <2>6, <2>7, <2>8 DEF edge
<1> QED BY <1>2, <1>3, <1>4 DEF RoutesAgree

-----------------------------------------------------------------------------
(* Every step keeps the inductive invariant.                               *)

LEMMA EmptyIsData == \A v \in Views : Empty(v) \in Data(v)
<1>1. Empty("history") = <<>> /\ Empty("stats") = None
  BY DEF Empty
<1>2. Data("history") = Seq(Bet) /\ None \in Data("stats")
  BY DEF Data
<1>3. <<>> \in Seq(Bet)
  OBVIOUS
<1> QED BY <1>1, <1>2, <1>3 DEF Views

LEMMA InitIInv == Init => IInv
<1> SUFFICES ASSUME Init PROVE IInv
  OBVIOUS
<1> USE BetPagesAssumption
<1>1. bets = Earlier /\ Earlier \in Seq(Bet)
  BY DEF Init
<1>2. Len(Earlier) \in Nat /\ Fees(Earlier) \in Nat
  BY <1>1, FeesType
<1>3. TypeOK
  <2>1. NoFetch \in Fetch("history") /\ NoFetch \in Fetch("stats")
    BY DEF Fetch
  <2>2. \A v \in Views : Empty(v) \in Data(v)
    BY EmptyIsData
  <2>3. \A v \in Views : [i \in Slots |-> NoFetch] \in [Slots -> Fetch(v)]
    BY <2>1 DEF Views
  <2>4. bets \in Seq(Bet) /\ poolStats \in [totalBets : Nat, totalFees : Nat]
    BY <1>1, <1>2 DEF Init
  <2>5. DOMAIN shown = Views /\ DOMAIN fetches = Views
    BY DEF Init
  <2>6. \A v \in Views : shown[v] \in Data(v) /\ fetches[v] \in [Slots -> Fetch(v)]
    BY <2>2, <2>3 DEF Init
  <2>7. loading \in [Views -> BOOLEAN] /\ refreshing \in BOOLEAN
    BY DEF Init
  <2> QED BY <2>4, <2>5, <2>6, <2>7 DEF Init, TypeOK
<1>4. PlacedIsRecordedOnce /\ PostsAreRecordedOnce
  BY <1>1 DEF Init, PlacedIsRecordedOnce, PostsAreRecordedOnce, Ids
<1>5. Counted /\ SpinnerIsBacked
  BY <1>1 DEF Init, Counted, SpinnerIsBacked, Views
<1> QED BY <1>3, <1>4, <1>5 DEF IInv

\* What a step leaves alone.
LEMMA KeptServer ==
    ASSUME IInv, UNCHANGED <<bets, poolStats, forgotten>>
    PROVE  Counted' /\ Ids(bets)' = Ids(bets) /\ (PlacedIsRecordedOnce' <=> 
             (betPlaced' # None => betPlaced' \in Ids(bets) \cup forgotten))
BY DEF IInv, Counted, Ids, PlacedIsRecordedOnce, Fees

LEMMA IdsType == ASSUME bets \in Seq(Bet) PROVE Ids(bets) \subseteq Nat
<1>1. \A i \in DOMAIN bets : bets[i] \in Bet
  OBVIOUS
<1> QED BY <1>1 DEF Ids, Bet

LEMMA SubmitIInv ==
    ASSUME IInv, NEW amount \in Amounts, Submit(amount) PROVE IInv'
<1> USE BetPagesAssumption
<1> DEFINE p == [id |-> drawn', address |-> address, amount |-> amount, at |-> "sent"]
<1>1. /\ drawn \in 0..MaxBets /\ drawn < MaxBets /\ drawn' = drawn + 1 /\ submitting' = drawn'
      /\ address \in Addresses
      /\ posts' = posts \cup {p}
      /\ UNCHANGED <<server, address, betPlaced, viewVars, switches>>
  BY DEF IInv, TypeOK, Submit
<1>2. drawn' \in 1..MaxBets /\ drawn' \notin Ids(bets) \cup forgotten
  BY <1>1 DEF IInv, PostsAreRecordedOnce
<1>3. TypeOK'
  <2>1. p \in Posts
    BY <1>1, <1>2 DEF Posts
  <2> HIDE DEF p
  <2>2. posts' \subseteq Posts
    BY <1>1, <2>1 DEF IInv, TypeOK
  <2> QED BY <1>1, <1>2, <2>2 DEF IInv, TypeOK, server, viewVars
<1>4. PlacedIsRecordedOnce' /\ Counted' /\ Ids(bets)' = Ids(bets)
  BY <1>1, KeptServer DEF server, IInv, PlacedIsRecordedOnce
<1>5. PostsAreRecordedOnce'
  <2>1. \A q \in posts : q.id \in Int /\ q.id <= drawn
    BY DEF IInv, TypeOK, Posts, PostsAreRecordedOnce
  <2>2. p.id = drawn' /\ p.at = "sent"
    OBVIOUS
  <2> HIDE DEF p
  <2>3. \A q \in posts' : /\ q.id <= drawn'
                          /\ \A r \in posts' : r.id = q.id => r = q
    BY <1>1, <2>1, <2>2 DEF IInv, PostsAreRecordedOnce
  <2>4. \A q \in posts' : /\ q.at = "sent" => q.id \notin Ids(bets) \cup forgotten
                          /\ q.at = "recorded" => q.id \in Ids(bets) \cup forgotten
    BY <1>1, <1>2, <2>2 DEF IInv, PostsAreRecordedOnce
  <2>5. \A id \in Ids(bets) \cup forgotten : id <= drawn' \/ id > MaxBets
    <3>1. Ids(bets) \subseteq Nat /\ forgotten \subseteq Nat
      BY IdsType DEF IInv, TypeOK
    <3>2. \A id \in Ids(bets) \cup forgotten : id <= drawn \/ id > MaxBets
      BY DEF IInv, PostsAreRecordedOnce
    <3>3. \A id \in Nat : id <= drawn => id <= drawn'
      BY <1>1
    <3> QED BY <3>1, <3>2, <3>3
  <2> QED BY <1>1, <1>4, <2>3, <2>4, <2>5 DEF PostsAreRecordedOnce, server
<1>6. SpinnerIsBacked'
  BY <1>1 DEF IInv, SpinnerIsBacked, viewVars, Free
<1> QED BY <1>3, <1>4, <1>5, <1>6 DEF IInv

\* Answering a request of the form.
LEMMA AnsweredFacts ==
    ASSUME IInv, NEW p \in posts, NEW at \in {"recorded", "refused"}, posts' = Answered(p, at)
    PROVE  /\ posts' \subseteq Posts
           /\ \A q \in posts' : q \in posts \ {p} \/ (q.id = p.id /\ q.at = at)
           /\ \A q \in posts', r \in posts' : r.id = q.id => r = q
<1> DEFINE m == [p EXCEPT !.at = at]
<1>1. posts \subseteq Posts /\ p \in Posts
  BY DEF IInv, TypeOK
<1>2. m \in Posts /\ m.id = p.id /\ m.at = at
  BY <1>1 DEF Posts
<1>3. \A q \in posts' : q \in posts \ {p} \/ q = m
  BY DEF Answered
<1> HIDE DEF m
<1>4. \A q \in posts, r \in posts : r.id = q.id => r = q
  BY DEF IInv, PostsAreRecordedOnce
<1> QED BY <1>1, <1>2, <1>3, <1>4

LEMMA RecordIInv ==
    ASSUME IInv, NEW p \in posts, Record(p) PROVE IInv'
<1> USE BetPagesAssumption
<1> DEFINE b == [id |-> p.id, address |-> p.address, amount |-> p.amount]
           n == Len(bets)
<1>1. /\ p.at = "sent"
      /\ bets' = Append(bets, b)
      /\ poolStats' = [totalBets |-> poolStats.totalBets + 1,
                       totalFees |-> poolStats.totalFees + Fee(p.amount)]
      /\ posts' = Answered(p, "recorded")
      /\ UNCHANGED <<forgotten, restarts, address, submitting, betPlaced, drawn, viewVars, switches>>
  BY DEF Record
<1>2. p \in Posts /\ bets \in Seq(Bet)
  BY DEF IInv, TypeOK
<1>3. b \in Bet /\ b.id = p.id /\ b.amount = p.amount
  <2>1. p.id \in 1..MaxBets /\ p.address \in Addresses /\ p.amount \in Amounts
    BY <1>2 DEF Posts
  <2>2. Amounts \subseteq Nat /\ MaxBets \in Nat
    BY BetPagesAssumption
  <2>3. p.id \in Nat
    BY <2>1, <2>2
  <2>4. p.amount \in Nat
    BY <2>1, <2>2
  <2> QED BY <2>1, <2>3, <2>4 DEF Bet
<1> HIDE DEF b
<1>4. /\ n \in Nat /\ DOMAIN bets = 1..n /\ DOMAIN bets' = (1..n) \cup {n + 1}
      /\ bets' \in Seq(Bet) /\ Len(bets') = n + 1 /\ bets'[n + 1] = b
      /\ \A i \in 1..n : bets'[i] = bets[i]
  BY <1>1, <1>2, <1>3
<1>5. Ids(bets)' = Ids(bets) \cup {p.id}
  BY <1>3, <1>4 DEF Ids
<1>6. p.id \notin Ids(bets) \cup forgotten /\ p.id <= drawn
  BY <1>1 DEF IInv, PostsAreRecordedOnce
<1>7. Counted' /\ poolStats' \in [totalBets : Nat, totalFees : Nat]
  <2>1. poolStats = [totalBets |-> n, totalFees |-> Fees(bets)]
    BY DEF IInv, Counted
  <2>2. Fees(bets)' = Fees(bets) + Fee(p.amount) /\ Fees(bets) \in Nat
    <3>1. Fees(bets)' = Fees(Append(bets, b))
      BY <1>1 DEF Fees
    <3> QED BY <1>2, <1>3, <3>1, FeesGrow
  <2>3. Fee(p.amount) \in Nat
    <3>1. p.amount \in Nat
      BY <1>2 DEF Posts
    <3> QED BY <3>1, FeeBounds
  <2>4. poolStats' = [totalBets |-> n + 1, totalFees |-> Fees(bets) + Fee(p.amount)]
    BY <1>1, <2>1
  <2> QED BY <1>4, <2>2, <2>3, <2>4 DEF Counted
<1>8. /\ posts' \subseteq Posts
      /\ \A q \in posts' : q \in posts \ {p} \/ (q.id = p.id /\ q.at = "recorded")
      /\ \A q \in posts', r \in posts' : r.id = q.id => r = q
  BY <1>1, AnsweredFacts
<1>9. TypeOK'
  BY <1>1, <1>4, <1>7, <1>8 DEF IInv, TypeOK, viewVars
<1>10. PlacedIsRecordedOnce'
  <2>1. \A i, j \in DOMAIN bets' : bets'[i].id = bets'[j].id => i = j
    <3>1. \A i \in 1..n : bets'[i].id \in Ids(bets)
      BY <1>4 DEF Ids
    <3>2. bets'[n + 1].id = p.id
      BY <1>3, <1>4
    <3>3. \A i, j \in 1..n : bets'[i].id = bets'[j].id => i = j
      BY <1>4 DEF IInv, PlacedIsRecordedOnce
    <3> QED BY <1>4, <1>6, <3>1, <3>2, <3>3
  <2>2. Ids(bets)' \cap forgotten' = {}
    BY <1>1, <1>5, <1>6 DEF IInv, PlacedIsRecordedOnce
  <2>3. betPlaced' # None => betPlaced' \in Ids(bets)' \cup forgotten'
    BY <1>1, <1>5 DEF IInv, PlacedIsRecordedOnce
  <2> QED BY <2>1, <2>2, <2>3 DEF PlacedIsRecordedOnce
<1>11. PostsAreRecordedOnce'
  <2>1. \A q \in posts \ {p} : q.id # p.id /\ q.id <= drawn
    BY DEF IInv, PostsAreRecordedOnce
  <2>2. \A q \in posts' :
          /\ q.id <= drawn
          /\ q.at = "sent" => q.id \notin Ids(bets)' \cup forgotten
          /\ q.at = "recorded" => q.id \in Ids(bets)' \cup forgotten
    BY <1>5, <1>6, <1>8, <2>1 DEF IInv, PostsAreRecordedOnce
  <2>3. \A id \in Ids(bets)' \cup forgotten : id <= drawn \/ id > MaxBets
    BY <1>5, <1>6 DEF IInv, PostsAreRecordedOnce
  <2> QED BY <1>1, <1>8, <2>2, <2>3 DEF PostsAreRecordedOnce
<1>12. SpinnerIsBacked'
  BY <1>1 DEF IInv, SpinnerIsBacked, viewVars, Free
<1> QED BY <1>7, <1>9, <1>10, <1>11, <1>12 DEF IInv

LEMMA RefuseBetIInv ==
    ASSUME IInv, NEW p \in posts, RefuseBet(p) PROVE IInv'
<1>1. /\ posts' = Answered(p, "refused")
      /\ UNCHANGED <<server, address, submitting, betPlaced, drawn, viewVars, switches>>
  BY DEF RefuseBet
<1>2. /\ posts' \subseteq Posts
      /\ \A q \in posts' : q \in posts \ {p} \/ (q.id = p.id /\ q.at = "refused")
      /\ \A q \in posts', r \in posts' : r.id = q.id => r = q
  BY <1>1, AnsweredFacts
<1>3. TypeOK' /\ SpinnerIsBacked'
  BY <1>1, <1>2 DEF IInv, TypeOK, SpinnerIsBacked, server, viewVars, Free
<1>4. PlacedIsRecordedOnce' /\ Counted' /\ Ids(bets)' = Ids(bets)
  BY <1>1, KeptServer DEF server, IInv, PlacedIsRecordedOnce
<1>5. PostsAreRecordedOnce'
  BY <1>1, <1>2, <1>4 DEF IInv, PostsAreRecordedOnce, server
<1> QED BY <1>3, <1>4, <1>5 DEF IInv

\* Requests that leave take nothing with them.
LEMMA FewerPostsIInv ==
    ASSUME IInv, posts' \subseteq posts,
           UNCHANGED <<server, address, drawn, viewVars, switches>>,
           submitting' \in {submitting, None},
           betPlaced' \in 1..MaxBets \cup {None},
           betPlaced' # None => betPlaced' \in Ids(bets) \cup forgotten
    PROVE  IInv'
<1>1. TypeOK' /\ SpinnerIsBacked'
  BY DEF IInv, TypeOK, SpinnerIsBacked, server, viewVars, Free
<1>2. PlacedIsRecordedOnce' /\ Counted' /\ Ids(bets)' = Ids(bets)
  BY KeptServer DEF server
<1>3. PostsAreRecordedOnce'
  BY <1>2 DEF IInv, PostsAreRecordedOnce, server
<1> QED BY <1>1, <1>2, <1>3 DEF IInv

LEMMA AnswerPostIInv ==
    ASSUME IInv, NEW p \in posts, AnswerPost(p) PROVE IInv'
<1>1. betPlaced' \in 1..MaxBets \cup {None}
  BY DEF IInv, TypeOK, Posts, AnswerPost
<1>2. betPlaced' # None => betPlaced' \in Ids(bets) \cup forgotten
  BY DEF IInv, PlacedIsRecordedOnce, PostsAreRecordedOnce, AnswerPost, Accepted
<1> QED BY <1>1, <1>2, FewerPostsIInv DEF AnswerPost

LEMMA LeavingIInv ==
    ASSUME IInv, GiveUp \/ \E p \in posts : LosePost(p) PROVE IInv'
<1>1. /\ posts' \subseteq posts /\ submitting' \in {submitting, None} /\ betPlaced' = betPlaced
      /\ UNCHANGED <<server, address, drawn, viewVars, switches>>
  BY DEF GiveUp, LosePost
<1>2. /\ betPlaced \in 1..MaxBets \cup {None}
      /\ betPlaced # None => betPlaced \in Ids(bets) \cup forgotten
  BY DEF IInv, TypeOK, PlacedIsRecordedOnce
<1> QED BY <1>1, <1>2, FewerPostsIInv

LEMMA RestartIInv == ASSUME IInv, Restart PROVE IInv'
<1>1. /\ forgotten' = forgotten \cup Ids(bets) /\ bets' = <<>>
      /\ poolStats' = [totalBets |-> 0, totalFees |-> 0]
      /\ UNCHANGED <<address, formVars, viewVars, switches>>
  BY DEF Restart, Ids
<1>2. Ids(bets)' = {} /\ Ids(bets) \subseteq Nat
  BY <1>1, IdsType DEF Ids, IInv, TypeOK
<1>3. TypeOK'
  <2>1. bets' \in Seq(Bet) /\ poolStats' \in [totalBets : Nat, totalFees : Nat]
    BY <1>1
  <2>2. forgotten' \subseteq Nat
    BY <1>1, <1>2 DEF IInv, TypeOK
  <2> QED BY <1>1, <2>1, <2>2 DEF IInv, TypeOK, formVars, viewVars
<1>4. PlacedIsRecordedOnce'
  BY <1>1, <1>2 DEF IInv, PlacedIsRecordedOnce, formVars
<1>5. PostsAreRecordedOnce'
  BY <1>1, <1>2 DEF IInv, PostsAreRecordedOnce, formVars
<1>6. Counted'
  <2>1. Fees(<<>>) = 0
    BY FeesOfNone
  <2>2. Fees(bets)' = Fees(<<>>)
    BY <1>1 DEF Fees
  <2> QED BY <1>1, <2>1, <2>2 DEF Counted
<1>7. SpinnerIsBacked'
  BY <1>1 DEF IInv, SpinnerIsBacked, viewVars, Free
<1> QED BY <1>3, <1>4, <1>5, <1>6, <1>7 DEF IInv

\* What a view holds.
ViewsTyped ==
    /\ DOMAIN shown = Views /\ DOMAIN fetches = Views
    /\ \A v \in Views : shown[v] \in Data(v) /\ fetches[v] \in [Slots -> Fetch(v)]
    /\ loading \in [Views -> BOOLEAN] /\ refreshing \in BOOLEAN

LEMMA ViewStepIInv ==
    ASSUME IInv, UNCHANGED <<server, formVars>>, address' \in Addresses \cup {None},
           ViewsTyped', SpinnerIsBacked'
    PROVE  IInv'
<1>1. TypeOK'
  BY DEF IInv, TypeOK, ViewsTyped, server, formVars
<1>2. PlacedIsRecordedOnce' /\ Counted' /\ Ids(bets)' = Ids(bets)
  BY KeptServer DEF server, formVars, IInv, PlacedIsRecordedOnce
<1>3. PostsAreRecordedOnce'
  BY <1>2 DEF IInv, PostsAreRecordedOnce, server, formVars
<1> QED BY <1>1, <1>2, <1>3 DEF IInv

LEMMA AskedFacts ==
    ASSUME NEW a \in Addresses
    PROVE  Asked(a).at = "asked" /\ \A v \in Views : Asked(a) \in Fetch(v)
BY DEF Asked, Fetch

LEMMA SwitchIInv ==
    ASSUME IInv, NEW a \in Addresses \cup {None}, Switch(a) PROVE IInv'
<1> USE BetPagesAssumption
<1>1. address' = a /\ UNCHANGED <<server, formVars, refreshing>>
  BY DEF Switch
<1>2. CASE a = None
  <2>1. shown' = [v \in Views |-> Empty(v)] /\ UNCHANGED <<fetches, loading>>
    BY <1>2 DEF Switch
  <2>2. \A v \in Views : Empty(v) \in Data(v)
    BY EmptyIsData
  <2>3. ViewsTyped'
    BY <1>1, <2>1, <2>2 DEF IInv, TypeOK, ViewsTyped
  <2>4. SpinnerIsBacked'
    BY <1>1, <2>1 DEF IInv, SpinnerIsBacked, Free
  <2> QED BY <1>1, <2>3, <2>4, ViewStepIInv
<1>3. CASE a # None
  <2>1. PICK slot \in [Views -> Slots] :
          /\ fetches' = [v \in Views |-> [fetches[v] EXCEPT ![slot[v]] = Asked(a)]]
          /\ loading' = [v \in Views |-> TRUE]
          /\ UNCHANGED shown
    BY <1>3 DEF Switch
  <2>2. a \in Addresses
    BY <1>3
  <2>3. \A v \in Views : /\ fetches'[v] \in [Slots -> Fetch(v)]
                         /\ fetches'[v][slot[v]] = Asked(a)
    BY <2>1, <2>2, AskedFacts DEF IInv, TypeOK
  <2>4. ViewsTyped'
    BY <1>1, <2>1, <2>3 DEF IInv, TypeOK, ViewsTyped
  <2>5. SpinnerIsBacked'
    <3>1. \A v \in Views : slot[v] \in Slots /\ slot[v] \notin Free(v)'
      BY <2>2, <2>3, AskedFacts DEF Free
    <3> QED BY <3>1 DEF SpinnerIsBacked, Views
  <2> QED BY <1>1, <2>4, <2>5, ViewStepIInv
<1> QED BY <1>2, <1>3

LEMMA PollIInv ==
    ASSUME IInv, NEW i \in Slots, Poll(i) PROVE IInv'
<1>1. /\ address \in Addresses
      /\ fetches' = [fetches EXCEPT !["history"][i] = Asked(address)]
      /\ refreshing' = TRUE
      /\ UNCHANGED <<server, address, formVars, shown, loading, switches>>
  BY DEF Poll, IInv, TypeOK
<1>2. "history" \in Views
  BY DEF Views
<1>3. /\ DOMAIN fetches' = Views /\ fetches'["history"][i] = Asked(address)
      /\ \A v \in Views : fetches'[v] \in [Slots -> Fetch(v)]
      /\ \A v \in Views \ {"history"} : fetches'[v] = fetches[v]
  BY <1>1, <1>2, AskedFacts DEF IInv, TypeOK
<1>4. ViewsTyped'
  BY <1>1, <1>3 DEF IInv, TypeOK, ViewsTyped
<1>5. SpinnerIsBacked'
  <2>1. Free("history")' # Slots
    BY <1>1, <1>3, AskedFacts DEF Free
  <2>2. \A v \in Views \ {"history"} : Free(v)' = Free(v)
    BY <1>3 DEF Free
  <2> QED BY <1>1, <2>1, <2>2 DEF IInv, SpinnerIsBacked
<1> QED BY <1>1, <1>4, <1>5, ViewStepIInv DEF IInv, TypeOK

LEMMA ServeIInv ==
    ASSUME IInv, NEW v \in Views, NEW i \in Slots, Serve(v, i) PROVE IInv'
<1> DEFINE a == fetches[v][i].address
           d == IF v = "history" THEN History(a) ELSE PlayerStats(a)
           m == [at |-> "served", data |-> d]
<1>1. /\ fetches[v][i].at = "asked"
      /\ fetches' = [fetches EXCEPT ![v][i] = m]
      /\ UNCHANGED <<server, address, formVars, shown, loading, refreshing, switches>>
  BY DEF Serve
<1>2. a \in Addresses
  <2>1. fetches[v][i] \in Fetch(v)
    BY DEF IInv, TypeOK
  <2> QED BY <1>1, <2>1 DEF Fetch, NoFetch, Asked
<1>3. d \in Data(v)
  <2>1. bets \in Seq(Bet)
    BY DEF IInv, TypeOK
  <2>2. History(a) \in Seq(Bet) /\ PlayerStats(a) \in PlayerStatsType
    BY <1>2, <2>1, HistoryFacts, PlayerStatsTyped
  <2> HIDE DEF a
  <2> QED BY <2>2 DEF Data
<1> HIDE DEF d, a
<1>4. m \in Fetch(v) /\ m.at = "served"
  BY <1>3 DEF Fetch
<1> HIDE DEF m
<1>5. /\ DOMAIN fetches' = Views
      /\ \A u \in Views : fetches'[u] \in [Slots -> Fetch(u)]
      /\ \A u \in Views, j \in Slots : fetches'[u][j] = IF u = v /\ j = i THEN m ELSE fetches[u][j]
  BY <1>1, <1>4 DEF IInv, TypeOK
<1>6. ViewsTyped'
  BY <1>1, <1>5 DEF IInv, TypeOK, ViewsTyped
<1>7. SpinnerIsBacked'
  <2>1. \A u \in Views : Free(u)' = Free(u)
    BY <1>1, <1>4, <1>5 DEF Free
  <2> QED BY <1>1, <2>1 DEF IInv, SpinnerIsBacked, Views
<1> QED BY <1>1, <1>6, <1>7, ViewStepIInv DEF IInv, TypeOK

\* A request that ends stops the spinners of its view.
LEMMA EndIInv ==
    ASSUME IInv, NEW v \in Views, NEW i \in Slots,
           fetches' = [fetches EXCEPT ![v][i] = NoFetch], StopSpinning(v),
           DOMAIN shown' = Views, \A u \in Views : shown'[u] \in Data(u),
           UNCHANGED <<server, address, formVars, switches>>
    PROVE  IInv'
<1>1. /\ loading' = [loading EXCEPT ![v] = FALSE]
      /\ refreshing' = (v # "history" /\ refreshing)
  BY DEF StopSpinning
<1>2. NoFetch \in Fetch(v)
  BY DEF Fetch
<1>3. /\ DOMAIN fetches' = Views
      /\ \A u \in Views : fetches'[u] \in [Slots -> Fetch(u)]
      /\ \A u \in Views \ {v} : fetches'[u] = fetches[u]
  BY <1>2 DEF IInv, TypeOK
<1>4. /\ loading' \in [Views -> BOOLEAN] /\ refreshing' \in BOOLEAN /\ ~loading'[v]
      /\ \A u \in Views \ {v} : loading'[u] = loading[u]
  BY <1>1 DEF IInv, TypeOK
<1>5. ViewsTyped'
  BY <1>3, <1>4 DEF ViewsTyped
<1>6. SpinnerIsBacked'
  <2>1. \A u \in Views \ {v} : Free(u)' = Free(u)
    BY <1>3 DEF Free
  <2>2. refreshing' => refreshing /\ v # "history"
    BY <1>1
  <2>3. \A u \in Views : loading'[u] => Free(u)' # Slots
    BY <1>4, <2>1 DEF IInv, SpinnerIsBacked
  <2>4. refreshing' => Free("history")' # Slots
    BY <2>1, <2>2 DEF IInv, SpinnerIsBacked, Views
  <2> QED BY <2>3, <2>4 DEF SpinnerIsBacked
<1> QED BY <1>5, <1>6, ViewStepIInv DEF IInv, TypeOK

LEMMA ArriveIInv ==
    ASSUME IInv, NEW v \in Views, NEW i \in Slots, Arrive(v, i) PROVE IInv'
<1>1. /\ fetches[v][i].at = "served" /\ shown' = [shown EXCEPT ![v] = fetches[v][i].data]
      /\ fetches' = [fetches EXCEPT ![v][i] = NoFetch] /\ StopSpinning(v)
      /\ UNCHANGED <<server, address, formVars, switches>>
  BY DEF Arrive
<1>2. fetches[v][i].data \in Data(v)
  <2>1. fetches[v][i] \in Fetch(v)
    BY DEF IInv, TypeOK
  <2> QED BY <1>1, <2>1 DEF Fetch, NoFetch, Asked
<1>3. DOMAIN shown' = Views /\ \A u \in Views : shown'[u] \in Data(u)
  BY <1>1, <1>2 DEF IInv, TypeOK
<1> QED BY <1>1, <1>3, EndIInv

LEMMA FetchFailsIInv ==
    ASSUME IInv, NEW v \in Views, NEW i \in Slots, FetchFails(v, i) PROVE IInv'
<1>1. DOMAIN shown = Views /\ \A u \in Views : shown[u] \in Data(u)
  BY DEF IInv, TypeOK
<1> QED BY <1>1, EndIInv DEF FetchFails

LEMMA NextIInv == IInv /\ [Next]_vars => IInv'
<1> SUFFICES ASSUME IInv, [Next]_vars PROVE IInv'
  OBVIOUS
<1>1. ASSUME NEW amount \in Amounts, Submit(amount) PROVE IInv'
  BY <1>1, SubmitIInv
<1>2. ASSUME NEW p \in posts, Record(p) PROVE IInv'
  BY <1>2, RecordIInv
<1>3. ASSUME NEW p \in posts, RefuseBet(p) PROVE IInv'
  BY <1>3, RefuseBetIInv
<1>4. ASSUME NEW p \in posts, AnswerPost(p) PROVE IInv'
  BY <1>4, AnswerPostIInv
<1>5. ASSUME GiveUp \/ \E p \in posts : LosePost(p) PROVE IInv'
  BY <1>5, LeavingIInv
<1>6. ASSUME NEW a \in Addresses \cup {None}, Switch(a) PROVE IInv'
  BY <1>6, SwitchIInv
<1>7. ASSUME NEW i \in Slots, Poll(i) PROVE IInv'
  BY <1>7, PollIInv
<1>8. ASSUME NEW v \in Views, NEW i \in Slots, Serve(v, i) \/ Arrive(v, i) \/ FetchFails(v, i)
      PROVE  IInv'
  BY <1>8, ServeIInv, ArriveIInv, FetchFailsIInv
<1>9. ASSUME Restart PROVE IInv'
  BY <1>9, RestartIInv
<1>10. CASE UNCHANGED vars
  <2>1. UNCHANGED <<server, formVars, address, viewVars>>
    BY <1>10 DEF vars
  <2>2. ViewsTyped' /\ SpinnerIsBacked' /\ address' \in Addresses \cup {None}
    BY <2>1 DEF IInv, TypeOK, ViewsTyped, SpinnerIsBacked, Free, viewVars
  <2> QED BY <2>1, <2>2, ViewStepIInv
<1> QED BY <1>1, <1>2, <1>3, <1>4, <1>5, <1>6, <1>7, <1>8, <1>9, <1>10 DEF Next, Form, Viewing

-----------------------------------------------------------------------------

\* The inductive invariant of the pages: what the routes hold, the requests on
\* their way and the spinners fit together, whatever is lost, late or restarted.
THEOREM PagesInvariant == Spec => []IInv
BY InitIInv, NextIInv, PTL DEF Spec

\* Every value the pages and the routes handle has its type.
THEOREM PagesTypeCorrect == Spec => []TypeOK
<1>1. IInv => TypeOK
  BY DEF IInv
<1> QED BY <1>1, PagesInvariant, PTL

\* A bet the form shows as placed was recorded, once, for every number of lost
\* answers, submits and restarts (handleSubmit and place_bet).
THEOREM PlacedBetsAreRecordedOnce == Spec => []PlacedIsRecordedOnce
<1>1. IInv => PlacedIsRecordedOnce
  BY DEF IInv
<1> QED BY <1>1, PagesInvariant, PTL

\* The routes of the backend agree in every state: tiers, counts, and the
\* pool's fees up to the rounding of each bet (get_player_stats,
\* get_player_comp, get_history and get_pool_state).
THEOREM RoutesAlwaysAgree == Spec => []RoutesAgree
<1>1. IInv => RoutesAgree
  BY CountedRoutesAgree DEF IInv
<1> QED BY <1>1, PagesInvariant, PTL

\* No spinner of the list or the dashboard outlives its last request.
THEOREM SpinnersAreBacked == Spec => []SpinnerIsBacked
<1>1. IInv => SpinnerIsBacked
  BY DEF IInv
<1> QED BY <1>1, PagesInvariant, PTL

=============================================================================
