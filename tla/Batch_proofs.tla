---------------------------- MODULE Batch_proofs ----------------------------
(***************************************************************************)
(* The limits of a cycle for every configuration, eligible count and hard  *)
(* maximum; and the choice of a batch for every list, log, size and        *)
(* claimed set: where the batch and the new log come from, how full the    *)
(* batch is, in which order, and when a pass is complete.                  *)
(***************************************************************************)
EXTENDS BatchLimits, SearchQueue, FunctionTheorems, FiniteSetTheorems,
        WellFoundedInduction, TLAPS

Counts == [Queues -> Nat]

-----------------------------------------------------------------------------

LEMMA DivisionBounds ==
  ASSUME NEW a \in Nat, NEW d \in Nat, d > 0
  PROVE  /\ a \div d \in Nat
         /\ (a \div d) * d <= a
         /\ a < (a \div d) * d + d
BY Z3

(* A product argument the linear provers need spelled out: from *)
(* x * d < y * d + d and d > 0 follows x <= y.                  *)
LEMMA CancelFactor ==
  ASSUME NEW x \in Int, NEW y \in Int, NEW d \in Nat, d > 0,
         x * d < y * d + d
  PROVE  x <= y
<1>1. SUFFICES ASSUME x >= y + 1 PROVE FALSE
  OBVIOUS
<1>2. x * d >= (y + 1) * d
  BY <1>1, Z3
<1>3. (y + 1) * d = y * d + d
  BY Z3
<1>4. x * d \in Int /\ y * d \in Int
  OBVIOUS
<1>5. QED
  BY <1>2, <1>3, <1>4

(* The proportional share of the missing queue: at most its own count, and *)
(* at least what leaves the cutoff queue no more than its own count.       *)
LEMMA ProportionalShare ==
  ASSUME NEW m \in Nat, NEW c \in Nat, NEW h \in Nat, h > 0, m + c > h
  PROVE  LET f == (m * h) \div (m + c)
         IN  /\ f \in Nat
             /\ f <= m
             /\ f <= h
             /\ h - f <= c
<1> DEFINE t == m + c
           f == (m * h) \div t
<1>1. t \in Nat /\ t > 0 /\ t > h
  OBVIOUS
<1>2. m * h \in Nat
  BY Z3
<1> HIDE DEF t
<1>3. f \in Nat /\ f * t <= m * h /\ m * h < f * t + t
  BY <1>1, <1>2, DivisionBounds
<1> HIDE DEF f
<1>4. f * t \in Int /\ m * t \in Int /\ h * t \in Int
  BY <1>1, <1>3
<1>5. f <= m
  <2>1. m * h <= m * t
    BY <1>1, Z3
  <2>2. f * t < m * t + t
    BY <2>1, <1>1, <1>2, <1>3, <1>4
  <2>3. QED
    BY <2>2, <1>1, <1>3, CancelFactor
<1>6. f <= h
  <2>1. m * h <= h * t
    BY <1>1, Z3 DEF t
  <2>2. f * t < h * t + t
    BY <2>1, <1>1, <1>2, <1>3, <1>4
  <2>3. QED
    BY <2>2, <1>1, <1>3, CancelFactor
<1>7. h - c <= f
  <2>1. (h - c) * t = m * h - c * (t - h)
    BY Z3 DEF t
  <2>2. c * (t - h) >= 0 /\ c * (t - h) \in Int
    BY <1>1, Z3
  <2>3. (h - c) * t \in Int /\ (h - c) \in Int
    BY <1>1
  <2>4. (h - c) * t < f * t + t
    <3> DEFINE x == m * h   y == c * (t - h)   z == (h - c) * t   w == f * t
    <3>1. x \in Int /\ y \in Int /\ z \in Int /\ w \in Int /\ t \in Int
      BY <1>1, <1>2, <1>4, <2>2, <2>3
    <3>2. z = x - y /\ y >= 0 /\ x < w + t
      BY <2>1, <2>2, <1>3
    <3> HIDE DEF x, y, z, w
    <3>3. z < w + t
      BY <3>1, <3>2
    <3>4. QED
      BY <3>3 DEF z, w
  <2>5. QED
    BY <2>3, <2>4, <1>1, <1>3, CancelFactor
<1>8. QED
  BY <1>3, <1>5, <1>6, <1>7 DEF f, t

(* What the cap returns, in the terms rebalancing needs. *)
LEMMA CapProperties ==
  ASSUME NEW configured \in Counts, NEW hardMax \in Nat
  PROVE  LET capped == CapBatchSizes(configured, hardMax)
         IN  /\ capped \in Counts
             /\ \A q \in Queues : capped[q] <= configured[q]
             /\ hardMax > 0 => Total(capped) <= hardMax
             /\ hardMax = 0 => capped = configured
<1>1. configured["missing"] \in Nat /\ configured["cutoff"] \in Nat
  BY DEF Counts, Queues
<1>2. CASE hardMax <= 0 \/ Total(configured) <= hardMax
  BY <1>1, <1>2 DEF CapBatchSizes, Total, Counts, Queues
<1>3. CASE ~(hardMax <= 0 \/ Total(configured) <= hardMax)
  <2> DEFINE f == (configured["missing"] * hardMax) \div Total(configured)
  <2>1. /\ f \in Nat
        /\ f <= configured["missing"]
        /\ f <= hardMax
        /\ hardMax - f <= configured["cutoff"]
    <3> DEFINE m == configured["missing"]   c == configured["cutoff"]
    <3>1. m \in Nat /\ c \in Nat /\ hardMax > 0 /\ m + c > hardMax
      BY <1>1, <1>3 DEF Total
    <3>2. f = (m * hardMax) \div (m + c)
      BY DEF Total
    <3> HIDE DEF f, m, c
    <3>3. QED
      BY <3>1, <3>2, ProportionalShare DEF m, c
  <2> HIDE DEF f
  <2>2. CapBatchSizes(configured, hardMax) = PerQueue(f, hardMax - f)
    BY <1>3, <2>1 DEF CapBatchSizes, f, Greater
  <2>3. QED
    BY <1>1, <1>3, <2>1, <2>2 DEF PerQueue, Total, Queues, Counts
<1>4. QED
  BY <1>2, <1>3

-----------------------------------------------------------------------------

(* For every configuration, eligible count and hard maximum: the limits a  *)
(* cycle dispatches under respect hard_max_per_cycle in total and each     *)
(* queue's own search count.                                               *)
THEOREM CeilingHolds ==
  ASSUME NEW configured \in Counts, NEW eligible \in Counts,
         NEW hardMax \in Nat
  PROVE  WithinCeiling(configured, eligible, hardMax)
<1> DEFINE capped == CapBatchSizes(configured, hardMax)
<1>1. /\ capped \in Counts
      /\ \A q \in Queues : capped[q] <= configured[q]
      /\ hardMax > 0 => Total(capped) <= hardMax
      /\ hardMax = 0 => capped = configured
  BY CapProperties
<1> HIDE DEF capped
<1>2. CycleLimits(configured, eligible, hardMax)
        = RebalanceBatchSizes(capped, configured, eligible, hardMax)
  BY DEF CycleLimits, capped
<1>3. CASE hardMax = 0
  BY <1>1, <1>2, <1>3
  DEF WithinCeiling, RebalanceBatchSizes, Counts, Queues
<1>4. CASE hardMax > 0
  <2> DEFINE limit == RebalanceBatchSizes(capped, configured, eligible, hardMax)
             mc == configured["missing"]   cc == configured["cutoff"]
             me == eligible["missing"]     ce == eligible["cutoff"]
             ml == capped["missing"]       cl == capped["cutoff"]
             m0 == Lesser(ml, me)
             c0 == Lesser(cl, ce)
             up == Greater(0, Lesser(hardMax - m0 - c0, Lesser(mc, me) - m0))
             uc == Greater(0, Lesser(hardMax - m0 - c0 - up,
                                     Lesser(cc, ce) - c0))
  <2>1. /\ mc \in Nat /\ cc \in Nat /\ me \in Nat /\ ce \in Nat
        /\ ml \in Nat /\ cl \in Nat /\ ml <= mc /\ cl <= cc
        /\ ml + cl <= hardMax
    BY <1>1, <1>4 DEF Counts, Queues, Total
  <2>2. limit["missing"] = m0 + up /\ limit["cutoff"] = c0 + uc
    BY <1>4 DEF RebalanceBatchSizes, PerQueue, Queues
  <2> HIDE DEF limit, mc, cc, me, ce, ml, cl
  <2>3. m0 + up \in 0..mc /\ c0 + uc \in 0..cc
    BY <2>1 DEF Lesser, Greater
  <2>4. m0 + up + (c0 + uc) <= hardMax
    BY <2>1, <1>4 DEF Lesser, Greater
  <2> HIDE DEF m0, c0, up, uc
  <2>5. /\ limit["missing"] \in 0..configured["missing"]
        /\ limit["cutoff"] \in 0..configured["cutoff"]
        /\ Total(limit) <= hardMax
    BY <2>2, <2>3, <2>4 DEF Total, mc, cc
  <2>6. QED
    BY <1>2, <1>4, <2>1, <2>5 DEF WithinCeiling, Queues, limit, mc, cc
<1>5. QED
  BY <1>3, <1>4

LEMMA LimitsAreCounts ==
  ASSUME NEW configured \in Counts, NEW eligible \in Counts,
         NEW hardMax \in Nat
  PROVE  CycleLimits(configured, eligible, hardMax) \in Counts
<1> DEFINE capped == CapBatchSizes(configured, hardMax)
<1>1. capped \in Counts
  BY CapProperties
<1> HIDE DEF capped
<1>2. CycleLimits(configured, eligible, hardMax)
        = RebalanceBatchSizes(capped, configured, eligible, hardMax)
  BY DEF CycleLimits, capped
<1>3. QED
  BY <1>1, <1>2
  DEF RebalanceBatchSizes, PerQueue, Counts, Queues, Lesser, Greater

(* For every input the two steps together waste no slot: the number of     *)
(* items the two batches may hold is the smaller of the hard maximum and   *)
(* the work the queues are configured to search.                           *)
THEOREM NoWastedSlot ==
  ASSUME NEW configured \in Counts, NEW eligible \in Counts,
         NEW hardMax \in Nat
  PROVE  WorkConserving(configured, eligible, hardMax)
<1> DEFINE capped == CapBatchSizes(configured, hardMax)
<1>1. /\ capped \in Counts
      /\ \A q \in Queues : capped[q] <= configured[q]
      /\ hardMax > 0 => Total(capped) <= hardMax
      /\ hardMax = 0 => capped = configured
  BY CapProperties
<1> HIDE DEF capped
<1>2. CycleLimits(configured, eligible, hardMax)
        = RebalanceBatchSizes(capped, configured, eligible, hardMax)
  BY DEF CycleLimits, capped
<1>3. CASE hardMax = 0
  BY <1>1, <1>2, <1>3
  DEF WorkConserving, RebalanceBatchSizes, Granted, Demand, Counts, Queues
<1>4. CASE hardMax > 0
  <2> DEFINE limit == RebalanceBatchSizes(capped, configured, eligible, hardMax)
             mc == configured["missing"]   cc == configured["cutoff"]
             me == eligible["missing"]     ce == eligible["cutoff"]
             ml == capped["missing"]       cl == capped["cutoff"]
             m0 == Lesser(ml, me)
             c0 == Lesser(cl, ce)
             up == Greater(0, Lesser(hardMax - m0 - c0, Lesser(mc, me) - m0))
             uc == Greater(0, Lesser(hardMax - m0 - c0 - up,
                                     Lesser(cc, ce) - c0))
  <2>1. /\ mc \in Nat /\ cc \in Nat /\ me \in Nat /\ ce \in Nat
        /\ ml \in Nat /\ cl \in Nat /\ ml <= mc /\ cl <= cc
        /\ ml + cl <= hardMax
    BY <1>1, <1>4 DEF Counts, Queues, Total
  <2>2. limit["missing"] = m0 + up /\ limit["cutoff"] = c0 + uc
    BY <1>4 DEF RebalanceBatchSizes, PerQueue, Queues
  <2>3. /\ Total(Granted(limit, eligible))
             = Lesser(limit["missing"], me) + Lesser(limit["cutoff"], ce)
        /\ Total(Demand(configured, eligible)) = Lesser(mc, me) + Lesser(cc, ce)
    BY DEF Total, Granted, Demand, Queues
  <2> HIDE DEF limit, mc, cc, me, ce, ml, cl
  <2>4. Lesser(m0 + up, me) = m0 + up /\ Lesser(c0 + uc, ce) = c0 + uc
    BY <2>1 DEF Lesser, Greater
  <2>5. m0 + up + (c0 + uc) = Lesser(hardMax, Lesser(mc, me) + Lesser(cc, ce))
    BY <2>1, <1>4 DEF Lesser, Greater
  <2>6. Total(Granted(limit, eligible))
          = Lesser(hardMax, Total(Demand(configured, eligible)))
    BY <2>2, <2>3, <2>4, <2>5
  <2>7. QED
    BY <1>2, <1>4, <2>6 DEF WorkConserving, limit
<1>5. QED
  BY <1>3, <1>4

(* For every input rebalancing only moves slots a queue cannot use. *)
THEOREM CappedShareKept ==
  ASSUME NEW configured \in Counts, NEW eligible \in Counts,
         NEW hardMax \in Nat
  PROVE  KeepsCappedShare(configured, eligible, hardMax)
<1> DEFINE capped == CapBatchSizes(configured, hardMax)
<1>1. capped \in Counts /\ (hardMax = 0 => capped = configured)
  BY CapProperties
<1> HIDE DEF capped
<1>2. CycleLimits(configured, eligible, hardMax)
        = RebalanceBatchSizes(capped, configured, eligible, hardMax)
  BY DEF CycleLimits, capped
<1>3. QED
  BY <1>1, <1>2
  DEF KeepsCappedShare, RebalanceBatchSizes, PerQueue, Counts, Queues,
      Lesser, Greater, capped

-----------------------------------------------------------------------------
(* The n-th smallest element of a finite set of positions exists, so that  *)
(* a filtered sequence only holds elements of the original.                *)

LEMMA SmallestExists ==
  ASSUME NEW T, T \subseteq Nat, T # {}
  PROVE  \E x \in T : \A y \in T : x <= y
<1>1. PICK x \in T : \A y \in T : ~ (<<y, x>> \in OpToRel(<, Nat))
  BY NatLessThanWellFounded, WFMin
<1>2. ASSUME NEW y \in T PROVE x <= y
  <2>1. CASE y < x
    <3>1. <<y, x>> \in Nat \X Nat /\ <<y, x>>[1] = y /\ <<y, x>>[2] = x
      OBVIOUS
    <3>2. <<y, x>>[1] < <<y, x>>[2]
      BY <2>1, <3>1
    <3>3. <<y, x>> \in OpToRel(<, Nat)
      BY <3>1, <3>2, Zenon DEF OpToRel
    <3>4. QED
      BY <1>1, <3>3
  <2>2. QED
    BY <2>1
<1>3. QED
  BY <1>2

LEMMA LargestExists ==
  ASSUME NEW T, NEW N \in Nat, T \subseteq 0..N, T # {}
  PROVE  \E x \in T : \A y \in T : y <= x
<1> DEFINE U == {N - x : x \in T}
<1>1. U \subseteq Nat
  <2>1. ASSUME NEW x \in T PROVE N - x \in Nat
    <3>1. x \in Int /\ 0 <= x /\ x <= N
      OBVIOUS
    <3>2. QED
      BY <3>1
  <2>2. QED
    BY <2>1
<1>2. U # {}
  OBVIOUS
<1> HIDE DEF U
<1>3. PICK u \in U : \A v \in U : u <= v
  BY <1>1, <1>2, SmallestExists
<1>4. PICK x \in T : u = N - x
  BY DEF U
<1>5. ASSUME NEW y \in T PROVE y <= x
  <2>1. N - y \in U
    BY DEF U
  <2>2. x \in Int /\ y \in Int
    OBVIOUS
  <2>3. QED
    BY <1>3, <1>4, <2>1, <2>2
<1>6. QED
  BY <1>5

(* The n-th smallest of a set of positions is one of them, with rank n. *)
LEMMA NthExists ==
  ASSUME NEW N \in Nat, NEW S, S \subseteq 1..N, NEW n \in 1..Cardinality(S)
  PROVE  Nth(S, n) \in S /\ Cardinality({j \in S : j <= Nth(S, n)}) = n
<1> DEFINE Upto(i) == {j \in S : j <= i}
           Rank(i) == Cardinality(Upto(i))
           T == {i \in S : Rank(i) >= n}
<1>1. IsFiniteSet(S) /\ Cardinality(S) \in Nat
  BY FS_Interval, FS_Subset, FS_CardinalityType, 1 \in Int, N \in Int
<1>2. n \in Nat /\ n >= 1 /\ n <= Cardinality(S)
  BY <1>1
<1>3. S \subseteq Nat /\ S \subseteq 0..N
  OBVIOUS
<1>4. ASSUME NEW i PROVE Rank(i) \in Nat /\ IsFiniteSet(Upto(i))
  BY <1>1, FS_Subset, FS_CardinalityType, Upto(i) \in SUBSET S
<1>5. T # {}
  <2>1. S # {}
    BY <1>1, <1>2, FS_EmptySet
  <2>2. PICK top \in S : \A y \in S : y <= top
    BY <2>1, <1>3, LargestExists
  <2>3. Upto(top) = S
    BY <2>2
  <2>4. QED
    BY <1>2, <2>3
<1>6. T \subseteq Nat
  BY <1>3
<1>7. PICK m \in T : \A y \in T : m <= y
  <2> HIDE DEF T
  <2> QED
    BY <1>5, <1>6, SmallestExists
<1> DEFINE B == {j \in S : j < m}
<1>8. m \in S /\ m \in Nat /\ Rank(m) >= n
  BY <1>3
<1> HIDE DEF T
<1>9. B \in SUBSET S /\ B \subseteq 0..N /\ m \notin B
  <2>1. m \notin B
    BY <1>8
  <2>2. B \in SUBSET S
    OBVIOUS
  <2>3. QED
    BY <2>1, <2>2, <1>3
<1>10. IsFiniteSet(B) /\ Cardinality(B) \in Nat
  BY <1>1, <1>9, FS_Subset, FS_CardinalityType
<1>11. Rank(m) = Cardinality(B) + 1
  <2>1. Upto(m) = B \cup {m}
    <3>1. ASSUME NEW j \in S PROVE j <= m <=> j < m \/ j = m
      BY <1>3, <1>8
    <3>2. QED
      BY <3>1, <1>8
  <2> HIDE DEF B
  <2>2. QED
    BY <2>1, <1>9, <1>10, FS_AddElement
<1>12. Rank(m) = n
  <2>1. SUFFICES ASSUME Rank(m) # n PROVE FALSE
    OBVIOUS
  <2>2. Cardinality(B) >= n
    <3>1. Rank(m) \in Nat
      BY <1>4
    <3> HIDE DEF Rank, B
    <3>2. QED
      BY <2>1, <3>1, <1>2, <1>8, <1>10, <1>11
  <2>3. B # {}
    <3> HIDE DEF B
    <3> QED
      BY <2>2, <1>2, FS_EmptySet
  <2>4. PICK p \in B : \A y \in B : y <= p
    <3> HIDE DEF B
    <3> QED
      BY <2>3, <1>9, LargestExists
  <2>5. p \in S /\ p \in Nat /\ p < m
    BY <1>3
  <2>6. Upto(p) = B
    <3>1. ASSUME NEW j \in S PROVE j <= p <=> j < m
      <4>1. j < m => j <= p
        BY <2>4
      <4>2. j \in Nat
        BY <1>3
      <4>3. QED
        BY <4>1, <4>2, <2>5, <1>8
    <3>2. QED
      BY <3>1
  <2>7. p \in T
    BY <2>2, <2>5, <2>6 DEF T
  <2>8. m <= p
    BY <1>7, <2>7
  <2>9. QED
    BY <1>8, <2>5, <2>8
<1>13. QED
  BY <1>8, <1>12 DEF Nth

(* A subsequence holds elements of the sequence, each at most once when    *)
(* the sequence holds them once at the chosen positions.                   *)
LEMMA SubsequenceFacts ==
  ASSUME NEW X, NEW s \in Seq(X), NEW S \in SUBSET DOMAIN s
  PROVE  /\ Subsequence(s, S) \in Seq(X)
         /\ Len(Subsequence(s, S)) = Cardinality(S)
         /\ DOMAIN Subsequence(s, S) = 1..Cardinality(S)
         /\ \A n \in 1..Cardinality(S) :
              /\ Nth(S, n) \in S
              /\ Subsequence(s, S)[n] = s[Nth(S, n)]
         /\ \A m, n \in 1..Cardinality(S) : Nth(S, m) = Nth(S, n) => m = n
<1>1. Len(s) \in Nat /\ DOMAIN s = 1..Len(s)
  OBVIOUS
<1>2. Cardinality(S) \in Nat
  BY <1>1, FS_Interval, FS_Subset, FS_CardinalityType, 1 \in Int, Len(s) \in Int
<1>3. ASSUME NEW n \in 1..Cardinality(S)
      PROVE  Nth(S, n) \in S /\ Cardinality({j \in S : j <= Nth(S, n)}) = n
  BY <1>1, NthExists
<1>4. ASSUME NEW n \in 1..Cardinality(S) PROVE s[Nth(S, n)] \in X
  <2>1. \A i \in 1..Len(s) : s[i] \in X
    OBVIOUS
  <2>2. Nth(S, n) \in 1..Len(s)
    BY <1>1, <1>3
  <2>3. QED
    BY <2>1, <2>2
<1>5. DOMAIN Subsequence(s, S) = 1..Cardinality(S)
  BY DEF Subsequence
<1>6. Subsequence(s, S) \in Seq(X)
  BY <1>2, <1>4 DEF Subsequence
<1>7. Len(Subsequence(s, S)) = Cardinality(S)
  BY <1>2, <1>5, <1>6
<1>8. ASSUME NEW m \in 1..Cardinality(S), NEW n \in 1..Cardinality(S),
             Nth(S, m) = Nth(S, n)
      PROVE  m = n
  BY <1>3, <1>8
<1>9. \A n \in 1..Cardinality(S) : Subsequence(s, S)[n] = s[Nth(S, n)]
  BY DEF Subsequence
<1>10. QED
  BY <1>3, <1>5, <1>6, <1>7, <1>8, <1>9

(* No element twice. *)
Unrepeated(s) == \A i, j \in DOMAIN s : s[i] = s[j] => i = j

LEMMA SubsequenceUnrepeated ==
  ASSUME NEW X, NEW s \in Seq(X), NEW S \in SUBSET DOMAIN s,
         \A i, j \in S : s[i] = s[j] => i = j
  PROVE  Unrepeated(Subsequence(s, S))
BY SubsequenceFacts DEF Unrepeated

LEMMA KeepFacts ==
  ASSUME NEW X, NEW s \in Seq(X), NEW K
  PROVE  /\ Keep(s, K) \in Seq(X)
         /\ Range(Keep(s, K)) \subseteq Range(s) \cap K
         /\ Unrepeated(s) => Unrepeated(Keep(s, K))
<1> DEFINE S == {i \in DOMAIN s : s[i] \in K}
<1>1. S \in SUBSET DOMAIN s /\ Keep(s, K) = Subsequence(s, S)
  BY DEF Keep
<1>2. \A i \in S : s[i] \in Range(s) \cap K
  BY DEF Range
<1>3. Unrepeated(s) => \A i, j \in S : s[i] = s[j] => i = j
  BY DEF Unrepeated
<1> HIDE DEF S
<1>4. Keep(s, K) \in Seq(X)
  BY <1>1, SubsequenceFacts
<1>5. Range(Keep(s, K)) \subseteq Range(s) \cap K
  <2>1. ASSUME NEW n \in DOMAIN Keep(s, K) PROVE Keep(s, K)[n] \in Range(s) \cap K
    BY <1>1, <1>2, SubsequenceFacts
  <2>2. QED
    BY <2>1 DEF Range
<1>6. Unrepeated(s) => Unrepeated(Keep(s, K))
  BY <1>1, <1>3, SubsequenceUnrepeated
<1>7. QED
  BY <1>4, <1>5, <1>6

LEMMA DropFacts ==
  ASSUME NEW X, NEW s \in Seq(X), NEW K
  PROVE  /\ Drop(s, K) \in Seq(X)
         /\ Range(Drop(s, K)) \subseteq Range(s) \ K
         /\ Unrepeated(s) => Unrepeated(Drop(s, K))
<1> DEFINE S == {i \in DOMAIN s : s[i] \notin K}
<1>1. S \in SUBSET DOMAIN s /\ Drop(s, K) = Subsequence(s, S)
  BY DEF Drop
<1>2. \A i \in S : s[i] \in Range(s) \ K
  BY DEF Range
<1>3. Unrepeated(s) => \A i, j \in S : s[i] = s[j] => i = j
  BY DEF Unrepeated
<1> HIDE DEF S
<1>4. Drop(s, K) \in Seq(X)
  BY <1>1, SubsequenceFacts
<1>5. Range(Drop(s, K)) \subseteq Range(s) \ K
  <2>1. ASSUME NEW n \in DOMAIN Drop(s, K) PROVE Drop(s, K)[n] \in Range(s) \ K
    BY <1>1, <1>2, SubsequenceFacts
  <2>2. QED
    BY <2>1 DEF Range
<1>6. Unrepeated(s) => Unrepeated(Drop(s, K))
  BY <1>1, <1>3, SubsequenceUnrepeated
<1>7. QED
  BY <1>4, <1>5, <1>6

(* Sonarr's season list: seasons of the episode list, none twice. *)
LEMMA DistinctFacts ==
  ASSUME NEW X, NEW s \in Seq(X)
  PROVE  /\ Distinct(s) \in Seq(X)
         /\ Range(Distinct(s)) \subseteq Range(s)
         /\ Unrepeated(Distinct(s))
<1> DEFINE S == {i \in DOMAIN s : \A j \in 1..i-1 : s[j] # s[i]}
<1>1. S \in SUBSET DOMAIN s /\ Distinct(s) = Subsequence(s, S)
  BY DEF Distinct
<1>2. ASSUME NEW i \in S, NEW j \in S, s[i] = s[j] PROVE i = j
  <2>1. i \in Nat /\ j \in Nat /\ i >= 1 /\ j >= 1
    OBVIOUS
  <2>2. ~(i < j) /\ ~(j < i)
    BY <1>2, <2>1
  <2>3. QED
    BY <2>1, <2>2
<1> HIDE DEF S
<1>3. Distinct(s) \in Seq(X)
  BY <1>1, SubsequenceFacts
<1>4. Range(Distinct(s)) \subseteq Range(s)
  <2>1. ASSUME NEW n \in DOMAIN Distinct(s) PROVE Distinct(s)[n] \in Range(s)
    <3>1. PICK i \in S : Distinct(s)[n] = s[i]
      BY <1>1, SubsequenceFacts
    <3>2. QED
      BY <1>1, <3>1 DEF Range
  <2>2. QED
    BY <2>1 DEF Range
<1>5. QED
  BY <1>1, <1>2, <1>3, <1>4, SubsequenceUnrepeated

LEMMA TakeFacts ==
  ASSUME NEW X, NEW s \in Seq(X), NEW n \in Int
  PROVE  /\ Take(s, n) \in Seq(X)
         /\ Range(Take(s, n)) \subseteq Range(s)
         /\ Len(Take(s, n)) <= IF n > 0 THEN n ELSE 0
         /\ Unrepeated(s) => Unrepeated(Take(s, n))
<1> DEFINE t == Take(s, n)
           m == Smaller(n, Len(s))
<1>1. Len(s) \in Nat /\ m \in Int /\ m <= n /\ m <= Len(s)
  BY DEF Smaller
<1>2. t = SubSeq(s, 1, m)
  BY DEF Take
<1> HIDE DEF t, m
<1>3. t \in Seq(X) /\ Len(t) = IF m > 0 THEN m ELSE 0
  BY <1>1, <1>2
<1>4. ASSUME NEW i \in DOMAIN t PROVE i \in DOMAIN s /\ t[i] = s[i]
  BY <1>1, <1>2, <1>3
<1>5. Range(t) \subseteq Range(s)
  BY <1>4 DEF Range
<1>6. Unrepeated(s) => Unrepeated(t)
  BY <1>4 DEF Unrepeated
<1>7. Len(t) <= IF n > 0 THEN n ELSE 0
  BY <1>1, <1>3
<1>8. QED
  BY <1>3, <1>5, <1>6, <1>7 DEF t

LEMMA JoinFacts ==
  ASSUME NEW X, NEW s \in Seq(X), NEW t \in Seq(X)
  PROVE  /\ s \o t \in Seq(X)
         /\ Len(s \o t) = Len(s) + Len(t)
         /\ Range(s \o t) = Range(s) \cup Range(t)
         /\ Unrepeated(s) /\ Unrepeated(t) /\ Range(s) \cap Range(t) = {}
              => Unrepeated(s \o t)
<1> DEFINE u == s \o t
<1>1. u \in Seq(X) /\ Len(u) = Len(s) + Len(t) /\ Len(s) \in Nat /\ Len(t) \in Nat
  OBVIOUS
<1>2. ASSUME NEW i \in DOMAIN u
      PROVE  \/ i \in DOMAIN s /\ u[i] = s[i]
             \/ i - Len(s) \in DOMAIN t /\ u[i] = t[i - Len(s)]
  BY <1>1
<1>3. \A i \in DOMAIN s : i \in DOMAIN u /\ u[i] = s[i]
  BY <1>1
<1>4. \A i \in DOMAIN t : Len(s) + i \in DOMAIN u /\ u[Len(s) + i] = t[i]
  BY <1>1
<1>5. \A i \in DOMAIN u : i \in Int
  BY <1>1
<1> HIDE DEF u
<1>6. Range(u) = Range(s) \cup Range(t)
  <2>1. Range(u) \subseteq Range(s) \cup Range(t)
    BY <1>2 DEF Range
  <2>2. Range(s) \subseteq Range(u) /\ Range(t) \subseteq Range(u)
    BY <1>3, <1>4 DEF Range
  <2>3. QED
    BY <2>1, <2>2
<1>7. ASSUME Unrepeated(s), Unrepeated(t), Range(s) \cap Range(t) = {}
      PROVE  Unrepeated(u)
  <2>1. \A i \in DOMAIN s : s[i] \in Range(s)
    BY DEF Range
  <2>2. \A i \in DOMAIN t : t[i] \in Range(t)
    BY DEF Range
  <2>3. ASSUME NEW i \in DOMAIN u, NEW j \in DOMAIN u, u[i] = u[j]
        PROVE  i = j
    <3>1. CASE i \in DOMAIN s /\ u[i] = s[i] /\ j \in DOMAIN s /\ u[j] = s[j]
      BY <1>7, <2>3, <3>1 DEF Unrepeated
    <3>2. CASE /\ i - Len(s) \in DOMAIN t /\ u[i] = t[i - Len(s)]
               /\ j - Len(s) \in DOMAIN t /\ u[j] = t[j - Len(s)]
      <4>1. i - Len(s) = j - Len(s)
        BY <1>7, <2>3, <3>2 DEF Unrepeated
      <4>2. QED
        BY <4>1, <1>1, <1>5
    <3>3. QED
      BY <1>2, <1>7, <2>1, <2>2, <2>3, <3>1, <3>2
  <2>4. QED
    BY <2>3 DEF Unrepeated
<1>8. QED
  BY <1>1, <1>6, <1>7 DEF u

-----------------------------------------------------------------------------

(* For every input: the batch only holds eligible items that are not       *)
(* claimed and no more of them than asked for; the new log only holds what *)
(* was searched before or is in the batch; a complete pass had a batch and *)
(* covers every eligible item that is not claimed; and where neither list  *)
(* repeats an item, neither the batch nor the log does.                    *)
THEOREM PrioritizeBatchFacts ==
  ASSUME NEW X, NEW eligible \in Seq(X), NEW searched \in Seq(X),
         NEW size \in Int, NEW exclude
  PROVE  LET result == PrioritizeBatch(eligible, searched, size, exclude)
         IN  /\ result \in [batch : Seq(X), log : Seq(X), passDone : BOOLEAN]
             /\ Len(result.batch) <= IF size > 0 THEN size ELSE 0
             /\ Range(result.batch) \subseteq Range(eligible) \ exclude
             /\ Range(result.log) \subseteq Range(searched) \cup Range(result.batch)
             /\ result.passDone =>
                  /\ result.batch # <<>>
                  /\ Range(eligible) \ exclude \subseteq Range(result.log)
             /\ Unrepeated(eligible) /\ Unrepeated(searched) =>
                  Unrepeated(result.batch) /\ Unrepeated(result.log)
<1> DEFINE log    == Keep(searched, Range(eligible))
           unseen == Drop(eligible, Range(log) \cup exclude)
           again  == Drop(log, exclude)
           first  == Take(unseen, size)
           rest   == Take(again, size - Len(first))
           batch  == first \o rest
           newLog == Drop(log, Range(batch)) \o batch
           done   == batch # <<>> /\ Range(eligible) \ exclude \subseteq Range(newLog)
<1>1. PrioritizeBatch(eligible, searched, size, exclude)
        = [batch |-> batch, log |-> newLog, passDone |-> done]
  BY DEF PrioritizeBatch
<1>2. /\ log \in Seq(X) /\ Range(log) \subseteq Range(searched) \cap Range(eligible)
      /\ Unrepeated(searched) => Unrepeated(log)
  BY KeepFacts
<1> HIDE DEF log
<1>3. /\ unseen \in Seq(X)
      /\ Range(unseen) \subseteq Range(eligible) \ (Range(log) \cup exclude)
      /\ Unrepeated(eligible) => Unrepeated(unseen)
  BY DropFacts
<1>4. /\ again \in Seq(X) /\ Range(again) \subseteq Range(log) \ exclude
      /\ Unrepeated(log) => Unrepeated(again)
  BY <1>2, DropFacts
<1> HIDE DEF unseen, again
<1>5. /\ first \in Seq(X) /\ Range(first) \subseteq Range(unseen)
      /\ Len(first) <= IF size > 0 THEN size ELSE 0
      /\ Unrepeated(unseen) => Unrepeated(first)
  BY <1>3, TakeFacts
<1> HIDE DEF first
<1>6. Len(first) \in Nat /\ size - Len(first) \in Int
  BY <1>5
<1>7. /\ rest \in Seq(X) /\ Range(rest) \subseteq Range(again)
      /\ Len(rest) <= IF size - Len(first) > 0 THEN size - Len(first) ELSE 0
      /\ Unrepeated(again) => Unrepeated(rest)
  BY <1>4, <1>6, TakeFacts
<1> HIDE DEF rest
<1>8. /\ batch \in Seq(X) /\ Len(batch) = Len(first) + Len(rest)
      /\ Range(batch) = Range(first) \cup Range(rest)
  BY <1>5, <1>7, JoinFacts
<1>9. Unrepeated(eligible) /\ Unrepeated(searched) => Unrepeated(batch)
  BY <1>2, <1>3, <1>4, <1>5, <1>7, JoinFacts
<1>10. Len(batch) <= IF size > 0 THEN size ELSE 0
  <2>1. Len(rest) \in Nat
    BY <1>7
  <2>2. QED
    BY <2>1, <1>5, <1>6, <1>7, <1>8
<1> HIDE DEF batch
<1> DEFINE kept == Drop(log, Range(batch))
<1>11. /\ kept \in Seq(X) /\ Range(kept) \subseteq Range(log) \ Range(batch)
       /\ Unrepeated(log) => Unrepeated(kept)
  BY <1>2, DropFacts
<1> HIDE DEF kept
<1>12. newLog = kept \o batch
  BY DEF kept
<1> HIDE DEF newLog
<1>13. /\ newLog \in Seq(X) /\ Range(newLog) = Range(kept) \cup Range(batch)
       /\ Unrepeated(kept) /\ Unrepeated(batch) => Unrepeated(newLog)
  BY <1>8, <1>11, <1>12, JoinFacts
<1>14. Range(batch) \subseteq Range(eligible) \ exclude
  BY <1>2, <1>3, <1>4, <1>5, <1>7, <1>8
<1>15. Range(newLog) \subseteq Range(searched) \cup Range(batch)
  BY <1>2, <1>11, <1>13
<1>16. Unrepeated(eligible) /\ Unrepeated(searched) => Unrepeated(newLog)
  BY <1>2, <1>9, <1>11, <1>13
<1> DEFINE result == PrioritizeBatch(eligible, searched, size, exclude)
<1>17. done \in BOOLEAN
  OBVIOUS
<1>18. done => batch # <<>> /\ Range(eligible) \ exclude \subseteq Range(newLog)
  OBVIOUS
<1> HIDE DEF done
<1>19. /\ result.batch = batch /\ result.log = newLog
       /\ result.passDone = done
       /\ result \in [batch : Seq(X), log : Seq(X), passDone : BOOLEAN]
  BY <1>1, <1>8, <1>13, <1>17
<1> HIDE DEF result
<1>20. /\ Len(result.batch) <= IF size > 0 THEN size ELSE 0
       /\ Range(result.batch) \subseteq Range(eligible) \ exclude
       /\ Range(result.log) \subseteq Range(searched) \cup Range(result.batch)
       /\ Unrepeated(eligible) /\ Unrepeated(searched) =>
            Unrepeated(result.batch) /\ Unrepeated(result.log)
  BY <1>9, <1>10, <1>14, <1>15, <1>16, <1>19
<1>21. result.passDone =>
         /\ result.batch # <<>>
         /\ Range(eligible) \ exclude \subseteq Range(result.log)
  BY <1>18, <1>19
<1>22. QED
  BY <1>19, <1>20, <1>21 DEF result

(* A filter that keeps something is not empty, ...                         *)
LEMMA DropNotEmpty ==
  ASSUME NEW X, NEW s \in Seq(X), NEW K, NEW i \in DOMAIN s, s[i] \notin K
  PROVE  Drop(s, K) # <<>>
<1> DEFINE S == {j \in DOMAIN s : s[j] \notin K}
<1>1. S \in SUBSET DOMAIN s /\ i \in S /\ Drop(s, K) = Subsequence(s, S)
  BY DEF Drop
<1>2. IsFiniteSet(S)
  <2>1. Len(s) \in Int /\ 1 \in Int /\ DOMAIN s = 1..Len(s)
    OBVIOUS
  <2>2. QED
    BY <1>1, <2>1, FS_Interval, FS_Subset
<1> HIDE DEF S
<1>3. Cardinality(S) # 0 /\ Len(Subsequence(s, S)) = Cardinality(S)
  BY <1>1, <1>2, FS_EmptySet, SubsequenceFacts
<1>4. Len(<<>>) = 0
  OBVIOUS
<1>5. QED
  BY <1>1, <1>3, <1>4

(* ... nor is what is taken of a sequence that is not.                     *)
LEMMA TakeNotEmpty ==
  ASSUME NEW X, NEW s \in Seq(X), s # <<>>, NEW n \in Int, n > 0
  PROVE  Take(s, n) # <<>>
<1> DEFINE m == Smaller(n, Len(s))
<1>1. Len(s) \in Nat /\ Len(s) # 0
  OBVIOUS
<1>2. m \in Int /\ 1 <= m /\ m <= Len(s)
  BY <1>1 DEF Smaller
<1>3. Take(s, n) = SubSeq(s, 1, m)
  BY DEF Take
<1> HIDE DEF m
<1>4. Len(SubSeq(s, 1, m)) = m
  BY <1>1, <1>2
<1>5. QED
  BY <1>2, <1>3, <1>4

(* A batch that may have items and excludes none is only empty when        *)
(* nothing is eligible.                                                    *)
LEMMA BatchNotEmpty ==
  ASSUME NEW X, NEW eligible \in Seq(X), NEW searched \in Seq(X),
         NEW size \in Int, size > 0, eligible # <<>>
  PROVE  PrioritizeBatch(eligible, searched, size, {}).batch # <<>>
<1> DEFINE log    == Keep(searched, Range(eligible))
           unseen == Drop(eligible, Range(log) \cup {})
           again  == Drop(log, {})
           first  == Take(unseen, size)
           rest   == Take(again, size - Len(first))
<1>1. PrioritizeBatch(eligible, searched, size, {}).batch = first \o rest
  BY DEF PrioritizeBatch
<1>2. log \in Seq(X)
  BY KeepFacts
<1>3. 1 \in DOMAIN eligible
  OBVIOUS
<1> HIDE DEF log
<1>4. unseen \in Seq(X) /\ again \in Seq(X)
  BY <1>2, DropFacts
<1>5. unseen # <<>> \/ again # <<>>
  <2>1. CASE eligible[1] \notin Range(log)
    BY <1>3, <2>1, DropNotEmpty
  <2>2. CASE eligible[1] \in Range(log)
    <3>1. PICK i \in DOMAIN log : log[i] = eligible[1]
      BY <2>2 DEF Range
    <3>2. QED
      BY <1>2, <3>1, DropNotEmpty
  <2>3. QED
    BY <2>1, <2>2
<1> HIDE DEF unseen, again
<1>6. first \in Seq(X) /\ (unseen # <<>> => first # <<>>)
  BY <1>4, TakeFacts, TakeNotEmpty
<1> HIDE DEF first
<1>7. rest \in Seq(X) /\ (first = <<>> => rest # <<>>)
  <2>1. Len(first) \in Nat /\ (first = <<>> => Len(first) = 0)
    BY <1>6
  <2>2. size - Len(first) \in Int /\ (first = <<>> => size - Len(first) > 0)
    BY <2>1
  <2>3. QED
    BY <1>4, <1>5, <1>6, <2>2, TakeFacts, TakeNotEmpty
<1> HIDE DEF rest
<1>8. Len(first \o rest) # 0
  BY <1>6, <1>7
<1>9. QED
  BY <1>1, <1>8

-----------------------------------------------------------------------------
(* The order of the kept positions: a filter neither loses a wanted item   *)
(* nor moves one past another.                                             *)

LEMMA RankGrows ==
  ASSUME NEW N \in Nat, NEW S, S \subseteq 1..N, NEW a \in S, NEW b \in S, a < b
  PROVE  Cardinality({j \in S : j <= a}) < Cardinality({j \in S : j <= b})
<1> DEFINE Upto(i) == {j \in S : j <= i}
<1>1. IsFiniteSet(S)
  BY FS_Interval, FS_Subset, 1 \in Int, N \in Int
<1>2. IsFiniteSet(Upto(b)) /\ Cardinality(Upto(b)) \in Nat
  BY <1>1, FS_Subset, FS_CardinalityType, Upto(b) \in SUBSET S
<1>3. ASSUME NEW j \in S PROVE j \in Int
  OBVIOUS
<1>4. Upto(a) \in SUBSET Upto(b)
  <2>1. ASSUME NEW j \in S, j <= a PROVE j <= b
    BY <1>3, <2>1
  <2>2. QED
    BY <2>1
<1>5. Upto(a) # Upto(b)
  <2>1. b \in Upto(b) /\ b \notin Upto(a)
    BY <1>3
  <2>2. QED
    BY <2>1
<1>6. IsFiniteSet(Upto(a)) /\ Cardinality(Upto(a)) \in Nat
  BY <1>1, FS_Subset, FS_CardinalityType, Upto(a) \in SUBSET S
<1> HIDE DEF Upto
<1>7. Cardinality(Upto(a)) <= Cardinality(Upto(b))
      /\ Cardinality(Upto(a)) # Cardinality(Upto(b))
  BY <1>2, <1>4, <1>5, FS_Subset
<1>8. Cardinality(Upto(a)) < Cardinality(Upto(b))
  BY <1>2, <1>6, <1>7
<1>9. QED
  BY <1>8 DEF Upto

(* Every position of a set has a rank, and is the element of that rank. *)
LEMMA NthOfRank ==
  ASSUME NEW N \in Nat, NEW S, S \subseteq 1..N, NEW i \in S
  PROVE  LET r == Cardinality({j \in S : j <= i})
         IN  r \in 1..Cardinality(S) /\ Nth(S, r) = i
<1> DEFINE U == {j \in S : j <= i}
           r == Cardinality(U)
<1>1. IsFiniteSet(S) /\ Cardinality(S) \in Nat
  BY FS_Interval, FS_Subset, FS_CardinalityType, 1 \in Int, N \in Int
<1>2. U \in SUBSET S /\ i \in U
  OBVIOUS
<1>3. IsFiniteSet(U) /\ r \in Nat /\ r <= Cardinality(S)
  BY <1>1, <1>2, FS_Subset, FS_CardinalityType
<1>4. r # 0
  BY <1>2, <1>3, FS_EmptySet
<1>5. r \in 1..Cardinality(S)
  <2> HIDE DEF r, U
  <2> QED
    BY <1>1, <1>3, <1>4
<1>6. Nth(S, r) \in S /\ Cardinality({j \in S : j <= Nth(S, r)}) = r
  <2> HIDE DEF r
  <2> QED
    BY <1>5, NthExists
<1>7. ~(Nth(S, r) < i)
  <2>1. SUFFICES ASSUME Nth(S, r) < i PROVE FALSE
    OBVIOUS
  <2> DEFINE x == Nth(S, r)
  <2>2. x \in S /\ x < i /\ Cardinality({j \in S : j <= x}) = r
    BY <1>6, <2>1
  <2> HIDE DEF x
  <2>3. Cardinality({j \in S : j <= x}) < r
    BY <2>2, RankGrows
  <2>4. QED
    BY <2>2, <2>3, <1>3
<1>8. ~(i < Nth(S, r))
  <2>1. SUFFICES ASSUME i < Nth(S, r) PROVE FALSE
    OBVIOUS
  <2> DEFINE x == Nth(S, r)
  <2>2. x \in S /\ i < x /\ Cardinality({j \in S : j <= x}) = r
    BY <1>6, <2>1
  <2> HIDE DEF x
  <2>3. r < Cardinality({j \in S : j <= x})
    BY <2>2, RankGrows
  <2>4. QED
    BY <2>2, <2>3, <1>3
<1>9. Nth(S, r) = i
  <2> HIDE DEF r
  <2>1. \A x \in S : x \in Int
    OBVIOUS
  <2>2. i \in Int /\ Nth(S, r) \in Int
    BY <1>6, <2>1, Zenon
  <2>3. QED
    BY <2>2, <1>7, <1>8
<1>10. QED
  BY <1>5, <1>9

LEMMA NthGrows ==
  ASSUME NEW N \in Nat, NEW S, S \subseteq 1..N,
         NEW m \in 1..Cardinality(S), NEW n \in 1..Cardinality(S), m < n
  PROVE  Nth(S, m) < Nth(S, n)
<1> DEFINE x == Nth(S, m)
           y == Nth(S, n)
<1>1. x \in S /\ Cardinality({j \in S : j <= x}) = m
  BY NthExists
<1>2. y \in S /\ Cardinality({j \in S : j <= y}) = n
  BY NthExists
<1> HIDE DEF x, y
<1>3. x \in Int /\ y \in Int
  BY <1>1, <1>2
<1>4. IsFiniteSet(S) /\ Cardinality(S) \in Nat
  BY FS_Interval, FS_Subset, FS_CardinalityType, 1 \in Int, N \in Int
<1>5. m \in Int /\ n \in Int
  BY <1>4
<1>6. x # y
  BY <1>1, <1>2, <1>5
<1>7. ~(y < x)
  <2>1. SUFFICES ASSUME y < x PROVE FALSE
    OBVIOUS
  <2>2. n < m
    BY <1>1, <1>2, <2>1, RankGrows
  <2>3. QED
    BY <1>5, <2>2
<1>8. x < y
  BY <1>3, <1>6, <1>7
<1>9. QED
  BY <1>8 DEF x, y

(* Every chosen position is in the subsequence, and in its order. *)
LEMMA SubsequenceOrder ==
  ASSUME NEW X, NEW s \in Seq(X), NEW S \in SUBSET DOMAIN s
  PROVE  /\ \A i \in S : \E n \in DOMAIN Subsequence(s, S) :
              Nth(S, n) = i /\ Subsequence(s, S)[n] = s[i]
         /\ \A m, n \in DOMAIN Subsequence(s, S) :
              m < n => Nth(S, m) < Nth(S, n)
<1>1. Len(s) \in Nat /\ S \subseteq 1..Len(s)
  OBVIOUS
<1>2. DOMAIN Subsequence(s, S) = 1..Cardinality(S)
  BY SubsequenceFacts
<1>3. ASSUME NEW i \in S
      PROVE  \E n \in DOMAIN Subsequence(s, S) :
               Nth(S, n) = i /\ Subsequence(s, S)[n] = s[i]
  <2> DEFINE r == Cardinality({j \in S : j <= i})
  <2>1. r \in 1..Cardinality(S) /\ Nth(S, r) = i
    BY <1>1, NthOfRank
  <2> HIDE DEF r
  <2>2. Subsequence(s, S)[r] = s[Nth(S, r)]
    BY <2>1, SubsequenceFacts
  <2>3. QED
    BY <1>2, <2>1, <2>2
<1>4. ASSUME NEW m \in DOMAIN Subsequence(s, S), NEW n \in DOMAIN Subsequence(s, S),
             m < n
      PROVE  Nth(S, m) < Nth(S, n)
  BY <1>1, <1>2, <1>4, NthGrows
<1>5. QED
  BY <1>3, <1>4

LEMMA SubsequenceRange ==
  ASSUME NEW X, NEW s \in Seq(X), NEW S \in SUBSET DOMAIN s
  PROVE  Range(Subsequence(s, S)) = {s[i] : i \in S}
<1> DEFINE t == Subsequence(s, S)
<1>1. \A n \in DOMAIN t : Nth(S, n) \in S /\ t[n] = s[Nth(S, n)]
  BY SubsequenceFacts
<1>2. \A i \in S : \E n \in DOMAIN t : t[n] = s[i]
  BY SubsequenceOrder
<1> HIDE DEF t
<1>3. Range(t) = {s[i] : i \in S}
  BY <1>1, <1>2 DEF Range
<1>4. QED
  BY <1>3 DEF t

LEMMA KeepRange ==
  ASSUME NEW X, NEW s \in Seq(X), NEW K
  PROVE  Range(Keep(s, K)) = Range(s) \cap K
<1> DEFINE S == {i \in DOMAIN s : s[i] \in K}
<1>1. S \in SUBSET DOMAIN s /\ Keep(s, K) = Subsequence(s, S)
  BY DEF Keep
<1>2. {s[i] : i \in S} = Range(s) \cap K
  BY DEF Range
<1> HIDE DEF S
<1>3. QED
  BY <1>1, <1>2, SubsequenceRange

LEMMA DropRange ==
  ASSUME NEW X, NEW s \in Seq(X), NEW K
  PROVE  Range(Drop(s, K)) = Range(s) \ K
<1> DEFINE S == {i \in DOMAIN s : s[i] \notin K}
<1>1. S \in SUBSET DOMAIN s /\ Drop(s, K) = Subsequence(s, S)
  BY DEF Drop
<1>2. {s[i] : i \in S} = Range(s) \ K
  BY DEF Range
<1> HIDE DEF S
<1>3. QED
  BY <1>1, <1>2, SubsequenceRange

(* Two items of a filtered list stand in the order of the list. *)
InOrder(t, s) ==
  \A m, n \in DOMAIN t :
    m < n => \E i, j \in DOMAIN s : i < j /\ t[m] = s[i] /\ t[n] = s[j]

LEMMA SubsequenceInOrder ==
  ASSUME NEW X, NEW s \in Seq(X), NEW S \in SUBSET DOMAIN s
  PROVE  InOrder(Subsequence(s, S), s)
<1> DEFINE t == Subsequence(s, S)
<1>1. \A n \in DOMAIN t : Nth(S, n) \in S /\ t[n] = s[Nth(S, n)]
  BY SubsequenceFacts
<1>2. \A m, n \in DOMAIN t : m < n => Nth(S, m) < Nth(S, n)
  BY SubsequenceOrder
<1> HIDE DEF t
<1>3. InOrder(t, s)
  BY <1>1, <1>2 DEF InOrder
<1>4. QED
  BY <1>3 DEF t

LEMMA KeepInOrder ==
  ASSUME NEW X, NEW s \in Seq(X), NEW K
  PROVE  InOrder(Keep(s, K), s)
BY SubsequenceInOrder DEF Keep

LEMMA DropInOrder ==
  ASSUME NEW X, NEW s \in Seq(X), NEW K
  PROVE  InOrder(Drop(s, K), s)
BY SubsequenceInOrder DEF Drop

(* Exactly what is taken. *)
LEMMA TakeExact ==
  ASSUME NEW X, NEW s \in Seq(X), NEW n \in Int
  PROVE  /\ Take(s, n) \in Seq(X)
         /\ Len(Take(s, n)) =
              IF n <= 0 THEN 0 ELSE IF n <= Len(s) THEN n ELSE Len(s)
         /\ \A i \in DOMAIN Take(s, n) : i \in DOMAIN s /\ Take(s, n)[i] = s[i]
         /\ n >= Len(s) => Take(s, n) = s
<1> DEFINE t == Take(s, n)
           m == Smaller(n, Len(s))
<1>1. Len(s) \in Nat /\ m \in Int /\ m <= Len(s)
      /\ m = IF n <= Len(s) THEN n ELSE Len(s)
  BY DEF Smaller
<1>2. t = SubSeq(s, 1, m)
  BY DEF Take
<1> HIDE DEF t, m
<1>3. t \in Seq(X) /\ Len(t) = IF m > 0 THEN m ELSE 0
  BY <1>1, <1>2
<1>4. ASSUME NEW i \in DOMAIN t PROVE i \in DOMAIN s /\ t[i] = s[i]
  BY <1>1, <1>2, <1>3
<1>5. Len(t) = IF n <= 0 THEN 0 ELSE IF n <= Len(s) THEN n ELSE Len(s)
  BY <1>1, <1>3
<1>6. ASSUME n >= Len(s) PROVE t = s
  <2>1. m = Len(s)
    BY <1>1, <1>6
  <2>2. t = SubSeq(s, 1, Len(s))
    BY <1>2, <2>1
  <2>3. QED
    BY <2>2
<1>7. QED
  BY <1>3, <1>4, <1>5, <1>6 DEF t

(* A list without repetition is as long as its set of items is large. *)
LEMMA UnrepeatedLength ==
  ASSUME NEW X, NEW s \in Seq(X)
  PROVE  /\ IsFiniteSet(Range(s)) /\ Cardinality(Range(s)) \in Nat
         /\ Unrepeated(s) => Cardinality(Range(s)) = Len(s)
<1> DEFINE D == 1..Len(s)
<1>1. Len(s) \in Nat /\ D = DOMAIN s /\ s \in [D -> X]
  OBVIOUS
<1>2. IsFiniteSet(D) /\ Cardinality(D) = Len(s)
  BY <1>1, FS_Interval, 1 \in Int, Len(s) \in Int
<1> HIDE DEF D
<1>3. s \in Surjection(D, Range(s))
  BY <1>1, Fun_RangeProperties
<1>4. /\ IsFiniteSet(Range(s))
      /\ Cardinality(Range(s)) = Cardinality(D) <=> s \in Injection(D, Range(s))
  BY <1>2, <1>3, FS_Surjection
<1>5. ASSUME Unrepeated(s) PROVE s \in Injection(D, Range(s))
  <2>1. s \in [D -> Range(s)]
    BY <1>3, Fun_SurjectionProperties
  <2>2. QED
    BY <1>1, <1>5, <2>1, Fun_IsInj DEF Unrepeated
<1>6. QED
  BY <1>2, <1>4, <1>5, FS_CardinalityType
-----------------------------------------------------------------------------
(* The age of an item in a log without repetition is its position. *)
LEMMA AgeIsPosition ==
  ASSUME NEW X, NEW s \in Seq(X), Unrepeated(s), NEW i \in DOMAIN s
  PROVE  Age(s[i], s) = i
BY DEF Age, Unrepeated

(* For every fetched list and log without repetition, every size and       *)
(* claimed set: the batch is as full as the candidates allow, holds every  *)
(* never-searched candidate before it repeats an item, and repeats those   *)
(* that were searched longest ago.                                         *)
THEOREM BatchIsOldestFirst ==
  ASSUME NEW X, NEW eligible \in Seq(X), NEW searched \in Seq(X),
         NEW size \in Int, NEW exclude,
         Unrepeated(eligible), Unrepeated(searched)
  PROVE  OldestSearchedFirst(eligible, searched, size, exclude)
<1> DEFINE log    == Keep(searched, Range(eligible))
           unseen == Drop(eligible, Range(log) \cup exclude)
           again  == Drop(log, exclude)
           first  == Take(unseen, size)
           rest   == Take(again, size - Len(first))
           batch  == PrioritizeBatch(eligible, searched, size, exclude).batch
           left   == Candidates(eligible, exclude) \ Range(batch)
<1>1. batch = first \o rest
  BY DEF PrioritizeBatch
<1>2. Range(batch) \subseteq Candidates(eligible, exclude) /\ Unrepeated(batch)
      /\ batch \in Seq(X)
  BY PrioritizeBatchFacts DEF Candidates
<1> HIDE DEF batch
<1>3. Len(batch) = Cardinality(Range(batch))
  BY <1>2, UnrepeatedLength
<1>4. log \in Seq(X) /\ Range(log) = Range(searched) \cap Range(eligible)
      /\ InOrder(log, searched)
  BY KeepFacts, KeepRange, KeepInOrder
<1> HIDE DEF log
<1>5. unseen \in Seq(X)
      /\ Range(unseen) = Range(eligible) \ (Range(log) \cup exclude)
  BY DropFacts, DropRange
<1>6. again \in Seq(X) /\ Range(again) = Range(log) \ exclude
      /\ InOrder(again, log)
  BY <1>4, DropFacts, DropRange, DropInOrder
<1> HIDE DEF unseen, again
<1>7. /\ first \in Seq(X)
      /\ Len(first) =
           IF size <= 0 THEN 0 ELSE IF size <= Len(unseen) THEN size ELSE Len(unseen)
      /\ size >= Len(unseen) => first = unseen
      /\ Range(first) \subseteq Range(unseen)
  BY <1>5, TakeExact, TakeFacts
<1> HIDE DEF first
<1>8. Len(first) \in Nat /\ size - Len(first) \in Int /\ Len(unseen) \in Nat
      /\ Len(again) \in Nat
  BY <1>5, <1>6, <1>7
<1> DEFINE room == size - Len(first)
<1>9. /\ rest \in Seq(X)
      /\ Len(rest) =
           IF room <= 0 THEN 0 ELSE IF room <= Len(again) THEN room ELSE Len(again)
      /\ \A i \in DOMAIN rest : i \in DOMAIN again /\ rest[i] = again[i]
      /\ room >= Len(again) => rest = again
  BY <1>6, <1>8, TakeExact
<1>10. room \in Int /\ room = size - Len(first)
  BY <1>8
<1> HIDE DEF rest, room
<1>11. Len(batch) = Len(first) + Len(rest)
       /\ Range(batch) = Range(first) \cup Range(rest)
  <2>1. Len(first \o rest) = Len(first) + Len(rest)
        /\ Range(first \o rest) = Range(first) \cup Range(rest)
    <3>1. first \in Seq(X) /\ rest \in Seq(X)
      BY <1>7, <1>9
    <3>2. QED
      BY <3>1, JoinFacts, Zenon
  <2>2. QED
    BY <1>1, <2>1
<1>12. Candidates(eligible, exclude) = Range(unseen) \cup Range(again)
  BY <1>4, <1>5, <1>6 DEF Candidates
<1>13. Len(rest) \in Nat
  BY <1>9
<1>14. ASSUME left # {} PROVE Len(batch) = IF size > 0 THEN size ELSE 0
  <2>1. ~(first = unseen /\ rest = again)
    BY <1>11, <1>12, <1>14
  <2>2. CASE ~(size >= Len(unseen))
    <3>1. Len(first) = IF size > 0 THEN size ELSE 0
      BY <1>7, <1>8, <2>2
    <3>2. room <= 0
      BY <1>8, <1>10, <3>1
    <3>3. Len(rest) = 0
      BY <1>9, <3>2
    <3>4. QED
      BY <1>8, <1>11, <1>13, <3>1, <3>3
  <2>3. CASE size >= Len(unseen)
    <3>1. first = unseen /\ Len(first) <= size /\ size >= 0
      BY <1>7, <1>8, <2>3
    <3>2. ~(room >= Len(again))
      BY <1>9, <2>1, <3>1
    <3>3. Len(rest) = IF room <= 0 THEN 0 ELSE room
      BY <1>8, <1>9, <1>10, <3>2
    <3>4. Len(rest) = size - Len(first)
      BY <1>8, <1>10, <3>1, <3>3
    <3>5. QED
      BY <1>8, <1>11, <3>1, <3>4
  <2>4. QED
    BY <2>2, <2>3
<1>15. ASSUME NEW x \in Range(batch), NEW y \in left, x \in Range(searched)
       PROVE  y \in Range(searched) /\ Age(x, searched) < Age(y, searched)
  <2>1. x \in Range(log) /\ x \notin Range(unseen)
    BY <1>2, <1>4, <1>5, <1>15 DEF Candidates
  <2>2. x \in Range(rest)
    BY <1>7, <1>11, <2>1
  <2>3. PICK a \in DOMAIN rest : rest[a] = x
    BY <2>2 DEF Range
  <2>4. a \in DOMAIN again /\ again[a] = x /\ a \in Nat /\ a >= 1 /\ a <= Len(rest)
    BY <1>9, <2>3
  <2>5. room > 0 /\ a <= room
    BY <1>8, <1>9, <1>10, <2>4
  <2>6. size >= Len(unseen)
    BY <1>7, <1>8, <1>10, <2>5
  <2>7. first = unseen
    BY <1>7, <2>6
  <2>8. y \in Range(again) /\ y \notin Range(rest)
    BY <1>11, <1>12, <2>7
  <2>9. PICK b \in DOMAIN again : again[b] = y
    BY <2>8 DEF Range
  <2>10. b \notin DOMAIN rest
    BY <1>9, <2>8, <2>9 DEF Range
  <2>11. b \in Nat /\ b >= 1 /\ b <= Len(again)
    BY <1>6, <2>9
  <2>12. ~(b <= Len(rest))
    BY <1>9, <2>10, <2>11
  <2>13. a < b
    BY <1>13, <2>4, <2>11, <2>12
  <2>14. PICK p \in DOMAIN log, r \in DOMAIN log :
           p < r /\ again[a] = log[p] /\ again[b] = log[r]
    BY <1>6, <2>4, <2>9, <2>13 DEF InOrder
  <2>15. PICK i \in DOMAIN searched, j \in DOMAIN searched :
           i < j /\ log[p] = searched[i] /\ log[r] = searched[j]
    BY <1>4, <2>14 DEF InOrder
  <2>16. x = searched[i] /\ y = searched[j]
    BY <2>4, <2>9, <2>14, <2>15
  <2>17. Age(x, searched) = i /\ Age(y, searched) = j
    BY <2>16, AgeIsPosition
  <2>18. y \in Range(searched)
    BY <2>16 DEF Range
  <2>19. QED
    BY <2>15, <2>17, <2>18
<1> HIDE DEF left
<1>16. QED
  BY <1>2, <1>3, <1>14, <1>15 DEF OldestSearchedFirst, batch, left
-----------------------------------------------------------------------------
(* A strictly growing correspondence between the kept positions of two     *)
(* lists that pairs equal items: what is kept of them is the same.         *)
LEMMA SameKept ==
  ASSUME NEW X, NEW s \in Seq(X), NEW t \in Seq(X),
         NEW A \in SUBSET DOMAIN s, NEW B \in SUBSET DOMAIN t,
         NEW q \in [B -> A],
         \A i \in A : \E j \in B : q[j] = i,
         \A i, j \in B : i < j => q[i] < q[j],
         \A j \in B : t[j] = s[q[j]]
  PROVE  Subsequence(t, B) = Subsequence(s, A)
<1>1. /\ Len(s) \in Nat /\ Len(t) \in Nat
      /\ A \subseteq 1..Len(s) /\ B \subseteq 1..Len(t)
  OBVIOUS
<1>2. (\A i \in A : i \in Int) /\ (\A j \in B : j \in Int)
  BY <1>1
<1>3. IsFiniteSet(A) /\ IsFiniteSet(B)
  BY <1>1, FS_Interval, FS_Subset, 1 \in Int, Len(s) \in Int, Len(t) \in Int
<1>4. ASSUME NEW i \in B, NEW j \in B PROVE q[i] <= q[j] <=> i <= j
  <2>1. i < j \/ i = j \/ j < i
    BY <1>2
  <2>2. q[i] \in A /\ q[j] \in A /\ q[i] \in Int /\ q[j] \in Int
    BY <1>2
  <2>3. (i < j => q[i] < q[j]) /\ (j < i => q[j] < q[i])
    OBVIOUS
  <2> DEFINE qi == q[i]   qj == q[j]
  <2>4. qi \in Int /\ qj \in Int /\ (i < j => qi < qj) /\ (j < i => qj < qi)
        /\ (i = j => qi = qj) /\ i \in Int /\ j \in Int
    BY <1>2, <2>2, <2>3
  <2> HIDE DEF qi, qj
  <2>5. qi <= qj <=> i <= j
    BY <2>1, <2>4
  <2>6. QED
    BY <2>5 DEF qi, qj
<1>5. ASSUME NEW V \in SUBSET B, NEW U, U = {q[j] : j \in V}
      PROVE  Cardinality(U) = Cardinality(V)
  <2> DEFINE f == [j \in V |-> q[j]]
  <2>1. f \in [V -> U]
    BY <1>5
  <2>2. \A u \in U : \E j \in V : f[j] = u
    BY <1>5
  <2>3. \A i, j \in V : f[i] = f[j] => i = j
    <3>1. ASSUME NEW i \in V, NEW j \in V, f[i] = f[j] PROVE i = j
      <4>1. i \in B /\ j \in B /\ q[i] = q[j] /\ i \in Int /\ j \in Int
        BY <1>2, <3>1
      <4>2. q[i] \in Int
        BY <1>2, <4>1
      <4>3. q[i] <= q[j] /\ q[j] <= q[i]
        BY <4>1, <4>2
      <4>4. i <= j /\ j <= i
        BY <1>4, <4>1, <4>3
      <4>5. QED
        BY <4>1, <4>4
    <3>2. QED
      BY <3>1
  <2> HIDE DEF f
  <2>4. f \in Bijection(V, U)
    BY <2>1, <2>2, <2>3, Fun_IsBij
  <2>5. ExistsBijection(V, U)
    BY <2>4, Fun_ExistsBij
  <2>6. IsFiniteSet(V)
    BY <1>3, FS_Subset
  <2>7. QED
    BY <2>5, <2>6, FS_Bijection
<1>6. Cardinality(A) = Cardinality(B)
  <2>1. A = {q[j] : j \in B}
    OBVIOUS
  <2>2. QED
    BY <1>5, <2>1
<1>7. ASSUME NEW n \in 1..Cardinality(B) PROVE q[Nth(B, n)] = Nth(A, n)
  <2> DEFINE b == Nth(B, n)
             U == {i \in A : i <= q[b]}
             V == {j \in B : j <= b}
  <2>1. b \in B /\ Cardinality(V) = n
    BY <1>1, NthExists
  <2> HIDE DEF b
  <2>2. U = {q[j] : j \in V}
    <3>1. ASSUME NEW j \in V PROVE q[j] \in U
      BY <1>4, <2>1
    <3>2. ASSUME NEW i \in U PROVE \E j \in V : i = q[j]
      <4>1. PICK j \in B : q[j] = i
        OBVIOUS
      <4>2. j <= b
        BY <1>4, <2>1, <4>1
      <4>3. QED
        BY <4>1, <4>2
    <3>3. QED
      BY <3>1, <3>2
  <2>3. Cardinality(U) = n
    <3>1. V \in SUBSET B
      OBVIOUS
    <3> HIDE DEF U, V
    <3>2. QED
      BY <1>5, <2>1, <2>2, <3>1
  <2>4. q[b] \in A
    BY <2>1
  <2>5. Nth(A, Cardinality(U)) = q[b]
    BY <1>1, <2>4, NthOfRank
  <2> HIDE DEF U
  <2>6. QED
    BY <2>3, <2>5 DEF b
<1>8. ASSUME NEW n \in 1..Cardinality(B) PROVE t[Nth(B, n)] = s[Nth(A, n)]
  <2>1. Nth(B, n) \in B
    BY <1>1, NthExists
  <2>2. QED
    BY <1>7, <2>1
<1>9. QED
  BY <1>6, <1>8 DEF Subsequence

(* Keeping what an earlier filter keeps anyway. *)
LEMMA KeepOfSubsequence ==
  ASSUME NEW X, NEW s \in Seq(X), NEW S \in SUBSET DOMAIN s, NEW K,
         \A i \in DOMAIN s : s[i] \in K => i \in S
  PROVE  Keep(Subsequence(s, S), K) = Keep(s, K)
<1> DEFINE t == Subsequence(s, S)
           A == {i \in DOMAIN s : s[i] \in K}
           B == {j \in DOMAIN t : t[j] \in K}
           q == [j \in B |-> Nth(S, j)]
<1>1. t \in Seq(X) /\ \A n \in DOMAIN t : Nth(S, n) \in S /\ t[n] = s[Nth(S, n)]
  BY SubsequenceFacts
<1>2. /\ \A i \in S : \E n \in DOMAIN t : Nth(S, n) = i /\ t[n] = s[i]
      /\ \A m, n \in DOMAIN t : m < n => Nth(S, m) < Nth(S, n)
  BY SubsequenceOrder
<1> HIDE DEF t
<1>3. \A j \in B : q[j] \in A /\ t[j] = s[q[j]]
  BY <1>1
<1>4. \A i \in A : \E j \in B : q[j] = i
  BY <1>2
<1>5. \A i, j \in B : i < j => q[i] < q[j]
  BY <1>2
<1>6. q \in [B -> A] /\ A \in SUBSET DOMAIN s /\ B \in SUBSET DOMAIN t
  BY <1>3
<1>7. Keep(t, K) = Subsequence(t, B) /\ Keep(s, K) = Subsequence(s, A)
  BY DEF Keep
<1> HIDE DEF A, B, q
<1>8. Subsequence(t, B) = Subsequence(s, A)
  BY <1>1, <1>3, <1>4, <1>5, <1>6, SameKept
<1>9. QED
  BY <1>7, <1>8 DEF t

(* What is appended and not wanted is not kept. *)
LEMMA KeepOfJoin ==
  ASSUME NEW X, NEW s \in Seq(X), NEW u \in Seq(X), NEW K, Range(u) \cap K = {}
  PROVE  Keep(s \o u, K) = Keep(s, K)
<1> DEFINE t == s \o u
           A == {i \in DOMAIN s : s[i] \in K}
           B == {j \in DOMAIN t : t[j] \in K}
           q == [j \in B |-> j]
<1>1. t \in Seq(X) /\ Len(t) = Len(s) + Len(u) /\ Len(s) \in Nat /\ Len(u) \in Nat
  OBVIOUS
<1>2. ASSUME NEW i \in DOMAIN t
      PROVE  \/ i \in DOMAIN s /\ t[i] = s[i]
             \/ i - Len(s) \in DOMAIN u /\ t[i] = u[i - Len(s)]
  BY <1>1
<1>3. \A i \in DOMAIN s : i \in DOMAIN t /\ t[i] = s[i]
  BY <1>1
<1> HIDE DEF t
<1>4. \A i \in DOMAIN u : u[i] \notin K
  BY DEF Range
<1>5. A = B /\ \A j \in B : j \in DOMAIN s /\ t[j] = s[j]
  BY <1>2, <1>3, <1>4
<1>6. A \in SUBSET DOMAIN s /\ B \in SUBSET DOMAIN t
  OBVIOUS
<1>7. /\ q \in [B -> A]
      /\ \A i \in A : \E j \in B : q[j] = i
      /\ \A i, j \in B : i < j => q[i] < q[j]
      /\ \A j \in B : t[j] = s[q[j]]
  BY <1>5
<1>8. Keep(t, K) = Subsequence(t, B) /\ Keep(s, K) = Subsequence(s, A)
  BY DEF Keep
<1> HIDE DEF A, B, q
<1>9. Subsequence(t, B) = Subsequence(s, A)
  <2>1. t \in Seq(X)
    BY <1>1
  <2>2. QED
    BY <2>1, <1>6, <1>7, SameKept
<1>10. QED
  BY <1>8, <1>9 DEF t

(* For every fetched list, log, size and claimed set: a claimed item keeps *)
(* its place among the claimed ones of the log, and the rest of the new    *)
(* log is what was searched before and is still wanted, and the batch.     *)
THEOREM ClaimedItemsStay ==
  ASSUME NEW X, NEW eligible \in Seq(X), NEW searched \in Seq(X),
         NEW size \in Int, NEW exclude
  PROVE  ClaimedKeepPlace(eligible, searched, size, exclude)
<1> DEFINE wanted == Range(eligible)
           kept   == exclude \cap wanted
           log    == Keep(searched, wanted)
           result == PrioritizeBatch(eligible, searched, size, exclude)
           batch  == result.batch
           pruned == Drop(log, Range(batch))
<1>1. result.log = pruned \o batch
  BY DEF PrioritizeBatch
<1>2. batch \in Seq(X) /\ Range(batch) \subseteq wanted \ exclude
  BY PrioritizeBatchFacts
<1>3. log \in Seq(X) /\ Range(log) = Range(searched) \cap wanted
  BY KeepFacts, KeepRange
<1>4. Keep(log, kept) = Keep(searched, kept)
  <2> DEFINE S == {i \in DOMAIN searched : searched[i] \in wanted}
  <2>1. log = Subsequence(searched, S)
    BY DEF Keep
  <2>2. S \in SUBSET DOMAIN searched
    OBVIOUS
  <2>3. \A i \in DOMAIN searched : searched[i] \in kept => i \in S
    OBVIOUS
  <2> HIDE DEF S, kept, log
  <2>4. QED
    BY <2>1, <2>2, <2>3, KeepOfSubsequence
<1> HIDE DEF log, result
<1>5. pruned \in Seq(X) /\ Range(pruned) = Range(log) \ Range(batch)
  BY <1>3, DropFacts, DropRange
<1>6. Keep(pruned, kept) = Keep(log, kept)
  <2> DEFINE S == {i \in DOMAIN log : log[i] \notin Range(batch)}
  <2>1. pruned = Subsequence(log, S)
    BY DEF Drop
  <2>2. S \in SUBSET DOMAIN log
    OBVIOUS
  <2>3. \A i \in DOMAIN log : log[i] \in kept => i \in S
    BY <1>2
  <2> HIDE DEF S, kept, pruned
  <2>4. QED
    BY <1>3, <2>1, <2>2, <2>3, KeepOfSubsequence
<1>7. Range(batch) \cap kept = {}
  BY <1>2
<1> HIDE DEF pruned, kept, batch
<1>8. Keep(pruned \o batch, kept) = Keep(pruned, kept)
  BY <1>2, <1>5, <1>7, KeepOfJoin
<1>9. Range(pruned \o batch) = Range(pruned) \cup Range(batch)
  <2>1. pruned \in Seq(X) /\ batch \in Seq(X)
    BY <1>2, <1>5
  <2>2. QED
    BY <2>1, JoinFacts, Zenon
<1>10. Range(result.log) = (Range(searched) \cap wanted) \cup Range(batch)
  BY <1>1, <1>3, <1>5, <1>9
<1>11. Keep(result.log, kept) = Keep(searched, kept)
  BY <1>1, <1>4, <1>6, <1>8
<1>12. QED
  BY <1>10, <1>11 DEF ClaimedKeepPlace, result, kept, batch
-----------------------------------------------------------------------------
(* One cycle of a stable queue that claims nothing: the log grows by size  *)
(* items of the list until it covers it, and the cycle that covers it      *)
(* completes the pass.                                                     *)
LEMMA CycleCovers ==
  ASSUME NEW X, NEW eligible \in Seq(X), NEW searched \in Seq(X),
         NEW size \in Int, size > 0, eligible # <<>>,
         Unrepeated(eligible), Unrepeated(searched),
         Range(searched) \subseteq Range(eligible)
  PROVE  LET result == PrioritizeBatch(eligible, searched, size, {})
         IN  /\ result.log \in Seq(X) /\ Unrepeated(result.log)
             /\ Range(result.log) \subseteq Range(eligible)
             /\ Cardinality(Range(result.log)) =
                  Smaller(Cardinality(Range(searched)) + size, Len(eligible))
             /\ result.passDone <=>
                  Cardinality(Range(searched)) + size >= Len(eligible)
<1> DEFINE log    == Keep(searched, Range(eligible))
           unseen == Drop(eligible, Range(log) \cup {})
           again  == Drop(log, {})
           first  == Take(unseen, size)
           rest   == Take(again, size - Len(first))
           result == PrioritizeBatch(eligible, searched, size, {})
<1>1. result.batch = first \o rest
      /\ (result.passDone <=> result.batch # <<>>
                               /\ Range(eligible) \ {} \subseteq Range(result.log))
  BY DEF PrioritizeBatch
<1>2. /\ result.log \in Seq(X) /\ Unrepeated(result.log)
      /\ Range(result.batch) \subseteq Range(eligible)
  BY PrioritizeBatchFacts
<1>3. Range(result.log) = Range(searched) \cup Range(result.batch)
  <2>1. ClaimedKeepPlace(eligible, searched, size, {})
    BY ClaimedItemsStay
  <2>2. QED
    BY <2>1 DEF ClaimedKeepPlace
<1>4. result.batch # <<>>
  BY BatchNotEmpty
<1> HIDE DEF result
<1>5. log \in Seq(X) /\ Range(log) = Range(searched)
  <2>1. log \in Seq(X) /\ Range(log) = Range(searched) \cap Range(eligible)
    BY KeepFacts, KeepRange, Zenon
  <2> HIDE DEF log
  <2>2. QED
    BY <2>1
<1> HIDE DEF log
<1>6. /\ unseen \in Seq(X) /\ Unrepeated(unseen)
      /\ Range(unseen) = Range(eligible) \ Range(searched)
  BY <1>5, DropFacts, DropRange
<1>7. again \in Seq(X) /\ Range(again) = Range(searched)
  <2>1. again \in Seq(X) /\ Range(again) = Range(log) \ {}
    BY <1>5, DropFacts, DropRange, Zenon
  <2> HIDE DEF again
  <2>2. QED
    BY <1>5, <2>1
<1> HIDE DEF unseen, again
<1>8. /\ first \in Seq(X) /\ Unrepeated(first) /\ Range(first) \subseteq Range(unseen)
      /\ Len(first) = IF size <= Len(unseen) THEN size ELSE Len(unseen)
  <2>1. /\ Unrepeated(first) /\ Range(first) \subseteq Range(unseen)
    BY <1>6, TakeFacts
  <2>2. /\ first \in Seq(X)
        /\ Len(first) = IF size <= 0 THEN 0
                        ELSE IF size <= Len(unseen) THEN size ELSE Len(unseen)
    BY <1>6, TakeExact
  <2>3. QED
    BY <2>1, <2>2
<1> HIDE DEF first
<1>9. rest \in Seq(X) /\ Range(rest) \subseteq Range(again)
  <2>1. size - Len(first) \in Int
    BY <1>8
  <2>2. QED
    BY <1>7, <2>1, TakeFacts
<1> HIDE DEF rest
<1>10. Range(result.batch) = Range(first) \cup Range(rest)
  <2>1. first \in Seq(X) /\ rest \in Seq(X)
    BY <1>8, <1>9
  <2>2. Range(first \o rest) = Range(first) \cup Range(rest)
    BY <2>1, JoinFacts, Zenon
  <2>3. QED
    BY <1>1, <2>2
<1>11. Range(result.log) = Range(searched) \cup Range(first)
  BY <1>3, <1>7, <1>9, <1>10
<1> DEFINE E == Range(eligible)   S == Range(searched)   F == Range(first)
           L == Range(result.log)
<1>12. /\ IsFiniteSet(E) /\ Cardinality(E) \in Nat /\ Cardinality(E) = Len(eligible)
       /\ IsFiniteSet(S) /\ Cardinality(S) \in Nat
       /\ IsFiniteSet(F) /\ Cardinality(F) = Len(first)
       /\ IsFiniteSet(L) /\ Cardinality(L) \in Nat
  BY <1>2, <1>8, UnrepeatedLength
<1>13. Cardinality(Range(unseen)) = Len(unseen)
  BY <1>6, UnrepeatedLength
<1>14. L = S \cup F /\ S \subseteq E /\ F \subseteq E \ S /\ Range(unseen) = E \ S
  BY <1>6, <1>8, <1>11
<1>15. Len(first) \in Nat /\ Len(unseen) \in Nat
  BY <1>6, <1>8
<1> HIDE DEF E, S, F, L
<1>16. Len(unseen) = Cardinality(E) - Cardinality(S)
  <2>1. E \cap S = S
    BY <1>14
  <2>2. Cardinality(E \ S) = Cardinality(E) - Cardinality(E \cap S)
    BY <1>12, FS_Difference
  <2>3. QED
    BY <1>13, <1>14, <2>1, <2>2
<1>17. Cardinality(L) = Cardinality(S) + Len(first)
  <2>1. S \cap F = {}
    BY <1>14
  <2>2. Cardinality(S \cup F) = Cardinality(S) + Cardinality(F) - Cardinality(S \cap F)
    BY <1>12, FS_Union
  <2>3. Cardinality({}) = 0
    BY FS_EmptySet
  <2>4. Cardinality(S \cup F) = Cardinality(S) + Len(first) - 0
    BY <1>12, <2>1, <2>2, <2>3
  <2>5. QED
    BY <1>12, <1>14, <1>15, <2>4
<1>18. Cardinality(L) = Smaller(Cardinality(S) + size, Cardinality(E))
  BY <1>8, <1>12, <1>15, <1>16, <1>17 DEF Smaller
<1>19. E \subseteq L <=> Cardinality(L) = Cardinality(E)
  <2>1. L \in SUBSET E
    BY <1>14
  <2>2. Cardinality(E) = Cardinality(L) => E = L
    BY <1>12, <2>1, FS_Subset
  <2>3. QED
    BY <2>1, <2>2
<1>20. Cardinality(L) = Cardinality(E) <=> Cardinality(S) + size >= Cardinality(E)
  BY <1>12, <1>18 DEF Smaller
<1>21. result.passDone <=> E \subseteq L
  BY <1>1, <1>4 DEF E, L
<1>22. Range(result.log) \subseteq Range(eligible)
  BY <1>14 DEF E, L
<1>23. result.passDone <=> Cardinality(S) + size >= Len(eligible)
  BY <1>12, <1>19, <1>20, <1>21
<1>24. Cardinality(L) = Smaller(Cardinality(S) + size, Len(eligible))
  BY <1>12, <1>18
<1>25. QED
  BY <1>2, <1>22, <1>23, <1>24 DEF result, L, S

(* The sequence of cycles is well defined, each cycle on the log of the one *)
(* before it.                                                               *)
Fresh == [batch |-> <<>>, log |-> <<>>, passDone |-> FALSE]

IsRun(f, eligible, size, n) ==
  f = [i \in 0..n |->
         IF i = 0 THEN Fresh ELSE PrioritizeBatch(eligible, f[i-1].log, size, {})]

LEMMA RunExists ==
  ASSUME NEW eligible, NEW size, NEW n \in Nat
  PROVE  \E f : IsRun(f, eligible, size, n)
<1> DEFINE T == {m \in Nat : ~ \E f : IsRun(f, eligible, size, m)}
<1>1. SUFFICES ASSUME T # {} PROVE FALSE
  OBVIOUS
<1>2. PICK m \in T : \A y \in T : m <= y
  <2> HIDE DEF T
  <2>1. T \subseteq Nat
    BY DEF T
  <2>2. QED
    BY <1>1, <2>1, SmallestExists
<1>3. m \in Nat /\ ~ \E f : IsRun(f, eligible, size, m)
  OBVIOUS
<1>4. CASE m = 0
  <2> DEFINE f == [i \in 0..0 |-> Fresh]
  <2>1. f = [i \in 0..0 |->
               IF i = 0 THEN Fresh ELSE PrioritizeBatch(eligible, f[i-1].log, size, {})]
    OBVIOUS
  <2> HIDE DEF f
  <2>2. QED
    BY <1>3, <1>4, <2>1 DEF IsRun
<1>5. CASE m # 0
  <2>1. m - 1 \in Nat /\ ~(m <= m - 1)
    BY <1>3, <1>5
  <2>2. PICK g : IsRun(g, eligible, size, m - 1)
    BY <1>2, <2>1
  <2> DEFINE last == PrioritizeBatch(eligible, g[m-1].log, size, {})
             f == [i \in 0..m |-> IF i = m THEN last ELSE g[i]]
             h == [i \in 0..m |->
                     IF i = 0 THEN Fresh
                     ELSE PrioritizeBatch(eligible, f[i-1].log, size, {})]
  <2>3. ASSUME NEW i \in 0..m PROVE f[i] = h[i]
    <3>1. CASE i = m
      <4>1. m - 1 \in 0..m /\ m - 1 # m
        BY <1>3, <2>1
      <4>2. f[m-1] = g[m-1]
        BY <4>1
      <4>3. f[i] = last
        BY <3>1
      <4>4. h[i] = PrioritizeBatch(eligible, f[m-1].log, size, {})
        BY <1>5, <3>1
      <4> HIDE DEF f, h
      <4>5. QED
        BY <4>2, <4>3, <4>4
    <3>2. CASE i # m
      <4>1. i \in 0..m-1 /\ f[i] = g[i]
        BY <1>3, <3>2
      <4>2. g[i] = IF i = 0 THEN Fresh
                   ELSE PrioritizeBatch(eligible, g[i-1].log, size, {})
        BY <2>2, <4>1, Zenon DEF IsRun
      <4>3. CASE i = 0
        <5>1. h[i] = Fresh
          BY <4>3
        <5> HIDE DEF f, h
        <5>2. QED
          BY <4>1, <4>2, <4>3, <5>1
      <4>4. CASE i # 0
        <5>1. i - 1 \in 0..m /\ i - 1 # m
          BY <1>3, <4>1, <4>4
        <5>2. f[i-1] = g[i-1]
          BY <5>1
        <5>3. h[i] = PrioritizeBatch(eligible, f[i-1].log, size, {})
          BY <4>4
        <5> HIDE DEF f, h
        <5>4. QED
          BY <4>1, <4>2, <4>4, <5>2, <5>3
      <4>5. QED
        BY <4>3, <4>4
    <3>3. QED
      BY <3>1, <3>2
  <2>4. f = h
    <3>1. f = [i \in 0..m |-> f[i]] /\ h = [i \in 0..m |-> h[i]]
      OBVIOUS
    <3> HIDE DEF f, h
    <3>2. QED
      BY <2>3, <3>1, Zenon
  <2>5. IsRun(f, eligible, size, m)
    BY <2>4, Zenon DEF IsRun
  <2>6. QED
    BY <1>3, <2>5, Zenon
<1>6. QED
  BY <1>4, <1>5

LEMMA RunOfCycles ==
  ASSUME NEW eligible, NEW size, NEW n \in Nat
  PROVE  \E f : IsRun(f, eligible, size, n) /\ AfterCycles(eligible, size, n) = f[n]
<1> DEFINE cycle == CHOOSE f : IsRun(f, eligible, size, n)
<1>1. IsRun(cycle, eligible, size, n)
  BY RunExists
<1>2. AfterCycles(eligible, size, n) = cycle[n]
  BY DEF AfterCycles, IsRun, Fresh
<1> HIDE DEF cycle
<1>3. QED
  BY <1>1, <1>2

(* For every list without repetition and every size: a pass from a fresh   *)
(* log ends in the cycle that reaches the last item, and in none before.   *)
THEOREM PassEndsInTime ==
  ASSUME NEW X, NEW eligible \in Seq(X), NEW size \in Int, size >= 1,
         Unrepeated(eligible)
  PROVE  PassTakesCeiling(eligible, size)
<1>1. Len(eligible) \in Nat
  OBVIOUS
<1>2. ASSUME NEW c \in 1..Len(eligible)
      PROVE  AfterCycles(eligible, size, c).passDone <=> c * size >= Len(eligible)
  <2>1. c \in Nat /\ c >= 1 /\ c <= Len(eligible)
    BY <1>1
  <2>2. PICK f : IsRun(f, eligible, size, c)
                 /\ AfterCycles(eligible, size, c) = f[c]
    BY <2>1, RunOfCycles
  <2>3. eligible # <<>>
    BY <2>1
  <2> DEFINE Covers(i) ==
               /\ f[i].log \in Seq(X) /\ Unrepeated(f[i].log)
               /\ Range(f[i].log) \subseteq Range(eligible)
               /\ Cardinality(Range(f[i].log)) = Smaller(i * size, Len(eligible))
             T == {i \in 0..c : ~Covers(i)}
  <2>4. f[0] = Fresh /\ \A i \in 1..c :
          f[i] = PrioritizeBatch(eligible, f[i-1].log, size, {})
    <3>1. 0 \in 0..c
      BY <2>1
    <3>2. \A i \in 1..c : i \in 0..c /\ i # 0
      BY <2>1
    <3>3. QED
      BY <2>2, <3>1, <3>2, Zenon DEF IsRun
  <2>5. Covers(0)
    <3>1. f[0].log = <<>> /\ Range(<<>>) = {} /\ <<>> \in Seq(X)
      BY <2>4 DEF Fresh, Range
    <3>2. Unrepeated(<<>>)
      BY DEF Unrepeated
    <3>3. Cardinality({}) = 0
      BY FS_EmptySet
    <3>4. Smaller(0 * size, Len(eligible)) = 0
      BY <1>1 DEF Smaller
    <3>5. QED
      BY <3>1, <3>2, <3>3, <3>4
  <2>6. ASSUME NEW i \in 1..c, Covers(i-1)
        PROVE  /\ Covers(i)
               /\ f[i].passDone <=> i * size >= Len(eligible)
    <3> DEFINE log == f[i-1].log
               result == PrioritizeBatch(eligible, log, size, {})
               k == Cardinality(Range(log))
    <3>1. f[i] = result
      BY <2>4
    <3>2. /\ log \in Seq(X) /\ Unrepeated(log) /\ Range(log) \subseteq Range(eligible)
          /\ k = Smaller((i-1) * size, Len(eligible))
      BY <2>6
    <3>3. /\ result.log \in Seq(X) /\ Unrepeated(result.log)
          /\ Range(result.log) \subseteq Range(eligible)
          /\ Cardinality(Range(result.log)) = Smaller(k + size, Len(eligible))
          /\ result.passDone <=> k + size >= Len(eligible)
      BY <2>3, <3>2, CycleCovers
    <3> HIDE DEF k, log, result
    <3>4. (i-1) * size \in Int /\ i * size = (i-1) * size + size /\ i * size \in Int
          /\ i \in Nat
      BY <2>1, Z3
    <3> DEFINE p == (i-1) * size   r == i * size   n == Len(eligible)
    <3>5. p \in Int /\ r \in Int /\ r = p + size /\ n \in Nat
          /\ k = Smaller(p, n)
      BY <1>1, <3>2, <3>4
    <3> HIDE DEF p, r, n
    <3>6. Smaller(k + size, n) = Smaller(r, n) /\ (k + size >= n <=> r >= n)
      BY <3>5 DEF Smaller
    <3>7. Cardinality(Range(result.log)) = Smaller(i * size, Len(eligible))
          /\ (result.passDone <=> i * size >= Len(eligible))
      BY <3>3, <3>6, Zenon DEF r, n
    <3>8. QED
      BY <3>1, <3>3, <3>7
  <2>7. T = {}
    <3>1. SUFFICES ASSUME T # {} PROVE FALSE
      OBVIOUS
    <3>2. T \subseteq Nat
      BY <2>1
    <3>3. PICK i \in T : \A j \in T : i <= j
      <4> HIDE DEF T
      <4>1. QED
        BY <3>1, <3>2, SmallestExists
    <3>4. i \in 0..c /\ ~Covers(i)
      OBVIOUS
    <3>5. i # 0
      BY <2>5, <3>4, Zenon
    <3>6. i \in 1..c /\ i-1 \in 0..c /\ ~(i <= i-1)
      BY <2>1, <3>4, <3>5
    <3> HIDE DEF Covers
    <3>7. i-1 \notin T
      BY <3>3, <3>6
    <3>8. Covers(i-1)
      BY <3>6, <3>7
    <3>9. QED
      BY <2>6, <3>4, <3>6, <3>8
  <2>8. c-1 \in 0..c /\ c \in 1..c
    BY <2>1
  <2> HIDE DEF Covers
  <2>9. Covers(c-1)
    BY <2>7, <2>8
  <2>10. QED
    BY <2>2, <2>6, <2>8, <2>9
<1>3. QED
  BY <1>2 DEF PassTakesCeiling
=============================================================================
