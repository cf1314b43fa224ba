--------------------------- MODULE LeastElements ----------------------------
(***************************************************************************)
(* Least and greatest elements of sets of natural numbers, for the proofs  *)
(* about the rows of search_history: the first of them, and the search     *)
(* that comes first for a grab.                                            *)
(***************************************************************************)
EXTENDS Correlation, FiniteSetsExt, WellFoundedInduction, TLAPS

(* A set of natural numbers has a least one, ...                           *)
LEMMA LeastExists ==
  ASSUME NEW S \in SUBSET Nat, S # {}
  PROVE  \E x \in S : \A y \in S : x <= y
<1> DEFINE Less == OpToRel(<, Nat)
<1>1. PICK x \in S : \A y \in S : ~(<<y, x>> \in Less)
  <2> HIDE DEF Less
  <2>1. IsWellFoundedOn(Less, Nat)
    BY NatLessThanWellFounded DEF Less
  <2>2. QED
    BY <2>1, WFMin
<1>2. \A i, j \in Nat : i < j => <<i, j>> \in Less
  BY DEF OpToRel
<1> HIDE DEF Less
<1>3. ASSUME NEW y \in S
      PROVE  x <= y
  <2>1. ~(<<y, x>> \in Less)
    BY <1>1
  <2>2. ~(y < x)
    BY <1>2, <2>1
  <2>3. QED
    BY <2>2
<1>4. QED
  BY <1>3

(* ... which is its Min.                                                   *)
LEMMA MinIsLeast ==
  ASSUME NEW S \in SUBSET Nat, S # {}
  PROVE  Min(S) \in S /\ \A y \in S : Min(S) <= y
<1>1. \E x \in S : \A y \in S : x <= y
  BY LeastExists
<1>2. QED
  BY <1>1 DEF Min

(* A bounded set of natural numbers has a greatest one.                    *)
LEMMA GreatestExists ==
  ASSUME NEW n \in Nat, NEW S \in SUBSET (1..n), S # {}
  PROVE  \E x \in S : \A y \in S : y <= x
<1> DEFINE Below == {n - x : x \in S}
<1>1. Below \in SUBSET Nat
  <2>1. \A x \in S : n - x \in Nat
    OBVIOUS
  <2>2. QED
    BY <2>1
<1>2. Below # {}
  OBVIOUS
<1>3. PICK d \in Below : \A e \in Below : d <= e
  <2> HIDE DEF Below
  <2>1. QED
    BY <1>1, <1>2, LeastExists
<1>4. PICK x \in S : d = n - x
  OBVIOUS
<1>5. ASSUME NEW y \in S
      PROVE  y <= x
  <2>1. n - y \in Below
    BY DEF Below
  <2>2. d <= n - y
    BY <1>3, <2>1
  <2>3. QED
    BY <1>4, <2>2
<1>6. QED
  BY <1>5

(* A grab that matches some search is first for one of them.               *)
LEMMA SomebodyIsFirst ==
  ASSUME NEW searches, NEW grabs, NEW window, NEW matchSeason, NEW g \in grabs,
         g.at \in Nat \cup {NoDate},
         \A s \in searches : s.at \in Nat /\ s.id \in Nat,
         \A s, t \in searches : s.id = t.id => s = t,
         Matching(g, searches, window, matchSeason) # {}
  PROVE  \E t \in searches : g \in Correlate(searches, grabs, window, matchSeason)[t]
<1> DEFINE m  == Matching(g, searches, window, matchSeason)
           Ages == {g.at - u.at : u \in m}
<1>1. /\ m # {} /\ m \subseteq searches /\ g.at \in Nat
      /\ \A u \in m : u.at \in Nat /\ u.id \in Nat /\ u.at <= g.at
  BY DEF Matching, InWindow
<1> HIDE DEF m
<1>2. PICK age \in Ages : \A b \in Ages : age <= b
  <2>1. \A u \in m : g.at - u.at \in Nat
    BY <1>1
  <2>2. Ages \in SUBSET Nat /\ Ages # {}
    BY <1>1, <2>1
  <2> HIDE DEF Ages
  <2>3. QED
    BY <2>2, LeastExists
<1> DEFINE newest == {u \in m : g.at - u.at = age}
           Ids == {u.id : u \in newest}
<1>3. PICK id \in Ids : \A i \in Ids : id <= i
  <2>1. Ids \in SUBSET Nat /\ Ids # {}
    BY <1>1
  <2> HIDE DEF Ids
  <2>2. QED
    BY <2>1, LeastExists
<1>4. PICK t \in newest : t.id = id
  OBVIOUS
<1>5. ASSUME NEW u \in m
      PROVE  u = t \/ Precedes(t, u)
  <2>1. t.at \in Nat /\ u.at \in Nat /\ t.id \in Nat /\ u.id \in Nat /\ g.at \in Nat
    BY <1>1, <1>4
  <2>2. g.at - t.at <= g.at - u.at
    BY <1>2, <1>4
  <2>3. g.at - t.at = g.at - u.at => t.id <= u.id
    BY <1>3, <1>4
  <2>4. t.id = u.id => u = t
    BY <1>1, <1>4
  <2>5. QED
    BY <2>1, <2>2, <2>3, <2>4 DEF Precedes
<1>6. t \in m /\ t \in searches
  BY <1>1, <1>4
<1>7. QED
  BY <1>5, <1>6 DEF Correlate, m
=============================================================================
