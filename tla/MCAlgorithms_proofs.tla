------------------------ MODULE MCAlgorithms_proofs ------------------------
(***************************************************************************)
(* The five properties of the algorithms run, for every bound: a behaviour *)
(* of the run is one combination of inputs for ever, so each follows from  *)
(* the theorem about its operator and the inputs being well formed.        *)
(***************************************************************************)
EXTENDS MCAlgorithms, Batch_proofs

(* The inputs a case may hold are inputs the theorems are about. *)
WellFormed ==
  /\ kind = "limits" =>
       case.configured \in Counts /\ case.eligible \in Counts
       /\ case.hardMax \in Nat
  /\ kind = "queue" =>
       /\ case.eligible \in Seq(Items) /\ case.searched \in Seq(Items)
       /\ Unrepeated(case.eligible) /\ Unrepeated(case.searched)
       /\ case.size \in Int

LEMMA ListsAreUnrepeated ==
  ASSUME NEW s \in UnrepeatedLists
  PROVE  s \in Seq(Items) /\ Unrepeated(s)
<1>1. s \in Lists /\ Distinct(s) = s
  BY DEF UnrepeatedLists
<1>2. PICK n \in 0..MaxLength : s \in [1..n -> Items]
  BY <1>1 DEF Lists
<1>3. n \in Nat
  BY BoundsAreNat
<1>4. s \in Seq(Items)
  BY <1>2, <1>3
<1>5. Unrepeated(Distinct(s))
  BY <1>4, DistinctFacts
<1>6. QED
  BY <1>1, <1>4, <1>5

LEMMA CasesAreWellFormed == Init => WellFormed
<1>1. ASSUME kind = "limits", case \in LimitCases PROVE WellFormed
  <2>1. 0..MaxCount \subseteq Nat /\ 0..MaxHard \subseteq Nat
    BY BoundsAreNat
  <2>2. SmallCounts \subseteq Counts
    BY <2>1 DEF SmallCounts, Counts
  <2>3. /\ case.configured \in SmallCounts /\ case.eligible \in SmallCounts
        /\ case.hardMax \in 0..MaxHard
    BY <1>1 DEF LimitCases
  <2>4. QED
    BY <1>1, <2>1, <2>2, <2>3 DEF WellFormed
<1>2. ASSUME kind = "queue", case \in QueueCases PROVE WellFormed
  <2>1. -1..MaxSize \subseteq Int
    OBVIOUS
  <2>2. /\ case.eligible \in UnrepeatedLists /\ case.searched \in UnrepeatedLists
        /\ case.size \in -1..MaxSize
    BY <1>2 DEF QueueCases
  <2>3. QED
    BY <1>2, <2>1, <2>2, ListsAreUnrepeated DEF WellFormed
<1>3. QED
  BY <1>1, <1>2 DEF Init

(* One combination of inputs for ever: *)
LEMMA InputsStay == WellFormed /\ [Next]_<<kind, case>> => WellFormed'
BY DEF Next, WellFormed

LEMMA AlwaysWellFormed == Spec => []WellFormed
BY CasesAreWellFormed, InputsStay, PTL DEF Spec

(* For every bound on the counts and the hard maximum: no slot of a cycle  *)
(* is wasted while a configured queue has eligible work.                   *)
THEOREM ConservedAlways == Spec => []InvConserved
<1>1. WellFormed => InvConserved
  BY NoWastedSlot DEF WellFormed, InvConserved
<1>2. QED
  BY <1>1, AlwaysWellFormed, PTL

(* For every bound: rebalancing never takes a usable slot from a queue. *)
THEOREM ShareAlways == Spec => []InvShare
<1>1. WellFormed => InvShare
  BY CappedShareKept DEF WellFormed, InvShare
<1>2. QED
  BY <1>1, AlwaysWellFormed, PTL

(* For every set of items and length of the lists: a batch repeats only    *)
(* the items searched longest ago, after every never-searched one.         *)
THEOREM OldestFirstAlways == Spec => []LeastRecentFirst
<1>1. WellFormed => LeastRecentFirst
  BY BatchIsOldestFirst DEF WellFormed, LeastRecentFirst
<1>2. QED
  BY <1>1, AlwaysWellFormed, PTL

(* For every set of items and length of the lists: a claimed season keeps  *)
(* its place in the log of the queue that did not search it.               *)
THEOREM ClaimsKeepPlaceAlways == Spec => []ExclusionKeepsPlace
<1>1. WellFormed => ExclusionKeepsPlace
  BY ClaimedItemsStay DEF WellFormed, ExclusionKeepsPlace
<1>2. QED
  BY <1>1, AlwaysWellFormed, PTL

(* For every set of items, length and size: a pass ends in the cycle that  *)
(* reaches the last item of a stable queue.                                *)
THEOREM PassOnTimeAlways == Spec => []PassEndsOnTime
<1>1. WellFormed => PassEndsOnTime
  BY PassEndsInTime DEF WellFormed, PassEndsOnTime
<1>2. QED
  BY <1>1, AlwaysWellFormed, PTL
=============================================================================
