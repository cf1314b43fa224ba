--------------------------- MODULE MCAlgorithms ----------------------------
(***************************************************************************)
(* The limits of a cycle and the choice of a batch against what the        *)
(* docstrings and design documents promise of them, one combination of     *)
(* inputs a state: every combination of configured counts, eligible counts *)
(* and hard maximum up to MaxCount and MaxHard; every fetched list,        *)
(* searched-log, batch size and claimed set up to MaxLength and MaxSize.   *)
(***************************************************************************)
EXTENDS BatchLimits, SearchQueue

CONSTANTS MaxCount, MaxHard, Items, MaxLength, MaxSize

ASSUME BoundsAreNat == {MaxCount, MaxHard, MaxLength, MaxSize} \subseteq Nat

VARIABLES
  kind,  \* "limits" or "queue"
  case

SmallCounts == [Queues -> 0..MaxCount]

LimitCases == [configured : SmallCounts, eligible : SmallCounts,
               hardMax : 0..MaxHard]

Lists == UNION {[1..n -> Items] : n \in 0..MaxLength}

(* The position filters are the filters of Python's list comprehensions. *)
ASSUME FiltersAreSelectSeq ==
  \A s \in Lists, X \in SUBSET Items :
    /\ Keep(s, X) = SelectSeq(s, LAMBDA x : x \in X)
    /\ Drop(s, X) = SelectSeq(s, LAMBDA x : x \notin X)

UnrepeatedLists == {s \in Lists : Distinct(s) = s}

QueueCases == [eligible : UnrepeatedLists, searched : UnrepeatedLists,
               size : -1..MaxSize, exclude : SUBSET Items]

Init == \/ kind = "limits" /\ case \in LimitCases
        \/ kind = "queue" /\ case \in QueueCases
Next == UNCHANGED <<kind, case>>
Spec == Init /\ [][Next]_<<kind, case>>

-----------------------------------------------------------------------------

(* No slot is wasted while a configured queue has eligible work. *)
InvConserved ==
  kind = "limits" => WorkConserving(case.configured, case.eligible, case.hardMax)

(* Rebalancing never takes a usable slot away from a queue. *)
InvShare ==
  kind = "limits" => KeepsCappedShare(case.configured, case.eligible, case.hardMax)

(* A batch is as full as the candidates allow, and repeats the items that  *)
(* were searched longest ago, only after every never-searched one.         *)
LeastRecentFirst ==
  kind = "queue" =>
    OldestSearchedFirst(case.eligible, case.searched, case.size, case.exclude)

(* A season the missing queue claimed keeps its place in the cutoff log. *)
ExclusionKeepsPlace ==
  kind = "queue" =>
    ClaimedKeepPlace(case.eligible, case.searched, case.size, case.exclude)

(* A pass over a stable queue from a fresh log ends in the cycle that      *)
(* reaches its last item.                                                  *)
PassEndsOnTime ==
  kind = "queue" =>
    (case.size >= 1 /\ case.searched = <<>> =>
       PassTakesCeiling(case.eligible, case.size))
=============================================================================
