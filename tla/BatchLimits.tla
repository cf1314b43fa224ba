---------------------------- MODULE BatchLimits ----------------------------
(***************************************************************************)
(* How many items each wanted queue may search in one cycle: the           *)
(* configured counts capped to hard_max_per_cycle, and the capped budget   *)
(* handed back to a queue that has work (triggarr/search/engine.py,        *)
(* cap_batch_sizes and rebalance_batch_sizes).  Pure arithmetic over       *)
(* functions from the two queues to numbers; hardMax = 0 means unlimited.  *)
(***************************************************************************)
EXTENDS Integers

Queues == {"missing", "cutoff"}

Lesser(a, b)  == IF a <= b THEN a ELSE b
Greater(a, b) == IF a >= b THEN a ELSE b
Total(f)      == f["missing"] + f["cutoff"]

PerQueue(m, c) == [q \in Queues |-> IF q = "missing" THEN m ELSE c]

(* Changed forms, used only to show that the properties tell them apart:   *)
(* both shares rounded up; nothing reallocated; missing served first       *)
(* whatever its share was.                                                 *)
CapRoundedUp(configured, hardMax) ==
  LET asked == Total(configured)
  IN  IF hardMax <= 0 \/ asked <= hardMax
      THEN configured
      ELSE [q \in Queues |-> (configured[q] * hardMax + asked - 1) \div asked]

RebalanceNothing(limit, configured, eligible, hardMax) == limit

RebalanceGreedily(limit, configured, eligible, hardMax) ==
  LET useful(q) == Lesser(configured[q], eligible[q])
      m == Lesser(hardMax, useful("missing"))
  IN  IF hardMax <= 0 THEN limit
      ELSE PerQueue(m, Lesser(hardMax - m, useful("cutoff")))

-----------------------------------------------------------------------------

(* Proportional split: missing is rounded down, cutoff gets the rest. *)
CapBatchSizes(configured, hardMax) ==
  LET asked == Total(configured)
      m     == Greater(0, (configured["missing"] * hardMax) \div asked)
  IN  IF hardMax <= 0 \/ asked <= hardMax
      THEN configured
      ELSE PerQueue(m, hardMax - m)

(* Slots a queue cannot use are moved to the other one, missing first. *)
RebalanceBatchSizes(limit, configured, eligible, hardMax) ==
  LET useful(q)  == Lesser(configured[q], eligible[q])
      m0         == Lesser(limit["missing"], eligible["missing"])
      c0         == Lesser(limit["cutoff"], eligible["cutoff"])
      topUpM     == Greater(0, Lesser(hardMax - m0 - c0, useful("missing") - m0))
      leftover   == hardMax - m0 - c0 - topUpM
      topUpC     == Greater(0, Lesser(leftover, useful("cutoff") - c0))
  IN  IF hardMax <= 0 THEN limit ELSE PerQueue(m0 + topUpM, c0 + topUpC)

(* Both steps of a cycle, in the order every run_*_cycle applies them. *)
CycleLimits(configured, eligible, hardMax) ==
  RebalanceBatchSizes(CapBatchSizes(configured, hardMax),
                      configured, eligible, hardMax)

-----------------------------------------------------------------------------

(* What a queue could dispatch at most: its configured count, its work. *)
Demand(configured, eligible) ==
  [q \in Queues |-> Lesser(configured[q], eligible[q])]

(* The batch a queue dispatches under a limit. *)
Granted(limit, eligible) ==
  [q \in Queues |-> Lesser(limit[q], eligible[q])]

(* The two limits never let a cycle dispatch more than hard_max_per_cycle,  *)
(* nor a queue more than its own search count: the claim of both docstrings *)
(* ("without ever exceeding hard_max in total").                            *)
WithinCeiling(configured, eligible, hardMax) ==
  LET limit == CycleLimits(configured, eligible, hardMax)
  IN  /\ \A q \in Queues : limit[q] >= 0 /\ limit[q] <= configured[q]
      /\ hardMax > 0 => Total(limit) <= hardMax

(* Work conservation: no slot stays unused while some queue has work it is *)
(* configured to search.  This is what makes a cycle that dispatches       *)
(* nothing although eligible work exists impossible (R-01 amended).        *)
WorkConserving(configured, eligible, hardMax) ==
  LET limit  == CycleLimits(configured, eligible, hardMax)
      demand == Total(Demand(configured, eligible))
  IN  Total(Granted(limit, eligible)) =
        IF hardMax > 0 THEN Lesser(hardMax, demand) ELSE demand

(* Reallocation only moves idle slots: a queue with work keeps every slot  *)
(* the proportional cap gave it.                                           *)
KeepsCappedShare(configured, eligible, hardMax) ==
  LET limit  == CycleLimits(configured, eligible, hardMax)
      capped == CapBatchSizes(configured, hardMax)
  IN  \A q \in Queues :
        limit[q] >= Lesser(capped[q], eligible[q])
=============================================================================
