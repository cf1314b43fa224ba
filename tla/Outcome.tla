------------------------------ MODULE Outcome ------------------------------
(***************************************************************************)
(* How a finished search cycle is graded (triggarr/search/outcome.py).  A  *)
(* tally is what CycleTally collects while a cycle runs; a grade is one of *)
(* the four rows of the outcome table.                                     *)
(***************************************************************************)
EXTENDS BatchLimits

Grades == {"success", "partial", "failed", "nothing_needed"}

Tally ==
  [accepted : Nat, failed : Nat, unsaved : BOOLEAN, fetchFailed : BOOLEAN,
   unevaluated : SUBSET Queues, malformed : [Queues -> Nat],
   eligible : [Queues -> Nat]]

EmptyTally ==
  [accepted    |-> 0,  failed      |-> 0,
   unsaved     |-> FALSE, fetchFailed |-> FALSE,
   unevaluated |-> {},
   malformed   |-> PerQueue(0, 0),
   eligible    |-> PerQueue(0, 0)]

(* active_queues: the queues with a configured count, before any capping. *)
ActiveQueues(count) == {q \in Queues : count[q] > 0}

-----------------------------------------------------------------------------

(* A changed form of GradeCycle: malformed records do not spoil a grade.   *)
GradeIgnoringMalformed(accepted, failed, malformed, unevaluated, fetchFailed, eligible) ==
  LET incomplete == fetchFailed \/ unevaluated > 0
  IN  CASE accepted >= 1 /\ failed = 0 /\ ~incomplete -> "success"
        [] accepted >= 1 /\ (failed > 0 \/ incomplete) -> "partial"
        [] accepted = 0 /\ (failed > 0 \/ incomplete \/ eligible > 0) -> "failed"
        [] OTHER -> "nothing_needed"

(* Another one: an instance that cannot be reached gets a grade of its own. *)
GradeOfItsOwn(accepted, failed, malformed, unevaluated, fetchFailed, eligible) ==
  IF fetchFailed THEN "unreachable"
  ELSE GradeIgnoringMalformed(accepted, failed, malformed, unevaluated,
                              fetchFailed, eligible)

-----------------------------------------------------------------------------

(* grade_cycle *)
GradeCycle(accepted, failed, malformed, unevaluated, fetchFailed, eligible) ==
  LET incomplete == fetchFailed \/ unevaluated > 0 \/ malformed > 0
  IN  CASE accepted >= 1 /\ failed = 0 /\ ~incomplete -> "success"
        [] accepted >= 1 /\ (failed > 0 \/ incomplete) -> "partial"
        [] accepted = 0 /\ (failed > 0 \/ incomplete \/ eligible > 0) -> "failed"
        [] OTHER -> "nothing_needed"

(* CycleTally.to_record: only active queues count, and a queue that could  *)
(* not be evaluated offers no eligible work.                               *)
ToRecord(tally, active) ==
  LET unevaluated == tally.unevaluated \cap active
      over(f, Q)  == PerQueue(IF "missing" \in Q THEN f["missing"] ELSE 0,
                              IF "cutoff" \in Q THEN f["cutoff"] ELSE 0)
      malformed   == over(tally.malformed, active)
      eligible    == over(tally.eligible, active \ unevaluated)
  IN  [grade    |-> GradeCycle(tally.accepted, tally.failed, Total(malformed),
                               IF unevaluated = {} THEN 0 ELSE 1,
                               tally.fetchFailed, Total(eligible)),
       accepted |-> tally.accepted,
       unsaved  |-> tally.unsaved]
=============================================================================
