------------------------- MODULE SearchCycle_proofs -------------------------
(***************************************************************************)
(* Proofs about SearchCycle, for every value of its constants.             *)
(***************************************************************************)
EXTENDS SearchCycle, Batch_proofs

LEMMA PerQueueType ==
  ASSUME NEW X, NEW m \in X, NEW c \in X
  PROVE  PerQueue(m, c) \in [Queues -> X]
BY DEF PerQueue

LEMMA ConfigType ==
  Configs \cup {NoConfig}
    \subseteq [count : [Queues -> Nat], hardMax : Nat, tagged : SUBSET Queues]
<1>1. PerQueue(0, 0) \in [Queues -> Nat]
  BY PerQueueType, 0 \in Nat
<1>2. QED
  BY <1>1, ConfigsAssumption DEF NoConfig

LEMMA EmptyTallyType == EmptyTally \in Tally
BY PerQueueType, 0 \in Nat DEF EmptyTally, Tally

LEMMA NoCycleType == NoCycle \in CycleType
<1>1. NoConfig \in Configs \cup {NoConfig}
  OBVIOUS
<1>2. [q \in Queues |-> Unfetched] \in Fetched
  BY DEF Fetched
<1>3. PerQueue(0, 0) \in [Queues -> Nat]
  BY PerQueueType, 0 \in Nat
<1>4. <<>> \in Seq(Items) /\ <<>> \in Seq(Command)
  OBVIOUS
<1>5. NoPlan \in Plan
  BY <1>4 DEF NoPlan, Plan
<1>6. "missing" \in Queues
  BY DEF Queues
<1>7. QED
  BY <1>1, <1>2, <1>3, <1>4, <1>5, <1>6, EmptyTallyType DEF NoCycle, CycleType

LEMMA FreshType == FreshInstance \in InstanceState
<1>1. PerQueue(0, 0) \in [Queues -> 0..PassModulus-1]
  <2>1. 0 \in 0..PassModulus-1
    BY BoundsAssumption
  <2>2. QED
    BY <2>1, PerQueueType
<1>2. [q \in Queues |-> <<>>] \in [Queues -> Seq(Items)]
  OBVIOUS
<1>3. QED
  BY <1>1, <1>2 DEF FreshInstance, InstanceState, Grades

(* Whatever the tally, a finished cycle has one of the four grades. *)
LEMMA GradeType ==
  ASSUME NEW tally, NEW active
  PROVE  ToRecord(tally, active).grade \in Grades
BY DEF ToRecord, GradeCycle, Grades

LEMMA EligibleType ==
  ASSUME NEW c \in CycleType, NEW q \in Queues
  PROVE  /\ Eligible(c, q) \in Seq(Items)
         /\ CrossQueueDedup => Unrepeated(Eligible(c, q))
<1>1. c.wanted[q] \in WantedLists \cup {Unfetched}
  BY DEF CycleType, Fetched
<1>2. CASE ~Processed(c, q)
  BY <1>2 DEF Eligible, Unrepeated
<1>3. CASE Processed(c, q)
  <2>1. c.wanted[q] \in WantedLists
    BY <1>1, <1>3 DEF Processed
  <2>2. c.wanted[q].eligible \in Seq(Items)
    BY <2>1, WantedAssumption
  <2>3. CASE CrossQueueDedup
    BY <1>3, <2>2, <2>3, DistinctFacts DEF Eligible
  <2>4. CASE ~CrossQueueDedup
    BY <1>3, <2>2, <2>4 DEF Eligible
  <2>5. QED
    BY <2>3, <2>4
<1>4. QED
  BY <1>2, <1>3

LEMMA EmptyRange == Range(<<>>) = {}
BY DEF Range

(* The plan of a queue, whether it is processed or not. *)
LEMMA PlanFacts ==
  ASSUME TypeOK, NEW c \in CycleType, NEW q \in Queues, NEW size \in Nat,
         NEW exclude
  PROVE  LET plan == PlanFor(c, q, size, exclude)
         IN  /\ plan \in Plan
             /\ Len(plan.batch) <= size
             /\ Range(plan.batch) \cap exclude = {}
             /\ Range(plan.log) \subseteq Range(ist.searched[q]) \cup Range(plan.batch)
             /\ plan.passDone =>
                  /\ plan.batch # <<>>
                  /\ Range(Eligible(c, q)) \ exclude \subseteq Range(plan.log)
             /\ CrossQueueDedup /\ Unrepeated(ist.searched[q]) =>
                  Unrepeated(plan.batch) /\ Unrepeated(plan.log)
<1>1. ist.searched[q] \in Seq(Items)
  BY DEF TypeOK, InstanceState
<1>2. /\ Eligible(c, q) \in Seq(Items)
      /\ CrossQueueDedup => Unrepeated(Eligible(c, q))
  BY EligibleType
<1>3. CASE Processed(c, q)
  <2> DEFINE eligible == Eligible(c, q)
             searched == ist.searched[q]
             result   == PrioritizeBatch(eligible, searched, size, exclude)
  <2>1. PlanFor(c, q, size, exclude) = result
    BY <1>3 DEF PlanFor
  <2>2. eligible \in Seq(Items) /\ searched \in Seq(Items) /\ size \in Int
    BY <1>1, <1>2
  <2> HIDE DEF eligible, searched
  <2>3. /\ result \in [batch : Seq(Items), log : Seq(Items), passDone : BOOLEAN]
        /\ Len(result.batch) <= IF size > 0 THEN size ELSE 0
        /\ Range(result.batch) \subseteq Range(eligible) \ exclude
        /\ Range(result.log) \subseteq Range(searched) \cup Range(result.batch)
        /\ result.passDone =>
             /\ result.batch # <<>>
             /\ Range(eligible) \ exclude \subseteq Range(result.log)
        /\ Unrepeated(eligible) /\ Unrepeated(searched) =>
             Unrepeated(result.batch) /\ Unrepeated(result.log)
    BY <2>2, PrioritizeBatchFacts
  <2>4. CrossQueueDedup => Unrepeated(eligible)
    BY <1>2 DEF eligible
  <2>5. Len(result.batch) <= size /\ Range(result.batch) \cap exclude = {}
    BY <2>3
  <2> HIDE DEF result
  <2>6. QED
    BY <2>1, <2>3, <2>4, <2>5 DEF Plan, eligible, searched
<1>4. CASE ~Processed(c, q)
  BY <1>1, <1>4, EmptyRange DEF PlanFor, Plan, Unrepeated
<1>5. QED
  BY <1>3, <1>4

(* The part of PlanFacts that the invariant of a batch under way is made   *)
(* of, for a plan that has a name.                                         *)
LEMMA PlanCovers ==
  ASSUME TypeOK, NEW c \in CycleType, NEW q \in Queues, NEW size \in Nat,
         NEW exclude, NEW plan, plan = PlanFor(c, q, size, exclude)
  PROVE  /\ Range(plan.log) \subseteq Range(ist.searched[q]) \cup Range(plan.batch)
         /\ plan.passDone =>
              /\ plan.batch # <<>>
              /\ Range(Eligible(c, q)) \ exclude \subseteq Range(plan.log)
BY PlanFacts

LEMMA CommittedType ==
  ASSUME TypeOK, NEW q \in Queues
  PROVE  Committed(q) \in InstanceState
<1>1. cycle.plan.log \in Seq(Items)
  BY DEF TypeOK, CycleType, Plan
<1>2. (ist.pass[q] + 1) % PassModulus \in 0..PassModulus-1
  <2>1. ist.pass[q] + 1 \in Nat /\ PassModulus \in Nat \ {0}
    BY BoundsAssumption DEF TypeOK, InstanceState
  <2>2. QED
    BY <2>1
<1>3. /\ ist.searched \in [Queues -> Seq(Items)]
      /\ ist.pass \in [Queues -> 0..PassModulus-1]
      /\ ist.attempted \in [Queues -> SUBSET Items]
  BY DEF TypeOK, InstanceState
<1> DEFINE emptied == [ist.searched EXCEPT ![q] = <<>>]
           marked  == [ist.searched EXCEPT ![q] = cycle.plan.log]
           passed  == [ist.pass EXCEPT ![q] = (@ + 1) % PassModulus]
           forgot  == [ist.attempted EXCEPT ![q] = {}]
<1>4. emptied \in [Queues -> Seq(Items)] /\ marked \in [Queues -> Seq(Items)]
  BY <1>1, <1>3
<1>5. passed \in [Queues -> 0..PassModulus-1]
  BY <1>2, <1>3
<1>6. forgot \in [Queues -> SUBSET Items]
  BY <1>3
<1>7. CASE cycle.plan.passDone
  <2>1. Committed(q) = [ist EXCEPT !.searched = emptied, !.pass = passed,
                                   !.attempted = forgot]
    BY <1>7 DEF Committed, TypeOK, InstanceState
  <2> HIDE DEF emptied, passed, forgot
  <2>2. QED
    BY <2>1, <1>4, <1>5, <1>6 DEF TypeOK, InstanceState
<1>8. CASE ~cycle.plan.passDone
  <2>1. Committed(q) = [ist EXCEPT !.searched = marked]
    BY <1>8 DEF Committed, TypeOK, InstanceState
  <2> HIDE DEF marked
  <2>2. QED
    BY <2>1, <1>4 DEF TypeOK, InstanceState
<1>9. QED
  BY <1>7, <1>8

LEMMA FinishType ==
  ASSUME TypeOK, NEW entry \in InstanceState, NEW tally, NEW config,
         Finish(entry, tally, config)
  PROVE  /\ ist' \in InstanceState
         /\ failures' \in 0..FailureCap
         /\ pc' = "save"
<1>1. ToRecord(tally, ActiveQueues(config.count)).grade \in Grades
  BY GradeType
<1>2. ist' \in InstanceState
  BY <1>1 DEF Finish, InstanceState
<1>3. Smaller(failures + 1, FailureCap) \in 0..FailureCap /\ 0 \in 0..FailureCap
  BY BoundsAssumption DEF TypeOK, Smaller
<1>4. QED
  BY <1>2, <1>3 DEF Finish

-----------------------------------------------------------------------------

LEMMA ZeroIsBounded == 0 \in 0..FailureCap /\ 0 \in 0..MaxFaults
BY BoundsAssumption

LEMMA InitType == Init => TypeOK
BY FreshType, NoCycleType, ZeroIsBounded DEF Init, TypeOK

LEMMA FaultType == TypeOK /\ Fault => faults' \in 0..MaxFaults
BY BoundsAssumption DEF TypeOK, Fault

LEMMA StartType ==
  ASSUME TypeOK, NEW config \in Configs, NEW wanted \in Fetched,
         FetchQueues(config, wanted)
  PROVE  TypeOK'
<1>1. cycle' \in CycleType
  BY NoCycleType DEF FetchQueues, CycleType
<1>2. ist' \in InstanceState
  BY DEF FetchQueues, TypeOK, InstanceState
<1>3. QED
  BY <1>1, <1>2 DEF FetchQueues, TypeOK

LEMMA FetchFaultType ==
  ASSUME TypeOK, NEW config \in Configs,
         FetchFails(config) \/ FetchEscapes(config) \/ BothInactiveUnreachable(config)
  PROVE  TypeOK'
<1>1. [NoCycle EXCEPT !.config = config] \in CycleType
  BY NoCycleType DEF CycleType
<1>2. CASE FetchFails(config)
  <2>1. [EmptyTally EXCEPT !.fetchFailed = TRUE] \in Tally
    BY EmptyTallyType DEF Tally
  <2>2. [NoCycle EXCEPT !.config = config, !.tally.fetchFailed = TRUE]
          = [NoCycle EXCEPT !.config = config,
                            !.tally = [EmptyTally EXCEPT !.fetchFailed = TRUE]]
    BY DEF NoCycle
  <2>3. cycle' \in CycleType
    BY <1>2, <2>1, <2>2, NoCycleType DEF FetchFails, CycleType
  <2>4. [ist EXCEPT !.connected = FALSE, !.warned = {}] \in InstanceState
    BY DEF TypeOK, InstanceState
  <2>5. ist' \in InstanceState /\ failures' \in 0..FailureCap /\ pc' = "save"
    BY <1>2, <2>4, FinishType DEF FetchFails
  <2>6. QED
    BY <1>2, <2>3, <2>5, FaultType DEF FetchFails, TypeOK
<1>3. CASE FetchEscapes(config)
  BY <1>3, FaultType DEF FetchEscapes, TypeOK
<1>4. CASE BothInactiveUnreachable(config)
  <2>1. [ist EXCEPT !.connected = FALSE] \in InstanceState
    BY DEF TypeOK, InstanceState
  <2>2. ist' \in InstanceState /\ failures' \in 0..FailureCap /\ pc' = "save"
    BY <1>4, <2>1, FinishType DEF BothInactiveUnreachable
  <2>3. QED
    BY <1>1, <1>4, <2>2, FaultType DEF BothInactiveUnreachable, TypeOK
<1>5. QED
  BY <1>2, <1>3, <1>4

LEMMA ResolveType ==
  ASSUME TypeOK, NEW unresolved \in SUBSET Queues, ResolveTags(unresolved)
  PROVE  TypeOK'
<1> DEFINE scoped   == [cycle EXCEPT !.unresolved = unresolved]
           eligible == [q \in Queues |-> Len(Eligible(scoped, q))]
           limit    == CycleLimits(cycle.config.count, eligible,
                                   cycle.config.hardMax)
           plan     == PlanFor(scoped, "missing", limit["missing"], {})
           fetched(q) == cycle.wanted[q] # Unfetched /\ q \notin unresolved
           malformed == [q \in Queues |-> IF fetched(q)
                                          THEN cycle.wanted[q].malformed ELSE 0]
           unevaluated == {q \in Active : q \in unresolved \/ cycle.wanted[q].fault}
           tally == [cycle.tally EXCEPT !.eligible = eligible,
                       !.malformed = malformed, !.unevaluated = unevaluated]
<1>1. cycle \in CycleType /\ scoped \in CycleType
  BY DEF TypeOK, CycleType
<1>2. cycle' = [scoped EXCEPT !.limit = limit, !.plan = plan,
                              !.todo = plan.batch, !.tally = tally]
  BY ZenonT(30), <1>1 DEF ResolveTags, CycleType, Tally
<1>3. "missing" \in Queues
  BY DEF Queues
<1>4. eligible \in [Queues -> Nat]
  <2>1. ASSUME NEW q \in Queues PROVE Len(Eligible(scoped, q)) \in Nat
    <3> HIDE DEF scoped
    <3>1. Eligible(scoped, q) \in Seq(Items)
      BY <1>1, EligibleType
    <3>2. QED
      BY <3>1
  <2>2. QED
    BY <2>1
<1>5. malformed \in [Queues -> Nat]
  <2>1. ASSUME NEW q \in Queues, fetched(q) PROVE cycle.wanted[q].malformed \in Nat
    <3>1. cycle.wanted[q] \in WantedLists
      BY <1>1, <2>1 DEF CycleType, Fetched
    <3>2. QED
      BY <3>1, WantedAssumption
  <2>2. QED
    BY <2>1
<1>6. unevaluated \in SUBSET Queues
  BY DEF Active, ActiveQueues
<1>7. tally \in Tally
  <2> HIDE DEF eligible, malformed, unevaluated
  <2>1. QED
    BY <1>1, <1>4, <1>5, <1>6 DEF CycleType, Tally
<1>8. limit \in [Queues -> Nat]
  <2> HIDE DEF eligible
  <2>1. cycle.config.count \in Counts /\ cycle.config.hardMax \in Nat
    BY <1>1, ConfigType DEF CycleType, Counts
  <2>2. QED
    BY <1>4, <2>1, LimitsAreCounts DEF Counts
<1>9. plan \in Plan
  <2> HIDE DEF scoped, limit
  <2>1. limit["missing"] \in Nat
    BY <1>3, <1>8
  <2>2. QED
    BY <1>1, <1>3, <2>1, PlanFacts
<1>10. cycle' \in CycleType
  <2>1. plan.batch \in Seq(Items)
    BY <1>9 DEF Plan
  <2> HIDE DEF scoped, limit, plan, tally
  <2>2. QED
    BY <1>1, <1>2, <1>7, <1>8, <1>9, <2>1 DEF CycleType
<1>11. ist' \in InstanceState
  BY DEF ResolveTags, TypeOK, InstanceState
<1>12. QED
  BY <1>10, <1>11 DEF ResolveTags, TypeOK

LEMMA SearchType ==
  ASSUME TypeOK, NEW accepted \in BOOLEAN, NEW saved \in BOOLEAN,
         SearchAndRecord(accepted, saved)
  PROVE  TypeOK'
<1> DEFINE q    == cycle.queue
           item == Head(cycle.todo)
           command == [queue |-> q, item |-> item, accepted |-> accepted]
           tally == [cycle.tally EXCEPT
                       !.accepted = IF accepted THEN @ + 1 ELSE @,
                       !.failed   = IF accepted THEN @ ELSE @ + 1,
                       !.unsaved  = @ \/ (accepted /\ ~saved)]
           attempted == [ist.attempted EXCEPT ![q] = @ \cup {item}]
<1>1. cycle \in CycleType /\ q \in Queues
  BY DEF TypeOK, CycleType
<1>2. item \in Items /\ Tail(cycle.todo) \in Seq(Items)
  BY <1>1 DEF SearchAndRecord, CycleType
<1>3. command \in Command
  BY <1>1, <1>2 DEF Command
<1>4. Append(cycle.sent, command) \in Seq(Command)
  <2> HIDE DEF command
  <2>1. QED
    BY <1>1, <1>3 DEF CycleType
<1>5. tally \in Tally
  <2> DEFINE saving   == cycle.tally.unsaved \/ (accepted /\ ~saved)
             yes      == IF accepted THEN cycle.tally.accepted + 1
                                     ELSE cycle.tally.accepted
             no       == IF accepted THEN cycle.tally.failed
                                     ELSE cycle.tally.failed + 1
  <2>1. cycle.tally \in Tally
    BY <1>1 DEF CycleType
  <2>2. saving \in BOOLEAN
    OBVIOUS
  <2>3. yes \in Nat /\ no \in Nat
    BY <2>1 DEF Tally
  <2>4. tally = [cycle.tally EXCEPT !.accepted = yes, !.failed = no,
                                    !.unsaved = saving]
    BY <2>1 DEF Tally
  <2> HIDE DEF saving, yes, no, tally
  <2>5. QED
    BY <2>1, <2>2, <2>3, <2>4 DEF Tally
<1>6. cycle' = [cycle EXCEPT !.todo = Tail(cycle.todo),
                  !.sent = Append(cycle.sent, command), !.tally = tally]
  BY ZenonT(30), <1>1 DEF SearchAndRecord, CycleType, Tally
<1>7. cycle' \in CycleType
  <2> HIDE DEF tally, command
  <2>1. QED
    BY <1>1, <1>2, <1>4, <1>5, <1>6 DEF CycleType
<1>8. attempted \in [Queues -> SUBSET Items]
  BY <1>1, <1>2 DEF TypeOK, InstanceState
<1>9. ist' = [ist EXCEPT !.attempted = attempted]
  BY DEF SearchAndRecord, TypeOK, InstanceState
<1>10. ist' \in InstanceState
  <2> HIDE DEF attempted
  <2>1. QED
    BY <1>8, <1>9 DEF TypeOK, InstanceState
<1>11. QED
  BY <1>7, <1>10 DEF SearchAndRecord, TypeOK

LEMMA EndMissingType ==
  ASSUME TypeOK, EndMissingBatch
  PROVE  TypeOK'
<1> DEFINE claimed == IF CrossQueueDedup THEN Range(cycle.plan.batch) ELSE {}
           plan    == PlanFor(cycle, "cutoff", cycle.limit["cutoff"], claimed)
<1>1. cycle \in CycleType /\ "missing" \in Queues /\ "cutoff" \in Queues
  BY DEF TypeOK, Queues
<1>2. cycle' = [cycle EXCEPT !.queue = "cutoff", !.claimed = claimed,
                             !.plan = plan, !.todo = plan.batch]
  BY DEF EndMissingBatch
<1>3. claimed \in SUBSET Items
  <2>1. cycle.plan.batch \in Seq(Items)
    BY <1>1 DEF CycleType, Plan
  <2>2. QED
    BY <2>1 DEF Range
<1>4. plan \in Plan
  <2> HIDE DEF claimed
  <2>1. cycle.limit["cutoff"] \in Nat
    BY <1>1 DEF CycleType
  <2>2. QED
    BY <1>1, <2>1, PlanFacts
<1>5. cycle' \in CycleType
  <2>1. plan.batch \in Seq(Items)
    BY <1>4 DEF Plan
  <2> HIDE DEF claimed, plan
  <2>2. QED
    BY <1>1, <1>2, <1>3, <1>4, <2>1 DEF CycleType
<1>6. ist' \in InstanceState
  BY <1>1, CommittedType DEF EndMissingBatch
<1>7. QED
  BY <1>5, <1>6 DEF EndMissingBatch, TypeOK

LEMMA EndCycleType ==
  ASSUME TypeOK, EndCutoffBatch \/ SaveState \/ SaveFails \/ Escape \/ Crash
  PROVE  TypeOK'
<1>1. CASE EndCutoffBatch
  <2>1. "cutoff" \in Queues
    BY DEF Queues
  <2>2. ist' \in InstanceState /\ failures' \in 0..FailureCap /\ pc' = "save"
    BY <1>1, <2>1, CommittedType, FinishType DEF EndCutoffBatch
  <2>3. QED
    BY <1>1, <2>2 DEF EndCutoffBatch, TypeOK
<1>2. CASE SaveState
  BY <1>2, NoCycleType DEF SaveState, TypeOK
<1>3. CASE SaveFails
  BY <1>3, NoCycleType, FaultType DEF SaveFails, TypeOK
<1>4. CASE Escape
  BY <1>4, NoCycleType, FaultType DEF Escape, TypeOK
<1>5. CASE Crash
  BY <1>5, NoCycleType, FaultType, ZeroIsBounded DEF Crash, TypeOK
<1>6. QED
  BY <1>1, <1>2, <1>3, <1>4, <1>5

LEMMA NextType == TypeOK /\ [Next]_vars => TypeOK'
<1> SUFFICES ASSUME TypeOK, [Next]_vars PROVE TypeOK'
  OBVIOUS
<1>1. CASE StartCycle
  BY <1>1, StartType DEF StartCycle
<1>2. CASE Resolve
  BY <1>2, ResolveType DEF Resolve
<1>3. CASE Dispatch
  BY <1>3, SearchType DEF Dispatch
<1>4. CASE EndMissingBatch
  BY <1>4, EndMissingType
<1>5. CASE EndCutoffBatch \/ SaveState \/ SaveFails \/ Escape \/ Crash
  BY <1>5, EndCycleType
<1>6. CASE \E config \in Configs : \/ FetchFails(config)
                                   \/ FetchEscapes(config)
                                   \/ BothInactiveUnreachable(config)
  BY <1>6, FetchFaultType
<1>7. CASE UNCHANGED vars
  BY <1>7 DEF vars, TypeOK
<1>8. QED
  BY <1>1, <1>2, <1>3, <1>4, <1>5, <1>6, <1>7 DEF Next, Progress, Disturb

(* Every reachable state is well typed, for every configuration and every  *)
(* wanted list.                                                            *)
THEOREM TypeCorrect == Spec => []TypeOK
BY InitType, NextType, PTL DEF Spec

-----------------------------------------------------------------------------
(* The inductive invariants behind the safety properties.                  *)

(* What the plan of the queue being searched says of the items: its log    *)
(* adds only its batch, its batch is what was sent and what is still to    *)
(* send, a complete pass covers all that is eligible and not claimed, and  *)
(* the claimed seasons were sent by the missing queue.                     *)
PlanInv ==
  pc = "dispatch" =>
    LET q    == cycle.queue
        plan == cycle.plan
    IN  /\ Range(plan.log) \subseteq Range(ist.searched[q]) \cup Range(plan.batch)
        /\ Range(plan.batch) \subseteq SentItems(q) \cup Range(cycle.todo)
        /\ plan.passDone =>
             /\ plan.batch # <<>>
             /\ Range(Eligible(cycle, q)) \ cycle.claimed \subseteq Range(plan.log)
        /\ SentItems(q) \subseteq ist.attempted[q]
        /\ cycle.claimed \subseteq SentItems("missing")
        /\ q = "missing" \/ ~CrossQueueDedup => cycle.claimed = {}
        /\ q = "missing" => SentItems("cutoff") = {}

(* A cycle starts from scratch: before its first batch is planned, nothing *)
(* is sent or claimed.                                                     *)
StartInv ==
  pc \in {"idle", "resolve"} =>
    cycle.sent = <<>> /\ cycle.claimed = {} /\ cycle.queue = "missing"

AttemptInv == TypeOK /\ StartInv /\ MarkedWasAttempted /\ PlanInv

(* The commands sent for a queue and those still to send fit its limit.    *)
DispatchBudget ==
  pc = "dispatch" =>
    /\ \A q \in Queues : cycle.limit[q] <= cycle.config.count[q]
    /\ cycle.config.hardMax > 0 => Total(cycle.limit) <= cycle.config.hardMax
    /\ \A q \in Queues :
         Cardinality(SentBy(q)) + (IF q = cycle.queue THEN Len(cycle.todo) ELSE 0)
           <= cycle.limit[q]

(* Every command sent belongs to one of the two queues. *)
SentCounted ==
  Len(cycle.sent) = Cardinality(SentBy("missing")) + Cardinality(SentBy("cutoff"))

BudgetInv == DispatchBudget /\ SentCounted /\ WithinHardMax

(* Sonarr's logs and plans never repeat a season, and what is still to     *)
(* send was not sent in this cycle.                                        *)
LogsUnrepeated ==
  \A entry \in {ist, disk}, q \in Queues : Unrepeated(entry.searched[q])

DispatchSeasons ==
  pc = "dispatch" =>
    /\ Unrepeated(cycle.plan.log)
    /\ Unrepeated(cycle.todo)
    /\ \A i \in DOMAIN cycle.sent : cycle.sent[i].item \notin Range(cycle.todo)
    /\ cycle.queue = "missing" =>
         /\ \A i \in DOMAIN cycle.sent : cycle.sent[i].item \in Range(cycle.plan.batch)
         /\ Range(cycle.todo) \subseteq Range(cycle.plan.batch)

SeasonInv ==
  CrossQueueDedup => LogsUnrepeated /\ DispatchSeasons /\ OneDispatchPerSeason

-----------------------------------------------------------------------------

LEMMA HeadTailFacts ==
  ASSUME NEW X, NEW s \in Seq(X), s # <<>>
  PROVE  /\ Head(s) \in X /\ Tail(s) \in Seq(X) /\ Len(Tail(s)) = Len(s) - 1
         /\ Range(s) = {Head(s)} \cup Range(Tail(s))
         /\ Unrepeated(s) => Unrepeated(Tail(s)) /\ Head(s) \notin Range(Tail(s))
<1> DEFINE t == Tail(s)
<1>1. Len(s) \in Nat /\ Len(s) > 0 /\ DOMAIN s = 1..Len(s) /\ Head(s) = s[1]
  OBVIOUS
<1>2. t \in Seq(X) /\ Len(t) = Len(s) - 1 /\ DOMAIN t = 1..Len(s)-1
  BY <1>1
<1>3. \A i \in DOMAIN t : i + 1 \in DOMAIN s /\ t[i] = s[i + 1]
  BY <1>1, <1>2
<1>4. s[1] \in X /\ 1 \in DOMAIN s
  BY <1>1
<1> HIDE DEF t
<1>5. ASSUME NEW i \in DOMAIN s PROVE s[i] \in {Head(s)} \cup Range(t)
  <2>1. CASE i = 1
    BY <1>1, <2>1
  <2>2. CASE i # 1
    <3>1. i - 1 \in DOMAIN t /\ (i - 1) + 1 = i
      BY <1>1, <1>2, <2>2
    <3>2. QED
      BY <1>3, <3>1 DEF Range
  <2>3. QED
    BY <2>1, <2>2
<1>6. Range(s) = {Head(s)} \cup Range(t)
  BY <1>1, <1>3, <1>4, <1>5 DEF Range
<1>7. ASSUME Unrepeated(s) PROVE Unrepeated(t) /\ Head(s) \notin Range(t)
  <2>1. ASSUME NEW i \in DOMAIN t, NEW j \in DOMAIN t, t[i] = t[j] PROVE i = j
    <3>1. i + 1 = j + 1
      BY <1>3, <1>7, <2>1 DEF Unrepeated
    <3>2. QED
      BY <1>2, <3>1
  <2>2. ASSUME NEW i \in DOMAIN t PROVE t[i] # Head(s)
    <3>1. i + 1 # 1
      BY <1>2
    <3>2. QED
      BY <1>1, <1>3, <1>4, <1>7, <3>1 DEF Unrepeated
  <2>3. QED
    BY <2>1, <2>2 DEF Unrepeated, Range
<1>8. QED
  BY <1>1, <1>2, <1>4, <1>6, <1>7 DEF t


(* Sending the next item adds one command, of the queue being searched. *)
LEMMA SendingFacts ==
  ASSUME TypeOK, NEW accepted \in BOOLEAN, NEW saved \in BOOLEAN,
         SearchAndRecord(accepted, saved)
  PROVE  LET q == cycle.queue
             item == Head(cycle.todo)
         IN  /\ q \in Queues /\ item \in Items
             /\ Len(cycle'.sent) = Len(cycle.sent) + 1
             /\ DOMAIN cycle'.sent = DOMAIN cycle.sent \cup {Len(cycle.sent) + 1}
             /\ Len(cycle.sent) + 1 \notin DOMAIN cycle.sent
             /\ \A i \in DOMAIN cycle.sent : cycle'.sent[i] = cycle.sent[i]
             /\ cycle'.sent[Len(cycle.sent) + 1].queue = q
             /\ cycle'.sent[Len(cycle.sent) + 1].item = item
             /\ cycle' = [cycle EXCEPT !.todo = Tail(cycle.todo),
                            !.sent = cycle'.sent, !.tally = cycle'.tally]
             /\ ist' = [ist EXCEPT !.attempted = [ist.attempted EXCEPT
                                                    ![q] = @ \cup {item}]]
<1> DEFINE q    == cycle.queue
           item == Head(cycle.todo)
           command == [queue |-> q, item |-> item, accepted |-> accepted]
<1>1. cycle \in CycleType /\ q \in Queues /\ cycle.sent \in Seq(Command)
  BY DEF TypeOK, CycleType
<1>2. item \in Items
  BY <1>1 DEF SearchAndRecord, CycleType
<1>3. command \in Command /\ command.queue = q /\ command.item = item
  BY <1>1, <1>2 DEF Command
<1>4. cycle'.sent = Append(cycle.sent, command)
  BY <1>1 DEF SearchAndRecord, CycleType
<1>5. cycle' = [cycle EXCEPT !.todo = Tail(cycle.todo),
                  !.sent = cycle'.sent, !.tally = cycle'.tally]
  BY ZenonT(30), <1>1 DEF SearchAndRecord, CycleType, Tally
<1>6. ist' = [ist EXCEPT !.attempted = [ist.attempted EXCEPT ![q] = @ \cup {item}]]
  BY DEF SearchAndRecord, TypeOK, InstanceState
<1> HIDE DEF command
<1>7. /\ Len(cycle'.sent) = Len(cycle.sent) + 1
      /\ DOMAIN cycle'.sent = DOMAIN cycle.sent \cup {Len(cycle.sent) + 1}
      /\ Len(cycle.sent) + 1 \notin DOMAIN cycle.sent
      /\ \A i \in DOMAIN cycle.sent : cycle'.sent[i] = cycle.sent[i]
      /\ cycle'.sent[Len(cycle.sent) + 1] = command
  BY <1>1, <1>3, <1>4
<1>8. QED
  BY <1>1, <1>2, <1>3, <1>5, <1>6, <1>7

LEMMA SentGrows ==
  ASSUME TypeOK, NEW accepted \in BOOLEAN, NEW saved \in BOOLEAN,
         SearchAndRecord(accepted, saved), NEW q \in Queues
  PROVE  IF q = cycle.queue
         THEN /\ SentBy(q)' = SentBy(q) \cup {Len(cycle.sent) + 1}
              /\ Len(cycle.sent) + 1 \notin SentBy(q)
              /\ SentItems(q)' = SentItems(q) \cup {Head(cycle.todo)}
         ELSE SentBy(q)' = SentBy(q) /\ SentItems(q)' = SentItems(q)
<1> DEFINE n == Len(cycle.sent) + 1
<1>1. /\ DOMAIN cycle'.sent = DOMAIN cycle.sent \cup {n}
      /\ n \notin DOMAIN cycle.sent
      /\ \A i \in DOMAIN cycle.sent : cycle'.sent[i] = cycle.sent[i]
      /\ cycle'.sent[n].queue = cycle.queue
      /\ cycle'.sent[n].item = Head(cycle.todo)
  BY SendingFacts
<1> HIDE DEF n
<1>2. SentBy(q)' = SentBy(q) \cup (IF q = cycle.queue THEN {n} ELSE {})
  BY <1>1 DEF SentBy
<1>3. n \notin SentBy(q) /\ SentBy(q) \subseteq DOMAIN cycle.sent
  BY <1>1 DEF SentBy
<1>4. \A i \in SentBy(q) : cycle'.sent[i].item = cycle.sent[i].item
  BY <1>1, <1>3
<1>5. SentItems(q) = {cycle.sent[i].item : i \in SentBy(q)}
  BY DEF SentItems
<1>6. SentItems(q)' = {cycle'.sent[i].item : i \in SentBy(q)'}
  BY DEF SentItems
<1>7. CASE q = cycle.queue
  <2>1. SentItems(q)' = SentItems(q) \cup {Head(cycle.todo)}
    BY <1>1, <1>2, <1>4, <1>5, <1>6, <1>7
  <2>2. QED
    BY <1>2, <1>3, <1>7, <2>1 DEF n
<1>8. CASE q # cycle.queue
  BY <1>2, <1>4, <1>5, <1>6, <1>8
<1>9. QED
  BY <1>7, <1>8

LEMMA NothingSent ==
  ASSUME cycle.sent = <<>>, NEW q
  PROVE  SentBy(q) = {} /\ SentItems(q) = {}
BY DEF SentBy, SentItems

LEMMA NothingSentNext ==
  ASSUME cycle'.sent = <<>>, NEW q
  PROVE  SentBy(q)' = {} /\ SentItems(q)' = {}
BY DEF SentBy, SentItems

-----------------------------------------------------------------------------
(* Items are marked only once they were attempted.                         *)

LEMMA MarkedInit == Init => MarkedWasAttempted /\ PlanInv
BY EmptyRange DEF Init, FreshInstance, MarkedWasAttempted, PlanInv

(* A step that leaves the entry's log and history alone, in memory and on  *)
(* disk, or takes one of them for the other, marks nothing.                *)
LEMMA MarkedKept ==
  ASSUME MarkedWasAttempted,
         \E entry \in {ist, disk} : /\ ist'.searched = entry.searched
                                    /\ ist'.attempted = entry.attempted,
         disk' \in {ist, disk}
  PROVE  MarkedWasAttempted'
BY DEF MarkedWasAttempted

(* Every action that is not one of the three steps of a dispatch.          *)
LEMMA OutsideDispatch ==
  ASSUME TypeOK,
         NEW config, NEW wanted,
         \/ FetchQueues(config, wanted) \/ FetchFails(config)
         \/ FetchEscapes(config) \/ BothInactiveUnreachable(config)
         \/ SaveState \/ SaveFails \/ Escape \/ Crash
  PROVE  /\ \E entry \in {ist, disk} : /\ ist'.searched = entry.searched
                                       /\ ist'.attempted = entry.attempted
         /\ disk' \in {ist, disk}
         /\ pc' # "dispatch" \/ UNCHANGED <<pc, cycle, ist>>
<1> USE DEF TypeOK, InstanceState
<1>1. CASE FetchQueues(config, wanted)
  BY <1>1 DEF FetchQueues
<1>2. CASE FetchFails(config)
  BY <1>2 DEF FetchFails, Finish
<1>3. CASE FetchEscapes(config)
  BY <1>3 DEF FetchEscapes
<1>4. CASE BothInactiveUnreachable(config)
  BY <1>4 DEF BothInactiveUnreachable, Finish
<1>5. CASE SaveState
  BY <1>5 DEF SaveState
<1>6. CASE SaveFails
  BY <1>6 DEF SaveFails
<1>7. CASE Escape
  BY <1>7 DEF Escape
<1>8. CASE Crash
  BY <1>8 DEF Crash
<1>9. QED
  BY <1>1, <1>2, <1>3, <1>4, <1>5, <1>6, <1>7, <1>8

LEMMA CommittedFacts ==
  ASSUME TypeOK, NEW q \in Queues
  PROVE  /\ Committed(q).searched =
              [ist.searched EXCEPT ![q] = IF cycle.plan.passDone THEN <<>>
                                          ELSE cycle.plan.log]
         /\ Committed(q).attempted =
              [ist.attempted EXCEPT ![q] = IF cycle.plan.passDone THEN {} ELSE @]
         /\ \A r \in Queues : Committed(q).pass[r] # ist.pass[r] =>
              r = q /\ cycle.plan.passDone
BY DEF Committed, TypeOK, InstanceState

LEMMA ResolveFacts ==
  ASSUME TypeOK, NEW unresolved \in SUBSET Queues, ResolveTags(unresolved)
  PROVE  \E eligible \in [Queues -> Nat] :
           LET scoped == [cycle EXCEPT !.unresolved = unresolved]
               limit  == CycleLimits(cycle.config.count, eligible,
                                     cycle.config.hardMax)
               plan   == PlanFor(scoped, "missing", limit["missing"], {})
           IN  /\ limit \in [Queues -> Nat]
               /\ scoped \in CycleType
               /\ Eligible(cycle', "missing") = Eligible(scoped, "missing")
               /\ cycle' = [scoped EXCEPT !.limit = limit, !.plan = plan,
                              !.todo = plan.batch, !.tally = cycle'.tally]
<1> DEFINE scoped   == [cycle EXCEPT !.unresolved = unresolved]
           eligible == [q \in Queues |-> Len(Eligible(scoped, q))]
           limit    == CycleLimits(cycle.config.count, eligible,
                                   cycle.config.hardMax)
           plan     == PlanFor(scoped, "missing", limit["missing"], {})
<1>1. cycle \in CycleType /\ scoped \in CycleType
  BY DEF TypeOK, CycleType
<1>2. cycle' = [scoped EXCEPT !.limit = limit, !.plan = plan,
                              !.todo = plan.batch, !.tally = cycle'.tally]
  BY ZenonT(40), <1>1 DEF ResolveTags, CycleType
<1>3. eligible \in [Queues -> Nat]
  <2>1. ASSUME NEW q \in Queues PROVE Len(Eligible(scoped, q)) \in Nat
    <3> HIDE DEF scoped
    <3>1. Eligible(scoped, q) \in Seq(Items)
      BY <1>1, EligibleType
    <3>2. QED
      BY <3>1
  <2>2. QED
    BY <2>1
<1>4. limit \in [Queues -> Nat]
  <2> HIDE DEF eligible
  <2>1. cycle.config.count \in Counts /\ cycle.config.hardMax \in Nat
    BY <1>1, ConfigType DEF CycleType, Counts
  <2>2. QED
    BY <1>3, <2>1, LimitsAreCounts DEF Counts
<1>5. Eligible(cycle', "missing") = Eligible(scoped, "missing")
  <2> HIDE DEF limit, plan
  <2>1. cycle'.wanted = scoped.wanted /\ cycle'.unresolved = scoped.unresolved
    BY <1>1, <1>2 DEF CycleType
  <2>2. QED
    BY <2>1 DEF Eligible, Processed
<1> HIDE DEF eligible
<1>6. QED
  BY <1>1, <1>2, <1>3, <1>4, <1>5

LEMMA ResolvePlan ==
  ASSUME TypeOK, cycle.sent = <<>>, cycle.claimed = {}, cycle.queue = "missing",
         NEW unresolved \in SUBSET Queues, ResolveTags(unresolved)
  PROVE  PlanInv'
<1> DEFINE scoped == [cycle EXCEPT !.unresolved = unresolved]
<1>1. PICK eligible \in [Queues -> Nat] :
        LET limit  == CycleLimits(cycle.config.count, eligible,
                                  cycle.config.hardMax)
            plan   == PlanFor(scoped, "missing", limit["missing"], {})
        IN  /\ limit \in [Queues -> Nat]
            /\ scoped \in CycleType
            /\ Eligible(cycle', "missing") = Eligible(scoped, "missing")
            /\ cycle' = [scoped EXCEPT !.limit = limit, !.plan = plan,
                           !.todo = plan.batch, !.tally = cycle'.tally]
  BY ResolveFacts
<1> DEFINE limit == CycleLimits(cycle.config.count, eligible,
                                cycle.config.hardMax)
           plan  == PlanFor(scoped, "missing", limit["missing"], {})
<1>2. "missing" \in Queues /\ cycle \in CycleType
  BY DEF Queues, TypeOK
<1>3. limit \in [Queues -> Nat] /\ scoped \in CycleType
  BY <1>1
<1>4. /\ Range(plan.log) \subseteq Range(ist.searched["missing"]) \cup Range(plan.batch)
      /\ plan.passDone =>
           /\ plan.batch # <<>>
           /\ Range(Eligible(scoped, "missing")) \ {} \subseteq Range(plan.log)
  <2> HIDE DEF scoped, limit
  <2>1. limit["missing"] \in Nat
    BY <1>2, <1>3
  <2> HIDE DEF plan
  <2>2. plan = PlanFor(scoped, "missing", limit["missing"], {})
    BY DEF plan
  <2>3. /\ Range(plan.log) \subseteq Range(ist.searched["missing"]) \cup Range(plan.batch)
        /\ plan.passDone =>
             /\ plan.batch # <<>>
             /\ Range(Eligible(scoped, "missing")) \ {} \subseteq Range(plan.log)
    BY <1>2, <1>3, <2>1, <2>2, PlanCovers
  <2>4. QED
    BY <2>3
<1>5. /\ cycle'.plan = plan /\ cycle'.todo = plan.batch /\ cycle'.sent = <<>>
      /\ cycle'.claimed = {} /\ cycle'.queue = "missing"
      /\ Eligible(cycle', "missing") = Eligible(scoped, "missing")
  <2> HIDE DEF limit, plan
  <2>1. cycle' = [scoped EXCEPT !.limit = limit, !.plan = plan,
                                !.todo = plan.batch, !.tally = cycle'.tally]
    BY <1>1 DEF limit, plan
  <2>2. QED
    BY <1>1, <1>2, <2>1 DEF CycleType
<1>6. ist'.searched = ist.searched
  BY DEF ResolveTags, TypeOK, InstanceState
<1>7. SentItems("missing")' = {} /\ SentItems("cutoff")' = {}
  BY <1>5, NothingSentNext
<1> HIDE DEF plan, scoped
<1>8. QED
  BY <1>4, <1>5, <1>6, <1>7 DEF PlanInv

LEMMA SearchPlan ==
  ASSUME TypeOK, PlanInv, NEW accepted \in BOOLEAN, NEW saved \in BOOLEAN,
         SearchAndRecord(accepted, saved)
  PROVE  PlanInv'
<1>1. PICK q \in Queues : q = cycle.queue
  BY DEF TypeOK, CycleType
<1> DEFINE item == Head(cycle.todo)
<1>2. cycle \in CycleType /\ pc = "dispatch" /\ pc' = "dispatch"
  BY DEF TypeOK, SearchAndRecord
<1>3. /\ cycle' = [cycle EXCEPT !.todo = Tail(cycle.todo),
                     !.sent = cycle'.sent, !.tally = cycle'.tally]
      /\ ist' = [ist EXCEPT !.attempted = [ist.attempted EXCEPT
                                             ![q] = @ \cup {item}]]
  BY <1>1, SendingFacts
<1>4. /\ cycle'.queue = q /\ cycle'.plan = cycle.plan
      /\ cycle'.claimed = cycle.claimed /\ cycle'.todo = Tail(cycle.todo)
      /\ cycle'.wanted = cycle.wanted /\ cycle'.unresolved = cycle.unresolved
  BY <1>1, <1>2, <1>3 DEF CycleType
<1>5. Eligible(cycle', q) = Eligible(cycle, q)
  BY <1>4 DEF Eligible, Processed
<1>6. Range(cycle.todo) = {item} \cup Range(Tail(cycle.todo))
  <2>1. cycle.todo \in Seq(Items) /\ cycle.todo # <<>>
    BY <1>2 DEF CycleType, SearchAndRecord
  <2>2. QED
    BY <2>1, HeadTailFacts
<1>7. SentItems(q)' = SentItems(q) \cup {item}
  BY <1>1, SentGrows
<1>8. /\ SentItems("missing") \subseteq SentItems("missing")'
      /\ q = "missing" => SentItems("cutoff")' = SentItems("cutoff")
  <2>1. "missing" \in Queues /\ "cutoff" \in Queues /\ "missing" # "cutoff"
    BY DEF Queues
  <2>2. SentItems("missing") \subseteq SentItems("missing")'
    <3>1. CASE q = "missing"
      BY <1>7, <3>1
    <3>2. CASE q # "missing"
      BY <1>1, <2>1, <3>2, SentGrows
    <3>3. QED
      BY <3>1, <3>2
  <2>3. q = "missing" => SentItems("cutoff")' = SentItems("cutoff")
    BY <1>1, <2>1, SentGrows
  <2>4. QED
    BY <2>2, <2>3
<1>9. ist'.searched = ist.searched /\ ist'.attempted[q] = ist.attempted[q] \cup {item}
  BY <1>3 DEF TypeOK, InstanceState
<1> HIDE DEF item
<1>10. QED
  BY <1>1, <1>2, <1>4, <1>5, <1>6, <1>7, <1>8, <1>9 DEF PlanInv

(* What a complete batch has sent when its queue is committed. *)
LEMMA BatchSent ==
  ASSUME TypeOK, PlanInv, pc = "dispatch", cycle.todo = <<>>
  PROVE  LET q == cycle.queue
         IN  /\ Range(cycle.plan.batch) \subseteq SentItems(q)
             /\ Range(cycle.plan.batch) \subseteq ist.attempted[q]
             /\ Range(cycle.plan.log)
                  \subseteq Range(ist.searched[q]) \cup ist.attempted[q]
BY EmptyRange DEF PlanInv

LEMMA CommitMarks ==
  ASSUME TypeOK, PlanInv, MarkedWasAttempted, pc = "dispatch",
         cycle.todo = <<>>, NEW q \in Queues, cycle.queue = q,
         ist'.searched = Committed(q).searched,
         ist'.attempted = Committed(q).attempted, disk' = disk
  PROVE  MarkedWasAttempted'
<1>1. /\ ist'.searched = [ist.searched EXCEPT ![q] =
                            IF cycle.plan.passDone THEN <<>> ELSE cycle.plan.log]
      /\ ist'.attempted = [ist.attempted EXCEPT ![q] =
                             IF cycle.plan.passDone THEN {} ELSE @]
  BY CommittedFacts
<1>2. ist.searched \in [Queues -> Seq(Items)] /\ ist.attempted \in [Queues -> SUBSET Items]
  BY DEF TypeOK, InstanceState
<1>3. Range(cycle.plan.log) \subseteq ist.attempted[q]
  BY BatchSent DEF MarkedWasAttempted
<1>4. ASSUME NEW r \in Queues
      PROVE  Range(ist'.searched[r]) \subseteq ist'.attempted[r]
  <2>1. CASE r # q
    BY <1>1, <1>2, <2>1 DEF MarkedWasAttempted
  <2>2. CASE r = q /\ cycle.plan.passDone
    BY <1>1, <1>2, <2>2, EmptyRange
  <2>3. CASE r = q /\ ~cycle.plan.passDone
    BY <1>1, <1>2, <1>3, <2>3
  <2>4. QED
    BY <2>1, <2>2, <2>3
<1>5. QED
  BY <1>4 DEF MarkedWasAttempted

LEMMA EndMissingPlan ==
  ASSUME TypeOK, PlanInv, EndMissingBatch
  PROVE  PlanInv'
<1> DEFINE claimed == IF CrossQueueDedup THEN Range(cycle.plan.batch) ELSE {}
           plan    == PlanFor(cycle, "cutoff", cycle.limit["cutoff"], claimed)
<1>1. cycle \in CycleType /\ "missing" \in Queues /\ "cutoff" \in Queues
  BY DEF TypeOK, Queues
<1>2. cycle' = [cycle EXCEPT !.queue = "cutoff", !.claimed = claimed,
                             !.plan = plan, !.todo = plan.batch]
  BY DEF EndMissingBatch
<1>3. /\ Range(plan.log) \subseteq Range(ist.searched["cutoff"]) \cup Range(plan.batch)
      /\ plan.passDone =>
           /\ plan.batch # <<>>
           /\ Range(Eligible(cycle, "cutoff")) \ claimed \subseteq Range(plan.log)
  <2> HIDE DEF claimed
  <2>1. cycle.limit["cutoff"] \in Nat
    BY <1>1 DEF CycleType
  <2> HIDE DEF plan
  <2>2. plan = PlanFor(cycle, "cutoff", cycle.limit["cutoff"], claimed)
    BY DEF plan
  <2>3. /\ Range(plan.log) \subseteq Range(ist.searched["cutoff"]) \cup Range(plan.batch)
        /\ plan.passDone =>
             /\ plan.batch # <<>>
             /\ Range(Eligible(cycle, "cutoff")) \ claimed \subseteq Range(plan.log)
    BY <1>1, <2>1, <2>2, PlanCovers
  <2>4. QED
    BY <2>3
<1>4. claimed \subseteq SentItems("missing") /\ (~CrossQueueDedup => claimed = {})
  BY BatchSent DEF EndMissingBatch
<1>5. /\ cycle'.plan = plan /\ cycle'.todo = plan.batch
      /\ cycle'.sent = cycle.sent /\ cycle'.claimed = claimed
      /\ cycle'.queue = "cutoff" /\ cycle'.wanted = cycle.wanted
      /\ cycle'.unresolved = cycle.unresolved
  <2> HIDE DEF claimed, plan
  <2>1. QED
    BY <1>1, <1>2 DEF CycleType
<1>6. Eligible(cycle', "cutoff") = Eligible(cycle, "cutoff")
  BY <1>5 DEF Eligible, Processed
<1>7. /\ ist'.searched["cutoff"] = ist.searched["cutoff"]
      /\ ist'.attempted["cutoff"] = ist.attempted["cutoff"]
  <2>1. ist' = Committed("missing")
    BY DEF EndMissingBatch
  <2>2. /\ ist'.searched = [ist.searched EXCEPT !["missing"] =
                              IF cycle.plan.passDone THEN <<>> ELSE cycle.plan.log]
        /\ ist'.attempted = [ist.attempted EXCEPT !["missing"] =
                               IF cycle.plan.passDone THEN {} ELSE @]
    BY <1>1, <2>1, CommittedFacts
  <2>3. QED
    BY <1>1, <2>2 DEF TypeOK, InstanceState
<1>8. SentItems("missing")' = SentItems("missing") /\ SentItems("cutoff")' = SentItems("cutoff")
  BY <1>5 DEF SentItems, SentBy
<1> HIDE DEF claimed, plan
<1>9. SentItems("cutoff") = {}
  BY DEF EndMissingBatch, PlanInv
<1>10. pc' = "dispatch" /\ "cutoff" # "missing"
  BY DEF EndMissingBatch
<1>11. /\ Range(cycle'.plan.log)
            \subseteq Range(ist'.searched["cutoff"]) \cup Range(cycle'.plan.batch)
       /\ cycle'.plan.passDone =>
            /\ cycle'.plan.batch # <<>>
            /\ Range(Eligible(cycle', "cutoff")) \ cycle'.claimed
                 \subseteq Range(cycle'.plan.log)
  BY <1>3, <1>5, <1>6, <1>7
<1>12. QED
  BY <1>4, <1>5, <1>8, <1>9, <1>10, <1>11 DEF PlanInv

LEMMA StartKept == TypeOK /\ StartInv /\ [Next]_vars => StartInv'
<1> SUFFICES ASSUME TypeOK, StartInv, [Next]_vars PROVE StartInv'
  OBVIOUS
<1>1. NoCycle.sent = <<>> /\ NoCycle.claimed = {} /\ NoCycle.queue = "missing"
  BY DEF NoCycle
<1>2. CASE StartCycle
  BY <1>1, <1>2 DEF StartCycle, FetchQueues, StartInv, NoCycle
<1>3. CASE Resolve \/ Dispatch \/ EndMissingBatch \/ EndCutoffBatch
  BY <1>3 DEF Resolve, ResolveTags, Dispatch, SearchAndRecord,
              EndMissingBatch, EndCutoffBatch, Finish, StartInv
<1>4. CASE SaveState \/ SaveFails \/ Escape \/ Crash
  BY <1>1, <1>4 DEF SaveState, SaveFails, Escape, Crash, StartInv
<1>5. ASSUME NEW config \in Configs,
             FetchFails(config) \/ FetchEscapes(config) \/ BothInactiveUnreachable(config)
      PROVE  StartInv'
  BY <1>5 DEF FetchFails, FetchEscapes, BothInactiveUnreachable, Finish, StartInv
<1>6. CASE UNCHANGED vars
  BY <1>6 DEF vars, StartInv
<1>7. QED
  BY <1>2, <1>3, <1>4, <1>5, <1>6 DEF Next, Progress, Disturb

LEMMA AttemptInit == Init => AttemptInv
<1>1. Init => StartInv
  BY DEF Init, StartInv, NoCycle
<1>2. QED
  BY <1>1, InitType, MarkedInit DEF AttemptInv

LEMMA AttemptNext == AttemptInv /\ [Next]_vars => AttemptInv'
<1> SUFFICES ASSUME TypeOK, StartInv, MarkedWasAttempted, PlanInv, [Next]_vars
             PROVE  AttemptInv'
  BY DEF AttemptInv
<1>1. TypeOK' /\ StartInv'
  BY NextType, StartKept
<1> SUFFICES MarkedWasAttempted' /\ PlanInv'
  BY <1>1 DEF AttemptInv
<1>2. ASSUME NEW config, NEW wanted,
             \/ FetchQueues(config, wanted) \/ FetchFails(config)
             \/ FetchEscapes(config) \/ BothInactiveUnreachable(config)
             \/ SaveState \/ SaveFails \/ Escape \/ Crash
      PROVE  MarkedWasAttempted' /\ PlanInv'
  <2>1. MarkedWasAttempted'
    BY <1>2, OutsideDispatch, MarkedKept
  <2>2. CASE pc' # "dispatch"
    BY <2>1, <2>2 DEF PlanInv
  <2>3. CASE UNCHANGED <<pc, cycle, ist>>
    <3>1. pc' = pc /\ cycle' = cycle /\ ist' = ist
      BY <2>3
    <3>2. \A q \in Queues : /\ SentItems(q)' = SentItems(q)
                            /\ Eligible(cycle', q) = Eligible(cycle, q)
      BY <3>1 DEF SentItems, SentBy, Eligible, Processed
    <3>3. cycle.queue \in Queues /\ "missing" \in Queues /\ "cutoff" \in Queues
      BY DEF TypeOK, CycleType, Queues
    <3>4. PlanInv'
      BY <3>1, <3>2, <3>3 DEF AttemptInv, PlanInv
    <3>5. QED
      BY <2>1, <3>4
  <2>4. QED
    BY <1>2, <2>1, <2>2, <2>3, OutsideDispatch
<1>3. CASE StartCycle
  BY <1>2, <1>3 DEF StartCycle
<1>4. CASE Resolve
  <2>1. PICK unresolved \in SUBSET Queues : ResolveTags(unresolved)
    BY <1>4 DEF Resolve
  <2>2. cycle.sent = <<>> /\ cycle.claimed = {} /\ cycle.queue = "missing"
    BY <2>1 DEF ResolveTags, StartInv
  <2>3. PlanInv'
    BY <2>1, <2>2, ResolvePlan
  <2>4. /\ ist'.searched = ist.searched /\ ist'.attempted = ist.attempted
        /\ disk' = disk
    BY <2>1 DEF ResolveTags, TypeOK, InstanceState
  <2>5. MarkedWasAttempted'
    BY <2>4, MarkedKept
  <2>6. QED
    BY <2>3, <2>5
<1>5. CASE Dispatch
  <2>1. PICK accepted \in BOOLEAN, saved \in BOOLEAN : SearchAndRecord(accepted, saved)
    BY <1>5 DEF Dispatch
  <2>2. PlanInv'
    BY <2>1, SearchPlan
  <2>3. PICK q \in Queues : q = cycle.queue
    BY DEF TypeOK, CycleType
  <2>4. /\ ist'.searched = ist.searched /\ disk' = disk
        /\ \A r \in Queues : ist.attempted[r] \subseteq ist'.attempted[r]
    <3>1. ist' = [ist EXCEPT !.attempted = [ist.attempted EXCEPT
                                 ![q] = @ \cup {Head(cycle.todo)}]]
      BY <2>1, <2>3, SendingFacts
    <3>2. QED
      BY <2>1, <3>1 DEF SearchAndRecord, TypeOK, InstanceState
  <2>5. MarkedWasAttempted'
    BY <2>4 DEF MarkedWasAttempted
  <2>6. QED
    BY <2>2, <2>5
<1>6. CASE EndMissingBatch
  <2>1. MarkedWasAttempted'
    <3>1. "missing" \in Queues
      BY DEF Queues
    <3>2. QED
      BY <1>6, <3>1, CommitMarks DEF EndMissingBatch
  <2>2. QED
    BY <1>6, <2>1, EndMissingPlan
<1>7. CASE EndCutoffBatch
  <2>1. /\ ist'.searched = Committed("cutoff").searched
        /\ ist'.attempted = Committed("cutoff").attempted
        /\ disk' = disk /\ pc' = "save" /\ "cutoff" \in Queues
        /\ cycle.queue = "cutoff" /\ pc = "dispatch" /\ cycle.todo = <<>>
    <3>1. "cutoff" \in Queues
      BY DEF Queues
    <3>2. Committed("cutoff") \in InstanceState
      BY <3>1, CommittedType
    <3>3. QED
      BY <1>7, <3>1, <3>2 DEF EndCutoffBatch, Finish, InstanceState
  <2>2. MarkedWasAttempted'
    BY <2>1, CommitMarks
  <2>3. PlanInv'
    BY <2>1 DEF PlanInv
  <2>4. QED
    BY <2>2, <2>3
<1>8. CASE SaveState \/ SaveFails \/ Escape \/ Crash
  BY <1>2, <1>8
<1>9. CASE \E config \in Configs : \/ FetchFails(config)
                                   \/ FetchEscapes(config)
                                   \/ BothInactiveUnreachable(config)
  BY <1>2, <1>9
<1>10. CASE UNCHANGED vars
  <2>1. MarkedWasAttempted'
    BY <1>10 DEF vars, MarkedWasAttempted
  <2>2. PlanInv'
    <3>1. \A q : SentItems(q)' = SentItems(q)
      BY <1>10 DEF vars, SentItems, SentBy
    <3>2. \A q : Eligible(cycle, q)' = Eligible(cycle, q)
      BY <1>10 DEF vars, Eligible, Processed
    <3>3. cycle' = cycle /\ ist' = ist /\ pc' = pc
      BY <1>10 DEF vars
    <3>4. QED
      BY <3>1, <3>2, <3>3 DEF PlanInv
  <2>3. QED
    BY <2>1, <2>2
<1>11. QED
  BY <1>1, <1>3, <1>4, <1>5, <1>6, <1>7, <1>8, <1>9, <1>10
     DEF Next, Progress, Disturb

(* No item is ever marked searched, in memory or in the state file, that   *)
(* no command was sent for in the current pass, whatever fails, escapes or *)
(* crashes between two awaits.                                             *)
THEOREM OnlyAttemptedIsMarked == Spec => []MarkedWasAttempted
<1>1. AttemptInv => MarkedWasAttempted
  BY DEF AttemptInv
<1>2. QED
  BY <1>1, AttemptInit, AttemptNext, PTL DEF Spec

-----------------------------------------------------------------------------
(* A pass is only counted when it covered the queue.                       *)

LEMMA PassCommit ==
  ASSUME TypeOK, MarkedWasAttempted, PlanInv, pc = "dispatch",
         cycle.todo = <<>>, cycle.plan.passDone
  PROVE  LET q == cycle.queue
         IN  /\ SentItems(q) # {}
             /\ Range(Eligible(cycle, q)) \subseteq
                  ist.attempted[q] \cup
                    (IF CrossQueueDedup THEN SentItems("missing") ELSE {})
<1> DEFINE q == cycle.queue
           batch == cycle.plan.batch
<1>1. q \in Queues /\ batch \in Seq(Items)
  BY DEF TypeOK, CycleType, Plan
<1>2. batch # <<>> /\ Range(Eligible(cycle, q)) \ cycle.claimed \subseteq Range(cycle.plan.log)
  BY DEF PlanInv
<1>3. Range(batch) # {}
  <2>1. 1 \in DOMAIN batch
    BY <1>1, <1>2
  <2>2. QED
    BY <2>1 DEF Range
<1>4. Range(batch) \subseteq SentItems(q)
  BY BatchSent
<1>5. Range(cycle.plan.log) \subseteq ist.attempted[q]
  BY <1>1, BatchSent DEF MarkedWasAttempted
<1>6. cycle.claimed \subseteq (IF CrossQueueDedup THEN SentItems("missing") ELSE {})
  BY DEF PlanInv
<1>7. QED
  BY <1>2, <1>3, <1>4, <1>5, <1>6

LEMMA PassNext == AttemptInv /\ [Next]_vars => [PassStep]_vars
<1> SUFFICES ASSUME TypeOK, MarkedWasAttempted, PlanInv, Next, NEW q \in Queues,
                    ist'.pass[q] # ist.pass[q], last' # "none"
             PROVE  /\ SentItems(q) # {}
                    /\ Range(Eligible(cycle, q)) \subseteq
                         ist.attempted[q] \cup
                           (IF CrossQueueDedup THEN SentItems("missing") ELSE {})
  BY DEF AttemptInv, PassStep
<1>1. CASE EndMissingBatch \/ EndCutoffBatch
  <2>1. PICK r \in Queues : r = cycle.queue
    BY DEF TypeOK, CycleType
  <2>2. Committed(r) \in InstanceState
    BY CommittedType
  <2>3. ist'.pass = Committed(r).pass /\ pc = "dispatch" /\ cycle.todo = <<>>
    BY <1>1, <2>1, <2>2 DEF EndMissingBatch, EndCutoffBatch, Finish, InstanceState
  <2>4. q = r /\ cycle.plan.passDone
    <3>1. Committed(r).pass[q] # ist.pass[q]
      BY <2>3
    <3>2. QED
      BY <3>1, CommittedFacts
  <2>5. QED
    BY <2>1, <2>3, <2>4, PassCommit
<1>2. CASE StartCycle \/ Resolve \/ Dispatch
  BY <1>2 DEF StartCycle, FetchQueues, Resolve, ResolveTags, Dispatch,
              SearchAndRecord, TypeOK, InstanceState
<1>3. CASE SaveState \/ SaveFails \/ Escape \/ Crash
  BY <1>3 DEF SaveState, SaveFails, Escape, Crash
<1>4. CASE \E config \in Configs : \/ FetchFails(config)
                                   \/ FetchEscapes(config)
                                   \/ BothInactiveUnreachable(config)
  BY <1>4 DEF FetchFails, FetchEscapes, BothInactiveUnreachable, Finish,
              TypeOK, InstanceState
<1>5. QED
  BY <1>1, <1>2, <1>3, <1>4 DEF Next, Progress, Disturb

(* A pass is counted only in a cycle that searched its queue, and only     *)
(* when every eligible item was attempted in the pass or, for Sonarr, by   *)
(* the missing queue in this very cycle.                                   *)
THEOREM PassesAreCovered == Spec => PassMeansCovered
BY AttemptInit, AttemptNext, PassNext, PTL DEF Spec, PassMeansCovered

-----------------------------------------------------------------------------
(* The command budget of a cycle.                                          *)

LEMMA SentFinite ==
  ASSUME TypeOK, NEW q
  PROVE  IsFiniteSet(SentBy(q)) /\ Cardinality(SentBy(q)) \in Nat
<1>1. cycle.sent \in Seq(Command)
  BY DEF TypeOK, CycleType
<1>2. DOMAIN cycle.sent = 1..Len(cycle.sent) /\ Len(cycle.sent) \in Int /\ 1 \in Int
  BY <1>1
<1>3. SentBy(q) \subseteq 1..Len(cycle.sent)
  BY <1>2 DEF SentBy
<1>4. QED
  BY <1>2, <1>3, FS_Interval, FS_Subset, FS_CardinalityType

LEMMA NothingSentBudget ==
  ASSUME TypeOK', cycle'.sent = <<>>, pc' # "dispatch"
  PROVE  BudgetInv'
<1>1. \A q \in Queues : SentBy(q)' = {}
  BY NothingSentNext
<1>2. "missing" \in Queues /\ "cutoff" \in Queues
  BY DEF Queues
<1>3. \A q \in Queues : Cardinality(SentBy(q))' = 0
  BY <1>1, FS_EmptySet
<1>4. Len(cycle'.sent) = 0
  OBVIOUS
<1>5. cycle'.config.count \in [Queues -> Nat]
  BY ConfigType DEF TypeOK, CycleType
<1>6. WithinHardMax'
  BY <1>3, <1>4, <1>5, ConfigType DEF WithinHardMax, TypeOK, CycleType
<1>7. QED
  BY <1>2, <1>3, <1>4, <1>6 DEF BudgetInv, DispatchBudget, SentCounted

LEMMA BudgetBound ==
  TypeOK /\ pc = "dispatch" /\ DispatchBudget /\ SentCounted => WithinHardMax
<1> SUFFICES ASSUME TypeOK, pc = "dispatch", DispatchBudget, SentCounted
             PROVE  WithinHardMax
  OBVIOUS
<1> DEFINE n(q) == Cardinality(SentBy(q))
           rest(q) == IF q = cycle.queue THEN Len(cycle.todo) ELSE 0
<1>1. "missing" \in Queues /\ "cutoff" \in Queues
  BY DEF Queues
<1>2. /\ cycle.limit \in [Queues -> Nat] /\ cycle.config.count \in [Queues -> Nat]
      /\ cycle.config.hardMax \in Nat /\ Len(cycle.todo) \in Nat
  BY ConfigType DEF TypeOK, CycleType
<1>3. ASSUME NEW q \in Queues
      PROVE  n(q) \in Nat /\ n(q) <= cycle.limit[q] /\ cycle.limit[q] <= cycle.config.count[q]
  <2>1. n(q) \in Nat /\ rest(q) \in Nat
    BY <1>2, SentFinite
  <2>2. n(q) + rest(q) <= cycle.limit[q] /\ cycle.limit[q] <= cycle.config.count[q]
    BY DEF DispatchBudget
  <2> HIDE DEF n, rest
  <2>3. QED
    BY <1>2, <2>1, <2>2
<1>4. Len(cycle.sent) = n("missing") + n("cutoff")
  BY DEF SentCounted
<1>5. cycle.config.hardMax > 0 =>
        cycle.limit["missing"] + cycle.limit["cutoff"] <= cycle.config.hardMax
  BY DEF DispatchBudget, Total
<1>6. \A q \in Queues : n(q) <= cycle.config.count[q]
  <2> HIDE DEF n
  <2>1. QED
    BY <1>2, <1>3
<1>7. cycle.config.hardMax > 0 => Len(cycle.sent) <= cycle.config.hardMax
  <2> HIDE DEF n
  <2>1. QED
    BY <1>1, <1>2, <1>3, <1>4, <1>5
<1>8. QED
  BY <1>6, <1>7 DEF WithinHardMax

LEMMA BudgetBoundNext ==
  TypeOK' /\ pc' = "dispatch" /\ DispatchBudget' /\ SentCounted' => BudgetInv'
<1>1. TypeOK' /\ (pc = "dispatch")' /\ DispatchBudget' /\ SentCounted' => WithinHardMax'
  BY BudgetBound, PTL
<1>2. QED
  BY <1>1 DEF BudgetInv

LEMMA ResolveBudget ==
  ASSUME TypeOK, TypeOK', cycle.sent = <<>>, cycle.queue = "missing",
         NEW unresolved \in SUBSET Queues, ResolveTags(unresolved)
  PROVE  BudgetInv'
<1> DEFINE scoped == [cycle EXCEPT !.unresolved = unresolved]
<1>1. PICK eligible \in [Queues -> Nat] :
        LET limit  == CycleLimits(cycle.config.count, eligible,
                                  cycle.config.hardMax)
            plan   == PlanFor(scoped, "missing", limit["missing"], {})
        IN  /\ limit \in [Queues -> Nat]
            /\ scoped \in CycleType
            /\ Eligible(cycle', "missing") = Eligible(scoped, "missing")
            /\ cycle' = [scoped EXCEPT !.limit = limit, !.plan = plan,
                           !.todo = plan.batch, !.tally = cycle'.tally]
  BY ResolveFacts
<1> DEFINE limit == CycleLimits(cycle.config.count, eligible,
                                cycle.config.hardMax)
           plan  == PlanFor(scoped, "missing", limit["missing"], {})
<1>2. "missing" \in Queues /\ "cutoff" \in Queues /\ cycle \in CycleType
  BY DEF Queues, TypeOK
<1>3. limit \in [Queues -> Nat] /\ scoped \in CycleType
  BY <1>1
<1>4. cycle.config.count \in Counts /\ cycle.config.hardMax \in Nat
  BY <1>2, ConfigType DEF CycleType, Counts
<1>5. /\ \A q \in Queues : limit[q] <= cycle.config.count[q]
      /\ cycle.config.hardMax > 0 => Total(limit) <= cycle.config.hardMax
  BY <1>4, CeilingHolds DEF WithinCeiling, Counts
<1>6. Len(plan.batch) <= limit["missing"]
  <2> HIDE DEF scoped, limit
  <2>1. limit["missing"] \in Nat
    BY <1>2, <1>3
  <2> HIDE DEF plan
  <2>2. plan = PlanFor(scoped, "missing", limit["missing"], {})
    BY DEF plan
  <2>3. QED
    BY <1>2, <1>3, <2>1, <2>2, PlanFacts
<1>7. /\ cycle'.todo = plan.batch /\ cycle'.sent = <<>>
      /\ cycle'.queue = "missing" /\ cycle'.limit = limit
      /\ cycle'.config = cycle.config
  <2> HIDE DEF limit, plan
  <2>1. cycle' = [scoped EXCEPT !.limit = limit, !.plan = plan,
                                !.todo = plan.batch, !.tally = cycle'.tally]
    BY <1>1 DEF limit, plan
  <2>2. QED
    BY <1>1, <1>2, <2>1 DEF CycleType
<1>8. \A q \in Queues : Cardinality(SentBy(q))' = 0
  BY <1>7, NothingSentNext, FS_EmptySet
<1> HIDE DEF limit, plan, scoped
<1>9. Len(cycle'.todo) \in Nat /\ Len(cycle'.sent) = 0
  BY <1>7 DEF TypeOK, CycleType
<1>10. SentCounted'
  BY <1>2, <1>8, <1>9 DEF SentCounted
<1>11. ASSUME NEW q \in Queues
       PROVE  Cardinality(SentBy(q))'
                + (IF q = cycle'.queue THEN Len(cycle'.todo) ELSE 0) <= limit[q]
  BY <1>3, <1>6, <1>7, <1>8, <1>9
<1>12. DispatchBudget'
  BY <1>5, <1>7, <1>11 DEF DispatchBudget
<1>13. pc' = "dispatch"
  BY DEF ResolveTags
<1>14. QED
  BY <1>10, <1>12, <1>13, BudgetBoundNext

LEMMA SearchBudget ==
  ASSUME TypeOK, TypeOK', BudgetInv,
         NEW accepted \in BOOLEAN, NEW saved \in BOOLEAN,
         SearchAndRecord(accepted, saved)
  PROVE  BudgetInv'
<1>1. PICK q \in Queues : q = cycle.queue
  BY DEF TypeOK, CycleType
<1>2. cycle \in CycleType /\ pc = "dispatch" /\ pc' = "dispatch"
  BY DEF TypeOK, SearchAndRecord
<1>3. /\ cycle' = [cycle EXCEPT !.todo = Tail(cycle.todo),
                     !.sent = cycle'.sent, !.tally = cycle'.tally]
      /\ Len(cycle'.sent) = Len(cycle.sent) + 1
  BY <1>1, SendingFacts
<1>4. /\ cycle'.queue = q /\ cycle'.todo = Tail(cycle.todo)
      /\ cycle'.limit = cycle.limit /\ cycle'.config = cycle.config
  BY <1>1, <1>2, <1>3 DEF CycleType
<1>5. Len(Tail(cycle.todo)) = Len(cycle.todo) - 1 /\ Len(cycle.todo) \in Nat
  <2>1. cycle.todo \in Seq(Items) /\ cycle.todo # <<>>
    BY <1>2 DEF CycleType, SearchAndRecord
  <2>2. QED
    BY <2>1, HeadTailFacts
<1>6. \A r \in Queues : Cardinality(SentBy(r)) \in Nat
  BY SentFinite
<1>7. Cardinality(SentBy(q))' = Cardinality(SentBy(q)) + 1
  <2>1. /\ SentBy(q)' = SentBy(q) \cup {Len(cycle.sent) + 1}
        /\ Len(cycle.sent) + 1 \notin SentBy(q)
    BY <1>1, SentGrows
  <2>2. QED
    BY <2>1, SentFinite, FS_AddElement
<1>8. \A r \in Queues : r # q => Cardinality(SentBy(r))' = Cardinality(SentBy(r))
  <2>1. ASSUME NEW r \in Queues, r # q PROVE SentBy(r)' = SentBy(r)
    BY <1>1, <2>1, SentGrows
  <2>2. QED
    BY <2>1
<1>9. DispatchBudget'
  <2>1. ASSUME NEW r \in Queues
        PROVE  Cardinality(SentBy(r))'
                 + (IF r = cycle'.queue THEN Len(cycle'.todo) ELSE 0) <= cycle.limit[r]
    <3>1. Cardinality(SentBy(r)) + (IF r = q THEN Len(cycle.todo) ELSE 0) <= cycle.limit[r]
      BY <1>1, <1>2 DEF BudgetInv, DispatchBudget
    <3>2. cycle.limit[r] \in Nat
      BY <1>2 DEF CycleType
    <3>3. CASE r = q
      BY <1>4, <1>5, <1>6, <1>7, <3>1, <3>2, <3>3
    <3>4. CASE r # q
      BY <1>4, <1>8, <3>1, <3>4
    <3>5. QED
      BY <3>3, <3>4
  <2>2. QED
    BY <1>2, <1>4, <2>1 DEF BudgetInv, DispatchBudget
<1>10. SentCounted'
  <2>1. "missing" \in Queues /\ "cutoff" \in Queues /\ "missing" # "cutoff"
    BY DEF Queues
  <2>2. Len(cycle.sent) = Cardinality(SentBy("missing")) + Cardinality(SentBy("cutoff"))
    BY DEF BudgetInv, SentCounted
  <2>3. CASE q = "missing"
    <3>1. Cardinality(SentBy("cutoff"))' = Cardinality(SentBy("cutoff"))
      BY <1>8, <2>1, <2>3
    <3>2. QED
      BY <1>3, <1>6, <1>7, <2>1, <2>2, <2>3, <3>1 DEF SentCounted
  <2>4. CASE q = "cutoff"
    <3>1. Cardinality(SentBy("missing"))' = Cardinality(SentBy("missing"))
      BY <1>8, <2>1, <2>4
    <3>2. QED
      BY <1>3, <1>6, <1>7, <2>1, <2>2, <2>4, <3>1 DEF SentCounted
  <2>5. q = "missing" \/ q = "cutoff"
    BY DEF Queues
  <2>6. QED
    BY <2>3, <2>4, <2>5
<1>11. QED
  BY <1>2, <1>9, <1>10, BudgetBoundNext

(* What the end of the missing batch does to the cycle. *)
LEMMA EndMissingFacts ==
  ASSUME TypeOK, PlanInv, EndMissingBatch
  PROVE  LET claimed == IF CrossQueueDedup THEN Range(cycle.plan.batch) ELSE {}
             plan    == PlanFor(cycle, "cutoff", cycle.limit["cutoff"], claimed)
         IN  /\ cycle'.plan = plan /\ cycle'.todo = plan.batch
             /\ cycle'.sent = cycle.sent /\ cycle'.queue = "cutoff"
             /\ cycle'.limit = cycle.limit /\ cycle'.config = cycle.config
             /\ plan.batch \in Seq(Items)
             /\ Len(plan.batch) <= cycle.limit["cutoff"]
             /\ Range(plan.batch) \cap claimed = {}
             /\ CrossQueueDedup /\ Unrepeated(ist.searched["cutoff"]) =>
                  Unrepeated(plan.batch) /\ Unrepeated(plan.log)
<1> DEFINE claimed == IF CrossQueueDedup THEN Range(cycle.plan.batch) ELSE {}
           plan    == PlanFor(cycle, "cutoff", cycle.limit["cutoff"], claimed)
<1>1. cycle \in CycleType /\ "cutoff" \in Queues
  BY DEF TypeOK, Queues
<1>2. cycle' = [cycle EXCEPT !.queue = "cutoff", !.claimed = claimed,
                             !.plan = plan, !.todo = plan.batch]
  BY DEF EndMissingBatch
<1>3. cycle.limit["cutoff"] \in Nat
  BY <1>1 DEF CycleType
<1>4. plan = PlanFor(cycle, "cutoff", cycle.limit["cutoff"], claimed)
  OBVIOUS
<1> HIDE DEF claimed, plan
<1>5. /\ plan \in Plan
      /\ Len(plan.batch) <= cycle.limit["cutoff"]
      /\ Range(plan.batch) \cap claimed = {}
      /\ CrossQueueDedup /\ Unrepeated(ist.searched["cutoff"]) =>
           Unrepeated(plan.batch) /\ Unrepeated(plan.log)
  BY <1>1, <1>3, <1>4, PlanFacts
<1>6. /\ cycle'.plan = plan /\ cycle'.todo = plan.batch
      /\ cycle'.sent = cycle.sent /\ cycle'.queue = "cutoff"
      /\ cycle'.limit = cycle.limit /\ cycle'.config = cycle.config
  BY <1>1, <1>2 DEF CycleType
<1>7. plan.batch \in Seq(Items)
  BY <1>5 DEF Plan
<1>8. QED
  BY <1>5, <1>6, <1>7 DEF plan, claimed

LEMMA EndMissingBudget ==
  ASSUME TypeOK, TypeOK', PlanInv, BudgetInv, EndMissingBatch
  PROVE  BudgetInv'
<1>1. "missing" \in Queues /\ "cutoff" \in Queues /\ "missing" # "cutoff"
  BY DEF Queues
<1>2. /\ cycle'.sent = cycle.sent /\ cycle'.queue = "cutoff"
      /\ cycle'.limit = cycle.limit /\ cycle'.config = cycle.config
      /\ Len(cycle'.todo) <= cycle.limit["cutoff"]
  BY EndMissingFacts
<1>3. \A q \in Queues : SentBy(q)' = SentBy(q)
  BY <1>2 DEF SentBy
<1>4. pc = "dispatch" /\ pc' = "dispatch" /\ cycle.queue = "missing" /\ cycle.todo = <<>>
  BY DEF EndMissingBatch
<1>5. SentBy("cutoff") = {}
  <2>1. SentItems("cutoff") = {}
    BY <1>4 DEF PlanInv
  <2>2. QED
    BY <2>1 DEF SentItems
<1>6. ASSUME NEW q \in Queues
      PROVE  Cardinality(SentBy(q))'
               + (IF q = cycle'.queue THEN Len(cycle'.todo) ELSE 0) <= cycle.limit[q]
  <2>1. CASE q = "cutoff"
    <3>1. Cardinality(SentBy(q))' = 0
      BY <1>3, <1>5, <2>1, FS_EmptySet
    <3>2. Len(cycle'.todo) \in Nat
      BY DEF TypeOK, CycleType
    <3>3. QED
      BY <1>2, <2>1, <3>1, <3>2
  <2>2. CASE q = "missing"
    <3>1. Cardinality(SentBy(q))' = Cardinality(SentBy(q)) /\ Cardinality(SentBy(q)) \in Nat
      BY <1>3, SentFinite
    <3>2. Cardinality(SentBy(q)) + Len(cycle.todo) <= cycle.limit[q] /\ Len(cycle.todo) = 0
      BY <1>4, <2>2 DEF BudgetInv, DispatchBudget
    <3>3. QED
      BY <1>1, <1>2, <2>2, <3>1, <3>2
  <2>3. QED
    BY <2>1, <2>2 DEF Queues
<1>7. DispatchBudget'
  BY <1>2, <1>4, <1>6 DEF BudgetInv, DispatchBudget
<1>8. SentCounted'
  BY <1>1, <1>2, <1>3 DEF BudgetInv, SentCounted
<1>9. QED
  BY <1>4, <1>7, <1>8, BudgetBoundNext

(* Leaving the dispatch with the commands as they are. *)
LEMMA KeepingBudget ==
  ASSUME BudgetInv, cycle'.sent = cycle.sent, cycle'.config = cycle.config,
         pc' # "dispatch"
  PROVE  BudgetInv'
<1>1. \A q : SentBy(q)' = SentBy(q)
  BY DEF SentBy
<1>2. DispatchBudget'
  BY DEF DispatchBudget
<1>3. SentCounted' /\ WithinHardMax'
  BY <1>1 DEF BudgetInv, SentCounted, WithinHardMax
<1>4. QED
  BY <1>2, <1>3 DEF BudgetInv

LEMMA BudgetInit == Init => BudgetInv
<1> SUFFICES ASSUME Init PROVE BudgetInv
  OBVIOUS
<1>1. cycle.sent = <<>> /\ cycle.config = NoConfig /\ pc # "dispatch"
  BY DEF Init, NoCycle
<1>2. \A q \in Queues : Cardinality(SentBy(q)) = 0
  BY <1>1, NothingSent, FS_EmptySet
<1>3. NoConfig.count = [q \in Queues |-> 0] /\ NoConfig.hardMax = 0
  BY DEF NoConfig, PerQueue
<1>4. "missing" \in Queues /\ "cutoff" \in Queues /\ Len(cycle.sent) = 0
  BY <1>1 DEF Queues
<1>5. QED
  BY <1>1, <1>2, <1>3, <1>4
     DEF BudgetInv, DispatchBudget, SentCounted, WithinHardMax

LEMMA BudgetNext ==
  AttemptInv /\ AttemptInv' /\ BudgetInv /\ [Next]_vars => BudgetInv'
<1> SUFFICES ASSUME TypeOK, TypeOK', StartInv, PlanInv, BudgetInv, [Next]_vars
             PROVE  BudgetInv'
  BY DEF AttemptInv
<1>1. NoCycle.sent = <<>>
  BY DEF NoCycle
<1>2. CASE StartCycle \/ SaveState \/ SaveFails \/ Escape \/ Crash
  <2>1. cycle'.sent = <<>> /\ pc' # "dispatch"
    BY <1>1, <1>2 DEF StartCycle, FetchQueues, SaveState, SaveFails, Escape,
                      Crash, NoCycle
  <2>2. QED
    BY <2>1, NothingSentBudget
<1>3. CASE Resolve
  BY <1>3, ResolveBudget DEF Resolve, ResolveTags, StartInv
<1>4. CASE Dispatch
  BY <1>4, SearchBudget DEF Dispatch
<1>5. CASE EndMissingBatch
  BY <1>5, EndMissingBudget
<1>6. CASE EndCutoffBatch
  BY <1>6, KeepingBudget DEF EndCutoffBatch, Finish
<1>7. ASSUME NEW config \in Configs,
             FetchFails(config) \/ FetchEscapes(config) \/ BothInactiveUnreachable(config)
      PROVE  BudgetInv'
  <2>1. cycle'.sent = <<>> /\ pc' # "dispatch"
    BY <1>7 DEF FetchFails, FetchEscapes, BothInactiveUnreachable, Finish,
                NoCycle, StartInv
  <2>2. QED
    BY <2>1, NothingSentBudget
<1>8. CASE UNCHANGED vars
  <2>1. cycle' = cycle /\ pc' = pc
    BY <1>8 DEF vars
  <2>2. \A q : SentBy(q)' = SentBy(q)
    BY <2>1 DEF SentBy
  <2>3. QED
    BY <2>1, <2>2 DEF BudgetInv, DispatchBudget, SentCounted, WithinHardMax
<1>9. QED
  BY <1>2, <1>3, <1>4, <1>5, <1>6, <1>7, <1>8 DEF Next, Progress, Disturb

(* No cycle sends more commands than hard_max_per_cycle, nor a queue more  *)
(* than its configured count, for any counts, maximum and wanted lists.    *)
THEOREM HardMaxHolds == Spec => []WithinHardMax
<1>1. BudgetInv => WithinHardMax
  BY DEF BudgetInv
<1>2. QED
  BY <1>1, AttemptInit, AttemptNext, BudgetInit, BudgetNext, PTL DEF Spec

-----------------------------------------------------------------------------
(* One command per season and cycle.                                       *)

LEMMA EmptyUnrepeated == Unrepeated(<<>>)
BY DEF Unrepeated

LEMMA NothingSentSeasons ==
  ASSUME cycle'.sent = <<>>
  PROVE  OneDispatchPerSeason'
BY DEF OneDispatchPerSeason

LEMMA ResolveSeasons ==
  ASSUME TypeOK, SeasonInv, CrossQueueDedup,
         cycle.sent = <<>>, cycle.queue = "missing",
         NEW unresolved \in SUBSET Queues, ResolveTags(unresolved)
  PROVE  DispatchSeasons' /\ OneDispatchPerSeason'
<1> DEFINE scoped == [cycle EXCEPT !.unresolved = unresolved]
<1>1. PICK eligible \in [Queues -> Nat] :
        LET limit  == CycleLimits(cycle.config.count, eligible,
                                  cycle.config.hardMax)
            plan   == PlanFor(scoped, "missing", limit["missing"], {})
        IN  /\ limit \in [Queues -> Nat]
            /\ scoped \in CycleType
            /\ Eligible(cycle', "missing") = Eligible(scoped, "missing")
            /\ cycle' = [scoped EXCEPT !.limit = limit, !.plan = plan,
                           !.todo = plan.batch, !.tally = cycle'.tally]
  BY ResolveFacts
<1> DEFINE limit == CycleLimits(cycle.config.count, eligible,
                                cycle.config.hardMax)
           plan  == PlanFor(scoped, "missing", limit["missing"], {})
<1>2. "missing" \in Queues /\ cycle \in CycleType
  BY DEF Queues, TypeOK
<1>3. limit \in [Queues -> Nat] /\ scoped \in CycleType
  BY <1>1
<1>4. Unrepeated(plan.batch) /\ Unrepeated(plan.log)
  <2> HIDE DEF scoped, limit
  <2>1. limit["missing"] \in Nat /\ Unrepeated(ist.searched["missing"])
    BY <1>2, <1>3 DEF SeasonInv, LogsUnrepeated
  <2> HIDE DEF plan
  <2>2. plan = PlanFor(scoped, "missing", limit["missing"], {})
    BY DEF plan
  <2>3. QED
    BY <1>2, <1>3, <2>1, <2>2, PlanFacts
<1>5. /\ cycle'.plan = plan /\ cycle'.todo = plan.batch /\ cycle'.sent = <<>>
  <2> HIDE DEF limit, plan
  <2>1. cycle' = [scoped EXCEPT !.limit = limit, !.plan = plan,
                                !.todo = plan.batch, !.tally = cycle'.tally]
    BY <1>1 DEF limit, plan
  <2>2. QED
    BY <1>1, <1>2, <2>1 DEF CycleType
<1> HIDE DEF plan, scoped
<1>6. DOMAIN cycle'.sent = {}
  BY <1>5
<1>7. QED
  BY <1>4, <1>5, <1>6, NothingSentSeasons DEF DispatchSeasons

LEMMA SearchSeasons ==
  ASSUME TypeOK, SeasonInv, CrossQueueDedup,
         NEW accepted \in BOOLEAN, NEW saved \in BOOLEAN,
         SearchAndRecord(accepted, saved)
  PROVE  DispatchSeasons' /\ OneDispatchPerSeason'
<1> DEFINE item == Head(cycle.todo)
           n    == Len(cycle.sent) + 1
<1>1. cycle \in CycleType /\ pc = "dispatch" /\ pc' = "dispatch"
  BY DEF TypeOK, SearchAndRecord
<1>2. /\ cycle' = [cycle EXCEPT !.todo = Tail(cycle.todo),
                     !.sent = cycle'.sent, !.tally = cycle'.tally]
      /\ DOMAIN cycle'.sent = DOMAIN cycle.sent \cup {n}
      /\ n \notin DOMAIN cycle.sent
      /\ \A i \in DOMAIN cycle.sent : cycle'.sent[i] = cycle.sent[i]
      /\ cycle'.sent[n].item = item
  BY SendingFacts
<1>3. /\ cycle'.queue = cycle.queue /\ cycle'.plan = cycle.plan
      /\ cycle'.todo = Tail(cycle.todo)
  BY <1>1, <1>2 DEF CycleType
<1>4. /\ Unrepeated(cycle.plan.log) /\ Unrepeated(cycle.todo)
      /\ \A i \in DOMAIN cycle.sent : cycle.sent[i].item \notin Range(cycle.todo)
      /\ cycle.queue = "missing" =>
           /\ \A i \in DOMAIN cycle.sent : cycle.sent[i].item \in Range(cycle.plan.batch)
           /\ Range(cycle.todo) \subseteq Range(cycle.plan.batch)
  BY <1>1 DEF SeasonInv, DispatchSeasons
<1>5. /\ Range(cycle.todo) = {item} \cup Range(Tail(cycle.todo))
      /\ Unrepeated(Tail(cycle.todo)) /\ item \notin Range(Tail(cycle.todo))
  <2>1. cycle.todo \in Seq(Items) /\ cycle.todo # <<>>
    BY <1>1 DEF CycleType, SearchAndRecord
  <2>2. QED
    BY <1>4, <2>1, HeadTailFacts
<1> HIDE DEF item, n
<1>6. ASSUME NEW i \in DOMAIN cycle'.sent
      PROVE  /\ cycle'.sent[i].item \notin Range(cycle'.todo)
             /\ cycle.queue = "missing" => cycle'.sent[i].item \in Range(cycle.plan.batch)
  BY <1>2, <1>3, <1>4, <1>5
<1>7. DispatchSeasons'
  BY <1>3, <1>4, <1>5, <1>6 DEF DispatchSeasons
<1>8. ASSUME NEW i \in DOMAIN cycle'.sent, NEW j \in DOMAIN cycle'.sent,
             cycle'.sent[i].item = cycle'.sent[j].item
      PROVE  i = j
  <2>1. \A k, l \in DOMAIN cycle.sent : cycle.sent[k].item = cycle.sent[l].item => k = l
    BY DEF SeasonInv, OneDispatchPerSeason
  <2>2. \A k \in DOMAIN cycle.sent : cycle.sent[k].item # item
    BY <1>4, <1>5
  <2>3. QED
    BY <1>2, <1>8, <2>1, <2>2
<1>9. QED
  BY <1>7, <1>8 DEF OneDispatchPerSeason

LEMMA EndMissingSeasons ==
  ASSUME TypeOK, PlanInv, SeasonInv, CrossQueueDedup, EndMissingBatch
  PROVE  DispatchSeasons' /\ OneDispatchPerSeason'
<1> DEFINE claimed == IF CrossQueueDedup THEN Range(cycle.plan.batch) ELSE {}
           plan    == PlanFor(cycle, "cutoff", cycle.limit["cutoff"], claimed)
<1>1. "cutoff" \in Queues /\ "missing" # "cutoff"
  BY DEF Queues
<1>2. Unrepeated(ist.searched["cutoff"])
  BY <1>1 DEF SeasonInv, LogsUnrepeated
<1>3. /\ cycle'.plan = plan /\ cycle'.todo = plan.batch
      /\ cycle'.sent = cycle.sent /\ cycle'.queue = "cutoff"
      /\ Range(plan.batch) \cap claimed = {}
      /\ Unrepeated(plan.batch) /\ Unrepeated(plan.log)
  BY <1>2, EndMissingFacts
<1>4. claimed = Range(cycle.plan.batch)
  OBVIOUS
<1> HIDE DEF claimed, plan
<1>5. \A i \in DOMAIN cycle.sent : cycle.sent[i].item \in Range(cycle.plan.batch)
  BY DEF EndMissingBatch, SeasonInv, DispatchSeasons
<1>6. \A i \in DOMAIN cycle.sent : cycle.sent[i].item \notin Range(plan.batch)
  BY <1>3, <1>4, <1>5
<1>7. DispatchSeasons'
  BY <1>1, <1>3, <1>6 DEF DispatchSeasons
<1>8. OneDispatchPerSeason'
  BY <1>3 DEF SeasonInv, OneDispatchPerSeason
<1>9. QED
  BY <1>7, <1>8

LEMMA CommitLogs ==
  ASSUME TypeOK, SeasonInv, CrossQueueDedup, pc = "dispatch",
         NEW q \in Queues, ist'.searched = Committed(q).searched, disk' = disk
  PROVE  LogsUnrepeated'
<1>1. ist'.searched = [ist.searched EXCEPT ![q] =
                         IF cycle.plan.passDone THEN <<>> ELSE cycle.plan.log]
  BY CommittedFacts
<1>2. ist.searched \in [Queues -> Seq(Items)]
  BY DEF TypeOK, InstanceState
<1>3. Unrepeated(cycle.plan.log)
  BY DEF SeasonInv, DispatchSeasons
<1>4. ASSUME NEW r \in Queues PROVE Unrepeated(ist'.searched[r])
  <2>1. CASE r # q
    BY <1>1, <1>2, <2>1 DEF SeasonInv, LogsUnrepeated
  <2>2. CASE r = q
    BY <1>1, <1>2, <1>3, <2>2, EmptyUnrepeated
  <2>3. QED
    BY <2>1, <2>2
<1>5. QED
  BY <1>4 DEF SeasonInv, LogsUnrepeated

LEMMA KeepingLogs ==
  ASSUME LogsUnrepeated,
         \E entry \in {ist, disk} : ist'.searched = entry.searched,
         disk' \in {ist, disk}
  PROVE  LogsUnrepeated'
BY DEF LogsUnrepeated

LEMMA SeasonInit == Init => SeasonInv
<1> SUFFICES ASSUME Init PROVE LogsUnrepeated /\ DispatchSeasons /\ OneDispatchPerSeason
  BY DEF SeasonInv
<1>1. LogsUnrepeated
  BY EmptyUnrepeated DEF Init, FreshInstance, LogsUnrepeated
<1>2. DispatchSeasons
  BY DEF Init, DispatchSeasons
<1>3. OneDispatchPerSeason
  BY DEF Init, NoCycle, OneDispatchPerSeason
<1>4. QED
  BY <1>1, <1>2, <1>3

LEMMA SeasonNext == AttemptInv /\ SeasonInv /\ [Next]_vars => SeasonInv'
<1> SUFFICES ASSUME TypeOK, StartInv, PlanInv, SeasonInv, CrossQueueDedup,
                    [Next]_vars
             PROVE  LogsUnrepeated' /\ DispatchSeasons' /\ OneDispatchPerSeason'
  BY DEF AttemptInv, SeasonInv
<1>1. LogsUnrepeated
  BY DEF SeasonInv
<1>2. ASSUME NEW config, NEW wanted,
             \/ FetchQueues(config, wanted) \/ FetchFails(config)
             \/ FetchEscapes(config) \/ BothInactiveUnreachable(config)
             \/ SaveState \/ SaveFails \/ Escape \/ Crash
      PROVE  LogsUnrepeated' /\ DispatchSeasons' /\ OneDispatchPerSeason'
  <2>1. LogsUnrepeated'
    BY <1>1, <1>2, OutsideDispatch, KeepingLogs
  <2>2. cycle'.sent = <<>> /\ pc' # "dispatch"
    <3>1. NoCycle.sent = <<>>
      BY DEF NoCycle
    <3>2. CASE FetchQueues(config, wanted)
      BY <3>2 DEF FetchQueues, NoCycle
    <3>3. CASE FetchFails(config) \/ FetchEscapes(config) \/ BothInactiveUnreachable(config)
      BY <3>3 DEF FetchFails, FetchEscapes, BothInactiveUnreachable, Finish,
                  NoCycle, StartInv
    <3>4. CASE SaveState \/ SaveFails \/ Escape \/ Crash
      BY <3>1, <3>4 DEF SaveState, SaveFails, Escape, Crash
    <3>5. QED
      BY <1>2, <3>2, <3>3, <3>4
  <2>3. OneDispatchPerSeason'
    BY <2>2, NothingSentSeasons
  <2>4. DispatchSeasons'
    BY <2>2 DEF DispatchSeasons
  <2>5. QED
    BY <2>1, <2>3, <2>4
<1>3. CASE StartCycle
  BY <1>2, <1>3 DEF StartCycle
<1>4. CASE Resolve
  <2>1. PICK unresolved \in SUBSET Queues : ResolveTags(unresolved)
    BY <1>4 DEF Resolve
  <2>2. cycle.sent = <<>> /\ cycle.queue = "missing"
    BY <2>1 DEF ResolveTags, StartInv
  <2>3. ist'.searched = ist.searched /\ disk' = disk
    BY <2>1 DEF ResolveTags, TypeOK, InstanceState
  <2>4. LogsUnrepeated'
    BY <1>1, <2>3, KeepingLogs
  <2>5. DispatchSeasons' /\ OneDispatchPerSeason'
    BY <2>1, <2>2, ResolveSeasons
  <2>6. QED
    BY <2>4, <2>5
<1>5. CASE Dispatch
  <2>1. PICK accepted \in BOOLEAN, saved \in BOOLEAN : SearchAndRecord(accepted, saved)
    BY <1>5 DEF Dispatch
  <2>2. ist'.searched = ist.searched /\ disk' = disk
    BY <2>1 DEF SearchAndRecord, TypeOK, InstanceState
  <2>3. LogsUnrepeated'
    BY <1>1, <2>2, KeepingLogs
  <2>4. DispatchSeasons' /\ OneDispatchPerSeason'
    BY <2>1, SearchSeasons
  <2>5. QED
    BY <2>3, <2>4
<1>6. CASE EndMissingBatch
  <2>1. "missing" \in Queues
    BY DEF Queues
  <2>2. LogsUnrepeated'
    BY <1>6, <2>1, CommitLogs DEF EndMissingBatch
  <2>3. QED
    BY <1>6, <2>2, EndMissingSeasons
<1>7. CASE EndCutoffBatch
  <2>1. "cutoff" \in Queues
    BY DEF Queues
  <2>2. Committed("cutoff") \in InstanceState
    BY <2>1, CommittedType
  <2>3. /\ ist'.searched = Committed("cutoff").searched /\ disk' = disk
        /\ pc = "dispatch" /\ pc' = "save" /\ cycle' = cycle
    BY <1>7, <2>2 DEF EndCutoffBatch, Finish, InstanceState
  <2>4. LogsUnrepeated'
    BY <2>1, <2>3, CommitLogs
  <2>5. DispatchSeasons'
    BY <2>3 DEF DispatchSeasons
  <2>6. OneDispatchPerSeason'
    BY <2>3 DEF SeasonInv, OneDispatchPerSeason
  <2>7. QED
    BY <2>4, <2>5, <2>6
<1>8. CASE SaveState \/ SaveFails \/ Escape \/ Crash
  BY <1>2, <1>8
<1>9. CASE \E config \in Configs : \/ FetchFails(config)
                                   \/ FetchEscapes(config)
                                   \/ BothInactiveUnreachable(config)
  BY <1>2, <1>9
<1>10. CASE UNCHANGED vars
  <2>1. cycle' = cycle /\ pc' = pc /\ ist' = ist /\ disk' = disk
    BY <1>10 DEF vars
  <2>2. LogsUnrepeated'
    BY <1>1, <2>1, KeepingLogs
  <2>3. DispatchSeasons /\ OneDispatchPerSeason
    BY DEF SeasonInv
  <2>4. DispatchSeasons' /\ OneDispatchPerSeason'
    BY <2>1, <2>3 DEF DispatchSeasons, OneDispatchPerSeason
  <2>5. QED
    BY <2>2, <2>3, <2>4
<1>11. QED
  BY <1>3, <1>4, <1>5, <1>6, <1>7, <1>8, <1>9, <1>10 DEF Next, Progress, Disturb

(* For Sonarr, a season wanted by both queues, or listed many times, is    *)
(* sent at most one command per cycle, whatever the lists and the logs.    *)
THEOREM SeasonSentOnce == Spec => []OneDispatchPerSeason
<1>1. AttemptInv /\ SeasonInv => OneDispatchPerSeason
  BY DEF SeasonInv, OneDispatchPerSeason
<1>2. QED
  BY <1>1, AttemptInit, AttemptNext, SeasonInit, SeasonNext, PTL DEF Spec

-----------------------------------------------------------------------------
(* Queues that are skipped, work that is attempted, and the grade.         *)

(* A queue that is not processed has an empty plan.                        *)
SkipInv ==
  pc = "dispatch" /\ ~Processed(cycle, cycle.queue) =>
    /\ cycle.todo = <<>> /\ ~cycle.plan.passDone
    /\ cycle.plan.log = ist.searched[cycle.queue]

(* Some active queue has something to search; a queue may search something *)
(* in this cycle.                                                          *)
Work == \E q \in Active : Eligible(cycle, q) # <<>>

HasTurn(q) == cycle.limit[q] > 0 /\ Eligible(cycle, q) # <<>>

(* While there is work one of the queues has a turn, an active one, and    *)
(* nobody else sends; when nothing has been sent at the end of a batch,    *)
(* its queue had no turn.                                                  *)
WorkInv ==
  pc = "dispatch" =>
    /\ Work => \E q \in Queues : HasTurn(q)
    /\ \A q \in Queues : HasTurn(q) => q \in Active
    /\ cycle.todo # <<>> => HasTurn(cycle.queue)
    /\ cycle.sent # <<>> => Work
    /\ cycle.sent = <<>> /\ cycle.todo = <<>> =>
         /\ cycle.plan.batch = <<>> /\ ~HasTurn("missing")
         /\ cycle.queue = "cutoff" => ~HasTurn("cutoff")

(* The tally says what was fetched, filtered and sent.                     *)
TallyInv ==
  /\ pc = "resolve" =>
       cycle.tally = EmptyTally /\ \A q \in Active : cycle.wanted[q] # Unfetched
  /\ pc = "dispatch" =>
       /\ ~cycle.tally.fetchFailed
       /\ cycle.tally.unevaluated = {q \in Active : ~Processed(cycle, q)}
       /\ \A q \in Active : Processed(cycle, q) =>
            /\ cycle.tally.malformed[q] = cycle.wanted[q].malformed
            /\ cycle.tally.eligible[q] = Len(Eligible(cycle, q))
       /\ cycle.tally.accepted > 0 <=> \E i \in DOMAIN cycle.sent : cycle.sent[i].accepted
       /\ cycle.tally.failed > 0 <=> \E i \in DOMAIN cycle.sent : ~cycle.sent[i].accepted

(* A batch is only filled from a queue that may search something, and one  *)
(* that excludes nothing is then filled.                                   *)
LEMMA PlanTurn ==
  ASSUME TypeOK, NEW c \in CycleType, NEW q \in Queues, NEW size \in Nat,
         NEW exclude, NEW plan, plan = PlanFor(c, q, size, exclude)
  PROVE  /\ plan.batch # <<>> => size > 0 /\ Eligible(c, q) # <<>>
         /\ plan.batch = <<>> /\ exclude = {} => size = 0 \/ Eligible(c, q) = <<>>
         /\ ~Processed(c, q) =>
              /\ plan.batch = <<>> /\ ~plan.passDone /\ plan.log = ist.searched[q]
<1>1. Eligible(c, q) \in Seq(Items) /\ ist.searched[q] \in Seq(Items)
  BY EligibleType DEF TypeOK, InstanceState
<1>2. CASE Processed(c, q)
  <2> DEFINE eligible == Eligible(c, q)
             searched == ist.searched[q]
  <2>1. plan = PrioritizeBatch(eligible, searched, size, exclude)
    BY <1>2 DEF PlanFor
  <2>2. eligible \in Seq(Items) /\ searched \in Seq(Items) /\ size \in Int
    BY <1>1
  <2> HIDE DEF eligible, searched
  <2>3. /\ plan.batch \in Seq(Items)
        /\ Len(plan.batch) <= IF size > 0 THEN size ELSE 0
        /\ Range(plan.batch) \subseteq Range(eligible)
    BY <2>1, <2>2, PrioritizeBatchFacts
  <2>4. plan.batch # <<>> => size > 0
    BY <2>3
  <2>5. plan.batch # <<>> => eligible # <<>>
    <3>1. plan.batch # <<>> => 1 \in DOMAIN plan.batch
      BY <2>3
    <3>2. QED
      BY <2>3, <3>1, EmptyRange DEF Range
  <2>6. exclude = {} /\ size > 0 /\ eligible # <<>> => plan.batch # <<>>
    BY <2>1, <2>2, BatchNotEmpty
  <2>7. QED
    BY <1>2, <2>4, <2>5, <2>6 DEF eligible
<1>3. CASE ~Processed(c, q)
  BY <1>3 DEF PlanFor, Eligible
<1>4. QED
  BY <1>2, <1>3

(* Tags decide what is eligible, how much of it may be searched, what the  *)
(* tally says of it, and the missing batch.                                *)
LEMMA ResolveCycle ==
  ASSUME TypeOK, NEW unresolved \in SUBSET Queues, ResolveTags(unresolved)
  PROVE  LET eligible == [q \in Queues |-> Len(Eligible(cycle', q))]
         IN  /\ cycle'.wanted = cycle.wanted /\ cycle'.config = cycle.config
             /\ cycle'.unresolved = unresolved /\ cycle'.queue = cycle.queue
             /\ cycle'.sent = cycle.sent
             /\ eligible \in [Queues -> Nat]
             /\ cycle'.limit = CycleLimits(cycle.config.count, eligible,
                                           cycle.config.hardMax)
             /\ cycle'.plan = PlanFor(cycle', "missing", cycle'.limit["missing"], {})
             /\ cycle'.todo = cycle'.plan.batch
             /\ cycle'.tally = [cycle.tally EXCEPT
                  !.eligible = eligible,
                  !.malformed =
                    [q \in Queues |->
                       IF cycle.wanted[q] # Unfetched /\ q \notin unresolved
                       THEN cycle.wanted[q].malformed ELSE 0],
                  !.unevaluated =
                    {q \in Active : q \in unresolved \/ cycle.wanted[q].fault}]
             /\ ist'.searched = ist.searched /\ pc = "resolve" /\ pc' = "dispatch"
<1> DEFINE scoped   == [cycle EXCEPT !.unresolved = unresolved]
           eligible == [q \in Queues |-> Len(Eligible(scoped, q))]
           limit    == CycleLimits(cycle.config.count, eligible,
                                   cycle.config.hardMax)
           plan     == PlanFor(scoped, "missing", limit["missing"], {})
           malformed == [q \in Queues |->
                           IF cycle.wanted[q] # Unfetched /\ q \notin unresolved
                           THEN cycle.wanted[q].malformed ELSE 0]
           unevaluated == {q \in Active : q \in unresolved \/ cycle.wanted[q].fault}
           tally == [cycle.tally EXCEPT !.eligible = eligible,
                       !.malformed = malformed, !.unevaluated = unevaluated]
<1>1. cycle \in CycleType /\ scoped \in CycleType
  BY DEF TypeOK, CycleType
<1>2. cycle' = [scoped EXCEPT !.limit = limit, !.plan = plan,
                              !.todo = plan.batch, !.tally = tally]
  BY ZenonT(60), <1>1 DEF ResolveTags, CycleType, Tally
<1>3. scoped.wanted = cycle.wanted /\ scoped.unresolved = unresolved
      /\ scoped.config = cycle.config /\ scoped.queue = cycle.queue
      /\ scoped.sent = cycle.sent
  BY <1>1 DEF CycleType
<1>4. eligible \in [Queues -> Nat]
  <2> SUFFICES ASSUME NEW q \in Queues PROVE Len(Eligible(scoped, q)) \in Nat
    OBVIOUS
  <2> HIDE DEF scoped
  <2>1. Eligible(scoped, q) \in Seq(Items)
    BY <1>1, EligibleType
  <2>2. QED
    BY <2>1
<1>5. /\ cycle'.wanted = scoped.wanted /\ cycle'.config = scoped.config
      /\ cycle'.unresolved = scoped.unresolved /\ cycle'.queue = scoped.queue
      /\ cycle'.sent = scoped.sent /\ cycle'.limit = limit /\ cycle'.plan = plan
      /\ cycle'.todo = plan.batch /\ cycle'.tally = tally
  <2> HIDE DEF scoped, limit, plan, tally
  <2>1. QED
    BY <1>1, <1>2 DEF CycleType
<1>6. \A q : Processed(cycle', q) = Processed(scoped, q)
  BY <1>5 DEF Processed
<1>7. \A q : Eligible(cycle', q) = Eligible(scoped, q)
  BY <1>5, <1>6 DEF Eligible
<1>8. eligible = [q \in Queues |-> Len(Eligible(cycle', q))]
  BY <1>7
<1>9. plan = PlanFor(cycle', "missing", limit["missing"], {})
  BY <1>6, <1>7 DEF PlanFor
<1>10. ist'.searched = ist.searched /\ pc = "resolve" /\ pc' = "dispatch"
  BY DEF ResolveTags, TypeOK, InstanceState
<1> HIDE DEF limit, plan, malformed, unevaluated, scoped
<1>11. QED
  BY <1>3, <1>4, <1>5, <1>8, <1>9, <1>10 DEF limit, malformed, unevaluated

(* What sending a command changes in the tally and the list of commands.   *)
LEMMA SendCycle ==
  ASSUME TypeOK, NEW accepted \in BOOLEAN, NEW saved \in BOOLEAN,
         SearchAndRecord(accepted, saved)
  PROVE  LET n == Len(cycle.sent) + 1
         IN  /\ cycle'.wanted = cycle.wanted /\ cycle'.config = cycle.config
             /\ cycle'.unresolved = cycle.unresolved /\ cycle'.queue = cycle.queue
             /\ cycle'.limit = cycle.limit /\ cycle'.plan = cycle.plan
             /\ cycle'.tally.fetchFailed = cycle.tally.fetchFailed
             /\ cycle'.tally.unevaluated = cycle.tally.unevaluated
             /\ cycle'.tally.malformed = cycle.tally.malformed
             /\ cycle'.tally.eligible = cycle.tally.eligible
             /\ cycle'.tally.accepted = IF accepted THEN cycle.tally.accepted + 1
                                        ELSE cycle.tally.accepted
             /\ cycle'.tally.failed = IF accepted THEN cycle.tally.failed
                                      ELSE cycle.tally.failed + 1
             /\ DOMAIN cycle'.sent = DOMAIN cycle.sent \cup {n}
             /\ \A i \in DOMAIN cycle.sent : cycle'.sent[i] = cycle.sent[i]
             /\ cycle'.sent[n].accepted = accepted
             /\ cycle'.sent # <<>>
             /\ cycle'.todo = Tail(cycle.todo)
             /\ pc = "dispatch" /\ cycle.todo # <<>> /\ pc' = pc
             /\ ist'.searched = ist.searched
             /\ \A q \in Queues : q # cycle.queue => ist'.attempted[q] = ist.attempted[q]
             /\ ist'.pass = ist.pass
<1> DEFINE command == [queue |-> cycle.queue, item |-> Head(cycle.todo),
                       accepted |-> accepted]
           tally == [cycle.tally EXCEPT
                       !.accepted = IF accepted THEN @ + 1 ELSE @,
                       !.failed   = IF accepted THEN @ ELSE @ + 1,
                       !.unsaved  = @ \/ (accepted /\ ~saved)]
<1>1. /\ cycle \in CycleType /\ cycle.tally \in Tally /\ cycle.sent \in Seq(Command)
      /\ pc = "dispatch" /\ cycle.todo # <<>> /\ pc' = pc
  BY DEF TypeOK, CycleType, SearchAndRecord
<1>2. cycle' = [cycle EXCEPT !.todo = Tail(cycle.todo),
                  !.sent = Append(cycle.sent, command), !.tally = tally]
  BY ZenonT(30), <1>1 DEF SearchAndRecord, CycleType, Tally
<1>3. /\ tally.fetchFailed = cycle.tally.fetchFailed
      /\ tally.unevaluated = cycle.tally.unevaluated
      /\ tally.malformed = cycle.tally.malformed
      /\ tally.eligible = cycle.tally.eligible
      /\ tally.accepted = IF accepted THEN cycle.tally.accepted + 1
                          ELSE cycle.tally.accepted
      /\ tally.failed = IF accepted THEN cycle.tally.failed
                        ELSE cycle.tally.failed + 1
  BY <1>1 DEF Tally
<1>4. /\ cycle'.wanted = cycle.wanted /\ cycle'.config = cycle.config
      /\ cycle'.unresolved = cycle.unresolved /\ cycle'.queue = cycle.queue
      /\ cycle'.limit = cycle.limit /\ cycle'.plan = cycle.plan
      /\ cycle'.todo = Tail(cycle.todo) /\ cycle'.tally = tally
      /\ cycle'.sent = Append(cycle.sent, command)
  <2> HIDE DEF tally, command
  <2>1. QED
    BY <1>1, <1>2 DEF CycleType
<1>5. /\ DOMAIN cycle'.sent = DOMAIN cycle.sent \cup {Len(cycle.sent) + 1}
      /\ \A i \in DOMAIN cycle.sent : cycle'.sent[i] = cycle.sent[i]
      /\ Len(cycle'.sent) = Len(cycle.sent) + 1 /\ Len(cycle.sent) \in Nat
  BY <1>1, SendingFacts
<1>6. cycle'.sent[Len(cycle.sent) + 1] = command
  <2> HIDE DEF command
  <2>1. command \in Command
    BY <1>1, SendingFacts DEF command, Command
  <2>2. QED
    BY <1>1, <1>4, <2>1
<1>7. command.accepted = accepted /\ cycle'.sent # <<>>
  BY <1>5
<1>8. /\ ist'.searched = ist.searched /\ ist'.pass = ist.pass
      /\ \A q \in Queues : q # cycle.queue => ist'.attempted[q] = ist.attempted[q]
  BY DEF SearchAndRecord, TypeOK, InstanceState, CycleType
<1> HIDE DEF tally, command
<1>9. QED
  BY <1>1, <1>3, <1>4, <1>5, <1>6, <1>7, <1>8

(* And what the end of the missing batch changes.                          *)
LEMMA EndMissingCycle ==
  ASSUME TypeOK, EndMissingBatch
  PROVE  LET claimed == IF CrossQueueDedup THEN Range(cycle.plan.batch) ELSE {}
         IN  /\ cycle'.wanted = cycle.wanted /\ cycle'.config = cycle.config
             /\ cycle'.unresolved = cycle.unresolved /\ cycle'.queue = "cutoff"
             /\ cycle'.limit = cycle.limit /\ cycle'.tally = cycle.tally
             /\ cycle'.sent = cycle.sent
             /\ cycle'.plan = PlanFor(cycle, "cutoff", cycle.limit["cutoff"], claimed)
             /\ cycle'.todo = cycle'.plan.batch
             /\ pc = "dispatch" /\ pc' = pc /\ cycle.todo = <<>> /\ cycle.queue = "missing"
             /\ ist'.searched["cutoff"] = ist.searched["cutoff"]
<1> DEFINE claimed == IF CrossQueueDedup THEN Range(cycle.plan.batch) ELSE {}
           plan    == PlanFor(cycle, "cutoff", cycle.limit["cutoff"], claimed)
<1>1. /\ cycle \in CycleType /\ "missing" \in Queues /\ "cutoff" \in Queues
      /\ pc = "dispatch" /\ pc' = pc /\ cycle.todo = <<>> /\ cycle.queue = "missing"
  BY DEF TypeOK, Queues, EndMissingBatch
<1>2. cycle' = [cycle EXCEPT !.queue = "cutoff", !.claimed = claimed,
                             !.plan = plan, !.todo = plan.batch]
  BY DEF EndMissingBatch
<1>3. ist'.searched["cutoff"] = ist.searched["cutoff"]
  <2>1. ist' = Committed("missing")
    BY DEF EndMissingBatch
  <2>2. ist'.searched = [ist.searched EXCEPT !["missing"] =
                           IF cycle.plan.passDone THEN <<>> ELSE cycle.plan.log]
    BY <1>1, <2>1, CommittedFacts
  <2>3. QED
    BY <1>1, <2>2 DEF TypeOK, InstanceState
<1> HIDE DEF claimed, plan
<1>4. /\ cycle'.wanted = cycle.wanted /\ cycle'.config = cycle.config
      /\ cycle'.unresolved = cycle.unresolved /\ cycle'.queue = "cutoff"
      /\ cycle'.limit = cycle.limit /\ cycle'.tally = cycle.tally
      /\ cycle'.sent = cycle.sent /\ cycle'.plan = plan /\ cycle'.todo = plan.batch
  BY <1>1, <1>2 DEF CycleType
<1>5. QED
  BY <1>1, <1>3, <1>4 DEF plan, claimed

(* As long as the lists, tags and settings are the same, so is what        *)
(* follows from them.                                                      *)
LEMMA SameQueues ==
  ASSUME cycle'.wanted = cycle.wanted, cycle'.unresolved = cycle.unresolved,
         cycle'.config = cycle.config
  PROVE  /\ Active' = Active
         /\ \A q : Processed(cycle', q) = Processed(cycle, q)
         /\ \A q : Eligible(cycle', q) = Eligible(cycle, q)
<1>1. \A q : Processed(cycle', q) = Processed(cycle, q)
  BY DEF Processed
<1>2. QED
  BY <1>1 DEF Active, Eligible

-----------------------------------------------------------------------------
(* Skipped queues.                                                         *)

LEMMA SkipNext == TypeOK /\ StartInv /\ SkipInv /\ [Next]_vars => SkipInv'
<1> SUFFICES ASSUME TypeOK, StartInv, SkipInv, [Next]_vars, pc' = "dispatch",
                    ~Processed(cycle', cycle'.queue), TypeOK'
             PROVE  /\ cycle'.todo = <<>> /\ ~cycle'.plan.passDone
                    /\ cycle'.plan.log = ist'.searched[cycle'.queue]
  BY NextType DEF SkipInv
<1>1. "missing" \in Queues /\ "cutoff" \in Queues
  BY DEF Queues
<1>2. cycle \in CycleType /\ cycle' \in CycleType
  BY DEF TypeOK
<1>3. ASSUME NEW unresolved \in SUBSET Queues, ResolveTags(unresolved)
      PROVE  /\ cycle'.todo = <<>> /\ ~cycle'.plan.passDone
             /\ cycle'.plan.log = ist'.searched[cycle'.queue]
  <2>1. /\ cycle'.queue = "missing" /\ cycle'.todo = cycle'.plan.batch
        /\ cycle'.plan = PlanFor(cycle', "missing", cycle'.limit["missing"], {})
        /\ ist'.searched = ist.searched /\ cycle'.limit["missing"] \in Nat
    BY <1>1, <1>2, <1>3, ResolveCycle DEF StartInv, CycleType
  <2>2. QED
    BY <1>1, <1>2, <2>1, PlanTurn
<1>4. ASSUME NEW accepted \in BOOLEAN, NEW saved \in BOOLEAN,
             SearchAndRecord(accepted, saved)
      PROVE  FALSE
  <2>1. cycle'.queue = cycle.queue /\ Processed(cycle', cycle.queue) = Processed(cycle, cycle.queue)
    BY <1>4, SendCycle, SameQueues
  <2>2. QED
    BY <1>4, <2>1, SendCycle DEF SkipInv
<1>5. ASSUME EndMissingBatch
      PROVE  /\ cycle'.todo = <<>> /\ ~cycle'.plan.passDone
             /\ cycle'.plan.log = ist'.searched[cycle'.queue]
  <2> DEFINE claimed == IF CrossQueueDedup THEN Range(cycle.plan.batch) ELSE {}
  <2>1. /\ cycle'.queue = "cutoff" /\ cycle'.todo = cycle'.plan.batch
        /\ cycle'.plan = PlanFor(cycle, "cutoff", cycle.limit["cutoff"], claimed)
        /\ ist'.searched["cutoff"] = ist.searched["cutoff"]
        /\ Processed(cycle', "cutoff") = Processed(cycle, "cutoff")
    BY <1>5, EndMissingCycle, SameQueues
  <2>2. cycle.limit["cutoff"] \in Nat
    BY <1>1, <1>2 DEF CycleType
  <2> HIDE DEF claimed
  <2>3. QED
    BY <1>1, <1>2, <2>1, <2>2, PlanTurn
<1>6. CASE UNCHANGED vars
  BY <1>6 DEF vars, SkipInv
<1>7. CASE StartCycle \/ EndCutoffBatch \/ SaveState \/ SaveFails \/ Escape \/ Crash
  BY <1>7 DEF StartCycle, FetchQueues, EndCutoffBatch, Finish, SaveState, SaveFails,
              Escape, Crash
<1>8. ASSUME NEW config \in Configs,
             FetchFails(config) \/ FetchEscapes(config) \/ BothInactiveUnreachable(config)
      PROVE  FALSE
  BY <1>8 DEF FetchFails, FetchEscapes, BothInactiveUnreachable, Finish
<1>9. QED
  BY <1>3, <1>4, <1>5, <1>6, <1>7, <1>8 DEF Next, Progress, Disturb, Resolve, Dispatch

(* Committing an empty plan changes nothing, and committing a plan changes *)
(* only its queue.                                                         *)
LEMMA CommitSkips ==
  ASSUME TypeOK, SkipInv, pc = "dispatch", NEW q \in Queues, ~Processed(cycle, q),
         NEW r \in Queues, cycle.queue = r
  PROVE  LET entry == Committed(r)
         IN  /\ entry.searched[q] = ist.searched[q] /\ entry.pass[q] = ist.pass[q]
             /\ entry.attempted[q] = ist.attempted[q]
<1>1. q = r => ~cycle.plan.passDone /\ cycle.plan.log = ist.searched[q]
  BY DEF SkipInv
<1>2. QED
  BY <1>1 DEF Committed, TypeOK, InstanceState

LEMMA SkippedStep ==
  ASSUME TypeOK, SkipInv, [Next]_vars, NEW q \in Queues, ~Processed(cycle, q),
         pc = "dispatch", pc' # "idle"
  PROVE  /\ ist'.searched[q] = ist.searched[q] /\ ist'.pass[q] = ist.pass[q]
         /\ ist'.attempted[q] = ist.attempted[q]
<1>1. CASE Dispatch
  <2>1. PICK accepted \in BOOLEAN, saved \in BOOLEAN : SearchAndRecord(accepted, saved)
    BY <1>1 DEF Dispatch
  <2>2. cycle.todo # <<>>
    BY <2>1, SendCycle
  <2>3. q # cycle.queue
    BY <2>2 DEF SkipInv
  <2>4. QED
    BY <2>1, <2>3, SendCycle
<1>2. CASE EndMissingBatch
  <2>1. ist' = Committed("missing") /\ cycle.queue = "missing" /\ "missing" \in Queues
    BY <1>2 DEF EndMissingBatch, Queues
  <2>2. QED
    BY <2>1, CommitSkips
<1>3. CASE EndCutoffBatch
  <2> DEFINE entry == Committed("cutoff")
  <2>1. /\ ist' = [entry EXCEPT !.grade =
                     ToRecord(cycle.tally, ActiveQueues(cycle.config.count)).grade]
        /\ cycle.queue = "cutoff" /\ "cutoff" \in Queues
    BY <1>3 DEF EndCutoffBatch, Finish, Queues
  <2>2. entry \in InstanceState
    BY <2>1, CommittedType
  <2>3. /\ entry.searched[q] = ist.searched[q] /\ entry.pass[q] = ist.pass[q]
        /\ entry.attempted[q] = ist.attempted[q]
    BY <2>1, CommitSkips
  <2> HIDE DEF entry
  <2>4. QED
    BY <2>1, <2>2, <2>3 DEF InstanceState
<1>4. CASE StartCycle \/ Resolve \/ SaveState \/ SaveFails \/ Escape \/ Crash
  BY <1>4 DEF StartCycle, FetchQueues, Resolve, ResolveTags, SaveState, SaveFails,
              Escape, Crash
<1>5. CASE \E config \in Configs : \/ FetchFails(config)
                                   \/ FetchEscapes(config)
                                   \/ BothInactiveUnreachable(config)
  BY <1>5 DEF FetchFails, FetchEscapes, BothInactiveUnreachable
<1>6. CASE UNCHANGED vars
  BY <1>6 DEF vars
<1>7. QED
  BY <1>1, <1>2, <1>3, <1>4, <1>5, <1>6 DEF Next, Progress, Disturb

(* A queue whose tag is unresolved, that was not fetched or whose filter   *)
(* chain faulted sends nothing, and keeps its log and its pass.            *)
THEOREM SkippedStaysUntouched == Spec => SkippedQueueUntouched
<1>1. Init => SkipInv
  BY DEF Init, SkipInv
<1>2. AttemptInv /\ SkipInv /\ [Next]_vars => SkipInv'
  BY SkipNext DEF AttemptInv
<1>3. AttemptInv /\ SkipInv /\ [Next]_vars =>
        [\A q \in Queues :
           /\ pc = "dispatch" /\ pc' # "idle"
           /\ \/ q \in cycle.unresolved
              \/ cycle.wanted[q] = Unfetched
              \/ cycle.wanted[q].fault
           => /\ ist'.searched[q] = ist.searched[q]
              /\ ist'.pass[q] = ist.pass[q]
              /\ ist'.attempted[q] = ist.attempted[q]]_vars
  BY SkippedStep DEF AttemptInv, Processed
<1>4. QED
  BY <1>1, <1>2, <1>3, AttemptInit, AttemptNext, PTL DEF Spec, SkippedQueueUntouched

-----------------------------------------------------------------------------
(* Work that is attempted.                                                 *)

(* Rebalancing leaves no slot unused (NoWastedSlot): when an active queue  *)
(* has something eligible, one of the queues may search something.         *)
LEMMA SomeTurn ==
  ASSUME NEW count \in Counts, NEW eligible \in Counts, NEW hardMax \in Nat,
         NEW limit, limit = CycleLimits(count, eligible, hardMax)
  PROVE  /\ (\E q \in Queues : count[q] > 0 /\ eligible[q] > 0) =>
              \E q \in Queues : limit[q] > 0 /\ eligible[q] > 0
         /\ \A q \in Queues : limit[q] \in Nat /\ limit[q] <= count[q]
<1>1. /\ "missing" \in Queues /\ "cutoff" \in Queues
      /\ \A q \in Queues : q = "missing" \/ q = "cutoff"
  BY DEF Queues
<1>2. limit \in Counts /\ \A q \in Queues : limit[q] <= count[q]
  BY LimitsAreCounts, CeilingHolds DEF WithinCeiling
<1>3. Total(Granted(limit, eligible)) =
        IF hardMax > 0 THEN Lesser(hardMax, Total(Demand(count, eligible)))
        ELSE Total(Demand(count, eligible))
  BY NoWastedSlot DEF WorkConserving
<1>4. \A q \in Queues : limit[q] \in Nat /\ count[q] \in Nat /\ eligible[q] \in Nat
  BY <1>2 DEF Counts
<1>5. /\ Total(Granted(limit, eligible)) =
           Lesser(limit["missing"], eligible["missing"])
             + Lesser(limit["cutoff"], eligible["cutoff"])
      /\ Total(Demand(count, eligible)) =
           Lesser(count["missing"], eligible["missing"])
             + Lesser(count["cutoff"], eligible["cutoff"])
  BY <1>1 DEF Total, Granted, Demand
<1>6. ASSUME NEW p \in Queues, count[p] > 0, eligible[p] > 0
      PROVE  Total(Granted(limit, eligible)) > 0
  BY <1>1, <1>3, <1>4, <1>5, <1>6 DEF Lesser
<1>7. Total(Granted(limit, eligible)) > 0 =>
        \E q \in Queues : limit[q] > 0 /\ eligible[q] > 0
  BY <1>1, <1>4, <1>5 DEF Lesser
<1>8. QED
  BY <1>2, <1>4, <1>6, <1>7

LEMMA EmptyOrLong ==
  ASSUME NEW X, NEW s \in Seq(X)
  PROVE  Len(s) \in Nat /\ (Len(s) > 0 <=> s # <<>>)
OBVIOUS

LEMMA ResolveWork ==
  ASSUME TypeOK, TypeOK', StartInv, NEW unresolved \in SUBSET Queues,
         ResolveTags(unresolved)
  PROVE  WorkInv'
<1> DEFINE eligible == [q \in Queues |-> Len(Eligible(cycle', q))]
           count    == cycle.config.count
<1>1. "missing" \in Queues /\ cycle \in CycleType /\ cycle' \in CycleType
  BY DEF Queues, TypeOK
<1>2. /\ cycle'.config = cycle.config /\ cycle'.queue = "missing" /\ cycle'.sent = <<>>
      /\ eligible \in [Queues -> Nat]
      /\ cycle'.limit = CycleLimits(count, eligible, cycle.config.hardMax)
      /\ cycle'.plan = PlanFor(cycle', "missing", cycle'.limit["missing"], {})
      /\ cycle'.todo = cycle'.plan.batch
  BY ResolveCycle DEF StartInv
<1>3. count \in Counts /\ cycle.config.hardMax \in Nat
  BY <1>1, ConfigType DEF CycleType, Counts
<1>4. \A q \in Queues : eligible[q] > 0 <=> Eligible(cycle', q) # <<>>
  BY <1>1, EligibleType, EmptyOrLong
<1> HIDE DEF eligible
<1>5. /\ (\E q \in Queues : count[q] > 0 /\ eligible[q] > 0) =>
           \E q \in Queues : cycle'.limit[q] > 0 /\ eligible[q] > 0
      /\ \A q \in Queues : cycle'.limit[q] \in Nat /\ cycle'.limit[q] <= count[q]
  BY <1>2, <1>3, SomeTurn DEF Counts
<1>6. \A q \in Queues : count[q] \in Nat
  BY <1>3 DEF Counts
<1>7. Active' = {q \in Queues : count[q] > 0}
  BY <1>2 DEF Active, ActiveQueues
<1> HIDE DEF count
<1>8. Work' => \E q \in Queues : HasTurn(q)'
  BY <1>4, <1>5, <1>7 DEF Work, HasTurn
<1>9. \A q \in Queues : HasTurn(q)' => q \in Active'
  BY <1>5, <1>6, <1>7 DEF HasTurn
<1>10. /\ cycle'.todo # <<>> => HasTurn("missing")'
       /\ cycle'.todo = <<>> => ~HasTurn("missing")'
  BY <1>1, <1>2, <1>5, PlanTurn DEF HasTurn
<1>11. QED
  BY <1>2, <1>8, <1>9, <1>10 DEF WorkInv

(* While the batches are sent, who has a turn stays the same.              *)
LEMMA SameTurns ==
  ASSUME cycle'.wanted = cycle.wanted, cycle'.unresolved = cycle.unresolved,
         cycle'.config = cycle.config, cycle'.limit = cycle.limit
  PROVE  Active' = Active /\ Work' = Work /\ \A q : HasTurn(q)' = HasTurn(q)
BY SameQueues DEF Work, HasTurn

LEMMA SearchWork ==
  ASSUME TypeOK, WorkInv, NEW accepted \in BOOLEAN, NEW saved \in BOOLEAN,
         SearchAndRecord(accepted, saved)
  PROVE  WorkInv'
<1>1. /\ cycle'.queue = cycle.queue /\ cycle'.sent # <<>>
      /\ pc = "dispatch" /\ cycle.todo # <<>>
  BY SendCycle
<1>2. Active' = Active /\ Work' = Work /\ \A q : HasTurn(q)' = HasTurn(q)
  BY SendCycle, SameTurns
<1>3. HasTurn(cycle.queue) /\ cycle.queue \in Queues
  BY <1>1 DEF WorkInv, TypeOK, CycleType
<1>4. Work
  BY <1>1, <1>3 DEF WorkInv, Work, HasTurn
<1>5. QED
  BY <1>1, <1>2, <1>3, <1>4 DEF WorkInv

LEMMA EndMissingWork ==
  ASSUME TypeOK, WorkInv, EndMissingBatch
  PROVE  WorkInv'
<1> DEFINE claimed == IF CrossQueueDedup THEN Range(cycle.plan.batch) ELSE {}
<1>1. /\ cycle'.queue = "cutoff" /\ cycle'.sent = cycle.sent /\ cycle'.limit = cycle.limit
      /\ cycle'.plan = PlanFor(cycle, "cutoff", cycle.limit["cutoff"], claimed)
      /\ cycle'.todo = cycle'.plan.batch /\ pc = "dispatch" /\ cycle.todo = <<>>
  BY EndMissingCycle
<1>2. Active' = Active /\ Work' = Work /\ \A q : HasTurn(q)' = HasTurn(q)
  BY EndMissingCycle, SameTurns
<1>3. "cutoff" \in Queues /\ cycle \in CycleType /\ cycle.limit["cutoff"] \in Nat
  BY DEF Queues, TypeOK, CycleType
<1>4. cycle.plan.batch = <<>> => claimed = {}
  BY EmptyRange
<1> HIDE DEF claimed
<1>5. /\ cycle'.todo # <<>> => HasTurn("cutoff")
      /\ cycle'.todo = <<>> /\ claimed = {} => ~HasTurn("cutoff")
  BY <1>1, <1>3, PlanTurn DEF HasTurn
<1>6. QED
  BY <1>1, <1>2, <1>4, <1>5 DEF WorkInv

LEMMA WorkNext == TypeOK /\ TypeOK' /\ StartInv /\ WorkInv /\ [Next]_vars => WorkInv'
<1> SUFFICES ASSUME TypeOK, TypeOK', StartInv, WorkInv, [Next]_vars
             PROVE  WorkInv'
  OBVIOUS
<1>1. CASE Resolve
  BY <1>1, ResolveWork DEF Resolve
<1>2. CASE Dispatch
  BY <1>2, SearchWork DEF Dispatch
<1>3. CASE EndMissingBatch
  BY <1>3, EndMissingWork
<1>4. CASE StartCycle \/ EndCutoffBatch \/ SaveState \/ SaveFails \/ Escape \/ Crash
  BY <1>4 DEF StartCycle, FetchQueues, EndCutoffBatch, Finish, SaveState, SaveFails,
              Escape, Crash, WorkInv
<1>5. ASSUME NEW config \in Configs,
             FetchFails(config) \/ FetchEscapes(config) \/ BothInactiveUnreachable(config)
      PROVE  WorkInv'
  BY <1>5 DEF FetchFails, FetchEscapes, BothInactiveUnreachable, Finish, WorkInv
<1>6. CASE UNCHANGED vars
  <2>1. cycle' = cycle /\ pc' = pc
    BY <1>6 DEF vars
  <2>2. Active' = Active /\ Work' = Work /\ \A q : HasTurn(q)' = HasTurn(q)
    BY <2>1, SameTurns
  <2>3. QED
    BY <2>1, <2>2 DEF WorkInv
<1>7. QED
  BY <1>1, <1>2, <1>3, <1>4, <1>5, <1>6 DEF Next, Progress, Disturb

-----------------------------------------------------------------------------
(* The tally.                                                              *)

LEMMA ResolveTally ==
  ASSUME TypeOK, StartInv, TallyInv, NEW unresolved \in SUBSET Queues,
         ResolveTags(unresolved)
  PROVE  TallyInv'
<1> DEFINE eligible == [q \in Queues |-> Len(Eligible(cycle', q))]
           malformed == [q \in Queues |->
                           IF cycle.wanted[q] # Unfetched /\ q \notin unresolved
                           THEN cycle.wanted[q].malformed ELSE 0]
           unevaluated == {q \in Active : q \in unresolved \/ cycle.wanted[q].fault}
<1>1. /\ cycle'.wanted = cycle.wanted /\ cycle'.config = cycle.config
      /\ cycle'.unresolved = unresolved /\ cycle'.sent = <<>>
      /\ cycle'.tally = [cycle.tally EXCEPT !.eligible = eligible,
                           !.malformed = malformed, !.unevaluated = unevaluated]
      /\ pc = "resolve" /\ pc' = "dispatch"
  BY ResolveCycle DEF StartInv
<1>2. cycle.tally = EmptyTally /\ \A q \in Active : cycle.wanted[q] # Unfetched
  BY <1>1 DEF TallyInv
<1>3. Active' = Active /\ \A q \in Active : q \in Queues
  BY <1>1 DEF Active, ActiveQueues
<1> HIDE DEF eligible, malformed, unevaluated
<1>4. /\ cycle'.tally.fetchFailed = FALSE /\ cycle'.tally.accepted = 0
      /\ cycle'.tally.failed = 0 /\ cycle'.tally.eligible = eligible
      /\ cycle'.tally.malformed = malformed /\ cycle'.tally.unevaluated = unevaluated
  BY <1>1, <1>2 DEF EmptyTally
<1>5. unevaluated = {q \in Active : ~Processed(cycle', q)}
  BY <1>1, <1>2 DEF unevaluated, Processed
<1>6. \A q \in Active : Processed(cycle', q) =>
        malformed[q] = cycle'.wanted[q].malformed /\ eligible[q] = Len(Eligible(cycle', q))
  BY <1>1, <1>3 DEF malformed, eligible, Processed
<1>7. DOMAIN cycle'.sent = {}
  BY <1>1
<1>8. QED
  BY <1>1, <1>3, <1>4, <1>5, <1>6, <1>7 DEF TallyInv

LEMMA SearchTally ==
  ASSUME TypeOK, TallyInv, NEW accepted \in BOOLEAN, NEW saved \in BOOLEAN,
         SearchAndRecord(accepted, saved)
  PROVE  TallyInv'
<1> DEFINE n == Len(cycle.sent) + 1
<1>1. /\ cycle'.wanted = cycle.wanted /\ pc = "dispatch" /\ pc' = pc
      /\ cycle'.tally.fetchFailed = cycle.tally.fetchFailed
      /\ cycle'.tally.unevaluated = cycle.tally.unevaluated
      /\ cycle'.tally.malformed = cycle.tally.malformed
      /\ cycle'.tally.eligible = cycle.tally.eligible
      /\ cycle'.tally.accepted = IF accepted THEN cycle.tally.accepted + 1
                                 ELSE cycle.tally.accepted
      /\ cycle'.tally.failed = IF accepted THEN cycle.tally.failed
                               ELSE cycle.tally.failed + 1
  BY SendCycle
<1>2. /\ DOMAIN cycle'.sent = DOMAIN cycle.sent \cup {n}
      /\ \A i \in DOMAIN cycle.sent : cycle'.sent[i] = cycle.sent[i]
      /\ cycle'.sent[n].accepted = accepted
  BY SendCycle
<1>3. /\ Active' = Active
      /\ \A q : Processed(cycle', q) = Processed(cycle, q)
      /\ \A q : Eligible(cycle', q) = Eligible(cycle, q)
  BY SendCycle, SameQueues
<1>4. cycle.tally.accepted \in Nat /\ cycle.tally.failed \in Nat
  BY DEF TypeOK, CycleType, Tally
<1> HIDE DEF n
<1>5. /\ (\E i \in DOMAIN cycle'.sent : cycle'.sent[i].accepted)
           <=> accepted \/ \E i \in DOMAIN cycle.sent : cycle.sent[i].accepted
      /\ (\E i \in DOMAIN cycle'.sent : ~cycle'.sent[i].accepted)
           <=> ~accepted \/ \E i \in DOMAIN cycle.sent : ~cycle.sent[i].accepted
  BY <1>2
<1>6. /\ cycle'.tally.accepted > 0 <=> accepted \/ cycle.tally.accepted > 0
      /\ cycle'.tally.failed > 0 <=> ~accepted \/ cycle.tally.failed > 0
  BY <1>1, <1>4
<1>7. QED
  BY <1>1, <1>3, <1>5, <1>6 DEF TallyInv

LEMMA TallyKept ==
  ASSUME TallyInv, pc' \in {pc, "idle", "save"}, cycle'.wanted = cycle.wanted,
         cycle'.unresolved = cycle.unresolved, cycle'.config = cycle.config,
         cycle'.tally = cycle.tally, cycle'.sent = cycle.sent
  PROVE  TallyInv'
BY SameQueues DEF TallyInv

LEMMA TallyNext == TypeOK /\ StartInv /\ TallyInv /\ [Next]_vars => TallyInv'
<1> SUFFICES ASSUME TypeOK, StartInv, TallyInv, [Next]_vars
             PROVE  TallyInv'
  OBVIOUS
<1>1. CASE Resolve
  BY <1>1, ResolveTally DEF Resolve
<1>2. CASE Dispatch
  BY <1>2, SearchTally DEF Dispatch
<1>3. CASE EndMissingBatch
  BY <1>3, EndMissingCycle, TallyKept
<1>4. CASE EndCutoffBatch \/ SaveState \/ SaveFails \/ Escape \/ Crash
  BY <1>4 DEF EndCutoffBatch, Finish, SaveState, SaveFails, Escape, Crash, TallyInv
<1>5. CASE StartCycle
  <2>1. PICK config \in Configs, wanted \in Fetched : FetchQueues(config, wanted)
    BY <1>5 DEF StartCycle
  <2>2. /\ pc' = "resolve" /\ cycle'.config = config /\ cycle'.wanted = wanted
        /\ cycle'.tally = EmptyTally
    BY <2>1 DEF FetchQueues, NoCycle
  <2>3. QED
    BY <2>1, <2>2 DEF FetchQueues, Active, TallyInv
<1>6. ASSUME NEW config \in Configs,
             FetchFails(config) \/ FetchEscapes(config) \/ BothInactiveUnreachable(config)
      PROVE  TallyInv'
  BY <1>6 DEF FetchFails, FetchEscapes, BothInactiveUnreachable, Finish, TallyInv
<1>7. CASE UNCHANGED vars
  BY <1>7, TallyKept DEF vars
<1>8. QED
  BY <1>1, <1>2, <1>3, <1>4, <1>5, <1>6, <1>7 DEF Next, Progress, Disturb

-----------------------------------------------------------------------------
(* The grade.                                                              *)

LEMMA TotalPositive ==
  ASSUME NEW m \in Nat, NEW c \in Nat
  PROVE  Total(PerQueue(m, c)) > 0 <=> m > 0 \/ c > 0
BY DEF Total, PerQueue, Queues

(* The four rows of the table, said of a tally.                            *)
LEMMA RecordGrade ==
  ASSUME NEW tally \in Tally, NEW active \in SUBSET Queues,
         tally.unevaluated \subseteq active,
         NEW grade, grade = ToRecord(tally, active).grade
  PROVE  LET trouble == \/ tally.fetchFailed \/ tally.unevaluated # {}
                        \/ \E q \in active : tally.malformed[q] > 0
             work    == \E q \in active \ tally.unevaluated : tally.eligible[q] > 0
         IN  /\ grade = "success" <=>
                  ~trouble /\ tally.accepted > 0 /\ tally.failed = 0
             /\ grade = "nothing_needed" <=>
                  ~trouble /\ ~work /\ tally.accepted = 0 /\ tally.failed = 0
             /\ grade = "partial" <=>
                  tally.accepted > 0 /\ (tally.failed > 0 \/ trouble)
             /\ grade = "failed" <=>
                  tally.accepted = 0 /\ (tally.failed > 0 \/ trouble \/ work)
<1> DEFINE over(f, Q) == PerQueue(IF "missing" \in Q THEN f["missing"] ELSE 0,
                                  IF "cutoff" \in Q THEN f["cutoff"] ELSE 0)
           malformed   == Total(over(tally.malformed, active))
           eligible    == Total(over(tally.eligible, active \ tally.unevaluated))
           unevaluated == IF tally.unevaluated = {} THEN 0 ELSE 1
<1>1. tally.unevaluated \cap active = tally.unevaluated
  OBVIOUS
<1>2. grade = GradeCycle(tally.accepted, tally.failed, malformed, unevaluated,
                         tally.fetchFailed, eligible)
  BY <1>1 DEF ToRecord
<1>3. /\ "missing" \in Queues /\ "cutoff" \in Queues
      /\ \A q \in Queues : q = "missing" \/ q = "cutoff"
  BY DEF Queues
<1>4. ASSUME NEW f \in [Queues -> Nat], NEW Q \in SUBSET Queues
      PROVE  Total(over(f, Q)) > 0 <=> \E q \in Q : f[q] > 0
  <2>1. f["missing"] \in Nat /\ f["cutoff"] \in Nat
    BY <1>3
  <2>2. Total(over(f, Q)) > 0 <=>
          \/ (IF "missing" \in Q THEN f["missing"] ELSE 0) > 0
          \/ (IF "cutoff" \in Q THEN f["cutoff"] ELSE 0) > 0
    BY <2>1, TotalPositive
  <2>3. QED
    BY <1>3, <2>2
<1>5. /\ tally.malformed \in [Queues -> Nat] /\ tally.eligible \in [Queues -> Nat]
      /\ tally.accepted \in Nat /\ tally.failed \in Nat /\ tally.fetchFailed \in BOOLEAN
  BY DEF Tally
<1>6. /\ malformed > 0 <=> \E q \in active : tally.malformed[q] > 0
      /\ eligible > 0 <=> \E q \in active \ tally.unevaluated : tally.eligible[q] > 0
  BY <1>4, <1>5
<1>7. unevaluated > 0 <=> tally.unevaluated # {}
  OBVIOUS
<1> HIDE DEF malformed, eligible, unevaluated
<1> DEFINE incomplete == tally.fetchFailed \/ unevaluated > 0 \/ malformed > 0
<1>8. grade =
        CASE tally.accepted >= 1 /\ tally.failed = 0 /\ ~incomplete -> "success"
          [] tally.accepted >= 1 /\ (tally.failed > 0 \/ incomplete) -> "partial"
          [] tally.accepted = 0 /\ (tally.failed > 0 \/ incomplete \/ eligible > 0) -> "failed"
          [] OTHER -> "nothing_needed"
  BY <1>2 DEF GradeCycle
<1>9. incomplete <=> \/ tally.fetchFailed \/ tally.unevaluated # {}
                     \/ \E q \in active : tally.malformed[q] > 0
  BY <1>6, <1>7
<1> HIDE DEF incomplete
<1>10. /\ grade = "success" <=>
            ~incomplete /\ tally.accepted > 0 /\ tally.failed = 0
       /\ grade = "nothing_needed" <=>
            ~incomplete /\ ~(eligible > 0) /\ tally.accepted = 0 /\ tally.failed = 0
       /\ grade = "partial" <=>
            tally.accepted > 0 /\ (tally.failed > 0 \/ incomplete)
       /\ grade = "failed" <=>
            tally.accepted = 0 /\ (tally.failed > 0 \/ incomplete \/ eligible > 0)
  <2> incomplete \in BOOLEAN
    BY DEF incomplete
  <2>1. CASE tally.accepted = 0
    BY <1>5, <1>8, <2>1
  <2>2. CASE tally.accepted >= 1
    BY <1>5, <1>8, <2>2
  <2>3. QED
    BY <1>5, <2>1, <2>2
<1>11. QED
  BY <1>6, <1>9, <1>10

(* When both batches are through something was sent exactly when there was *)
(* work.                                                                   *)
LEMMA WorkWasSent ==
  ASSUME WorkInv, pc = "dispatch", cycle.queue = "cutoff", cycle.todo = <<>>
  PROVE  Work <=> cycle.sent # <<>>
<1>1. \A q \in Queues : q = "missing" \/ q = "cutoff"
  BY DEF Queues
<1>2. QED
  BY <1>1 DEF WorkInv

LEMMA FinishGrade ==
  ASSUME TypeOK, TallyInv, WorkInv, pc = "dispatch", cycle.queue = "cutoff",
         cycle.todo = <<>>, cycle' = cycle,
         ist'.grade = ToRecord(cycle.tally, Active).grade
  PROVE  GradeFollowsTable' /\ WorkIsAttempted'
<1> DEFINE trouble == \E q \in Active : \/ ~Processed(cycle, q)
                                        \/ cycle.wanted[q].malformed > 0
           answers == {cycle.sent[i].accepted : i \in DOMAIN cycle.sent}
           tally   == cycle.tally
           spoilt  == \/ tally.fetchFailed \/ tally.unevaluated # {}
                      \/ \E q \in Active : tally.malformed[q] > 0
           offered == \E q \in Active \ tally.unevaluated : tally.eligible[q] > 0
           grade   == ToRecord(tally, Active).grade
<1>1. Work <=> cycle.sent # <<>>
  BY WorkWasSent
<1>2. /\ tally \in Tally /\ cycle \in CycleType
      /\ tally.accepted \in Nat /\ tally.failed \in Nat
  BY DEF TypeOK, CycleType, Tally
<1>3. /\ ~tally.fetchFailed /\ tally.unevaluated = {q \in Active : ~Processed(cycle, q)}
      /\ \A q \in Active : Processed(cycle, q) =>
            /\ tally.malformed[q] = cycle.wanted[q].malformed
            /\ tally.eligible[q] = Len(Eligible(cycle, q))
      /\ tally.accepted > 0 <=> \E i \in DOMAIN cycle.sent : cycle.sent[i].accepted
      /\ tally.failed > 0 <=> \E i \in DOMAIN cycle.sent : ~cycle.sent[i].accepted
  BY DEF TallyInv
<1>4. Active \in SUBSET Queues /\ tally.unevaluated \subseteq Active
  BY <1>3 DEF Active, ActiveQueues
<1>5. spoilt <=> trouble
  BY <1>3
<1>6. offered <=> Work
  <2>1. \A q \in Active : Len(Eligible(cycle, q)) > 0 <=> Eligible(cycle, q) # <<>>
    BY <1>2, <1>4, EligibleType, EmptyOrLong
  <2>2. \A q \in Active : ~Processed(cycle, q) => Eligible(cycle, q) = <<>>
    BY DEF Eligible
  <2>3. QED
    BY <1>3, <2>1, <2>2 DEF Work
<1>7. \A i \in DOMAIN cycle.sent : cycle.sent[i].accepted \in BOOLEAN
  <2>1. cycle.sent \in Seq(Command)
    BY <1>2 DEF CycleType
  <2>2. \A i \in DOMAIN cycle.sent : cycle.sent[i] \in Command
    BY <2>1
  <2>3. QED
    BY <2>2 DEF Command
<1>8. /\ tally.accepted > 0 <=> TRUE \in answers
      /\ tally.failed > 0 <=> FALSE \in answers
      /\ answers = {TRUE} <=> TRUE \in answers /\ FALSE \notin answers
      /\ cycle.sent # <<>> => TRUE \in answers \/ FALSE \in answers
      /\ cycle.sent = <<>> => answers = {}
  <2>1. answers \subseteq BOOLEAN
    BY <1>7
  <2>2. /\ TRUE \in answers <=> \E i \in DOMAIN cycle.sent : cycle.sent[i].accepted
        /\ FALSE \in answers <=> \E i \in DOMAIN cycle.sent : ~cycle.sent[i].accepted
    BY <1>7
  <2>3. cycle.sent \in Seq(Command)
    BY <1>2 DEF CycleType
  <2>4. cycle.sent # <<>> => 1 \in DOMAIN cycle.sent
    BY <2>3
  <2>5. cycle.sent = <<>> => DOMAIN cycle.sent = {}
    OBVIOUS
  <2> HIDE DEF answers
  <2>6. answers = {TRUE} <=> TRUE \in answers /\ FALSE \notin answers
    BY <2>1
  <2>7. QED
    BY <1>3, <1>7, <2>1, <2>2, <2>4, <2>5, <2>6 DEF answers
<1> HIDE DEF tally
<1>9. /\ grade = "success" <=> ~spoilt /\ tally.accepted > 0 /\ tally.failed = 0
      /\ grade = "nothing_needed" <=>
           ~spoilt /\ ~offered /\ tally.accepted = 0 /\ tally.failed = 0
      /\ grade = "partial" <=> tally.accepted > 0 /\ (tally.failed > 0 \/ spoilt)
      /\ grade = "failed" <=>
           tally.accepted = 0 /\ (tally.failed > 0 \/ spoilt \/ offered)
  BY <1>2, <1>4, RecordGrade
<1>10. /\ tally.accepted = 0 <=> ~(tally.accepted > 0)
       /\ tally.failed = 0 <=> ~(tally.failed > 0)
  BY <1>2
<1> HIDE DEF trouble, answers, spoilt, offered, grade
<1>11. /\ grade = "success" <=> ~trouble /\ answers = {TRUE}
       /\ grade = "nothing_needed" <=> ~trouble /\ ~Work
       /\ grade = "partial" <=> TRUE \in answers /\ (FALSE \in answers \/ trouble)
       /\ grade = "failed" <=> TRUE \notin answers /\ (FALSE \in answers \/ trouble)
  BY <1>1, <1>5, <1>6, <1>8, <1>9, <1>10
<1>12. ist'.grade = grade
  BY DEF grade, tally
<1>13. Active' = Active
  BY DEF Active
<1>14. WorkIsAttempted'
  BY <1>1, <1>13 DEF WorkIsAttempted, Work, Eligible, Processed
<1>15. GradeFollowsTable'
  BY <1>11, <1>12, <1>13 DEF GradeFollowsTable, Work, trouble, answers
<1>16. QED
  BY <1>14, <1>15

(* A cycle that fetched nothing: it failed when it had to fetch something. *)
LEMMA UnfetchedGrade ==
  ASSUME NEW config \in Configs, NEW tally, cycle'.config = config,
         cycle'.wanted = [q \in Queues |-> Unfetched], cycle'.sent = <<>>,
         tally \in {EmptyTally, [EmptyTally EXCEPT !.fetchFailed = TRUE]},
         tally.fetchFailed <=> ActiveQueues(config.count) # {},
         ist'.grade = ToRecord(tally, ActiveQueues(config.count)).grade
  PROVE  GradeFollowsTable' /\ WorkIsAttempted'
<1> DEFINE active == ActiveQueues(config.count)
<1>1. Active' = active /\ active \in SUBSET Queues
  BY DEF Active, ActiveQueues
<1>2. \A q \in active : ~Processed(cycle', q) /\ Eligible(cycle', q) = <<>>
  BY <1>1 DEF Processed, Eligible
<1>3. {cycle'.sent[i].accepted : i \in DOMAIN cycle'.sent} = {}
  OBVIOUS
<1>4. tally \in Tally
  BY EmptyTallyType DEF Tally
<1>5. /\ tally.accepted = 0 /\ tally.failed = 0 /\ tally.unevaluated = {}
      /\ \A q \in Queues : tally.malformed[q] = 0 /\ tally.eligible[q] = 0
  BY DEF EmptyTally, PerQueue
<1> HIDE DEF active
<1>6. /\ ist'.grade = "failed" <=> tally.fetchFailed
      /\ ist'.grade = "nothing_needed" <=> ~tally.fetchFailed
      /\ ist'.grade # "success" /\ ist'.grade # "partial"
  <2> DEFINE grade == ToRecord(tally, active).grade
  <2>1. /\ grade = "success" <=> /\ ~(\/ tally.fetchFailed \/ tally.unevaluated # {}
                                      \/ \E q \in active : tally.malformed[q] > 0)
                                 /\ tally.accepted > 0 /\ tally.failed = 0
        /\ grade = "nothing_needed" <=>
             /\ ~(\/ tally.fetchFailed \/ tally.unevaluated # {}
                  \/ \E q \in active : tally.malformed[q] > 0)
             /\ ~\E q \in active \ tally.unevaluated : tally.eligible[q] > 0
             /\ tally.accepted = 0 /\ tally.failed = 0
        /\ grade = "partial" <=>
             /\ tally.accepted > 0
             /\ \/ tally.failed > 0
                \/ (\/ tally.fetchFailed \/ tally.unevaluated # {}
                    \/ \E q \in active : tally.malformed[q] > 0)
        /\ grade = "failed" <=>
             /\ tally.accepted = 0
             /\ \/ tally.failed > 0
                \/ (\/ tally.fetchFailed \/ tally.unevaluated # {}
                    \/ \E q \in active : tally.malformed[q] > 0)
                \/ \E q \in active \ tally.unevaluated : tally.eligible[q] > 0
    BY <1>1, <1>4, <1>5, RecordGrade
  <2>2. ist'.grade = grade
    BY DEF active
  <2> HIDE DEF grade
  <2>3. QED
    BY <1>1, <1>5, <2>1, <2>2
<1>7. tally.fetchFailed <=> active # {}
  BY DEF active
<1>8. WorkIsAttempted'
  BY <1>1, <1>2 DEF WorkIsAttempted
<1>9. GradeFollowsTable'
  BY <1>1, <1>2, <1>3, <1>6, <1>7 DEF GradeFollowsTable
<1>10. QED
  BY <1>8, <1>9

GradeInv == WorkInv /\ TallyInv /\ GradeFollowsTable /\ WorkIsAttempted

LEMMA GradeInit == Init => GradeInv
BY DEF Init, GradeInv, WorkInv, TallyInv, GradeFollowsTable, WorkIsAttempted

LEMMA GradeNext == AttemptInv /\ AttemptInv' /\ GradeInv /\ [Next]_vars => GradeInv'
<1> SUFFICES ASSUME TypeOK, TypeOK', StartInv, WorkInv, TallyInv,
                    GradeFollowsTable, WorkIsAttempted, [Next]_vars
             PROVE  GradeFollowsTable' /\ WorkIsAttempted'
  BY WorkNext, TallyNext DEF AttemptInv, GradeInv
<1>1. CASE EndCutoffBatch
  <2>1. Committed("cutoff") \in InstanceState
    BY <1>1, CommittedType DEF EndCutoffBatch, Queues
  <2>2. ist'.grade = ToRecord(cycle.tally, Active).grade
    BY <1>1, <2>1 DEF EndCutoffBatch, Finish, InstanceState, Active
  <2>3. QED
    BY <1>1, <2>2, FinishGrade DEF EndCutoffBatch
<1>2. ASSUME NEW config \in Configs, FetchFails(config) \/ BothInactiveUnreachable(config)
      PROVE  GradeFollowsTable' /\ WorkIsAttempted'
  <2>1. CASE FetchFails(config)
    <3> DEFINE tally == [EmptyTally EXCEPT !.fetchFailed = TRUE]
    <3>1. /\ cycle'.config = config /\ cycle'.sent = <<>>
          /\ cycle'.wanted = [q \in Queues |-> Unfetched]
      BY <2>1 DEF FetchFails, NoCycle
    <3>2. /\ ist'.grade = ToRecord(tally, ActiveQueues(config.count)).grade
          /\ ActiveQueues(config.count) # {}
      BY <2>1 DEF FetchFails, Finish, TypeOK, InstanceState
    <3>3. tally.fetchFailed
      BY DEF EmptyTally
    <3>4. QED
      BY <3>1, <3>2, <3>3, UnfetchedGrade
  <2>2. CASE BothInactiveUnreachable(config)
    <3>1. /\ cycle'.config = config /\ cycle'.sent = <<>>
          /\ cycle'.wanted = [q \in Queues |-> Unfetched]
      BY <2>2 DEF BothInactiveUnreachable, NoCycle
    <3>2. /\ ist'.grade = ToRecord(EmptyTally, ActiveQueues(config.count)).grade
          /\ ActiveQueues(config.count) = {}
      BY <2>2 DEF BothInactiveUnreachable, Finish, TypeOK, InstanceState
    <3>3. ~EmptyTally.fetchFailed
      BY DEF EmptyTally
    <3>4. QED
      BY <3>1, <3>2, <3>3, UnfetchedGrade
  <2>3. QED
    BY <1>2, <2>1, <2>2
<1>3. CASE \/ StartCycle \/ Resolve \/ Dispatch \/ EndMissingBatch
           \/ SaveState \/ SaveFails \/ Escape \/ Crash
           \/ \E config \in Configs : FetchEscapes(config)
  <2>1. pc' # "save"
    BY <1>3 DEF StartCycle, FetchQueues, Resolve, ResolveTags, Dispatch,
                SearchAndRecord, EndMissingBatch, SaveState, SaveFails, Escape,
                Crash, FetchEscapes
  <2>2. QED
    BY <2>1 DEF GradeFollowsTable, WorkIsAttempted
<1>4. CASE UNCHANGED vars
  BY <1>4 DEF vars, GradeFollowsTable, WorkIsAttempted, Active, Processed, Eligible
<1>5. QED
  BY <1>1, <1>2, <1>3, <1>4 DEF Next, Progress, Disturb

(* The grade a finished cycle shows (CycleTally.to_record, grade_cycle) is *)
(* the row of the outcome table that the commands it sent and the queues   *)
(* it read deserve, for every configuration and every wanted list.         *)
THEOREM GradesFollowTheTable == Spec => []GradeFollowsTable
<1>1. GradeInv => GradeFollowsTable
  BY DEF GradeInv
<1>2. QED
  BY <1>1, GradeInit, GradeNext, AttemptInit, AttemptNext, PTL DEF Spec

(* Whatever the counts, the hard maximum and the lists, the limits of      *)
(* cap_batch_sizes and rebalance_batch_sizes let a cycle with eligible     *)
(* work send at least one command (R-01).                                  *)
THEOREM WorkIsAlwaysAttempted == Spec => []WorkIsAttempted
<1>1. GradeInv => WorkIsAttempted
  BY DEF GradeInv
<1>2. QED
  BY <1>1, GradeInit, GradeNext, AttemptInit, AttemptNext, PTL DEF Spec
=============================================================================
