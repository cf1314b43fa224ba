---------------------------- MODULE SearchCycle ----------------------------
(***************************************************************************)
(* The search cycles of one *arr instance, run one after the other under   *)
(* the search lock: fetch the two wanted queues, resolve their tags, plan  *)
(* a batch per queue, send its commands, grade the cycle, save the state   *)
(* (run_radarr_cycle, run_sonarr_cycle and run_lidarr_cycle of             *)
(* triggarr/search/engine.py; _run_one_cycle of triggarr/search/           *)
(* scheduler.py).  Every await of a cycle is the end of an action, so that *)
(* an exception or a crash can strike between any two.                     *)
(*                                                                         *)
(* CrossQueueDedup distinguishes Sonarr, whose two queues share seasons,   *)
(* from Radarr and Lidarr.  The filter chain of a queue is abstracted to   *)
(* what it leaves: the eligible items in fetch order, the number of        *)
(* records skipped as malformed, and whether it faulted.                   *)
(***************************************************************************)
EXTENDS SearchQueue, Outcome

CONSTANTS
  Items,            \* log keys of the movies, albums or seasons
  Configs,          \* settings a cycle may run under
  WantedLists,      \* what a wanted queue may look like when it is fetched
  Unfetched,        \* stands for a queue that could not be fetched
  CrossQueueDedup,  \* TRUE for Sonarr
  PassModulus,      \* bound: pass counters are kept modulo this number
  FailureCap,       \* bound: the failure counter stops counting here
  MaxFaults         \* bound: faults, escaping exceptions and crashes of a run

ASSUME ConfigsAssumption ==
  Configs \subseteq [count : [Queues -> Nat], hardMax : Nat,
                     tagged : SUBSET Queues]

ASSUME WantedAssumption ==
  /\ WantedLists \subseteq [eligible : Seq(Items), malformed : Nat,
                            fault : BOOLEAN]
  /\ Unfetched \notin WantedLists

ASSUME BoundsAssumption ==
  /\ CrossQueueDedup \in BOOLEAN
  /\ PassModulus \in Nat \ {0} /\ FailureCap \in Nat \ {0}
  /\ MaxFaults \in Nat

VARIABLES
  ist,       \* the instance's entry of app.state.triggarr_state
  disk,      \* the same entry in the state file
  failures,  \* app.state.search_failures of the instance's job
  degraded,  \* app.state.persistence_degraded
  pc,        \* where the cycle stands
  cycle,     \* the local variables of the running cycle
  last,      \* history: how the last cycle ended
  faults     \* history: faults so far

vars == <<ist, disk, failures, degraded, pc, cycle, last, faults>>

(* "attempted" is a history variable kept with the entry: the items a      *)
(* command was sent for since the queue's current pass began.              *)
InstanceState ==
  [searched : [Queues -> Seq(Items)], pass : [Queues -> 0..PassModulus-1],
   grade : Grades \cup {"none"}, connected : BOOLEAN,
   warned : SUBSET Queues, attempted : [Queues -> SUBSET Items]]

FreshInstance ==
  [searched |-> [q \in Queues |-> <<>>], pass |-> PerQueue(0, 0),
   grade |-> "none", connected |-> FALSE, warned |-> {},
   attempted |-> [q \in Queues |-> {}]]

Plan == [batch : Seq(Items), log : Seq(Items), passDone : BOOLEAN]

NoConfig == [count |-> PerQueue(0, 0), hardMax |-> 0, tagged |-> {}]

NoPlan == [batch |-> <<>>, log |-> <<>>, passDone |-> FALSE]

NoCycle ==
  [config  |-> NoConfig,
   wanted  |-> [q \in Queues |-> Unfetched], unresolved |-> {},
   tally   |-> EmptyTally,
   limit   |-> PerQueue(0, 0),
   queue   |-> "missing",
   plan    |-> NoPlan,
   todo    |-> <<>>,
   claimed |-> {},
   sent    |-> <<>>]

Active == ActiveQueues(cycle.config.count)

(* A changed form of Processed: an unresolved tag is no obstacle. *)
ProcessedThoughUnresolved(c, q) ==
  c.wanted[q] # Unfetched /\ ~c.wanted[q].fault

(* A queue that is neither None nor emptied by a fault. *)
Processed(c, q) ==
  /\ c.wanted[q] # Unfetched
  /\ q \notin c.unresolved
  /\ ~c.wanted[q].fault

(* The items a queue may draw from; Sonarr's episodes collapse to seasons. *)
Eligible(c, q) ==
  IF ~Processed(c, q) THEN <<>>
  ELSE IF CrossQueueDedup THEN Distinct(c.wanted[q].eligible)
  ELSE c.wanted[q].eligible

(* The plan of a queue; one that is not processed sends nothing and leaves *)
(* its log as it is.                                                       *)
PlanFor(c, q, size, exclude) ==
  IF Processed(c, q)
  THEN PrioritizeBatch(Eligible(c, q), ist.searched[q], size, exclude)
  ELSE [batch |-> <<>>, log |-> ist.searched[q], passDone |-> FALSE]

Init ==
  /\ ist = FreshInstance /\ disk = FreshInstance
  /\ failures = 0 /\ degraded = FALSE
  /\ pc = "idle" /\ cycle = NoCycle
  /\ last = "none" /\ faults = 0

-----------------------------------------------------------------------------

(* _finalize_cycle and _evaluate_cycle_outcome: no await between them. *)
Finish(entry, tally, config) ==
  LET record == ToRecord(tally, ActiveQueues(config.count))
  IN  /\ ist' = [entry EXCEPT !.grade = record.grade]
      /\ failures' = IF record.grade = "failed"
                     THEN Smaller(failures + 1, FailureCap) ELSE 0
      /\ pc' = "save"

Fault == faults < MaxFaults /\ faults' = faults + 1

(* An active queue's fetch fails with an HTTP or a validation error. *)
FetchFails(config) ==
  /\ pc = "idle" /\ ActiveQueues(config.count) # {}
  /\ Fault
  /\ cycle' = [NoCycle EXCEPT !.config = config,
                              !.tally.fetchFailed = TRUE]
  /\ Finish([ist EXCEPT !.connected = FALSE, !.warned = {}],
            [EmptyTally EXCEPT !.fetchFailed = TRUE], config)
  /\ last' = "unfetchable"
  /\ UNCHANGED <<disk, degraded>>

(* A queue answers 200 with a body that is not JSON: the decoding error is *)
(* a ValueError, which no handler up to the scheduler names, not even the  *)
(* one that isolates an inactive queue.                                    *)
FetchEscapes(config) ==
  /\ pc = "idle" /\ Fault
  /\ \E q \in Queues :
       last' = IF q \in ActiveQueues(config.count) THEN "unfetchable" ELSE "escaped"
  /\ UNCHANGED <<ist, disk, failures, degraded, pc, cycle>>

(* Both queues are inactive and neither could be fetched. *)
BothInactiveUnreachable(config) ==
  /\ pc = "idle" /\ ActiveQueues(config.count) = {}
  /\ Fault
  /\ cycle' = [NoCycle EXCEPT !.config = config]
  /\ Finish([ist EXCEPT !.connected = FALSE], EmptyTally, config)
  /\ last' = "running"
  /\ UNCHANGED <<disk, degraded>>

(* Active queues are fetched; an inactive one may be left unfetched.  The  *)
(* cycle then runs up to the await of the tag list.                        *)
FetchQueues(config, wanted) ==
  /\ pc = "idle"
  /\ \A q \in ActiveQueues(config.count) : wanted[q] # Unfetched
  /\ \E q \in Queues : wanted[q] # Unfetched
  /\ cycle' = [NoCycle EXCEPT !.config = config, !.wanted = wanted]
  /\ ist' = [ist EXCEPT !.connected = TRUE, !.warned = {}]
  /\ pc' = "resolve" /\ last' = "running"
  /\ UNCHANGED <<disk, failures, degraded, faults>>

(* Some configured tags cannot be resolved; a tag-list fetch that fails    *)
(* leaves all of them unresolved.  The queues are then filtered, the       *)
(* limits rebalanced and the missing batch planned.                        *)
ResolveTags(unresolved) ==
  /\ pc = "resolve" /\ unresolved \subseteq cycle.config.tagged
  /\ LET scoped   == [cycle EXCEPT !.unresolved = unresolved]
         eligible == [q \in Queues |-> Len(Eligible(scoped, q))]
         fetched(q) == cycle.wanted[q] # Unfetched /\ q \notin unresolved
         limit    == CycleLimits(cycle.config.count, eligible,
                                 cycle.config.hardMax)
         plan     == PlanFor(scoped, "missing", limit["missing"], {})
     IN  cycle' = [scoped EXCEPT
           !.limit = limit, !.plan = plan, !.todo = plan.batch,
           !.tally.eligible = eligible,
           !.tally.malformed =
             [q \in Queues |-> IF fetched(q) THEN cycle.wanted[q].malformed
                                             ELSE 0],
           !.tally.unevaluated =
             {q \in Active : q \in unresolved \/ cycle.wanted[q].fault}]
  /\ ist' = [ist EXCEPT !.warned = unresolved \cap Active]
  /\ pc' = "dispatch"
  /\ UNCHANGED <<disk, failures, degraded, last, faults>>

(* _search_and_record for the next item: the command is accepted or        *)
(* rejected, and the history row of an accepted one is saved or not.       *)
SearchAndRecord(accepted, saved) ==
  /\ pc = "dispatch" /\ cycle.todo # <<>>
  /\ LET q == cycle.queue
         item == Head(cycle.todo)
     IN  /\ cycle' = [cycle EXCEPT
              !.todo = Tail(@),
              !.sent = Append(@, [queue |-> q, item |-> item,
                                  accepted |-> accepted]),
              !.tally.accepted = IF accepted THEN @ + 1 ELSE @,
              !.tally.failed   = IF accepted THEN @ ELSE @ + 1,
              !.tally.unsaved  = @ \/ (accepted /\ ~saved)]
         /\ ist' = [ist EXCEPT !.attempted[q] = @ \cup {item}]
  /\ UNCHANGED <<disk, failures, degraded, pc, last, faults>>

(* After the loop over a batch: the new log, or an empty one when the pass *)
(* is complete.                                                            *)
Committed(q) ==
  IF cycle.plan.passDone
  THEN [ist EXCEPT !.searched[q] = <<>>,
                   !.pass[q] = (@ + 1) % PassModulus,
                   !.attempted[q] = {}]
  ELSE [ist EXCEPT !.searched[q] = cycle.plan.log]

(* A changed form of EndMissingBatch: only accepted commands claim.        *)
EndMissingClaimingAccepted ==
  /\ pc = "dispatch" /\ cycle.queue = "missing" /\ cycle.todo = <<>>
  /\ ist' = Committed("missing")
  /\ LET claimed == {cycle.sent[i].item :
                        i \in {j \in DOMAIN cycle.sent : cycle.sent[j].accepted}}
         plan    == PlanFor(cycle, "cutoff", cycle.limit["cutoff"], claimed)
     IN  cycle' = [cycle EXCEPT !.queue = "cutoff", !.claimed = claimed,
                                !.plan = plan, !.todo = plan.batch]
  /\ UNCHANGED <<disk, failures, degraded, pc, last, faults>>

(* The missing batch is through: its log is written, its seasons are       *)
(* claimed, accepted or not, and the cutoff batch is planned.              *)
EndMissingBatch ==
  /\ pc = "dispatch" /\ cycle.queue = "missing" /\ cycle.todo = <<>>
  /\ ist' = Committed("missing")
  /\ LET claimed == IF CrossQueueDedup THEN Range(cycle.plan.batch) ELSE {}
         plan    == PlanFor(cycle, "cutoff", cycle.limit["cutoff"], claimed)
     IN  cycle' = [cycle EXCEPT !.queue = "cutoff", !.claimed = claimed,
                                !.plan = plan, !.todo = plan.batch]
  /\ UNCHANGED <<disk, failures, degraded, pc, last, faults>>

(* The cutoff batch is through and the cycle is graded.                    *)
EndCutoffBatch ==
  /\ pc = "dispatch" /\ cycle.queue = "cutoff" /\ cycle.todo = <<>>
  /\ Finish(Committed("cutoff"), cycle.tally, cycle.config)
  /\ UNCHANGED <<disk, degraded, cycle, last, faults>>

(* save_state in the executor: the file is replaced whole or not at all. *)
SaveState ==
  /\ pc = "save"
  /\ disk' = ist /\ degraded' = FALSE
  /\ pc' = "idle" /\ cycle' = NoCycle
  /\ UNCHANGED <<ist, failures, last, faults>>

SaveFails ==
  /\ pc = "save" /\ Fault
  /\ degraded' = TRUE
  /\ pc' = "idle" /\ cycle' = NoCycle
  /\ UNCHANGED <<ist, disk, failures, last>>

(* A changed form of Escape: the planned log is written whatever happens. *)
EscapeMarkingThePlan ==
  /\ pc \in {"resolve", "dispatch"} /\ Fault
  /\ pc = "dispatch" => cycle.todo # <<>>
  /\ ist' = IF pc = "dispatch" THEN Committed(cycle.queue) ELSE ist
  /\ pc' = "idle" /\ cycle' = NoCycle /\ last' = "escaped"
  /\ UNCHANGED <<disk, failures, degraded>>

(* An exception outside every handled tuple (a client closed by a shutdown *)
(* that has waited long enough, a fault of the code itself) reaches the    *)
(* job listener: no grade, no counter, no save.                            *)
Escape ==
  /\ pc \in {"resolve", "dispatch"} /\ Fault
  /\ pc = "dispatch" => cycle.todo # <<>>
  /\ pc' = "idle" /\ cycle' = NoCycle /\ last' = "escaped"
  /\ UNCHANGED <<ist, disk, failures, degraded>>

(* The process dies and is started again: the state file is all it knows. *)
Crash ==
  /\ Fault
  /\ ist' = disk /\ failures' = 0 /\ degraded' = FALSE
  /\ pc' = "idle" /\ cycle' = NoCycle /\ last' = "none"
  /\ UNCHANGED disk

-----------------------------------------------------------------------------

Fetched == [Queues -> WantedLists \cup {Unfetched}]

StartCycle == \E config \in Configs, wanted \in Fetched :
                FetchQueues(config, wanted)

Resolve  == \E unresolved \in SUBSET Queues : ResolveTags(unresolved)

Dispatch == \E accepted, saved \in BOOLEAN : SearchAndRecord(accepted, saved)

Progress == StartCycle \/ Resolve \/ Dispatch \/ EndMissingBatch
              \/ EndCutoffBatch \/ SaveState

Disturb == \/ \E config \in Configs :
                \/ FetchFails(config)
                \/ FetchEscapes(config)
                \/ BothInactiveUnreachable(config)
           \/ SaveFails \/ Escape \/ Crash

Next == Progress \/ Disturb

Spec == Init /\ [][Next]_vars

(* The scheduler keeps starting cycles and a started cycle keeps running:  *)
(* weak fairness of Progress, which is enabled in every state, so that     *)
(* infinitely many of its steps, the ones that are not faults, are taken.  *)
(* Nothing is assumed of the disturbances.                                 *)
FairSpec == Spec /\ []<><<faults' = faults>>_vars

-----------------------------------------------------------------------------

Command == [queue : Queues, item : Items, accepted : BOOLEAN]

CycleType ==
  [config : Configs \cup {NoConfig}, wanted : Fetched,
   unresolved : SUBSET Queues, tally : Tally, limit : [Queues -> Nat],
   queue : Queues, plan : Plan, todo : Seq(Items), claimed : SUBSET Items,
   sent : Seq(Command)]

(* Every variable has its type. *)
TypeOK ==
  /\ ist \in InstanceState /\ disk \in InstanceState
  /\ failures \in 0..FailureCap /\ degraded \in BOOLEAN
  /\ pc \in {"idle", "resolve", "dispatch", "save"}
  /\ cycle \in CycleType
  /\ last \in {"none", "running", "unfetchable", "escaped"}
  /\ faults \in 0..MaxFaults

(* The positions of a queue's commands among those sent, and their items. *)
SentBy(q)    == {i \in DOMAIN cycle.sent : cycle.sent[i].queue = q}
SentItems(q) == {cycle.sent[i].item : i \in SentBy(q)}

(* An item in a searched-log, in memory or on disk, had a command sent for *)
(* it in the current pass of its queue: no escaping exception and no crash *)
(* between two awaits ever leaves an item marked that was never attempted, *)
(* which would then be skipped for a whole pass.                           *)
MarkedWasAttempted ==
  \A entry \in {ist, disk}, q \in Queues :
    Range(entry.searched[q]) \subseteq entry.attempted[q]

(* What a step that counts a pass of a queue requires. *)
PassStep ==
  \A q \in Queues :
    ist'.pass[q] # ist.pass[q] /\ last' # "none" =>
      /\ SentItems(q) # {}
      /\ Range(Eligible(cycle, q)) \subseteq
           ist.attempted[q] \cup
             (IF CrossQueueDedup THEN SentItems("missing") ELSE {})

(* A pass is counted, and its log reset, only in a cycle that searched the *)
(* queue, and only when every item eligible now was attempted in this pass *)
(* or was claimed and attempted by the missing queue in this very cycle.   *)
PassMeansCovered == [][PassStep]_vars

(* However the limits are capped and rebalanced and whatever the lists     *)
(* repeat, a cycle never sends more commands than hard_max_per_cycle, nor  *)
(* a queue more than its configured count.                                 *)
WithinHardMax ==
  /\ cycle.config.hardMax > 0 => Len(cycle.sent) <= cycle.config.hardMax
  /\ \A q \in Queues : Cardinality(SentBy(q)) <= cycle.config.count[q]

(* A season wanted by both queues gets at most one command per cycle, even *)
(* when the first was rejected or the season is repeated in a list.        *)
OneDispatchPerSeason ==
  CrossQueueDedup =>
    \A i, j \in DOMAIN cycle.sent :
      cycle.sent[i].item = cycle.sent[j].item => i = j

(* A queue whose tag is unresolved, that was not fetched or whose filter   *)
(* chain faulted is not searched unscoped: it sends nothing, and neither   *)
(* its log nor its pass moves.                                             *)
SkippedQueueUntouched ==
  [][\A q \in Queues :
       /\ pc = "dispatch" /\ pc' # "idle"
       /\ \/ q \in cycle.unresolved
          \/ cycle.wanted[q] = Unfetched
          \/ cycle.wanted[q].fault
       => /\ ist'.searched[q] = ist.searched[q]
          /\ ist'.pass[q] = ist.pass[q]
          /\ ist'.attempted[q] = ist.attempted[q]]_vars

(* The grade a finished cycle shows is the row of the outcome table its    *)
(* commands and queues earned, read off what was sent and fetched and not  *)
(* off the tally: nothing is called successful, or unneeded, that was not. *)
GradeFollowsTable ==
  pc = "save" =>
    LET trouble  == \E q \in Active : \/ ~Processed(cycle, q)
                                      \/ cycle.wanted[q].malformed > 0
        work     == \E q \in Active : Eligible(cycle, q) # <<>>
        answers  == {cycle.sent[i].accepted : i \in DOMAIN cycle.sent}
    IN  /\ ist.grade = "success" <=> ~trouble /\ answers = {TRUE}
        /\ ist.grade = "nothing_needed" <=> ~trouble /\ ~work
        /\ ist.grade = "partial" <=>
             TRUE \in answers /\ (FALSE \in answers \/ trouble)
        /\ ist.grade = "failed" <=>
             TRUE \notin answers /\ (FALSE \in answers \/ trouble)

(* A cycle that ends with eligible work in an active queue has sent at     *)
(* least one command: capping never starves the whole cycle (R-01).        *)
WorkIsAttempted ==
  pc = "save" /\ (\E q \in Active : Eligible(cycle, q) # <<>>) =>
    cycle.sent # <<>>

(* The fetched list of the missing queue does not have item x. *)
NotWanted(x) ==
  pc = "resolve" /\ x \notin Range(cycle.wanted["missing"].eligible)

(* While the missing queue is active, with no tag that stays unresolved,   *)
(* an item that stays on its list is searched again and again, in whatever *)
(* order the list is fetched and whatever comes and goes beside it.        *)
EveryItemSearched ==
  \A x \in Items :
    []<>(NotWanted(x) \/ \E i \in DOMAIN cycle.sent : cycle.sent[i].item = x)

(* The outcome table: a cycle that could not fetch an active queue is      *)
(* Failed (documented; the code lets a decoding error escape instead).     *)
UnfetchedIsFailed ==
  pc = "idle" /\ last = "unfetchable" => ist.grade = "failed"

(* An unreachable instance shows no tag warning (documented; the path for  *)
(* two inactive queues keeps an older one).                                *)
UnreachableClearsWarnings ==
  pc = "save" /\ ~ist.connected => ist.warned = {}
=============================================================================
