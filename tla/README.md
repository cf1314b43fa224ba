# Triggarr in TLA+

Triggarr periodically asks Radarr, Sonarr and Lidarr for what they miss or
could upgrade and sends a few search commands each time, so that every wanted
item gets its turn. This directory models the part of it that decides *what is
searched, when it counts as searched, what is said about it afterwards, which
search gets the credit for a download*, and what keeps that going: the life of
an instance from settings form to shutdown, and the upgrade of an old database.
It checks these with TLC on small instances, and proves the central facts with
TLAPS for every instance.

## Inventory of the system

| component | state | operations | hard behaviour | what makes it correct |
|---|---|---|---|---|
| batch limits (`search/engine.py`) | none | `cap_batch_sizes`, `rebalance_batch_sizes` | rounding, a queue capped to zero | never above `hard_max_per_cycle` or a queue's count, no usable slot wasted |
| searched-log (`engine.py`) | `missing_searched`, `cutoff_searched`, pass counters | `prioritize_batch`, `deduplicate_to_seasons` | lists reordered, repeated or shrunk between fetches; claimed seasons | least recently searched first, a pass ends exactly when all is covered |
| search cycle (`engine.py`, `search/scheduler.py`) | the instance entry of `triggarr_state`, `search_failures`, `persistence_degraded` | `run_{radarr,sonarr,lidarr}_cycle`, `_run_one_cycle` | an exception or crash at any await, tags that do not resolve, half-broken lists | nothing marked that was not attempted, nothing sent twice, nothing unscoped |
| outcome (`search/outcome.py`) | `CycleTally`, `last_cycle` | `grade_cycle`, `to_record`, `cycle_view` | many partial failures meet in one grade | the four rows of the outcome table |
| count refresh (`engine.py`) | `*_count`, `*_eligible`, `scoped_count_tags` | `refresh_*_counts` | a fault or an unresolved tag in one of two queues | it takes the lock, never closes or saves anything |
| scheduler and lifespan (`search/scheduler.py`, `startup.py`) | `search_lock` and its holder, jobs, clients, `tag_cache` | job start, manual search, startup, shutdown drain | state read before the lock and used after it | a registered client is open, the drain leaves nobody, everybody gets the lock |
| state file (`state.py`) | the JSON file | `load_state`, `save_state`, `cleanup_orphaned_instances` | crash during or before a save | the file is whole, old or new |
| search history (`db.py`) | `search_history` rows, `lifetime_stats` | `insert_search_entry`, `update_outcome_and_stats` | growth caps while names move between servers | pending rows never pruned, both classes bounded |
| grab tracking (`tracking.py`, `correlation.py`) | owned grabs, outcomes, statistics | `run_tracking_check`, `correlate_grabs` | repeated checks, renamed instances, expiry racing a late grab | a grab is credited once |
| migrations (`db.py`, `attribution.py`) | schema version, statistics and leftover copies, cutover | `run_migrations`, `migrate_from_state`, `ensure_cutover_recorded` | crash between any two statements, of which some commit at once | running again is harmless, no total is lost, old and new rows are parted |
| API clients (`clients/`) | none between calls | `get_paginated`, `post`, `_request_with_retry` | pages that shift while read, a retried POST | at most what was asked for |
| configuration (`config.py`, `web/routes.py`) | TOML file, `app.state.settings` | `save_settings`, `add_instance`, `remove_instance` | settings read before the lock, a write that fails | memory, file, clients and jobs agree |
| authentication (`auth.py`, `web/routes.py`) | credentials, session secret, limiter, reset token | setup, login, password change, reset | requests that overlap | old credentials stay invalid |
| dashboard, changelog, update check, logging, validation | - | pure or presentation | - | not modelled |

They interact like this. The scheduler starts one job per instance; a job waits
for the one `search_lock`, runs a **cycle** through an API **client**, writes
every accepted command to the **search history**, grades the cycle
(**outcome**), saves the **state file**, and then runs a **tracking** check
that compares history rows with what the *arr has grabbed. Manual searches,
count refreshes and settings changes come from web requests and take the same
lock (**lifecycle**). A restart knows only the configuration, the state file and
the database, and brings the latter up to date first (**upgrade**).

## Modules

    BatchLimits <- Outcome <--+
      ^                       SearchCycle <- MCSearchCycle (4 configurations)
      |  SearchQueue <--------+      ^------ SearchCycle_proofs
      |    ^                                  uses Batch_proofs
    MCAlgorithms <- MCAlgorithms_proofs, uses Batch_proofs

    Correlation <-- SonarrTracking <- MCSonarrTracking
      ^               |   ^------- SonarrTracking_proofs -> LeastElements
      |               | implements
      |               v
      |             GrabCredit
      +------------ ArrTracking <- MCArrTracking (2 configurations)
    SearchHistory <-+     ^------ ArrTracking_proofs -> LeastElements

    Lifecycle <- MCLifecycle (2 configurations)
       ^-------- Lifecycle_proofs

    Upgrade <- MCUpgrade (2 configurations)
       ^------ Upgrade_proofs

* **BatchLimits** - `cap_batch_sizes` and `rebalance_batch_sizes` as operators
  on functions from the two queues to numbers, and the three promises the
  docstrings make (`WithinCeiling`, `WorkConserving`, `KeepsCappedShare`).
* **SearchQueue** - `prioritize_batch` as one operator that returns the batch,
  the new log and whether the pass is complete; `Distinct` is what
  `deduplicate_to_seasons` does to the keys. Filters are written with the
  positions they keep (`Subsequence`), because `SelectSeq` is defined with a
  local recursive function; MCAlgorithms' ASSUME checks that both agree. It
  also holds what a batch, a claim and a pass promise (`OldestSearchedFirst`,
  `ClaimedKeepPlace`, `PassTakesCeiling`).
* **Outcome** - `CycleTally`, `grade_cycle`, and the grade of `to_record`.
* **SearchCycle** - the cycles of one instance and its file. The state:

  | variable | in the code |
  |---|---|
  | `ist` | the instance's entry of `app.state.triggarr_state`: logs, passes, `last_cycle` grade, `connected`, `tag_warnings` |
  | `disk` | the same entry in the state file |
  | `failures`, `degraded` | `app.state.search_failures[job_id]`, `app.state.persistence_degraded` |
  | `pc`, `cycle` | where the coroutine stands, and its local variables |
  | `last`, `faults`, `ist.attempted` | history variables: how the last cycle ended, faults so far, items attempted in the current pass |

  An action ends where the coroutine awaits, so that an exception or a crash
  can strike between any two:

  | action | in the code |
  |---|---|
  | `FetchQueues`, `FetchFails`, `FetchEscapes`, `BothInactiveUnreachable` | the fetch at the head of `run_*_cycle` and its four ends |
  | `ResolveTags` | `_resolve_tag_scope`, the filter chains, capping, rebalancing, and the plan of the missing batch: no await after the tag list |
  | `SearchAndRecord` | one `_search_and_record`: accepted or rejected, history row saved or not |
  | `EndMissingBatch` | log and pass after the missing loop, the seasons it claimed, the plan of the cutoff batch |
  | `EndCutoffBatch` | log and pass after the cutoff loop, `_finalize_cycle`, `_evaluate_cycle_outcome` |
  | `SaveState`, `SaveFails` | `save_state` in the executor |
  | `Escape` | an exception no handler names, up to `_on_job_error` |
  | `Crash` | the process dies and `load_state` reads the file |

  One `CONSTANT`, `CrossQueueDedup`, tells Sonarr (two queues over the same
  seasons) from Radarr and Lidarr. The filter chain of a queue (monitored, tag,
  release date, malformed records) is abstracted to its result: the eligible
  items in fetch order, how many records were skipped as malformed, and whether
  the chain faulted.

* **Correlation** - `correlate_grabs` as an operator on sets of searches and
  grabs. A date that cannot be parsed is `NoDate`, an identity that the gate
  rejects is the kind `broken`.
* **GrabCredit** - what tracking promises, without polling, lookups or
  failures: a grab belongs to one search for good, a search gets one verdict,
  the statistic grows by the episodes of a search exactly when it succeeds.
* **SonarrTracking** - the checks of one Sonarr instance. The database
  (`rows`, `owner`, `found`) survives; `check` is the local state of the
  running check with its budgets and circuit breaker.

  | action | in the code |
  |---|---|
  | `Tick`, `Grab` | the clock; Sonarr reports downloads, at any time and for any earlier time |
  | `Search` | `insert_search_entry` by a cycle; never during a check, both hold the search lock |
  | `StartCheck` | the pending rows and `now`, read once |
  | `HistoryFails` | `get_grab_history` fails, the series is left for the next check |
  | `ReadGroup` | one series: owned grabs left out, episodes looked up (`NothingToResolve`, `ListNotAsked`, `ListFails`, `ListAnswers`), correlation, the writes decided (`Writes`) |
  | `WriteRow` | one transaction of `update_outcome_and_stats` |
  | `EndCheck`, `Abort` | the check returns; or ends by an exception or a crash |

  The refinement mapping to GrabCredit maps outcomes to verdicts (`searched`
  and `partial` are open) and `found` to the statistic; the lookups, the clock
  and the check are invisible there. `episodes_found` and `episodes_updated` are
  one counter: the queue of a row only chooses between the two.
* **SearchHistory** - the table `search_history` as a function from row ids to
  rows: the pending cap, insert and prune in one transaction, and which rows a
  check finds. A row has the display name it was written under and the stable
  ID of its server; the cap counts by ID, the check finds by name.
* **ArrTracking** - the searches and checks of the Radarr (or Lidarr) instances
  over that table. A check keeps no record of credited grabs; a row carries the
  grabs its detail names. `Search` is an insert with cap and pruning,
  accepted or refused command; `Rename` is an edit of the configuration and a
  restart, which moves names between servers. The statistic of a server is
  found by the row's stable ID. A row is settled by whichever server has its
  name now; a row whose name has gone stays pending, which is why
  `EverySearchSettles` leaves it out.
* **Lifecycle** - the instances of one *arr type around the search lock.

  | variable | in the code |
  |---|---|
  | `file`, `stateFile` | `triggarr.toml` (instances and credentials), the entries in `state.json` |
  | `settings` | `app.state.settings`; `object` tells one Settings object from the next, because `remove_instance` deletes from the dictionary of the object it saw |
  | `clients`, `conns`, `jobs`, `entries` | `app.state.*_clients`, every client ever made, the scheduler's jobs, `app.state.triggarr_state` |
  | `queue` | the fair `asyncio.Lock`: its holder, then those who wait |
  | `proc` | every coroutine: what it read before it waited (`seen`, `new`, `conn`) and where it is |
  | `overlap` | history: a handler applied a change over one it had not seen |

  | action | in the code |
  |---|---|
  | `SubmitSave/Add/Remove/Auth/Search/Refresh`, `JobFires` | a route or job up to the await of the lock, with everything it reads before |
  | `Write`, `WriteFails` | `_atomic_toml_write` in the executor |
  | `ApplySave`, `FinishSave`, `FinishFails`, `CloseNext` | `save_settings` from the write on: memory, clients and jobs, then `save_state`, then the replaced clients one by one, outside the lock |
  | `RemoveFromSettings`, `ApplyRemove`; `ApplyAdd`; `ApplyAuth`, `AuthRefused` | the same for the other routes |
  | `CycleSaves`, `CycleFails`, `SavesNothing` | a cycle under the lock (what it does is in SearchCycle), or a refresh |
  | `Stop`, `Drain`, `DrainTimeout`, `JobCancelled`, `Restart`, `Crash`, `Boot` | the lifespan |

  `FilledFromFile` is the behaviour of the settings library that decides much
  here: `Settings(...)` merges what it is given with the file, key by key, so a
  form that does not mention an instance does not remove it, and one that does
  not mention credentials has those of the file. A failure of the `chmod` after
  a write, and the rate limit of searches by time, are left out (a request that
  is turned away is `SavesNothing`). Web requests are interchangeable: the next
  one is any that is free.
* **Upgrade** - a startup on a database of any version, one action per SQL
  statement. SQLite commits DDL at once unless a transaction is open, an INSERT
  or UPDATE opens one: `disk` is what is committed, `work` what the connection
  sees, and a `Crash` between any two statements leaves `disk`. `Script` lists
  the statements of v1 to v10, `Plan` adds the commit and the version record:
  v1 to v9 commit first and record then, v10 is one transaction. After them come
  the import of the search log of old state files, which commits before the file
  is cleared, and `RecordCutover`.

  The ALTERs of v1, v2, v5, v6 and v9 (`Suppressed`) run under
  `contextlib.suppress(sqlite3.OperationalError)`. That is meant for a column
  that is there already, and `AddColumn` leaves one alone; but a locked
  database or a full disk raises the same class. `MissColumn` is that case: the
  migration goes on, its version is recorded without the column, and no later
  startup adds it (`lost` keeps which). What follows depends on who reads the
  column. `Reads` gives the columns that each later statement names (`Needs`
  those of a version); if one is missing, the statement `Raises` and the startup
  ends with `Refuse`, on every startup again. `Search` stores no row while a
  column of the INSERT is missing. Every other failure of a statement ends the
  startup and is a `Crash`.

  One counter stands for the totals of `lifetime_stats`; of the indexes only
  that of v6 is there, which is the first to need `instance_id`; the Lidarr row
  that v9 seeds and the backup copies are left out. `FillCopy` keeps the name of
  a row where v7 writes 'Default': until v7 no other name is in the table
  (`FirstDbsAssumption`). (The message of a refused v10 names the `.v9-backup`; an
  upgrade that came from an older version has only that version's backup.)

In several modules an operator before a definition is called *a changed form*
of it. These are the definition with one plausible mistake in it; nothing uses
them, they show that each property would notice.

## What is checked

| run | question | properties |
|---|---|---|
| `algorithms` | do capping and rebalancing keep their promises, is one batch the right batch, does a pass end on time? | `InvConserved`, `InvShare`, `LeastRecentFirst`, `ExclusionKeepsPlace`, `PassEndsOnTime` |
| `movies` | Radarr: do budget, grade and marks survive broken lists, blocked tags and a fault? | `TypeOK`, `WithinHardMax`, `GradeFollowsTable`, `WorkIsAttempted`, `SkippedQueueUntouched` |
| `seasons` | Sonarr: do two queues over the same seasons stay apart, do two faults in any positions leave honest marks, and does every season get its turn? | `OneDispatchPerSeason`, `MarkedWasAttempted`, `PassMeansCovered`, `EveryItemSearched` |
| `sonarr_tracking` | are grabs credited once, to the right search, and searches settled once, whatever lookups do? | `TypeOK`, `CreditFits`, `NoCollision`, `CreditsOnce`, `NewestIsCredited`, `NothingOverlooked`, `EverySearchSettles` |
| `arr_tracking` | Radarr, Lidarr: are totals exact, the table bounded and every search settled for its reason, across pruning, renames and aborted checks? | `TypeOK`, `FoundIsExact`, `PendingBounded`, `VerdictsLast`, `NothingOverlooked`, `EverySearchSettles` |
| `lifecycle` | do file, memory, clients and jobs agree whatever order requests, jobs, failures and shutdown come in, do old credentials stay away, and is everybody answered? | `TypeOK`, `InSync`, `OpenWhileRegistered`, `ClosedAfterDrain`, `OnlyOutdatedReverts`, `EveryRequestAnswered` |
| `upgrade` | is every interrupted startup harmless, what may a swallowed ALTER cost, and does the program come up in the end? | `TypeOK`, `RestartIsSafe`, `CutoverParts`, `UpgradeEnds` |
| `decode_error` | documented: a cycle that cannot fetch is Failed | `UnfetchedIsFailed`, *violated* |
| `stale_warning` | documented: no tag warning on an unreachable instance | `UnreachableClearsWarnings`, *violated* |
| `double_credit` | documented: only the most recent search gets credit for a grab | `OnlyMostRecentIsCredited`, *violated* for Radarr and Lidarr |
| `auth_reverts` | documented: a password change invalidates every old cookie | `AuthNeverReverts`, *violated* by a settings form that waited for the lock |
| `lost_column` | documented: a failed migration stops the startup | `UpIsWhole`, *violated* by an ALTER whose failure is swallowed |

Bounds, and why they are enough:

* `algorithms`: counts up to 6 and hard maxima up to 9 contain every
  remainder of the proportional split for totals up to 12, every queue without
  work and every maximum above and below both the demand and the counts; the
  proofs cover the rest. Four items let a batch take some unseen and some seen
  items while others of both kinds stay out; sizes run from -1 (the clamp) to
  one more than there is. `PassEndsOnTime` runs whole passes of every length.
* `movies`: two movies, one repeated in a list; configurations that are capped
  to one command, tagged with an inactive queue, and wholly inactive; lists
  that are empty, carry a malformed record, or fault. Both grades of trouble
  and both answers to a command meet in one cycle.
* `seasons`: three seasons, lists that repeat one, a configuration that is
  capped and tagged, and another of one search per cycle, between which the
  settings change. Three are needed for a claimed season, a season the
  cutoff queue searches instead and one that is left over. Two faults, so that a
  failed save can be followed by a crash and an escaping exception by another
  cycle and then a crash. Two of the seasons stay on the list and change their
  order, which is what could starve one of them; the third comes and goes, and
  has a turn too when it stays.
* `sonarr_tracking`: a tick is a coarse unit of time. `Window` and `Escalation`
  of one tick with searches up to `LastSearch` = 1 and a clock up to `MaxTime` =
  4 contain windows that overlap, have ended, and are long past. `Packs` are a
  pack over two seasons whose first one needs lookups, a second grab of an
  episode, and a grab of another series, so that one list and one lookup per
  check (`MaxLists`, `MaxLookups`) are spent by one series while the other
  waits. `MaxRows` = 2 gives two searches of one season, or of two series;
  `MaxFaults` = 1 a check that ends between two transactions.
* `arr_tracking`: two servers that may swap their names once, three rows and
  `MaxKept` = 1, so that the cap (two pending rows) is met, a resolved row is
  pruned, and a row is found under a name that is another server's now; one
  fault. `double_credit` has one server and three grabs, one without a date and
  one that lies in two windows.
* `lifecycle`: two names, two addresses, one instance at first and at most two;
  two web requests of any kinds that may run at the same time, jobs as often as
  they like, one failed write or crash, any number of shutdowns and restarts.
  Two overlapping handlers are what one lock can get wrong; a third only waits
  behind the second.
* `upgrade`: a database of every version 0 to 9, with settled, pending and
  expired rows of two names, one of them no longer configured, and five
  leftovers of an upgrade that an older build interrupted (the empty table of
  v3, the empty copy of v7, and of v10 the copy beside the table, the copy in
  place of it, the table rebuilt already), and three databases that lack a
  column their version records: one that a later migration will read and one
  that has only readers after the upgrade, of either table; an old search log or
  none; three faults (crashes, statements that fail, ALTERs whose failure is
  swallowed), so that the upgrade can be interrupted again while it repairs an
  interruption, or lose two columns and be interrupted; searches up to six rows.
  `lost_column` needs one fault.
* `PassModulus` keeps the pass counters finite: a step changes one by one, so
  two values tell a changed counter from an unchanged one. `FailureCap` stops
  the consecutive-failure counter, which nothing else reads here. `MaxFaults`,
  `MaxRequests`, `MaxInserts`, `MaxRenames` and `MaxRows` bound a run. No
  property depends on their values, and the proofs leave them arbitrary.

**Fairness.** In SearchCycle, `FairSpec` adds `[]<><<faults' = faults>>_vars`:
infinitely many steps are steps of the cycle and not faults. That is weak
fairness of `Progress`, which is enabled in every state (an idle instance can
start a cycle, a started one can take its next step); the scheduler's interval
job and the event loop provide it. Faults need no fairness. They are bounded,
which stands for an *arr that is not down for ever; while it is, no item is
searched. `EveryItemSearched` promises a turn to every item that stays on the
list of the missing queue, whatever the order of the list and whatever else is
on it; an item that leaves the list again and again has no such promise.

The tracking modules assume that time passes and that checks go on: `Tick` and
the steps of a check are weakly fair. In SonarrTracking the start of a check is
among them; in ArrTracking `StartCheck` of each server is strongly fair, since
the lock may be held when its job fires, and the queue of the lock is fair
(which is what `EveryRequestAnswered` shows of it in Lifecycle). The clock of
the model stops at `MaxTime`, which is why deadlock is not checked there: when
everything is settled and no search may come, nothing is left to do. Lookups
need no fairness: `EverySearchSettles` holds when they never succeed.

In Lifecycle the holder of the lock takes its next step (`WF_vars(LockStep)`):
each of its awaits is bounded by a client's timeout or is a thread's work on a
small file. A request that closes clients goes on. Nothing is assumed of those
who wait: that they get the lock follows from its first-come queue. In Upgrade,
`WF_vars(Progress \/ Refuse)` says that somebody starts the program again after
a crash and that statements run, those too that raise; crashes and failures are
bounded. `UpgradeEnds` then promises that the program comes up again and again,
or that it never does any more because a migration still to run reads a column
that a recorded version did not get (`Stranded`), or that a person has to look at
the only copy of the totals.

**Five places where code and documents disagree.** A wanted page that answers
200 with something that is not JSON raises `json.JSONDecodeError` in
`get_paginated`; neither the cycle nor `_run_one_cycle` names `ValueError`, so
the cycle leaves no grade and no failure count, where the outcome table of
`docs/superpowers/specs/2026-10-08-search-correctness-design.md` says Failed.
`_finish_both_inactive_unreachable` keeps the tag warnings of an earlier cycle,
which the other unreachable path clears and the tests describe as cleared. For
Radarr and Lidarr a grab that settled the most recent of two overlapping
searches is credited to the older one in the next check: only pending rows take
part in the correlation and no ownership is kept, where `correlation.py` says
that only the most recent search gets credit. (The Sonarr check does keep
ownership, and there `CreditsOnce` holds.) And `save_settings` takes the
credentials from the file before it waits for the lock: behind a
`change_password` it writes the old ones back, where the comment there says that
old cookies are invalid from then on. The same delay is why `InSync` speaks of
handlers that worked on a current view: of two settings forms the second undoes
the first, which nothing in the repository rules out. The lifecycle run does
show that even then no registered client is closed and none is leaked.
Last, the older migrations swallow every operational error of an ALTER, not only
that of a column that is there. The run `lost_column` fails the ALTER of
`resolved_at`: the version is recorded, the program comes up without the column,
where `scheduler.py` says that a failed migration stops the startup. Losing
`outcome` (v4), `instance_id` (v6), `detail` or `missing_count` (v8) or a
statistics column of v9 (v10) is worse: the later migration raises on every
startup, which is the second half of `UpgradeEnds`. `RestartIsSafe` shows that
rows, totals and all other promises survive it.

## What is proved

The proof modules hold the theorems for every value of the constants that
satisfies the ASSUMEs of their module. Of SearchCycle: settings are natural
numbers, lists are sequences of items, an unfetched queue is not a list. Of
SonarrTracking and ArrTracking: limits are natural numbers, a grab has a series,
season and episode (or an item), a date or none, and an identity of its own,
and a list of episodes is finite; servers have different names. Of Lifecycle: an
added instance is disabled, jobs and requests are told apart. Of Upgrade: what
older builds left is a database, with no cutover and no row of this build, that
may stop between two statements of v3 (the table already there), of v7 (its
empty copy, because the rest of that rebuild is one transaction) or of v10
(anything, because in older builds it was none). Any columns may be missing in
it, except that a statistics table with the key of v10 has the columns of v9;
until v7 the only name in it is 'Default'.

* **Batch_proofs**, about the operators of BatchLimits and SearchQueue.
  * The three promises of the limits for all naturals (`CeilingHolds`,
    `NoWastedSlot`, `CappedShareKept`). The proportional split rests on one
    non-linear fact, a lemma about `\div`.
  * `PrioritizeBatchFacts`, what one call of `prioritize_batch` returns. It
    rests on lemmas about `Subsequence`: the positions kept are enumerated in
    order, so a filter of a sequence is a sequence, has exactly the elements at
    those positions (`SubsequenceRange`), in their order (`SubsequenceInOrder`),
    and stays free of repetition. `BatchNotEmpty` says when it cannot return an
    empty batch.
  * `BatchIsOldestFirst`: an item is repeated only when the cut came after all
    the unseen ones, and then what was cut stands behind it among those searched
    before, whose filters keep the order of the log.
  * `ClaimedItemsStay`: the claimed items pass three filters, the pruning of
    unwanted items, the removal of the batch and its return to the tail.
    `SameKept` says that two lists with a growing correspondence between the
    positions kept are filtered to the same list; each of the three is one.
  * `PassEndsInTime`: `CycleCovers` counts one cycle, which covers `size` more
    items or all of them, and the theorem counts a pass. It is an induction over
    cycles, done with the least cycle that fails to cover what it should, and so
    is the proof that the recursive function of the cycles exists (`RunExists`).
* **MCAlgorithms_proofs**: the five invariants of the `algorithms` run for every
  bound and every set of items: `ConservedAlways`, `ShareAlways`,
  `OldestFirstAlways`, `ClaimsKeepPlaceAlways`, `PassOnTimeAlways`, from the
  theorems above and the inputs being well formed (`WellFormed`).
* **SearchCycle_proofs**:
  * `TypeCorrect`: `Spec => []TypeOK`.
  * `OnlyAttemptedIsMarked`: `Spec => []MarkedWasAttempted`. Not inductive by
    itself: while a batch is sent, the log it will be replaced by is already
    planned. `PlanInv` says what the plan knows (its log adds only its batch,
    its batch is what was sent and what is left, a complete pass covers what is
    eligible), and `AttemptInv` joins it with the type, the shape of a cycle
    before dispatch (`StartInv`) and the goal.
  * `PassesAreCovered`: `Spec => PassMeansCovered`, an action property, from
    the same invariant: in the step that counts a pass nothing is left to send.
  * `HardMaxHolds`: `Spec => []WithinHardMax`, from `BudgetInv`: the commands
    of a queue sent plus those left never exceed its limit, which
    `CeilingHolds` bounds, and the commands sent are those of the two queues
    together.
  * `SeasonSentOnce`: `Spec => []OneDispatchPerSeason`, from `SeasonInv`: what
    was sent and what is left do not repeat, because seasons are deduplicated,
    logs never hold a season twice and the cutoff plan excludes what is
    claimed.
  * `SkippedStaysUntouched`: `Spec => SkippedQueueUntouched`, from `SkipInv`:
    the plan of a queue that is not processed is empty and its log the one the
    queue has already.
  * `WorkIsAlwaysAttempted`: `Spec => []WorkIsAttempted`. `WorkInv` says that
    while an active queue has something eligible one of the two has a turn,
    which is where `NoWastedSlot` is needed, and that a batch that ends with
    nothing sent belonged to a queue without one (`BatchNotEmpty`). The cutoff
    batch excludes what the missing batch claimed, so that it may be empty
    though its queue has a turn: but then something was claimed, hence sent.
  * `GradesFollowTheTable`: `Spec => []GradeFollowsTable`, from `TallyInv`, which
    ties the tally to the lists fetched and the commands sent, and from
    `WorkInv`: the table never reads "eligible work and nothing sent" because
    that does not happen.

* **Upgrade_proofs**: `CutoverHolds`, `Spec => []CutoverParts`. Not inductive by
  itself: a row may be imported after the cutover, and an uncommitted
  transaction may move rows. `CutoverInv` adds what keeps both from happening:
  `ImportFirst`, the logged searches are imported, and cleared from the file,
  before there is a cutover; and `Consistent`, whatever a migration has done,
  committed or not, connection and file agree on how many rows there are, which
  are new, and on the cutover. Every statement is then one of three kinds: it
  writes another field, it rewrites fields of rows that do not matter, or it
  drops or commits the transaction. An ALTER that fails changes no database.

  `RestartSafe`, `Spec => []RestartIsSafe`, says of the committed database what
  is harder to keep in the other one. `Sound` is what both are between two
  statements: the promises of every version up to the recorded one, the rows,
  the tables a crash may leave at this version (`Tables`) and the totals
  (`RightTotals`: besides being right, a total is still the old one as long as
  v8 would find a search to expire, so that it runs a second time without
  harm). `UpgradeInv` says that the database on disk is sound always, and what
  the connection sees but in the middle of a rebuild. There (`Rebuilt`) the
  table of totals is a copy, empty, complete or alone, the database would be
  sound with the table that is going to be, and what has happened is not
  committed. `OnPlan` ties the statements left to the plan, `Added` and
  `Achieved` say what those that are passed have done, which is what the
  recorded version needs (`VersionSound`): a statement that adds a column is
  passed when the column is there or lost, one that reads columns only when they
  were there. So the theorem promises of a recorded version every column but
  the lost ones, and the lost ones too if the version itself reads them. Each statement has its lemma; a
  lemma per plan (`Plans`) says which statement may come with how many left.

  `TypeCorrect`, `Spec => []TypeOK`, from `TypeInv`, which adds that a migration
  ends with the commit of its last statement (`Finished`), so that nothing is
  uncommitted when the import starts. It uses `UpgradeInv` too: an INSERT into a
  table that is missing would leave something that is no table. That a sum of
  totals is a natural number is proved from the recursion behind `SumFunction`,
  level by level of the sizes of the sets summed over.

* **SonarrTracking_proofs**, about the tracker of a Sonarr instance:
  `CreditsAreFit`, `Spec => []CreditFits`; `WritesNeverCollide`,
  `Spec => []NoCollision`; `NewestGetsTheCredit`, `Spec => NewestIsCredited`;
  `TrackingImplementsCredit`, `Spec => CreditsOnce`, that it implements
  GrabCredit; and `NothingIsOverlooked`, `Spec => NothingOverlooked`. They come
  from `TrackingInv`. What the database says
  (`StoreInv`) is not inductive: a write is decided when its series is read and
  happens transactions later. `WriteInv` says that it is still right by then
  (its row is pending, its grabs are nobody's, fit the row, and fit no newer
  pending row), and `CheckInv` why nothing in between spoils that: writes share
  neither row nor grab, and a series still to be read has no write. Since the
  rows of a check are all the pending ones, the newest among them is the newest
  there is. For the refinement `Search` is GrabCredit's `Open`, `WriteRow` its
  `Credit`, and every other step a stutter; what a row has found is counted when
  it is settled, from all its grabs, those of earlier checks included. For the
  last theorem `HeardInv` says of every write that will settle a row what has
  become of each grab that was reported when its series was read and that fits
  the row: it has an owner, another write credits it, a pending row without a
  write may still get it, or it could not be identified until long past the
  window. That the grab fits the row is not enough for this row to get it, but
  then a newer row comes first for it (`SomebodyIsFirst`). `TypeCorrect`,
  `Spec => []TypeOK`: in its type the check has its budgets, so that none asks
  Sonarr for more episode lists or lookups than they allow.
* **ArrTracking_proofs**, about the history of the Radarr or Lidarr instances:
  `PendingIsBounded`, `Spec => []PendingBounded`; `TotalsAreExact`,
  `Spec => []FoundIsExact`; `VerdictsStay`, `Spec => VerdictsLast`;
  `NothingIsOverlooked`, `Spec => NothingOverlooked`; and `TypeCorrect`,
  `Spec => []TypeOK`. Their `HistoryInv` joins the bound with `RowsInv` (ids are natural numbers up to
  `lastId`, a row that was grabbed is not pending), `CheckInv` (the rows a check
  is going to write are pending still, one write for each) and `TotalsInv`. The
  totals need all of them: a write counts its row once because the row was not
  counted before, and it was not because it is pending. A prune is harmless
  because the total is about every id ever given out and not about the table. `NoticedInv` says of
  every row that is going to be given up, and of every reported grab that fits
  it, that a row no older has the grab, or is pending under the same name and
  will get it if the check writes it: the grab was credited to the first row it
  fits, which is another, or there would be something to credit here.
* **LeastElements**: a set of natural numbers has a least element, a bounded one
  a greatest, and `Min` is the least; so a grab that matches some search is
  first for one of them. Used by both.
* **Lifecycle_proofs**, about the instances from startup to shutdown, in five
  parts. `RegisteredIsOpen`, `Spec => []OpenWhileRegistered`.
  A request takes clients away under the lock and closes them after it, so that
  between the two a client is open and not registered; `RegisteredInv` says that
  a request then still has it to close, and `ClosingInv` that a request never
  has a registered client to close: a client that is replaced does not come
  back, because a new one gets a new place. `PartsAgree`, `Spec => []InSync`:
  agreement holds between two requests and is broken within each, so
  `AgreementInv` says how far it goes in the middle (`Halfway`, one clause for
  each place a holder of the lock can have got to), that only the holder is in
  the middle (`HolderInv`), and what a request knows that read the settings
  before it waited (`ViewsInv`: what it saw is the settings still, or they have
  another identity or revision, in which case applying it sets `overlap`).
  `NobodyAfterDrain`, `Spec => []ClosedAfterDrain`: those in the lock's queue are
  exactly those who wait, each in one place (`PlacesInv`), and once the lifespan
  has come it is behind all of them (`LastInv`), even when a cancelled job gives
  up a place in between; when it is first, it is alone. `TypeCorrect`,
  `Spec => []TypeOK`: that there are never too many instances holds of the file
  because it holds of what every request is going to write, and of what a removal
  saw, from which it takes one away (`RecordTyped`; removing makes a set smaller
  only if it is finite, hence `NamesAssumption`). That credentials are changed at
  most once per request is not inductive, because a request changes them long
  after it was counted: `CountInv` says that the credentials in the file, in the
  settings and in every view, and the requests that have yet to write theirs,
  together do not exceed the requests so far. `OldCredentialsStayAway`,
  `Spec => OnlyOutdatedReverts`, is what is true of the documented property that
  `auth_reverts` refutes: credentials go back only while there is a handler that
  has written what it read before others changed it, or after one has. So no
  crash between the file and the memory, no failed write and no restart brings
  them back. `FileInv` says where the file stands: with the settings; one ahead,
  for a request that is about to apply what it wrote; or behind, for such a
  handler. `FormsInv` says that a form that was read from the settings as they
  are carries their credentials.

Only model-checked:

* liveness (`EveryItemSearched`, `EverySearchSettles`, `EveryRequestAnswered`,
  `UpgradeEnds`), which is out of the prover's reach, as is ENABLED.

Every invariant and every action property that a passing run checks is stated by
a theorem.

## Plan

1. *(done)* BatchLimits, SearchQueue, Outcome, SearchCycle and their proofs:
   the behaviour every user depends on.
2. *(done)* Correlation, GrabCredit, SonarrTracking: what a search is credited
   with, and its refinement.
3. *(done)* SearchHistory and ArrTracking: the table with its bounds, several
   instances and renames.
4. *(done)* Lifecycle: requests, jobs and shutdown around one lock.
5. *(done)* Upgrade and its first proof: startups on old databases.
6. *(done)* Proofs about tracking, history and clients: SonarrTracking
   implements GrabCredit, the bound and the totals of the history, clients are
   open while registered.
7. *(done)* The safety properties of SearchCycle that were left: grades, work
   and skipped queues.
8. *(done)* The other safety properties of Lifecycle: its parts agree, the drain
   leaves nobody behind.
9. *(done)* What is left of the tracking modules: no reported grab is
   overlooked, types and budgets.
10. *(done)* What every crash of a startup leaves on disk is what its version
    promises; the choice of a batch and the length of a pass for all inputs.
11. *(done)* The type invariants of Upgrade and Lifecycle.
12. *(open)* Instances larger than those of the runs, several Sonarr instances in
    one table.

## What is not modelled

* The numbers on the dashboard cards, which `refresh_*_counts` and the cycles
  write with the tag they were computed under, and `cycle_view`: only the pages
  read them, no decision does. The tag cache only changes which tags are found,
  and SearchCycle lets any tag stay unresolved.
* Inside one call of an API client: paging and the one retry have no state that
  outlives the call. What they let through (repeated items, an escaping decoding
  error, a command whose answer was lost) is an input of SearchCycle.
* Backups of the database and SQLite's own write-ahead log: restoring is a
  person's work. Temporary files inside `save_state` and `_atomic_toml_write`:
  their replacement is one step, as the rename is.
* The login limiter, sessions and the reset token. The limiter checks and
  records without an await in between, so that its requests do not interleave.
* In ArrTracking, rows without a stable ID (written before v10 and never
  associated), which are credited to the server whose check settles them
  (`tracking.py:200`). In the
  `sonarr_tracking` run, grabs without a date; the theorems about SonarrTracking
  hold with them (`NoDate`).
* Timestamps of a cycle (`last_run`, `last_successful_search`), reasons of
  failures (sanitised strings that no decision reads), the text of log lines and
  pages, URL and name validation (pure predicates over strings), the changelog
  and update check (pure I/O), the CI scripts under `.github`.
