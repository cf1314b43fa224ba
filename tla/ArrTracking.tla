---------------------------- MODULE ArrTracking ----------------------------
(***************************************************************************)
(* The search history of the Radarr (or Lidarr) instances and the tracking *)
(* checks that settle its rows (triggarr/tracking.py, run_tracking_check,  *)
(* triggarr/db.py).  Unlike those of Sonarr they keep no record of the     *)
(* grabs a search has been credited with: each check correlates all grabs  *)
(* of an item with the searches of the item that are pending at that time. *)
(* A check and a cycle run under the search lock, a check may end at any   *)
(* await, and only the database survives.  An instance may be renamed: the *)
(* server behind a name changes, the rows keep the name they were written  *)
(* with.                                                                   *)
(***************************************************************************)
EXTENDS Correlation, Functions, FiniteSetsExt, SearchHistory

CONSTANTS
  Servers,     \* the instances, by their stable IDs
  Names,       \* the names they may have
  FirstName,   \* the names they have at first
  Grabs,       \* grab events an *arr may come to report
  Items,       \* the movies or albums that may be searched
  Window,      \* tracking_window_minutes
  MaxKept,     \* max_history_rows
  LastSearch,  \* bound: no search after this time
  MaxTime,     \* bound: the clock stops here
  MaxInserts,  \* bound: rows ever written
  MaxRenames,  \* bound: times the names change
  MaxFaults    \* bound: checks that end early and histories not fetched

ASSUME NamesAssumption == FirstName \in Injection(Servers, Names)

ASSUME GrabsAssumption ==
  /\ Grabs \subseteq [item : Items, at : Nat \cup {NoDate}, id : Nat]
  /\ \A g, h \in Grabs : g.id = h.id => g = h

ASSUME LimitsAssumption ==
  {Window, MaxKept, LastSearch, MaxTime, MaxInserts, MaxRenames, MaxFaults} \subseteq Nat

VARIABLES
  now,      \* the clock
  names,    \* the configuration: what each server is called
  rows,     \* search_history; "grabs" are what detail names
  lastId,   \* the AUTOINCREMENT counter of the table
  found,    \* lifetime_stats: movies (albums) found and updated together
  history,  \* per server, the grabs it has in its history
  check,    \* the local variables of the running check
  won,      \* history: the rows that ever were grabbed, with their servers
  renames,  \* history: times the names changed
  faults    \* history: faults so far

vars == <<now, names, rows, lastId, found, history, check, won, renames, faults>>

(* Changed form: grabbed searches are tracked on. *)
PendingThoughGrabbed(name) ==
  {r \in DOMAIN rows : rows[r].outcome \in {"searched", "grabbed"} /\ rows[r].name = name}

Pending(name) == Trackable(rows, name)

SearchOf(r) == [id |-> r, at |-> rows[r].at]

(* Changed forms: the window is judged first; a search never expires. *)
ArrOutcomeExpiryFirst(count, expired) ==
  IF expired THEN "unresolved" ELSE IF count > 0 THEN "grabbed" ELSE "none"
ArrOutcomeNoExpiry(count, expired) == IF count > 0 THEN "grabbed" ELSE "none"

(* "none" leaves the row as it is. *)
ArrOutcome(count, expired) ==
  IF count > 0 THEN "grabbed" ELSE IF expired THEN "unresolved" ELSE "none"

Idle == [pc |-> "idle", now |-> 0, server |-> "none", entries |-> {},
         items |-> {}, writes |-> {}, heard |-> {}]

(* The rows of an item the check started with. *)
Group(i) == {r \in check.entries : rows[r].item = i}

(* Items come in the order of their first rows. *)
NextItem == rows[Min({r \in check.entries : rows[r].item \in check.items})].item

Writes(i, grabs) ==
  LET credit     == Correlate({SearchOf(r) : r \in Group(i)}, grabs, Window, FALSE)
      outcome(r) == ArrOutcome(Cardinality(credit[SearchOf(r)]),
                               check.now > rows[r].at + Window)
  IN  {[row |-> r, outcome |-> outcome(r), grabs |-> credit[SearchOf(r)]] :
          r \in {x \in Group(i) : outcome(x) # "none"}}

(* A check with nothing left to read or write is over. *)
GoOn(c) == check' = IF c.items = {} /\ c.writes = {} THEN Idle ELSE c

-----------------------------------------------------------------------------

Init ==
  /\ now = 0 /\ names = FirstName /\ rows = <<>> /\ lastId = 0
  /\ found = [s \in Servers |-> 0] /\ history = [s \in Servers |-> {}]
  /\ check = Idle /\ won = {} /\ renames = 0 /\ faults = 0

Tick ==
  /\ now < MaxTime /\ now' = now + 1
  /\ UNCHANGED <<names, rows, lastId, found, history, check, won, renames, faults>>

(* The *arr reports a download, at once or late. *)
Grab(s) ==
  /\ \E g \in Grabs \ history[s] :
       g.at <= now /\ history' = [history EXCEPT ![s] = @ \cup {g}]
  /\ UNCHANGED <<now, names, rows, lastId, found, check, won, renames, faults>>

(* The configuration is edited and the program started again: names move   *)
(* between servers, stable IDs stay.                                       *)
Rename ==
  /\ check.pc = "idle" /\ renames < MaxRenames /\ renames' = renames + 1
  /\ names' \in Injection(Servers, Names) \ {names}
  /\ UNCHANGED <<now, rows, lastId, found, history, check, won, faults>>

(* A search cycle has its command accepted, or refused, and records it.    *)
(* With too many pending rows an accepted command is not recorded.         *)
Search(s) ==
  /\ check.pc = "idle" /\ now <= LastSearch /\ lastId < MaxInserts
  /\ \E i \in Items, outcome \in {"searched", "failed"} :
       /\ outcome = "searched" => ~CapReached(rows, s, names[s], MaxKept)
       /\ rows' = Inserted(rows, lastId + 1,
                           [item |-> i, at |-> now, name |-> names[s], server |-> s,
                            outcome |-> outcome, grabs |-> {}], MaxKept)
  /\ lastId' = lastId + 1
  /\ UNCHANGED <<now, names, found, history, check, won, renames, faults>>

(* The pending rows and the time are read once. *)
StartCheck(s) ==
  LET entries == Pending(names[s])
  IN  /\ check.pc = "idle" /\ entries # {}
      /\ check' = [Idle EXCEPT !.pc = "check", !.now = now, !.server = s,
                              !.entries = entries,
                              !.items = {rows[r].item : r \in entries}]
      /\ UNCHANGED <<now, names, rows, lastId, found, history, won, renames, faults>>

(* The item is left for the next check. *)
HistoryFails ==
  /\ check.pc = "check" /\ check.items # {} /\ check.writes = {}
  /\ faults < MaxFaults
  /\ GoOn([check EXCEPT !.items = @ \ {NextItem}])
  /\ faults' = faults + 1
  /\ UNCHANGED <<now, names, rows, lastId, found, history, won, renames>>

(* The history of the next item is read and its writes are decided. *)
ReadItem ==
  /\ check.pc = "check" /\ check.items # {} /\ check.writes = {}
  /\ LET grabs == {g \in history[check.server] : g.item = NextItem}
     IN  GoOn([check EXCEPT !.items = @ \ {NextItem}, !.heard = grabs,
                            !.writes = Writes(NextItem, grabs)])
  /\ UNCHANGED <<now, names, rows, lastId, found, history, won, renames, faults>>

(* One row's outcome and the statistic of the server that was searched, in *)
(* one transaction, in the order of the rows.                              *)
WriteRow ==
  /\ check.pc = "check" /\ check.writes # {}
  /\ \E w \in check.writes :
       LET s == rows[w.row].server
           n == IF w.outcome = "grabbed" THEN 1 ELSE 0
       IN
         /\ \A x \in check.writes : w.row <= x.row
         /\ rows' = [rows EXCEPT ![w.row].outcome = w.outcome,
                                 ![w.row].grabs = w.grabs]
         /\ found' = [found EXCEPT ![s] = @ + n]
         /\ won' = IF n = 1 THEN won \cup {<<w.row, s>>} ELSE won
         /\ GoOn([check EXCEPT !.writes = @ \ {w},
                               !.heard = IF check.writes = {w} THEN {} ELSE @])
  /\ UNCHANGED <<now, names, lastId, history, renames, faults>>

(* A database error, an exception nobody names, or a crash: what is        *)
(* committed stays, the rest of the check is gone.                         *)
Abort ==
  /\ check.pc = "check" /\ faults < MaxFaults
  /\ check' = Idle /\ faults' = faults + 1
  /\ UNCHANGED <<now, names, rows, lastId, found, history, won, renames>>

CheckStep == ReadItem \/ WriteRow

Next ==
  \/ Tick \/ Rename
  \/ \E s \in Servers : Grab(s) \/ Search(s) \/ StartCheck(s)
  \/ CheckStep \/ HistoryFails \/ Abort

Spec == Init /\ [][Next]_vars

(* Time passes, a check goes on, and the job of every instance gets the    *)
(* lock again and again, though it may be held when the job fires.         *)
FairSpec ==
  /\ Spec
  /\ WF_vars(Tick) /\ WF_vars(CheckStep)
  /\ \A s \in Servers : SF_vars(StartCheck(s))

-----------------------------------------------------------------------------

Outcomes == {"searched", "grabbed", "unresolved", "failed"}

(* Every variable has its type; only a grabbed search names grabs, and a   *)
(* running check works on rows that are still there.                       *)
TypeOK ==
  /\ now \in 0..MaxTime /\ faults \in 0..MaxFaults /\ renames \in 0..MaxRenames
  /\ names \in Injection(Servers, Names)
  /\ lastId \in 0..MaxInserts /\ DOMAIN rows \subseteq 1..lastId
  /\ \A r \in DOMAIN rows :
       /\ rows[r] \in [item : Items, at : 0..LastSearch, name : Names,
                       server : Servers, outcome : Outcomes, grabs : SUBSET Grabs]
       /\ rows[r].grabs # {} <=> rows[r].outcome = "grabbed"
  /\ found \in [Servers -> Nat] /\ history \in [Servers -> SUBSET Grabs]
  /\ check.pc = "check" => /\ check.server \in Servers /\ check.entries # {}
                           /\ check.entries \subseteq DOMAIN rows

(* A grab that could have come of a search. *)
Fits(g, r) == g.item = rows[r].item /\ InWindow(g, SearchOf(r), Window)

(* The lifetime statistic of a server counts each search of it that found  *)
(* something once, over all checks, failures, restarts, renames and        *)
(* whatever was pruned since.                                              *)
FoundIsExact ==
  \A s \in Servers : found[s] = Cardinality({r \in 1..lastId : <<r, s>> \in won})

(* However long checks do not come round and however names change, a       *)
(* server has no more than 2 * max_rows pending rows.                      *)
PendingBounded == \A s \in Servers : Cardinality(PendingOf(rows, s)) <= 2 * MaxKept

(* Only a search that has its verdict leaves the table, and the newest     *)
(* verdicts stay.                                                          *)
VerdictsLast ==
  [][\A r \in DOMAIN rows \ DOMAIN rows' :
       /\ ~IsPending(rows[r])
       /\ Cardinality({q \in Resolved(rows') : q > r}) >= MaxKept]_vars

(* A search is given up although a grab that fits it had been reported     *)
(* only if another search, no older, has got that grab or is going to.     *)
NothingOverlooked ==
  [][\A r \in DOMAIN rows \cap DOMAIN rows', g \in check.heard :
       rows'[r].outcome = "unresolved" /\ IsPending(rows[r]) /\ Fits(g, r) =>
         \E t \in DOMAIN rows :
           /\ t # r /\ Fits(g, t) /\ rows[t].at >= rows[r].at
           /\ t \in Trackable(rows, rows[r].name) \/ g \in rows[t].grabs]_vars

(* Every search is settled at last, unless its name has gone: the searches *)
(* of a run are bounded, so that in the end none is pending.               *)
EverySearchSettles ==
  <>[](\A r \in DOMAIN rows : ~IsPending(rows[r]) \/ rows[r].name \notin Range(names))

(* correlation.py says of searches of one item: "only the MOST RECENT      *)
(* search gets credit for grabs in its window".                            *)
OnlyMostRecentIsCredited ==
  \A r, t \in DOMAIN rows :
    rows[r].server = rows[t].server /\ rows[r].at < rows[t].at =>
      rows[r].grabs \cap rows[t].grabs = {}
=============================================================================
