--------------------------- MODULE SonarrTracking ---------------------------
(***************************************************************************)
(* The tracking checks of one Sonarr instance (triggarr/tracking.py,       *)
(* _run_sonarr_tracking_check; the rows and grab ownership of              *)
(* triggarr/db.py).  A check reads the pending searches, takes the series  *)
(* one by one, fetches what Sonarr grabbed for each, finds out which       *)
(* episode a grab is for where the history does not say, and writes one    *)
(* transaction per search.  It runs under the search lock, so no search is *)
(* added while it runs; it may end at any await, and only the database     *)
(* survives.                                                               *)
(*                                                                         *)
(* A grab is "nested" when the history names its season (Sonarr v4),       *)
(* "bare" when it must be looked up (v5), "broken" when the identity gate  *)
(* rejects it; its true season is known to the model in each case.         *)
(***************************************************************************)
EXTENDS Correlation, Sequences, FiniteSets, FiniteSetsExt

CONSTANTS
  Packs,       \* grab events Sonarr may come to report, by download
  Targets,     \* the seasons that may be searched
  Window,      \* tracking_window_minutes
  Escalation,  \* _TRANSIENT_ESCALATION_HOURS
  MaxLists,    \* _MAX_SERIES_EPISODE_LISTS_PER_CHECK
  MaxLookups,  \* _MAX_EPISODE_ID_LOOKUPS_PER_CHECK
  LastSearch,  \* bound: no search after this time
  MaxTime,     \* bound: the clock stops here
  MaxRows,     \* bound: searches of a run
  MaxFaults    \* bound: checks that end early and histories not fetched

Grabs == UNION Packs

ASSUME GrabsAssumption ==
  /\ Grabs \subseteq [series : Nat, season : Nat, episode : Nat,
                      at : Nat \cup {NoDate}, id : Nat,
                      kind : {"nested", "bare", "broken"}]
  /\ \A g, h \in Grabs : g.id = h.id => g = h
  /\ \A p \in Packs : IsFiniteSet(p)

ASSUME TargetsAssumption ==
  Targets \subseteq [series : Nat, season : Nat, missing : Nat]

ASSUME LimitsAssumption ==
  {Window, Escalation, MaxLists, MaxLookups, LastSearch, MaxTime, MaxRows,
   MaxFaults} \subseteq Nat

VARIABLES
  now,      \* the clock
  rows,     \* search_history: the searches of the instance
  owner,    \* grab_ownership: the row each credited grab belongs to
  found,    \* lifetime_stats: episodes_found and episodes_updated together
  history,  \* the grabs Sonarr has in its history
  check,    \* the local variables of the running check
  faults    \* history: faults so far

vars == <<now, rows, owner, found, history, check, faults>>

Outcomes == {"searched", "partial", "grabbed", "partial_expired", "unresolved"}

(* Changed form: an expired partial search is tracked on. *)
PendingUnlessFound(r) ==
  rows[r].outcome \in {"searched", "partial", "partial_expired"}

Pending(r) == rows[r].outcome \in {"searched", "partial"}

SearchOf(r) == [id |-> r, at |-> rows[r].at, season |-> rows[r].season]

WindowEnd(r) == rows[r].at + Window

OwnedBy(r) == {g \in DOMAIN owner : owner[g] = r}

-----------------------------------------------------------------------------
(* The outcome of one search. *)

(* "none" leaves the row as it is.  An unknown number of missing episodes  *)
(* is 0: then any grab is enough.                                          *)
SonarrOutcome(current, missing, count, expired) ==
  CASE count = 0 -> IF expired THEN "unresolved" ELSE "none"
    [] count > 0 /\ count >= missing -> "grabbed"
    [] count > 0 /\ count < missing ->
         IF expired /\ current # "partial_expired" THEN "partial_expired"
         ELSE IF ~expired /\ current = "searched" THEN "partial"
         ELSE "none"

(* Episodes a terminal outcome adds to the statistic. *)
Credited(outcome, count) ==
  IF outcome \in {"grabbed", "partial_expired"} THEN count ELSE 0

(* Changed forms: never wait; wait for ever. *)
HeldNever(r, unidentified)   == FALSE
HeldForEver(r, unidentified) == unidentified # {}

(* A row that is not yet Escalation past its window waits while a grab of  *)
(* its series could not be identified.                                     *)
Held(r, unidentified) ==
  unidentified # {} /\ check.now - WindowEnd(r) <= Escalation

-----------------------------------------------------------------------------
(* One series of a check. *)

Idle == [pc |-> "idle", now |-> 0, entries |-> {}, groups |-> {}, lists |-> 0,
         lookups |-> 0, open |-> FALSE, writes |-> {}, heard |-> {}]

(* The rows of a series the check started with. *)
Group(s) == {r \in check.entries : rows[r].series = s}

(* The series whose earliest window ends first; of several the one with    *)
(* the earliest row.                                                       *)
Urgency(s) == Min({WindowEnd(r) : r \in Group(s)})

NextSeries ==
  CHOOSE s \in check.groups : \A t \in check.groups :
    \/ Urgency(s) < Urgency(t)
    \/ Urgency(s) = Urgency(t) /\ Min(Group(s)) <= Min(Group(t))

(* Changed form: credited grabs are considered again. *)
CandidatesAgain(s) == {g \in history : g.series = s}

(* Grabs of a series nobody has been credited with. *)
Candidates(s) == {g \in history : g.series = s} \ DOMAIN owner

(* The candidates that need an episode lookup: bare ones in some window of *)
(* the group.  Other bare ones are dropped, they could not be credited.    *)
ToResolve(s) ==
  {g \in Candidates(s) :
     g.kind = "bare" /\ \E r \in Group(s) : InWindow(g, SearchOf(r), Window)}

(* The writes for a series, given which of the lookups succeeded and which *)
(* gave no answer.                                                         *)
Writes(s, identified, unidentified) ==
  LET trusted == {g \in Candidates(s) : g.kind = "nested"} \cup identified
      credit  == Correlate({SearchOf(r) : r \in Group(s)}, trusted, Window, TRUE)
      new(r)  == credit[SearchOf(r)]
      count(r)   == Cardinality({g.episode : g \in new(r) \cup OwnedBy(r)})
      expired(r) == check.now > WindowEnd(r)
      outcome(r) ==
        IF Held(r, unidentified) THEN "none"
        ELSE SonarrOutcome(rows[r].outcome, rows[r].missing, count(r), expired(r))
      progress(r) ==
        /\ outcome(r) = "none" /\ new(r) # {}
        /\ Held(r, unidentified) \/ (rows[r].outcome = "partial" /\ ~expired(r))
  IN  {[row |-> r, grabs |-> new(r), outcome |-> outcome(r),
        found |-> Credited(outcome(r), count(r))] :
          r \in {x \in Group(s) : outcome(x) # "none"}}
      \cup {[row |-> r, grabs |-> new(r), outcome |-> "partial", found |-> 0] :
              r \in {x \in Group(s) : progress(x)}}

-----------------------------------------------------------------------------

Init ==
  /\ now = 0 /\ rows = <<>> /\ owner = [g \in {} |-> 0] /\ found = 0
  /\ history = {} /\ check = Idle /\ faults = 0

Tick ==
  /\ now < MaxTime /\ now' = now + 1
  /\ UNCHANGED <<rows, owner, found, history, check, faults>>

(* Sonarr reports a download, whenever it happened. *)
Grab ==
  /\ \E p \in Packs : ~(p \subseteq history) /\ history' = history \cup p
  /\ UNCHANGED <<now, rows, owner, found, check, faults>>

(* A search cycle has its command accepted and records it. *)
Search ==
  /\ check.pc = "idle" /\ now <= LastSearch /\ Len(rows) < MaxRows
  /\ \E t \in Targets :
       rows' = Append(rows, [series |-> t.series, season |-> t.season,
                             missing |-> t.missing, at |-> now,
                             outcome |-> "searched"])
  /\ UNCHANGED <<now, owner, found, history, check, faults>>

(* The pending rows and the time are read once. *)
StartCheck ==
  LET entries == {r \in DOMAIN rows : Pending(r)}
  IN  /\ check.pc = "idle" /\ entries # {}
      /\ check' = [Idle EXCEPT !.pc = "check", !.now = now, !.entries = entries,
                              !.groups = {rows[r].series : r \in entries}]
      /\ UNCHANGED <<now, rows, owner, found, history, faults>>

(* The series is left for the next check. *)
HistoryFails ==
  /\ check.pc = "check" /\ check.groups # {} /\ check.writes = {}
  /\ faults < MaxFaults
  /\ check' = [check EXCEPT !.groups = @ \ {NextSeries}]
  /\ faults' = faults + 1
  /\ UNCHANGED <<now, rows, owner, found, history>>

(* The history and the credited grabs of the next series are read, its     *)
(* bare grabs are looked up or not, and its writes are decided.            *)
ReadSeries(lists, lookups, open, refused, unidentified) ==
  LET s == NextSeries
  IN  check' = [check EXCEPT
        !.groups = @ \ {s}, !.lists = lists, !.lookups = lookups, !.open = open,
        !.heard = {g \in history : g.series = s} \ refused,
        !.writes = Writes(s, ToResolve(s) \ (refused \cup unidentified),
                          unidentified)]

NothingToResolve ==
  /\ ToResolve(NextSeries) = {}
  /\ ReadSeries(check.lists, check.lookups, check.open, {}, {})

(* The circuit is open or the budget of episode lists is spent. *)
ListNotAsked ==
  /\ ToResolve(NextSeries) # {}
  /\ check.open \/ check.lists >= MaxLists
  /\ ReadSeries(check.lists, check.lookups, check.open, {},
                ToResolve(NextSeries))

(* Changed form: one list more than the budget. *)
MayAskListOnceMore ==
  ToResolve(NextSeries) # {} /\ ~check.open /\ check.lists <= MaxLists

MayAskList ==
  ToResolve(NextSeries) # {} /\ ~check.open /\ check.lists < MaxLists

(* A transport error opens the circuit, any other leaves it as it is. *)
ListFails ==
  /\ MayAskList
  /\ \E open \in BOOLEAN :
       ReadSeries(check.lists + 1, check.lookups, open, {},
                  ToResolve(NextSeries))

(* The list names some episodes; the others are looked up one by one until *)
(* the budget is spent or a transport error opens the circuit.  An answer  *)
(* may refuse the grab: the episode is gone or belongs elsewhere.          *)
ListAnswers ==
  LET grabs == ToResolve(NextSeries)
      episodes == {g.episode : g \in grabs}
      of(E) == {g \in grabs : g.episode \in E}
  IN  /\ MayAskList
      /\ \E asked, unanswered \in SUBSET episodes, open \in BOOLEAN,
            gone \in SUBSET episodes :
           /\ check.lookups + Cardinality(asked) <= MaxLookups
           /\ open => asked \cap unanswered # {}
           /\ unanswered \subseteq asked \/ open
                \/ check.lookups + Cardinality(asked) = MaxLookups
           /\ gone \cap unanswered = {}
           /\ ReadSeries(check.lists + 1, check.lookups + Cardinality(asked),
                         open, of(gone), of(unanswered))

ReadGroup ==
  /\ check.pc = "check" /\ check.groups # {} /\ check.writes = {}
  /\ NothingToResolve \/ ListNotAsked \/ ListFails \/ ListAnswers
  /\ UNCHANGED <<now, rows, owner, found, history, faults>>

(* One row's outcome, statistic and grabs, in one transaction, in the      *)
(* order of the rows.  A grab that somebody owns already undoes it all.    *)
WriteRow ==
  /\ check.pc = "check" /\ check.writes # {}
  /\ \E w \in check.writes :
       /\ \A x \in check.writes : w.row <= x.row
       /\ check' = [check EXCEPT
            !.writes = @ \ {w}, !.heard = IF check.writes = {w} THEN {} ELSE @]
       /\ IF w.grabs \cap DOMAIN owner # {}
          THEN UNCHANGED <<rows, owner, found>>
          ELSE /\ rows' = [rows EXCEPT ![w.row].outcome = w.outcome]
               /\ owner' = [g \in DOMAIN owner \cup w.grabs |->
                              IF g \in w.grabs THEN w.row ELSE owner[g]]
               /\ found' = found + w.found
  /\ UNCHANGED <<now, history, faults>>

EndCheck ==
  /\ check.pc = "check" /\ check.groups = {} /\ check.writes = {}
  /\ check' = Idle
  /\ UNCHANGED <<now, rows, owner, found, history, faults>>

(* A database error, an exception nobody names, or a crash: what is        *)
(* committed stays, the rest of the check is gone.                         *)
Abort ==
  /\ check.pc = "check" /\ faults < MaxFaults
  /\ check' = Idle /\ faults' = faults + 1
  /\ UNCHANGED <<now, rows, owner, found, history>>

Work == StartCheck \/ ReadGroup \/ WriteRow \/ EndCheck

Next == Tick \/ Grab \/ Search \/ Work \/ HistoryFails \/ Abort

Spec == Init /\ [][Next]_vars

(* Time passes and the job of the instance comes round: weak fairness of   *)
(* Tick and of Work, whose steps are those that change the clock, and      *)
(* those that change the check without a fault.                            *)
WorkToDo == check.pc = "check" \/ \E r \in DOMAIN rows : Pending(r)

FairSpec ==
  /\ Spec
  /\ []<>(now = MaxTime) \/ []<><<now' # now>>_vars
  /\ []<>(~WorkToDo) \/ []<><<check' # check /\ faults' = faults>>_vars

-----------------------------------------------------------------------------

Write == [row : Nat, grabs : SUBSET Grabs, outcome : Outcomes, found : Nat]

(* Every variable has its type. *)
TypeOK ==
  /\ now \in 0..MaxTime /\ faults \in 0..MaxFaults /\ found \in Nat
  /\ rows \in Seq([series : Nat, season : Nat, missing : Nat,
                    at : 0..LastSearch, outcome : Outcomes])
  /\ owner \in [DOMAIN owner -> DOMAIN rows] /\ DOMAIN owner \subseteq Grabs
  /\ history \subseteq Grabs
  /\ check \in [pc : {"idle", "check"}, now : 0..MaxTime,
                 entries : SUBSET DOMAIN rows, groups : SUBSET Nat,
                 lists : 0..MaxLists, lookups : 0..MaxLookups, open : BOOLEAN,
                 writes : SUBSET Write, heard : SUBSET Grabs]

(* A grab that could have come of a search. *)
Fits(g, r) ==
  /\ g.kind # "broken" /\ g.series = rows[r].series
  /\ g.season = rows[r].season /\ InWindow(g, SearchOf(r), Window)

(* A credited grab is of the series and season its search was for, lies in *)
(* its window and passed the identity gate.                                *)
CreditFits == \A g \in DOMAIN owner : Fits(g, owner[g])

(* No transaction is undone because a grab is owned already: credited      *)
(* grabs are left out before the correlation, which gives a grab to one    *)
(* row, so that the constraint never costs a row its outcome.              *)
NoCollision ==
  \A w \in check.writes :
    /\ w.grabs \cap DOMAIN owner = {}
    /\ \A x \in check.writes : x = w \/ (x.row # w.row /\ x.grabs \cap w.grabs = {})

(* The tracker implements GrabCredit. *)
VerdictOf(outcome) ==
  CASE outcome \in {"searched", "partial"} -> "open"
    [] outcome \in {"grabbed", "partial_expired"} -> "found"
    [] outcome = "unresolved" -> "none"

Credit == INSTANCE GrabCredit
  WITH verdict <- [r \in DOMAIN rows |-> VerdictOf(rows[r].outcome)],
       score <- found

CreditsOnce == Credit!Spec

(* A grab goes to the most recent search it could have come of, of those   *)
(* that are still pending.                                                 *)
NewestIsCredited ==
  [][\A g \in DOMAIN owner' \ DOMAIN owner, r \in DOMAIN rows :
       Pending(r) /\ Fits(g, r) =>
         rows[owner'[g]].at >= rows[r].at]_vars

(* A search is not settled over a grab that Sonarr had reported when its   *)
(* series was read: such a grab has an owner, may still be credited to     *)
(* another pending search, or was refused; only a search long past its     *)
(* window is settled without the grabs that could not be looked up.        *)
NothingOverlooked ==
  [][\A r \in DOMAIN rows, g \in check.heard :
       (Pending(r) /\ ~Pending(r)' /\ Fits(g, r)) =>
         \/ g \in DOMAIN owner'
         \/ \E t \in DOMAIN rows : Pending(t)' /\ Fits(g, t)
         \/ g.kind = "bare" /\ check.now - WindowEnd(r) > Escalation]_vars

(* Every search is settled at last, even when Sonarr never tells what a    *)
(* grab is for.                                                            *)
EverySearchSettles ==
  \A r \in 1..MaxRows : r \in DOMAIN rows ~> r \in DOMAIN rows /\ ~Pending(r)
=============================================================================
