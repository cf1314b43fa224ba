----------------------- MODULE SonarrTracking_proofs ------------------------
(***************************************************************************)
(* Grab tracking of a Sonarr instance, for any searches, downloads, window *)
(* and budgets: credited grabs fit their searches, no transaction is       *)
(* undone, a grab goes to the newest search, the tracker implements        *)
(* GrabCredit, and no search is settled over a grab that was reported.     *)
(***************************************************************************)
EXTENDS SonarrTracking, LeastElements, SequenceTheorems, FiniteSetTheorems, TLAPS

Row == [series : Nat, season : Nat, missing : Nat, at : Nat, outcome : Outcomes]

EpisodesOf(S) == {g.episode : g \in S}

(* What the database holds.                                                *)
StoreInv ==
  /\ now \in Nat /\ rows \in Seq(Row)
  /\ owner \in [DOMAIN owner -> DOMAIN rows] /\ DOMAIN owner \subseteq history
  /\ history \subseteq Grabs /\ IsFiniteSet(history)
  /\ CreditFits

(* A decided write w is still right when its turn comes.                   *)
WriteInv(w) ==
  /\ w.row \in DOMAIN rows /\ Pending(w.row)
  /\ w.grabs \subseteq history /\ w.grabs \cap DOMAIN owner = {}
  /\ \A g \in w.grabs :
       /\ Fits(g, w.row)
       /\ \A r \in DOMAIN rows : Pending(r) /\ Fits(g, r) =>
            rows[w.row].at >= rows[r].at
  /\ w.outcome \in Outcomes
  /\ w.found = Credited(w.outcome, Cardinality(EpisodesOf(w.grabs \cup OwnedBy(w.row))))
  /\ VerdictOf(w.outcome) = "found" => w.grabs \cup OwnedBy(w.row) # {}
  /\ VerdictOf(w.outcome) = "none" => w.grabs \cup OwnedBy(w.row) = {}

(* A check started with every pending row; the rows of the series it has   *)
(* not come to are pending still, and what it writes collides nowhere.     *)
CheckInv ==
  /\ DOMAIN check = DOMAIN Idle
  /\ check.pc # "check" => check.writes = {}
  /\ check.pc = "check" =>
       /\ check.entries \subseteq DOMAIN rows
       /\ check.groups \subseteq {rows[r].series : r \in check.entries}
       /\ \A r \in check.entries : rows[r].series \in check.groups => Pending(r)
       /\ \A r \in DOMAIN rows : Pending(r) => r \in check.entries
  /\ \A w \in check.writes : WriteInv(w) /\ rows[w.row].series \notin check.groups
  /\ \A w, x \in check.writes :
       x = w \/ (x.row # w.row /\ x.grabs \cap w.grabs = {})

TrackingInv == StoreInv /\ CheckInv

LEMMA TrackingInit == Init => TrackingInv
<1> SUFFICES ASSUME Init PROVE TrackingInv
  OBVIOUS
<1>1. StoreInv
  <2>1. rows \in Seq(Row)
    BY DEF Init
  <2>2. IsFiniteSet(history)
    BY FS_EmptySet DEF Init
  <2>3. QED
    BY <2>1, <2>2 DEF Init, StoreInv, CreditFits
<1>2. CheckInv
  BY DEF Init, CheckInv, Idle
<1>3. QED
  BY <1>1, <1>2 DEF TrackingInv

-----------------------------------------------------------------------------
(* What is decided for a series. *)

(* Two searches are never both first for a grab.                           *)
LEMMA CreditFacts ==
  ASSUME NEW searches, NEW grabs, NEW window,
         \A s \in searches : s.at \in Nat /\ s.id \in Nat,
         NEW s \in searches, NEW g \in Correlate(searches, grabs, window, TRUE)[s]
  PROVE  /\ g \in grabs /\ InWindow(g, s, window)
         /\ g.kind # "broken" /\ g.season = s.season
         /\ \A t \in searches :
              InWindow(g, t, window) /\ g.season = t.season => s.at >= t.at
         /\ \A t \in searches :
              g \in Correlate(searches, grabs, window, TRUE)[t] => t = s
<1> DEFINE m == Matching(g, searches, window, TRUE)
<1>1. g \in grabs /\ s \in m /\ \A t \in m : t = s \/ Precedes(s, t)
  BY DEF Correlate
<1>2. /\ InWindow(g, s, window) /\ g.kind # "broken" /\ g.season = s.season
      /\ \A t \in searches : InWindow(g, t, window) /\ g.season = t.season => t \in m
  BY <1>1 DEF Matching
<1>3. \A t \in m : s.at >= t.at
  BY <1>1 DEF Precedes, Matching
<1>4. ASSUME NEW t \in searches, g \in Correlate(searches, grabs, window, TRUE)[t]
      PROVE  t = s
  <2>1. t \in m /\ \A u \in m : u = t \/ Precedes(t, u)
    BY <1>4 DEF Correlate
  <2>2. t = s \/ (Precedes(s, t) /\ Precedes(t, s))
    BY <1>1, <2>1
  <2>3. QED
    BY <2>2 DEF Precedes
<1>5. QED
  BY <1>1, <1>2, <1>3, <1>4

(* Grabs that are known have finitely many episodes, none only if there is *)
(* none of them.                                                           *)
LEMMA EpisodeCount ==
  ASSUME StoreInv, NEW S \in SUBSET history
  PROVE  /\ Cardinality(EpisodesOf(S)) \in Nat
         /\ Cardinality(EpisodesOf(S)) = 0 <=> S = {}
<1>1. IsFiniteSet(S)
  BY FS_Subset DEF StoreInv
<1>2. IsFiniteSet(EpisodesOf(S))
  <2>1. [g \in S |-> g.episode] \in Surjection(S, EpisodesOf(S))
    BY DEF Surjection, EpisodesOf
  <2>2. QED
    BY <1>1, <2>1, FS_Surjection
<1>3. QED
  BY <1>2, FS_CardinalityType, FS_EmptySet DEF EpisodesOf

(* The verdict and the statistic of an outcome agree with the count.       *)
LEMMA OutcomeFacts ==
  ASSUME NEW current, NEW missing \in Nat, NEW count \in Nat, NEW expired \in BOOLEAN
  PROVE  LET outcome == SonarrOutcome(current, missing, count, expired) IN
         /\ outcome \in (Outcomes \ {"searched"}) \cup {"none"}
         /\ outcome = "unresolved" => count = 0
         /\ outcome \in {"grabbed", "partial_expired"} => count # 0
BY DEF SonarrOutcome, Outcomes

(* What is decided for a series whose rows are all pending.                *)
LEMMA WritesFacts ==
  ASSUME StoreInv, NEW s, NEW I \in SUBSET ToResolve(s), NEW U,
         Group(s) \subseteq DOMAIN rows, \A r \in Group(s) : Pending(r),
         \A r \in DOMAIN rows : Pending(r) => r \in check.entries,
         NEW w \in Writes(s, I, U)
  PROVE  /\ WriteInv(w) /\ rows[w.row].series = s
         /\ \A x \in Writes(s, I, U) :
              x = w \/ (x.row # w.row /\ x.grabs \cap w.grabs = {})
<1> DEFINE trusted == {g \in Candidates(s) : g.kind = "nested"} \cup I
           searches == {SearchOf(r) : r \in Group(s)}
           credit  == Correlate(searches, trusted, Window, TRUE)
           new(r)  == credit[SearchOf(r)]
           count(r)   == Cardinality({g.episode : g \in new(r) \cup OwnedBy(r)})
           expired(r) == check.now > WindowEnd(r)
           outcome(r) ==
             IF Held(r, U) THEN "none"
             ELSE SonarrOutcome(rows[r].outcome, rows[r].missing, count(r), expired(r))
           progress(r) ==
             /\ outcome(r) = "none" /\ new(r) # {}
             /\ Held(r, U) \/ (rows[r].outcome = "partial" /\ ~expired(r))
           settled(r) == [row |-> r, grabs |-> new(r), outcome |-> outcome(r),
                          found |-> Credited(outcome(r), count(r))]
           kept(r) == [row |-> r, grabs |-> new(r), outcome |-> "partial", found |-> 0]
           R == {r \in Group(s) : outcome(r) # "none"}
           P == {r \in Group(s) : progress(r)}
<1>1. Writes(s, I, U) = {settled(r) : r \in R} \cup {kept(r) : r \in P}
  BY DEF Writes
<1>2. \A r \in DOMAIN rows : rows[r] \in Row /\ r \in Nat
  BY ElementOfSeq, LenProperties DEF StoreInv
<1>3. trusted \subseteq history /\ trusted \cap DOMAIN owner = {}
      /\ \A g \in trusted : g.series = s
  BY DEF Candidates, ToResolve
<1>4. \A t \in searches : t.at \in Nat /\ t.id \in Nat
  BY <1>2 DEF SearchOf, Row
<1>5. ASSUME NEW r \in Group(s)
      PROVE  /\ new(r) \subseteq trusted
             /\ \A g \in new(r) :
                  /\ Fits(g, r)
                  /\ \A q \in DOMAIN rows : Pending(q) /\ Fits(g, q) =>
                       rows[r].at >= rows[q].at
                  /\ \A q \in Group(s) : g \in new(q) => q = r
  <2>1. SUFFICES ASSUME NEW g \in new(r)
                 PROVE  /\ g \in trusted /\ Fits(g, r)
                        /\ \A q \in DOMAIN rows : Pending(q) /\ Fits(g, q) =>
                             rows[r].at >= rows[q].at
                        /\ \A q \in Group(s) : g \in new(q) => q = r
    OBVIOUS
  <2>2. SearchOf(r) \in searches
    OBVIOUS
  <2> HIDE DEF searches, trusted
  <2>3. /\ g \in trusted /\ InWindow(g, SearchOf(r), Window)
        /\ g.kind # "broken" /\ g.season = SearchOf(r).season
        /\ \A t \in searches :
             InWindow(g, t, Window) /\ g.season = t.season => SearchOf(r).at >= t.at
        /\ \A t \in searches : g \in credit[t] => t = SearchOf(r)
    BY <1>4, <2>2, CreditFacts
  <2> HIDE DEF credit
  <2>4. rows[r].series = s
    BY DEF Group
  <2>5. Fits(g, r)
    BY <1>3, <2>3, <2>4 DEF Fits, SearchOf
  <2>6. ASSUME NEW q \in DOMAIN rows, Pending(q), Fits(g, q)
        PROVE  rows[r].at >= rows[q].at
    <3>1. q \in Group(s)
      BY <1>3, <2>3, <2>6 DEF Group, Fits
    <3>2. SearchOf(q) \in searches
      BY <3>1 DEF searches
    <3>3. SearchOf(r).at >= SearchOf(q).at
      BY <2>3, <2>6, <3>2 DEF Fits, SearchOf
    <3>4. QED
      BY <3>3 DEF SearchOf
  <2>7. ASSUME NEW q \in Group(s), g \in new(q)
        PROVE  q = r
    <3>1. SearchOf(q) = SearchOf(r)
      BY <2>3, <2>7 DEF searches
    <3>2. QED
      BY <3>1 DEF SearchOf
  <2>8. QED
    BY <2>3, <2>5, <2>6, <2>7
<1> HIDE DEF credit, trusted, searches
<1>6. ASSUME NEW r \in Group(s)
      PROVE  /\ count(r) = Cardinality(EpisodesOf(new(r) \cup OwnedBy(r)))
             /\ count(r) \in Nat /\ (count(r) = 0 <=> new(r) \cup OwnedBy(r) = {})
  <2>1. new(r) \cup OwnedBy(r) \in SUBSET history
    BY <1>3, <1>5 DEF OwnedBy, StoreInv
  <2>2. count(r) = Cardinality(EpisodesOf(new(r) \cup OwnedBy(r)))
    BY DEF EpisodesOf
  <2>3. QED
    BY <2>1, <2>2, EpisodeCount
<1>7. ASSUME NEW r \in Group(s)
      PROVE  /\ outcome(r) \in (Outcomes \ {"searched"}) \cup {"none"}
             /\ outcome(r) = "unresolved" => count(r) = 0
             /\ outcome(r) \in {"grabbed", "partial_expired"} => count(r) # 0
  <2>1. rows[r].missing \in Nat /\ expired(r) \in BOOLEAN
    BY <1>2 DEF Row
  <2>2. count(r) \in Nat
    BY <1>6
  <2> HIDE DEF count, expired
  <2>3. QED
    BY <2>1, <2>2, OutcomeFacts
<1> HIDE DEF new, count, outcome, progress
<1>8. ASSUME NEW r \in R
      PROVE  WriteInv(settled(r))
  <2>1. /\ outcome(r) \in Outcomes
        /\ VerdictOf(outcome(r)) = "found" => count(r) # 0
        /\ VerdictOf(outcome(r)) = "none" => count(r) = 0
    BY <1>7 DEF VerdictOf, Outcomes
  <2>2. r \in DOMAIN rows /\ Pending(r)
    OBVIOUS
  <2>3. new(r) \subseteq history /\ new(r) \cap DOMAIN owner = {}
    BY <1>3, <1>5
  <2>4. QED
    BY <1>5, <1>6, <2>1, <2>2, <2>3 DEF WriteInv
<1>9. ASSUME NEW r \in P
      PROVE  WriteInv(kept(r))
  <2>1. /\ "partial" \in Outcomes /\ VerdictOf("partial") = "open"
        /\ \A n : Credited("partial", n) = 0
    BY DEF VerdictOf, Outcomes, Credited
  <2>2. r \in DOMAIN rows /\ Pending(r)
    OBVIOUS
  <2>3. new(r) \subseteq history /\ new(r) \cap DOMAIN owner = {}
    BY <1>3, <1>5
  <2>4. QED
    BY <1>5, <2>1, <2>2, <2>3 DEF WriteInv
<1>10. R \cap P = {} /\ R \subseteq Group(s) /\ P \subseteq Group(s)
  BY DEF progress
<1>11. \A r, q \in Group(s) : r = q \/ new(r) \cap new(q) = {}
  BY <1>5
<1> HIDE DEF R, P
<1>12. \A x \in Writes(s, I, U) : x.row \in Group(s) /\ x.grabs = new(x.row)
  BY <1>1, <1>10
<1>13. \A x \in Writes(s, I, U) : x.row = w.row => x = w
  BY <1>1, <1>10
<1>14. WriteInv(w) /\ rows[w.row].series = s
  BY <1>1, <1>8, <1>9, <1>12 DEF Group
<1>15. QED
  BY <1>11, <1>12, <1>13, <1>14

(* The next series is one of those that are left.                          *)
LEMMA NextSeriesIsLeft ==
  ASSUME TrackingInv, check.pc = "check", check.groups # {}
  PROVE  NextSeries \in check.groups
<1>1. \A r \in DOMAIN rows : rows[r] \in Row /\ r \in Nat
  BY ElementOfSeq, LenProperties DEF TrackingInv, StoreInv
<1>2. ASSUME NEW s \in check.groups
      PROVE  Group(s) # {} /\ Group(s) \in SUBSET Nat /\ Urgency(s) \in Nat
  <2>1. Group(s) # {} /\ Group(s) \subseteq DOMAIN rows
    BY <1>2 DEF TrackingInv, CheckInv, Group
  <2> DEFINE E == {WindowEnd(r) : r \in Group(s)}
  <2>2. \A r \in Group(s) : WindowEnd(r) \in Nat
    BY <1>1, <2>1, LimitsAssumption DEF WindowEnd, Row
  <2>3. E # {} /\ E \in SUBSET Nat
    BY <2>1, <2>2
  <2>4. Min(E) \in Nat
    BY <2>3, MinIsLeast
  <2>5. QED
    BY <1>1, <2>1, <2>4 DEF Urgency
<1> DEFINE Ends == {Urgency(s) : s \in check.groups}
<1>3. PICK u \in Ends : \A v \in Ends : u <= v
  <2>1. Ends # {} /\ Ends \in SUBSET Nat
    BY <1>2
  <2> HIDE DEF Ends
  <2>2. QED
    BY <2>1, LeastExists
<1> DEFINE First  == {s \in check.groups : Urgency(s) = u}
           Oldest == {Min(Group(s)) : s \in First}
<1>4. \A s \in check.groups : Min(Group(s)) \in Nat
  BY <1>2, MinIsLeast
<1>5. PICK m \in Oldest : \A n \in Oldest : m <= n
  <2>1. Oldest # {} /\ Oldest \in SUBSET Nat
    BY <1>3, <1>4
  <2> HIDE DEF Oldest
  <2>2. QED
    BY <2>1, LeastExists
<1>6. PICK s \in First : Min(Group(s)) = m
  OBVIOUS
<1>7. ASSUME NEW t \in check.groups
      PROVE  \/ Urgency(s) < Urgency(t)
             \/ Urgency(s) = Urgency(t) /\ Min(Group(s)) <= Min(Group(t))
  <2>1. Urgency(s) <= Urgency(t) /\ Urgency(s) \in Nat /\ Urgency(t) \in Nat
    BY <1>2, <1>3, <1>6
  <2>2. CASE Urgency(s) = Urgency(t)
    <3>1. t \in First
      BY <1>6, <2>2
    <3>2. QED
      BY <1>5, <1>6, <2>2, <3>1
  <2>3. QED
    BY <2>1, <2>2
<1>8. QED
  BY <1>6, <1>7 DEF NextSeries

-----------------------------------------------------------------------------
(* Every step keeps the invariant. *)

(* Steps that leave database and history alone.                            *)
LEMMA StoreKept ==
  ASSUME TrackingInv, UNCHANGED <<rows, owner, history>>, now' \in {now, now + 1},
         CheckInv'
  PROVE  TrackingInv'
BY DEF TrackingInv, StoreInv, CreditFits, Fits, SearchOf

LEMMA StartCheckStep ==
  ASSUME TrackingInv, StartCheck
  PROVE  TrackingInv'
<1>1. CheckInv'
  BY DEF StartCheck, CheckInv, Idle, Pending
<1>2. QED
  BY <1>1, StoreKept DEF StartCheck

(* A check that drops a series or ends.                                    *)
LEMMA FewerSeries ==
  ASSUME TrackingInv, UNCHANGED <<now, rows, owner, history>>,
         DOMAIN check' = DOMAIN Idle,
         check'.groups \subseteq check.groups, check'.writes = {},
         check'.pc = "check" => check.pc = "check" /\ check'.entries = check.entries
  PROVE  TrackingInv'
<1>1. CheckInv'
  BY DEF TrackingInv, CheckInv, Pending
<1>2. QED
  BY <1>1, StoreKept

LEMMA ReadSeriesStep ==
  ASSUME TrackingInv, ReadGroup
  PROVE  TrackingInv'
<1> DEFINE s == NextSeries
<1>1. PICK I, U :
        /\ I \in SUBSET ToResolve(s)
        /\ DOMAIN check' = DOMAIN Idle /\ check'.pc = "check"
        /\ check'.entries = check.entries /\ check'.groups = check.groups \ {s}
        /\ check'.writes = Writes(s, I, U)
  <2>1. PICK lists, lookups, open, refused, unidentified :
          ReadSeries(lists, lookups, open, refused, unidentified)
    BY DEF ReadGroup, NothingToResolve, ListNotAsked, ListFails, ListAnswers
  <2> DEFINE I == ToResolve(s) \ (refused \cup unidentified)
             W == Writes(s, I, unidentified)
  <2>2. check' = [check EXCEPT
          !.groups = @ \ {s}, !.lists = lists, !.lookups = lookups, !.open = open,
          !.heard = {g \in history : g.series = s} \ refused, !.writes = W]
    BY <2>1 DEF ReadSeries
  <2> HIDE DEF W, s
  <2>3. /\ DOMAIN check' = DOMAIN Idle /\ check'.pc = check.pc
        /\ check'.entries = check.entries /\ check'.groups = check.groups \ {s}
        /\ check'.writes = W
    BY <2>2 DEF TrackingInv, CheckInv, Idle
  <2>4. QED
    BY <2>3 DEF ReadGroup, W
<1>2. UNCHANGED <<now, rows, owner, history>> /\ check.pc = "check" /\ s \in check.groups
  BY NextSeriesIsLeft DEF ReadGroup
<1> HIDE DEF s
<1>3. /\ Group(s) \subseteq DOMAIN rows /\ \A r \in Group(s) : Pending(r)
      /\ \A r \in DOMAIN rows : Pending(r) => r \in check.entries
  BY <1>2 DEF TrackingInv, CheckInv, Group
<1>4. \A w \in check'.writes :
        /\ WriteInv(w) /\ rows[w.row].series = s
        /\ \A x \in check'.writes :
             x = w \/ (x.row # w.row /\ x.grabs \cap w.grabs = {})
  BY <1>1, <1>3, WritesFacts DEF TrackingInv
<1>5. \A w \in check'.writes : WriteInv(w)'
  BY <1>2, <1>4 DEF WriteInv, Pending, Fits, SearchOf, OwnedBy
<1>6. CheckInv'
  BY <1>1, <1>2, <1>4, <1>5 DEF TrackingInv, CheckInv, Pending
<1>7. QED
  BY <1>2, <1>6, StoreKept

(* A write that is done; the grabs it credits, if they are not owned.      *)
Credits(w) ==
  /\ w \in check.writes /\ w.grabs \cap DOMAIN owner = {}
  /\ rows' = [rows EXCEPT ![w.row].outcome = w.outcome]
  /\ owner' = [g \in DOMAIN owner \cup w.grabs |->
                 IF g \in w.grabs THEN w.row ELSE owner[g]]
  /\ found' = found + w.found

LEMMA WriteRowCredits ==
  ASSUME TrackingInv, WriteRow
  PROVE  \E w \in check.writes :
           /\ Credits(w)
           /\ DOMAIN check' = DOMAIN Idle /\ check'.pc = check.pc
           /\ check'.entries = check.entries /\ check'.groups = check.groups
           /\ check'.writes = check.writes \ {w}
<1>1. PICK w \in check.writes :
        /\ check' = [check EXCEPT
             !.writes = @ \ {w}, !.heard = IF check.writes = {w} THEN {} ELSE @]
        /\ IF w.grabs \cap DOMAIN owner # {}
           THEN UNCHANGED <<rows, owner, found>>
           ELSE /\ rows' = [rows EXCEPT ![w.row].outcome = w.outcome]
                /\ owner' = [g \in DOMAIN owner \cup w.grabs |->
                               IF g \in w.grabs THEN w.row ELSE owner[g]]
                /\ found' = found + w.found
  BY DEF WriteRow
<1>2. w.grabs \cap DOMAIN owner = {}
  BY DEF TrackingInv, CheckInv, WriteInv
<1>3. /\ DOMAIN check' = DOMAIN Idle /\ check'.pc = check.pc
      /\ check'.entries = check.entries /\ check'.groups = check.groups
      /\ check'.writes = check.writes \ {w}
  BY <1>1 DEF TrackingInv, CheckInv, Idle
<1>4. QED
  BY <1>1, <1>2, <1>3 DEF Credits

(* What a write changes of the rows and the owners.                        *)
LEMMA CreditsFacts ==
  ASSUME TrackingInv, NEW w, Credits(w)
  PROVE  /\ rows' \in Seq(Row) /\ Len(rows') = Len(rows) /\ DOMAIN rows' = DOMAIN rows
         /\ rows'[w.row].outcome = w.outcome
         /\ \A r \in DOMAIN rows :
              /\ SearchOf(r)' = SearchOf(r) /\ rows'[r].series = rows[r].series
              /\ r # w.row => rows'[r] = rows[r]
              /\ Pending(r)' => Pending(r)
              /\ OwnedBy(r)' = IF r = w.row THEN OwnedBy(r) \cup w.grabs ELSE OwnedBy(r)
<1>1. w.row \in DOMAIN rows /\ Pending(w.row) /\ w.outcome \in Outcomes
      /\ w.grabs \cap DOMAIN owner = {}
  BY DEF Credits, TrackingInv, CheckInv, WriteInv
<1>2. /\ rows \in Seq(Row) /\ DOMAIN rows = 1..Len(rows) /\ Len(rows) \in Nat
      /\ \A r \in DOMAIN rows : rows[r] \in Row
  BY ElementOfSeq, LenProperties DEF TrackingInv, StoreInv
<1> DEFINE e == [rows[w.row] EXCEPT !.outcome = w.outcome]
<1>3. rows' = [rows EXCEPT ![w.row] = e]
  BY DEF Credits
<1>4. /\ e \in Row /\ e.outcome = w.outcome
      /\ e.series = rows[w.row].series /\ e.season = rows[w.row].season
      /\ e.at = rows[w.row].at
  BY <1>1, <1>2 DEF Row
<1> HIDE DEF e
<1>5. rows' \in Seq(Row) /\ Len(rows') = Len(rows) /\ DOMAIN rows' = DOMAIN rows
  BY <1>1, <1>2, <1>3, <1>4, ExceptSeq, LenProperties
<1>6. \A r \in DOMAIN rows : rows'[r] = IF r = w.row THEN e ELSE rows[r]
  BY <1>2, <1>3
<1>7. \A r \in DOMAIN rows :
        OwnedBy(r)' = IF r = w.row THEN OwnedBy(r) \cup w.grabs ELSE OwnedBy(r)
  BY <1>1 DEF Credits, OwnedBy
<1>8. QED
  BY <1>1, <1>4, <1>5, <1>6, <1>7 DEF SearchOf, Pending

LEMMA WriteRowStep ==
  ASSUME TrackingInv, WriteRow
  PROVE  TrackingInv'
<1>1. PICK w \in check.writes :
        /\ Credits(w)
        /\ DOMAIN check' = DOMAIN Idle /\ check'.pc = check.pc
        /\ check'.entries = check.entries /\ check'.groups = check.groups
        /\ check'.writes = check.writes \ {w}
  BY WriteRowCredits
<1>2. /\ WriteInv(w) /\ rows[w.row].series \notin check.groups
      /\ UNCHANGED <<now, history>> /\ check.pc = "check"
  BY DEF TrackingInv, CheckInv, WriteRow
<1>3. /\ rows' \in Seq(Row) /\ DOMAIN rows' = DOMAIN rows
      /\ \A r \in DOMAIN rows :
           /\ SearchOf(r)' = SearchOf(r) /\ rows'[r].series = rows[r].series
           /\ r # w.row => rows'[r] = rows[r]
           /\ Pending(r)' => Pending(r)
           /\ OwnedBy(r)' = IF r = w.row THEN OwnedBy(r) \cup w.grabs ELSE OwnedBy(r)
  BY <1>1, CreditsFacts
<1>4. /\ DOMAIN owner' = DOMAIN owner \cup w.grabs
      /\ \A g \in DOMAIN owner' :
           owner'[g] = IF g \in w.grabs THEN w.row ELSE owner[g]
  BY <1>1 DEF Credits
<1>6. ASSUME NEW g, NEW r \in DOMAIN rows
      PROVE  /\ Fits(g, r)' <=> Fits(g, r)
             /\ rows'[r].at = rows[r].at
  BY <1>3 DEF Fits, SearchOf
<1>7. StoreInv'
  <2>1. owner' \in [DOMAIN owner' -> DOMAIN rows'] /\ DOMAIN owner' \subseteq history'
    BY <1>2, <1>3, <1>4, <1>1 DEF Credits, TrackingInv, StoreInv, WriteInv
  <2>2. CreditFits'
    <3>1. ASSUME NEW g \in DOMAIN owner', NEW r, r = owner'[g]
          PROVE  Fits(g, r)'
      <4>1. r \in DOMAIN rows /\ Fits(g, r)
        BY <1>2, <1>4, <2>1, <3>1 DEF TrackingInv, StoreInv, CreditFits, WriteInv
      <4>2. QED
        BY <1>6, <4>1
    <3>2. QED
      BY <3>1 DEF CreditFits, Fits, SearchOf
  <2>3. QED
    BY <1>2, <1>3, <2>1, <2>2 DEF TrackingInv, StoreInv
<1>8. CheckInv'
  <2>1. ASSUME NEW x \in check'.writes
        PROVE  WriteInv(x)' /\ rows'[x.row].series \notin check'.groups
    <3>1. /\ x \in check.writes /\ x.row # w.row /\ x.grabs \cap w.grabs = {}
          /\ WriteInv(x) /\ rows[x.row].series \notin check.groups
      BY <1>1 DEF TrackingInv, CheckInv
    <3>2. x.row \in DOMAIN rows' /\ Pending(x.row)'
      BY <1>3, <3>1 DEF WriteInv, Pending
    <3>3. x.grabs \subseteq history' /\ x.grabs \cap DOMAIN owner' = {}
      BY <1>2, <1>4, <3>1 DEF WriteInv
    <3>4. ASSUME NEW g \in x.grabs
          PROVE  /\ Fits(g, x.row)'
                 /\ \A r \in DOMAIN rows' : Pending(r)' /\ Fits(g, r)' =>
                      rows'[x.row].at >= rows'[r].at
      BY <1>3, <1>6, <3>1 DEF WriteInv
    <3>5. OwnedBy(x.row)' = OwnedBy(x.row)
      BY <1>3, <3>1 DEF WriteInv
    <3>6. rows'[x.row].series \notin check'.groups
      BY <1>1, <1>3, <3>1 DEF WriteInv
    <3>7. QED
      BY <3>1, <3>2, <3>3, <3>4, <3>5, <3>6 DEF WriteInv
  <2>2. \A r \in check'.entries : rows'[r].series \in check'.groups => Pending(r)'
    BY <1>1, <1>2, <1>3 DEF TrackingInv, CheckInv, Pending
  <2>3. /\ check'.entries \subseteq DOMAIN rows'
        /\ check'.groups \subseteq {rows'[r].series : r \in check'.entries}
        /\ \A r \in DOMAIN rows' : Pending(r)' => r \in check'.entries
    BY <1>1, <1>2, <1>3 DEF TrackingInv, CheckInv
  <2>4. \A x, y \in check'.writes :
          y = x \/ (y.row # x.row /\ y.grabs \cap x.grabs = {})
    BY <1>1 DEF TrackingInv, CheckInv
  <2>5. check'.pc = "check"
    BY <1>1, <1>2
  <2>6. QED
    BY <1>1, <2>1, <2>2, <2>3, <2>4, <2>5 DEF CheckInv
<1>9. QED
  BY <1>7, <1>8 DEF TrackingInv

LEMMA GrabStep ==
  ASSUME TrackingInv, Grab
  PROVE  TrackingInv'
<1>1. PICK p \in Packs : history' = history \cup p
  BY DEF Grab
<1>2. history' \subseteq Grabs /\ IsFiniteSet(history') /\ history \subseteq history'
  <2>1. p \subseteq Grabs /\ IsFiniteSet(p)
    BY GrabsAssumption DEF Grabs
  <2>2. QED
    BY <1>1, <2>1, FS_Union DEF TrackingInv, StoreInv
<1>3. UNCHANGED <<now, rows, owner, check>>
  BY DEF Grab
<1>4. StoreInv'
  BY <1>2, <1>3 DEF TrackingInv, StoreInv, CreditFits, Fits, SearchOf
<1>5. \A w \in check.writes : WriteInv(w)'
  BY <1>2, <1>3 DEF TrackingInv, CheckInv, WriteInv, Pending, Fits, SearchOf, OwnedBy
<1>6. CheckInv'
  BY <1>3, <1>5 DEF TrackingInv, CheckInv, Pending
<1>7. QED
  BY <1>4, <1>6 DEF TrackingInv

LEMMA SearchStep ==
  ASSUME TrackingInv, Search
  PROVE  /\ TrackingInv'
         /\ rows' \in Seq(Row) /\ Len(rows') = Len(rows) + 1
         /\ \A r \in DOMAIN rows : rows'[r] = rows[r]
         /\ rows'[Len(rows) + 1].outcome = "searched"
<1>1. PICK t \in Targets :
        rows' = Append(rows, [series |-> t.series, season |-> t.season,
                              missing |-> t.missing, at |-> now,
                              outcome |-> "searched"])
  BY DEF Search
<1> DEFINE row == [series |-> t.series, season |-> t.season, missing |-> t.missing,
                   at |-> now, outcome |-> "searched"]
<1>2. row \in Row /\ row.outcome = "searched"
  BY TargetsAssumption DEF TrackingInv, StoreInv, Row, Outcomes
<1> HIDE DEF row
<1>3. /\ rows \in Seq(Row) /\ DOMAIN rows = 1..Len(rows) /\ Len(rows) \in Nat
      /\ rows' = Append(rows, row)
  BY <1>1, LenProperties DEF TrackingInv, StoreInv, row
<1>4. /\ rows' \in Seq(Row) /\ Len(rows') = Len(rows) + 1
      /\ \A r \in DOMAIN rows : rows'[r] = rows[r]
      /\ rows'[Len(rows) + 1] = row
  BY <1>2, <1>3, AppendProperties
<1>5. DOMAIN rows' = 1..Len(rows) + 1
  BY <1>4, LenProperties
<1>6. UNCHANGED <<now, owner, history, check>> /\ check.pc = "idle" /\ check.writes = {}
  BY DEF Search, TrackingInv, CheckInv
<1>7. StoreInv'
  <2>1. owner' \in [DOMAIN owner' -> DOMAIN rows']
    BY <1>3, <1>5, <1>6 DEF TrackingInv, StoreInv
  <2>2. CreditFits'
    BY <1>4, <1>6 DEF TrackingInv, StoreInv, CreditFits, Fits, SearchOf
  <2>3. QED
    BY <1>4, <1>6, <2>1, <2>2 DEF TrackingInv, StoreInv
<1>8. CheckInv'
  BY <1>6 DEF TrackingInv, CheckInv
<1>9. QED
  BY <1>2, <1>4, <1>7, <1>8 DEF TrackingInv

LEMMA TrackingNext == TrackingInv /\ [Next]_vars => TrackingInv'
<1> SUFFICES ASSUME TrackingInv, [Next]_vars PROVE TrackingInv'
  OBVIOUS
<1>1. CASE Tick \/ UNCHANGED vars
  <2>1. UNCHANGED <<rows, owner, history, check>> /\ now' \in {now, now + 1}
    BY <1>1 DEF Tick, vars
  <2>2. ASSUME NEW w \in check.writes
        PROVE  WriteInv(w)'
    <3>1. WriteInv(w)
      BY DEF TrackingInv, CheckInv
    <3>2. \A r : /\ Pending(r)' <=> Pending(r)
                 /\ OwnedBy(r)' = OwnedBy(r)
                 /\ \A g : Fits(g, r)' <=> Fits(g, r)
      BY <2>1 DEF Pending, OwnedBy, Fits, SearchOf
    <3>3. QED
      BY <2>1, <3>1, <3>2 DEF WriteInv
  <2>3. CheckInv'
    BY <2>1, <2>2 DEF TrackingInv, CheckInv, Pending
  <2>4. QED
    BY <2>1, <2>3, StoreKept
<1>2. CASE Grab
  BY <1>2, GrabStep
<1>3. CASE Search
  BY <1>3, SearchStep
<1>4. CASE StartCheck
  BY <1>4, StartCheckStep
<1>5. CASE ReadGroup
  BY <1>5, ReadSeriesStep
<1>6. CASE WriteRow
  BY <1>6, WriteRowStep
<1>7. CASE HistoryFails
  <2>1. /\ DOMAIN check' = DOMAIN Idle /\ check'.pc = check.pc
        /\ check'.entries = check.entries /\ check'.groups \subseteq check.groups
        /\ check'.writes = {}
    BY <1>7 DEF HistoryFails, TrackingInv, CheckInv, Idle
  <2>2. QED
    BY <1>7, <2>1, FewerSeries DEF HistoryFails
<1>8. CASE EndCheck \/ Abort
  <2>1. check' = Idle /\ UNCHANGED <<now, rows, owner, history>>
    BY <1>8 DEF EndCheck, Abort
  <2>2. CheckInv'
    BY <2>1 DEF CheckInv, Idle
  <2>3. QED
    BY <2>1, <2>2, StoreKept
<1>9. QED
  BY <1>1, <1>2, <1>3, <1>4, <1>5, <1>6, <1>7, <1>8 DEF Next, Work

LEMMA TrackingHolds == Spec => []TrackingInv
<1>1. QED
  BY TrackingInit, TrackingNext, PTL DEF Spec

-----------------------------------------------------------------------------

(* correlate_grabs credits a grab to a search of its series and season     *)
(* whose window it lies in, and a later check, whatever failed between,    *)
(* credits no other.                                                       *)
THEOREM CreditsAreFit == Spec => []CreditFits
<1>1. TrackingInv => CreditFits
  BY DEF TrackingInv, StoreInv
<1>2. QED
  BY <1>1, TrackingHolds, PTL

(* The unique grab of grab_ownership never undoes a transaction: credited  *)
(* grabs were left out when the writes were decided, and no two writes     *)
(* share one.                                                              *)
THEOREM WritesNeverCollide == Spec => []NoCollision
<1>1. TrackingInv => NoCollision
  BY DEF TrackingInv, CheckInv, WriteInv, NoCollision
<1>2. QED
  BY <1>1, TrackingHolds, PTL

(* Owners change when a row is written and then only.                      *)
LEMMA OnlyWritesCredit ==
  ASSUME [Next]_vars
  PROVE  WriteRow \/ UNCHANGED owner
BY DEF Next, Work, Tick, Grab, Search, StartCheck, ReadGroup, EndCheck,
       HistoryFails, Abort, vars

(* What is credited to a search goes to no older one than the newest       *)
(* pending search it fits.                                                 *)
LEMMA NewestStep ==
  ASSUME TrackingInv, [Next]_vars,
         NEW g \in DOMAIN owner' \ DOMAIN owner, NEW r \in DOMAIN rows,
         Pending(r), Fits(g, r)
  PROVE  rows[owner'[g]].at >= rows[r].at
<1>1. PICK w \in check.writes : Credits(w)
  BY OnlyWritesCredit, WriteRowCredits
<1>2. g \in w.grabs /\ owner'[g] = w.row
  BY <1>1 DEF Credits
<1>3. WriteInv(w)
  BY DEF TrackingInv, CheckInv
<1>4. QED
  BY <1>2, <1>3 DEF WriteInv

(* correlate_grabs goes through the searches newest first, over all the    *)
(* searches pending when the check began: a grab that fits several of them *)
(* is credited to none but the newest.                                     *)
THEOREM NewestGetsTheCredit == Spec => NewestIsCredited
<1>1. TrackingInv /\ [Next]_vars =>
        [\A g \in DOMAIN owner' \ DOMAIN owner, r \in DOMAIN rows :
           Pending(r) /\ Fits(g, r) => rows[owner'[g]].at >= rows[r].at]_vars
  BY NewestStep
<1>2. QED
  BY <1>1, TrackingHolds, PTL DEF Spec, NewestIsCredited

-----------------------------------------------------------------------------
(* The tracker implements GrabCredit. *)

VerdictsOf(t) == [r \in DOMAIN t |-> VerdictOf(t[r].outcome)]

Verdicts == VerdictsOf(rows)

LEMMA VerdictsType ==
  ASSUME NEW t \in Seq(Row)
  PROVE  VerdictsOf(t) \in Seq({"open", "found", "none"}) /\ Len(VerdictsOf(t)) = Len(t)
<1>1. /\ DOMAIN t = 1..Len(t) /\ Len(t) \in Nat
      /\ \A r \in DOMAIN t : t[r] \in Row
  BY ElementOfSeq, LenProperties
<1>2. \A r \in DOMAIN t : VerdictOf(t[r].outcome) \in {"open", "found", "none"}
  BY <1>1 DEF VerdictOf, Row, Outcomes
<1>3. VerdictsOf(t) \in [1..Len(t) -> {"open", "found", "none"}]
  BY <1>1, <1>2 DEF VerdictsOf
<1>4. QED
  BY <1>1, <1>3

LEMMA CreditInit == Init => Credit!Init
<1>1. ASSUME Init
      PROVE  Verdicts = <<>>
  BY <1>1 DEF Init, Verdicts, VerdictsOf
<1>2. QED
  BY <1>1 DEF Init, Credit!Init, Verdicts, VerdictsOf

(* A search that is recorded is an open one.                               *)
LEMMA SearchOpens ==
  ASSUME TrackingInv, Search
  PROVE  Credit!Open
<1> DEFINE V == {"open", "found", "none"}
<1>1. /\ StoreInv' /\ rows' \in Seq(Row) /\ Len(rows') = Len(rows) + 1
      /\ \A r \in DOMAIN rows : rows'[r] = rows[r]
      /\ rows'[Len(rows) + 1].outcome = "searched"
  BY SearchStep DEF TrackingInv
<1>2. Verdicts \in Seq(V) /\ Len(Verdicts) = Len(rows)
  BY VerdictsType DEF TrackingInv, StoreInv, Verdicts
<1>3. Verdicts' \in Seq(V) /\ Len(Verdicts') = Len(rows')
  BY <1>1, VerdictsType DEF Verdicts
<1>4. /\ DOMAIN rows = 1..Len(rows) /\ DOMAIN rows' = 1..Len(rows) + 1
      /\ Len(rows) \in Nat
  BY <1>1, LenProperties DEF TrackingInv, StoreInv
<1>5. /\ Append(Verdicts, "open") \in Seq(V)
      /\ Len(Append(Verdicts, "open")) = Len(rows) + 1
      /\ \A r \in 1..Len(rows) : Append(Verdicts, "open")[r] = Verdicts[r]
      /\ Append(Verdicts, "open")[Len(rows) + 1] = "open"
  BY <1>2, AppendProperties
<1>6. \A r \in 1..Len(rows) + 1 : Verdicts'[r] = Append(Verdicts, "open")[r]
  <2>1. \A r \in 1..Len(rows) : Verdicts'[r] = Verdicts[r]
    BY <1>1, <1>4 DEF Verdicts, VerdictsOf
  <2>2. Verdicts'[Len(rows) + 1] = "open"
    BY <1>1, <1>4 DEF Verdicts, VerdictsOf, VerdictOf
  <2>3. QED
    BY <1>4, <1>5, <2>1, <2>2
<1>7. Verdicts' = Append(Verdicts, "open")
  BY <1>1, <1>3, <1>4, <1>5, <1>6, SeqEqual
<1>8. UNCHANGED <<owner, found>>
  BY DEF Search
<1>9. QED
  BY <1>7, <1>8 DEF Credit!Open, Verdicts, VerdictsOf

(* GrabCredit counts as this module does.                                  *)
LEMMA SameCardinality == \A S : Credit!Cardinality(S) = Cardinality(S)
BY DEF Credit!Cardinality, Cardinality

(* A row that is written is credited, and settled or not.                  *)
LEMMA WriteCredits ==
  ASSUME TrackingInv, NEW w, Credits(w)
  PROVE  Credit!Credit(w.row, VerdictOf(w.outcome))
<1>1. WriteInv(w) /\ w.row \in DOMAIN rows
  BY DEF Credits, TrackingInv, CheckInv, WriteInv
<1>2. /\ DOMAIN rows' = DOMAIN rows /\ rows'[w.row].outcome = w.outcome
      /\ \A r \in DOMAIN rows : r # w.row => rows'[r] = rows[r]
      /\ OwnedBy(w.row)' = OwnedBy(w.row) \cup w.grabs
  BY <1>1, CreditsFacts
<1>3. Verdicts[w.row] = "open"
  BY <1>1 DEF WriteInv, Pending, Verdicts, VerdictsOf, VerdictOf
<1>4. Verdicts' = [Verdicts EXCEPT ![w.row] = VerdictOf(w.outcome)]
  BY <1>1, <1>2 DEF Verdicts, VerdictsOf
<1>5. /\ DOMAIN owner' = DOMAIN owner \cup w.grabs /\ DOMAIN owner' \subseteq Grabs
      /\ \A g \in DOMAIN owner' :
           owner'[g] = IF g \in DOMAIN owner THEN owner[g] ELSE w.row
  BY <1>1 DEF Credits, WriteInv, TrackingInv, StoreInv
<1>6. /\ VerdictOf(w.outcome) = "found" => OwnedBy(w.row)' # {}
      /\ VerdictOf(w.outcome) = "none" => OwnedBy(w.row)' = {}
  BY <1>1, <1>2 DEF WriteInv
<1>7. w.found = IF VerdictOf(w.outcome) = "found"
                THEN Cardinality(EpisodesOf(OwnedBy(w.row)')) ELSE 0
  <2>1. VerdictOf(w.outcome) = "found" <=> w.outcome \in {"grabbed", "partial_expired"}
    BY <1>1 DEF WriteInv, Outcomes, VerdictOf
  <2>2. w.grabs \cup OwnedBy(w.row) = OwnedBy(w.row)'
    BY <1>2
  <2>3. QED
    BY <1>1, <2>1, <2>2 DEF WriteInv, Credited
<1>8. found' = found + w.found
  BY DEF Credits
<1>9. Credit!CreditOf(w.row)' = OwnedBy(w.row)'
  BY DEF Credit!CreditOf, OwnedBy
<1>10. Credit!EpisodesOf(w.row)' = EpisodesOf(OwnedBy(w.row)')
  BY <1>9 DEF Credit!EpisodesOf, EpisodesOf
<1> DEFINE v == VerdictOf(w.outcome)
<1>11. /\ v = "found" => Credit!CreditOf(w.row)' # {}
       /\ v = "none" => Credit!CreditOf(w.row)' = {}
  BY <1>6, <1>9
<1>12. found' = found + IF v = "found"
                        THEN Credit!Cardinality(Credit!EpisodesOf(w.row)') ELSE 0
  BY <1>7, <1>8, <1>10, SameCardinality
<1> HIDE DEF v
<1>13. /\ Verdicts[w.row] = "open" /\ Verdicts' = [Verdicts EXCEPT ![w.row] = v]
  BY <1>3, <1>4 DEF v
<1>14. Credit!Credit(w.row, v)
  BY <1>5, <1>11, <1>12, <1>13 DEF Credit!Credit, Verdicts, VerdictsOf
<1>15. QED
  BY <1>14 DEF v

LEMMA CreditStep ==
  ASSUME TrackingInv, [Next]_vars
  PROVE  [Credit!Next]_(Credit!vars)
<1>1. CASE Search
  BY <1>1, SearchOpens DEF Credit!Next
<1>2. CASE WriteRow
  <2>1. PICK w \in check.writes : Credits(w)
    BY <1>2, WriteRowCredits
  <2>2. /\ Credit!Credit(w.row, VerdictOf(w.outcome))
        /\ w.row \in DOMAIN Verdicts
        /\ VerdictOf(w.outcome) \in {"open", "found", "none"}
    BY <2>1, WriteCredits DEF TrackingInv, CheckInv, WriteInv, Verdicts, VerdictsOf,
                            VerdictOf, Outcomes
  <2>3. QED
    BY <2>2 DEF Credit!Next, Verdicts, VerdictsOf
<1>3. CASE ~Search /\ ~WriteRow
  <2>1. UNCHANGED <<rows, owner, found>>
    BY <1>3 DEF Next, Work, Tick, Grab, StartCheck, ReadGroup, EndCheck,
                HistoryFails, Abort, vars
  <2>2. QED
    BY <2>1 DEF Credit!vars
<1>4. QED
  BY <1>1, <1>2, <1>3

(* update_outcome_and_stats, whatever is polled, lost or refused before it *)
(* and wherever a check ends, does what GrabCredit promises: one search    *)
(* per grab, one verdict per search, and a statistic that grows by the     *)
(* episodes of a search when it is found to have succeeded.                *)
THEOREM TrackingImplementsCredit == Spec => CreditsOnce
<1>1. TrackingInv /\ [Next]_vars => [Credit!Next]_(Credit!vars)
  BY CreditStep
<1>2. QED
  BY CreditInit, <1>1, TrackingHolds, PTL DEF Spec, CreditsOnce, Credit!Spec

-----------------------------------------------------------------------------
(* No grab is overlooked.                                                  *)

Settles(w) == w.outcome \notin {"searched", "partial"}

LongOver(g, r) == g.kind = "bare" /\ check.now - WindowEnd(r) > Escalation

(* A grab that had been reported when its series was read, and fits a row  *)
(* that is going to be settled: somebody has it, gets it in this check, or *)
(* may still get it; or it could not be identified and the row is given up.*)
Heeded(g, w) ==
  \/ g \in DOMAIN owner
  \/ \E x \in check.writes : g \in x.grabs
  \/ \E t \in DOMAIN rows : /\ Pending(t) /\ Fits(g, t)
                            /\ \A x \in check.writes : x.row # t
  \/ LongOver(g, w.row)

HeardInv ==
  /\ check.now \in Nat
  /\ \A w \in check.writes, g \in check.heard :
       Settles(w) /\ Fits(g, w.row) => Heeded(g, w)

(* What is decided for a series heeds every grab that was reported and not *)
(* refused.                                                                *)
LEMMA WritesHeed ==
  ASSUME StoreInv, check.now \in Nat, NEW s, NEW refused, NEW U,
         Group(s) \subseteq DOMAIN rows, \A r \in Group(s) : Pending(r),
         NEW w \in Writes(s, ToResolve(s) \ (refused \cup U), U), Settles(w),
         NEW g \in history, g.series = s, g \notin refused, Fits(g, w.row)
  PROVE  \/ g \in DOMAIN owner
         \/ \E x \in Writes(s, ToResolve(s) \ (refused \cup U), U) : g \in x.grabs
         \/ \E t \in DOMAIN rows :
              /\ Pending(t) /\ Fits(g, t)
              /\ \A x \in Writes(s, ToResolve(s) \ (refused \cup U), U) : x.row # t
         \/ LongOver(g, w.row)
<1> DEFINE I == ToResolve(s) \ (refused \cup U)
           trusted == {h \in Candidates(s) : h.kind = "nested"} \cup I
           searches == {SearchOf(r) : r \in Group(s)}
           credit  == Correlate(searches, trusted, Window, TRUE)
           new(r)  == credit[SearchOf(r)]
           count(r)   == Cardinality({h.episode : h \in new(r) \cup OwnedBy(r)})
           expired(r) == check.now > WindowEnd(r)
           outcome(r) ==
             IF Held(r, U) THEN "none"
             ELSE SonarrOutcome(rows[r].outcome, rows[r].missing, count(r), expired(r))
           progress(r) ==
             /\ outcome(r) = "none" /\ new(r) # {}
             /\ Held(r, U) \/ (rows[r].outcome = "partial" /\ ~expired(r))
           settled(r) == [row |-> r, grabs |-> new(r), outcome |-> outcome(r),
                          found |-> Credited(outcome(r), count(r))]
           kept(r) == [row |-> r, grabs |-> new(r), outcome |-> "partial", found |-> 0]
           R == {r \in Group(s) : outcome(r) # "none"}
           P == {r \in Group(s) : progress(r)}
           W == Writes(s, I, U)
<1>1. W = {settled(r) : r \in R} \cup {kept(r) : r \in P}
  BY DEF Writes
<1>2. \A r \in DOMAIN rows : rows[r] \in Row /\ r \in Nat
  BY ElementOfSeq, LenProperties DEF StoreInv
<1>3. \A t \in searches : t.at \in Nat /\ t.id \in Nat
  BY <1>2 DEF SearchOf, Row
<1>4. \A t, u \in searches : t.id = u.id => t = u
  BY DEF SearchOf
<1>5. w \in W
  OBVIOUS
<1>6. /\ \A x \in W : x.row \in Group(s) /\ x.grabs = new(x.row)
      /\ ~Held(w.row, U)
  <2> HIDE DEF W, credit, count, expired
  <2>1. \A x \in W : x.row \in Group(s) /\ x.grabs = new(x.row)
    <3> HIDE DEF outcome, progress
    <3>1. QED
      BY <1>1
  <2>2. PICK r \in R : w = settled(r)
    <3> HIDE DEF outcome, progress
    <3>1. QED
      BY <1>1, <1>5 DEF Settles
  <2>3. w.row = r /\ ~Held(r, U)
    BY <2>2
  <2>4. QED
    BY <2>1, <2>3
<1> HIDE DEF credit, W
<1>7. CASE g \in trusted
  <2>1. g.at \in Nat \cup {NoDate}
    BY GrabsAssumption DEF StoreInv
  <2>2. SearchOf(w.row) \in Matching(g, searches, Window, TRUE)
    BY <1>5, <1>6 DEF Fits, SearchOf, Matching
  <2> HIDE DEF trusted, searches
  <2>3. PICK t \in searches : g \in credit[t]
    BY <1>3, <1>4, <1>7, <2>1, <2>2, SomebodyIsFirst DEF credit
  <2>4. PICK r \in Group(s) : t = SearchOf(r)
    BY DEF searches
  <2>5. g \in new(r) /\ Pending(r) /\ r \in DOMAIN rows
    BY <2>3, <2>4
  <2>6. Fits(g, r)
    <3>1. g \in Correlate(searches, trusted, Window, TRUE)[t]
      BY <2>3 DEF credit
    <3>2. /\ InWindow(g, t, Window) /\ g.kind # "broken" /\ g.season = t.season
      BY <3>1 DEF Correlate, Matching
    <3>3. QED
      BY <2>4, <3>2 DEF Fits, SearchOf, Group
  <2>7. (\E x \in W : x.row = r) => \E x \in W : g \in x.grabs
    BY <1>6, <2>5
  <2>8. QED
    BY <2>5, <2>6, <2>7 DEF W
<1>8. CASE g \notin trusted
  <2>1. SUFFICES ASSUME g \notin DOMAIN owner PROVE LongOver(g, w.row)
    OBVIOUS
  <2>2. g \in Candidates(s) /\ g.kind \in {"nested", "bare"}
    BY <2>1, GrabsAssumption DEF Candidates, Fits, StoreInv
  <2>3. g.kind = "bare" /\ InWindow(g, SearchOf(w.row), Window)
    BY <1>8, <2>2 DEF Fits
  <2>4. g \in ToResolve(s)
    BY <1>5, <1>6, <2>2, <2>3 DEF ToResolve
  <2>5. g \in U
    BY <1>8, <2>4
  <2>6. ~(check.now - WindowEnd(w.row) <= Escalation)
    BY <1>6, <2>5 DEF Held
  <2>7. WindowEnd(w.row) \in Nat /\ Escalation \in Nat
    BY <1>2, <1>5, <1>6, LimitsAssumption DEF WindowEnd, Row
  <2>8. check.now - WindowEnd(w.row) > Escalation
    BY <2>6, <2>7
  <2>9. QED
    BY <2>3, <2>8 DEF LongOver
<1>9. QED
  BY <1>7, <1>8

(* Nothing is heard of a series before its writes are decided.             *)
LEMMA HeardInit == Init => HeardInv
BY DEF Init, Idle, HeardInv

LEMMA ReadSeriesHeeds ==
  ASSUME TrackingInv, HeardInv, ReadGroup
  PROVE  HeardInv'
<1> DEFINE s == NextSeries
<1>1. PICK refused, U :
        /\ check'.now = check.now
        /\ check'.heard = {g \in history : g.series = s} \ refused
        /\ check'.writes = Writes(s, ToResolve(s) \ (refused \cup U), U)
  <2>1. PICK lists, lookups, open, refused, unidentified :
          ReadSeries(lists, lookups, open, refused, unidentified)
    BY DEF ReadGroup, NothingToResolve, ListNotAsked, ListFails, ListAnswers
  <2> DEFINE W == Writes(s, ToResolve(s) \ (refused \cup unidentified), unidentified)
             H == {g \in history : g.series = s} \ refused
  <2>2. check' = [check EXCEPT
          !.groups = @ \ {s}, !.lists = lists, !.lookups = lookups, !.open = open,
          !.heard = H, !.writes = W]
    BY <2>1 DEF ReadSeries
  <2> HIDE DEF W, H, s
  <2>3. check'.now = check.now /\ check'.heard = H /\ check'.writes = W
    BY <2>2 DEF TrackingInv, CheckInv, Idle
  <2>4. QED
    BY <2>3 DEF W, H
<1>2. UNCHANGED <<now, rows, owner, history>> /\ check.pc = "check" /\ s \in check.groups
  BY NextSeriesIsLeft DEF ReadGroup
<1> HIDE DEF s
<1>3. Group(s) \subseteq DOMAIN rows /\ \A r \in Group(s) : Pending(r)
  BY <1>2 DEF TrackingInv, CheckInv, Group
<1>4. ASSUME NEW w \in check'.writes, NEW g \in check'.heard, Settles(w), Fits(g, w.row)
      PROVE  \/ g \in DOMAIN owner
             \/ \E x \in check'.writes : g \in x.grabs
             \/ \E t \in DOMAIN rows : /\ Pending(t) /\ Fits(g, t)
                                       /\ \A x \in check'.writes : x.row # t
             \/ LongOver(g, w.row)
  BY <1>1, <1>3, <1>4, WritesHeed DEF TrackingInv, HeardInv
<1>5. \A g, r : /\ Fits(g, r)' <=> Fits(g, r)
                /\ Pending(r)' <=> Pending(r)
                /\ LongOver(g, r)' <=> LongOver(g, r)
  BY <1>1, <1>2 DEF Fits, SearchOf, Pending, LongOver, WindowEnd
<1>6. QED
  BY <1>1, <1>2, <1>4, <1>5 DEF HeardInv, Heeded

LEMMA WriteRowHeeds ==
  ASSUME TrackingInv, HeardInv, WriteRow
  PROVE  HeardInv'
<1>1. PICK w \in check.writes : Credits(w) /\ check'.writes = check.writes \ {w}
  BY WriteRowCredits
<1>2. check'.now = check.now /\ check'.heard \subseteq check.heard
  BY DEF WriteRow, TrackingInv, CheckInv, Idle
<1>3. /\ DOMAIN rows' = DOMAIN rows /\ DOMAIN owner' = DOMAIN owner \cup w.grabs
      /\ \A r \in DOMAIN rows :
           /\ SearchOf(r)' = SearchOf(r) /\ rows'[r].series = rows[r].series
           /\ r # w.row => rows'[r] = rows[r]
  BY <1>1, CreditsFacts DEF Credits
<1>4. \A r \in DOMAIN rows : \A g :
        /\ Fits(g, r)' <=> Fits(g, r)
        /\ WindowEnd(r)' = WindowEnd(r)
        /\ LongOver(g, r)' <=> LongOver(g, r)
  BY <1>2, <1>3 DEF Fits, SearchOf, WindowEnd, LongOver
<1>5. ASSUME NEW x \in check'.writes, NEW g \in check'.heard, Settles(x), Fits(g, x.row)'
      PROVE  Heeded(g, x)'
  <2>1. /\ x \in check.writes /\ x.row \in DOMAIN rows
    BY <1>1 DEF TrackingInv, CheckInv, WriteInv
  <2>2. Heeded(g, x)
    BY <1>2, <1>4, <1>5, <2>1 DEF HeardInv
  <2>3. ASSUME NEW t \in DOMAIN rows, Pending(t), Fits(g, t),
               \A y \in check.writes : y.row # t
        PROVE  /\ t \in DOMAIN rows' /\ Pending(t)' /\ Fits(g, t)'
               /\ \A y \in check'.writes : y.row # t
    BY <1>1, <1>3, <1>4, <2>3 DEF Pending
  <2>4. (\E y \in check.writes : g \in y.grabs) =>
          g \in DOMAIN owner' \/ \E y \in check'.writes : g \in y.grabs
    BY <1>1, <1>3
  <2>5. LongOver(g, x.row)' <=> LongOver(g, x.row)
    BY <1>4, <2>1
  <2>6. QED
    BY <1>3, <2>2, <2>3, <2>4, <2>5 DEF Heeded
<1>6. QED
  BY <1>2, <1>5 DEF HeardInv, Settles

LEMMA HeardNext == TrackingInv /\ HeardInv /\ [Next]_vars => HeardInv'
<1> SUFFICES ASSUME TrackingInv, HeardInv, [Next]_vars PROVE HeardInv'
  OBVIOUS
<1>1. CASE ReadGroup
  BY <1>1, ReadSeriesHeeds
<1>2. CASE WriteRow
  BY <1>2, WriteRowHeeds
<1>3. CASE Tick \/ Grab \/ UNCHANGED vars
  <2>1. UNCHANGED <<rows, owner, check>>
    BY <1>3 DEF Tick, Grab, vars
  <2>2. QED
    BY <2>1 DEF HeardInv, Heeded, LongOver, Settles, Fits, SearchOf, Pending, WindowEnd
<1>4. CASE Search
  BY <1>4 DEF Search, HeardInv, TrackingInv, CheckInv
<1>5. CASE StartCheck \/ EndCheck \/ Abort
  <2>1. ASSUME StartCheck
        PROVE  check'.writes = {} /\ check'.now \in Nat
    <3>1. PICK E, G : check' = [Idle EXCEPT !.pc = "check", !.now = now, !.entries = E,
                                           !.groups = G]
      BY <2>1 DEF StartCheck
    <3>2. check'.writes = {} /\ check'.now = now
      BY <3>1 DEF Idle
    <3>3. QED
      BY <3>2 DEF TrackingInv, StoreInv
  <2>2. ASSUME EndCheck \/ Abort
        PROVE  check'.writes = {} /\ check'.now \in Nat
    BY <2>2 DEF EndCheck, Abort, Idle
  <2>3. QED
    BY <1>5, <2>1, <2>2 DEF HeardInv
<1>6. CASE HistoryFails
  <2>1. check'.writes = {} /\ check'.now = check.now
    BY <1>6 DEF HistoryFails, TrackingInv, CheckInv, Idle
  <2>2. QED
    BY <2>1 DEF HeardInv
<1>7. QED
  BY <1>1, <1>2, <1>3, <1>4, <1>5, <1>6 DEF Next, Work

LEMMA OnlyWritesSettle ==
  ASSUME TrackingInv, [Next]_vars, NEW r \in DOMAIN rows, Pending(r), ~Pending(r)'
  PROVE  WriteRow
<1>1. rows' # rows
  BY DEF Pending
<1>2. ~Search
  <2>1. SUFFICES ASSUME Search PROVE FALSE
    OBVIOUS
  <2>2. PICK e : rows' = Append(rows, e)
    BY <2>1 DEF Search
  <2>3. rows \in Seq(Row) /\ DOMAIN rows = 1..Len(rows)
    BY LenProperties DEF TrackingInv, StoreInv
  <2>4. rows'[r] = rows[r]
    BY <2>2, <2>3
  <2>5. QED
    BY <2>4 DEF Pending
<1>3. QED
  BY <1>1, <1>2 DEF Next, Work, Tick, Grab, StartCheck, ReadGroup, EndCheck,
                    HistoryFails, Abort, vars

LEMMA SettledHeeds ==
  ASSUME TrackingInv, HeardInv, [Next]_vars,
         NEW r \in DOMAIN rows, NEW g \in check.heard,
         Pending(r), ~Pending(r)', Fits(g, r)
  PROVE  \/ g \in DOMAIN owner'
         \/ \E t \in DOMAIN rows : Pending(t)' /\ Fits(g, t)
         \/ g.kind = "bare" /\ check.now - WindowEnd(r) > Escalation
<1>1. PICK w \in check.writes : Credits(w) /\ check'.writes = check.writes \ {w}
  BY OnlyWritesSettle, WriteRowCredits
<1>2. /\ DOMAIN owner' = DOMAIN owner \cup w.grabs
      /\ rows'[w.row].outcome = w.outcome
      /\ \A t \in DOMAIN rows : t # w.row => rows'[t] = rows[t]
  BY <1>1, CreditsFacts DEF Credits
<1>3. r = w.row /\ Settles(w)
  BY <1>2 DEF Pending, Settles
<1>4. Heeded(g, w)
  BY <1>3 DEF HeardInv
<1>5. ASSUME NEW x \in check.writes, g \in x.grabs
      PROVE  g \in DOMAIN owner' \/ \E t \in DOMAIN rows : Pending(t)' /\ Fits(g, t)
  <2>1. CASE x = w
    BY <1>2, <1>5, <2>1
  <2>2. CASE x # w
    <3>1. x.row # w.row /\ x.row \in DOMAIN rows /\ Pending(x.row) /\ Fits(g, x.row)
      BY <1>5, <2>2 DEF TrackingInv, CheckInv, WriteInv
    <3>2. Pending(x.row)'
      BY <1>2, <3>1 DEF Pending
    <3>3. QED
      BY <3>1, <3>2
  <2>3. QED
    BY <2>1, <2>2
<1>6. ASSUME NEW t \in DOMAIN rows, Pending(t), \A x \in check.writes : x.row # t
      PROVE  Pending(t)'
  BY <1>1, <1>2, <1>6 DEF Pending
<1>7. QED
  BY <1>2, <1>3, <1>4, <1>5, <1>6 DEF Heeded, LongOver

(* A search is not settled over a grab Sonarr had reported for it: the     *)
(* check leaves out only what somebody has and what it could not identify, *)
(* and while something could not be identified it holds the row back,      *)
(* until _TRANSIENT_ESCALATION_HOURS have passed.                          *)
THEOREM NothingIsOverlooked == Spec => NothingOverlooked
<1>1. TrackingInv /\ HeardInv /\ [Next]_vars =>
        [\A r \in DOMAIN rows, g \in check.heard :
           (Pending(r) /\ ~Pending(r)' /\ Fits(g, r)) =>
             \/ g \in DOMAIN owner'
             \/ \E t \in DOMAIN rows : Pending(t)' /\ Fits(g, t)
             \/ g.kind = "bare" /\ check.now - WindowEnd(r) > Escalation]_vars
  BY SettledHeeds
<1>2. QED
  BY <1>1, TrackingInit, TrackingNext, HeardInit, HeardNext, PTL DEF Spec, NothingOverlooked

-----------------------------------------------------------------------------
(* Types and budgets.                                                      *)

TypedRow ==
  [series : Nat, season : Nat, missing : Nat, at : 0..LastSearch, outcome : Outcomes]

CheckRecord ==
  [pc : {"idle", "check"}, now : 0..MaxTime, entries : SUBSET DOMAIN rows,
   groups : SUBSET Nat, lists : 0..MaxLists, lookups : 0..MaxLookups,
   open : BOOLEAN, writes : SUBSET Write, heard : SUBSET Grabs]

LEMMA TypeInit == Init => TypeOK
<1> SUFFICES ASSUME Init PROVE TypeOK
  OBVIOUS
<1>1. {MaxTime, MaxFaults, MaxLists, MaxLookups} \subseteq Nat
  BY LimitsAssumption
<1>2. rows \in Seq(TypedRow) /\ check = Idle
  BY DEF Init
<1>3. Idle \in CheckRecord
  BY <1>1 DEF Idle, CheckRecord
<1>4. QED
  BY <1>1, <1>2, <1>3 DEF Init, TypeOK, TypedRow, CheckRecord

(* A decided write is of its type: what it counts is a finite number.      *)
LEMMA WritesAreTyped ==
  ASSUME StoreInv, NEW w, WriteInv(w),
         w = [row |-> w.row, grabs |-> w.grabs, outcome |-> w.outcome, found |-> w.found]
  PROVE  w \in Write
<1>1. w.row \in Nat
  BY LenProperties DEF StoreInv, WriteInv
<1>2. w.grabs \in SUBSET Grabs /\ w.outcome \in Outcomes
  BY DEF StoreInv, WriteInv
<1>3. Cardinality(EpisodesOf(w.grabs \cup OwnedBy(w.row))) \in Nat
  <2>1. w.grabs \cup OwnedBy(w.row) \in SUBSET history
    BY DEF StoreInv, WriteInv, OwnedBy
  <2>2. QED
    BY <2>1, EpisodeCount
<1>4. w.found \in Nat
  BY <1>3 DEF WriteInv, Credited
<1>5. QED
  BY <1>1, <1>2, <1>4 DEF Write

LEMMA WritesAreRecords ==
  ASSUME NEW s, NEW I, NEW U, NEW w \in Writes(s, I, U)
  PROVE  w = [row |-> w.row, grabs |-> w.grabs, outcome |-> w.outcome, found |-> w.found]
<1>1. PICK a, b, c, d : w = [row |-> a, grabs |-> b, outcome |-> c, found |-> d]
  BY DEF Writes
<1>2. QED
  BY <1>1

(* What reading a series may do to the check: the budgets are kept.        *)
LEMMA ReadGroupBudgets ==
  ASSUME TrackingInv, TypeOK, ReadGroup
  PROVE  \E lists \in 0..MaxLists, lookups \in 0..MaxLookups, open \in BOOLEAN :
         \E refused, unidentified :
           ReadSeries(lists, lookups, open, refused, unidentified)
<1>1. /\ check.lists \in 0..MaxLists /\ check.lookups \in 0..MaxLookups
      /\ check.open \in BOOLEAN /\ MaxLists \in Nat /\ MaxLookups \in Nat
  BY LimitsAssumption DEF TypeOK
<1>2. CASE NothingToResolve \/ ListNotAsked
  BY <1>1, <1>2 DEF NothingToResolve, ListNotAsked
<1>3. CASE ListFails
  <2>1. check.lists + 1 \in 0..MaxLists
    BY <1>1, <1>3 DEF ListFails, MayAskList
  <2>2. QED
    BY <1>1, <1>3, <2>1 DEF ListFails
<1>4. CASE ListAnswers
  <2> DEFINE grabs == ToResolve(NextSeries)
             of(E) == {g \in grabs : g.episode \in E}
  <2>1. check.lists + 1 \in 0..MaxLists
    BY <1>1, <1>4 DEF ListAnswers, MayAskList
  <2>2. PICK asked \in SUBSET EpisodesOf(grabs), open \in BOOLEAN :
        \E unanswered, gone :
          /\ check.lookups + Cardinality(asked) <= MaxLookups
          /\ ReadSeries(check.lists + 1, check.lookups + Cardinality(asked),
                        open, of(gone), of(unanswered))
    <3>1. PICK asked, unanswered \in SUBSET {g.episode : g \in grabs}, open \in BOOLEAN,
               gone \in SUBSET {g.episode : g \in grabs} :
            /\ check.lookups + Cardinality(asked) <= MaxLookups
            /\ ReadSeries(check.lists + 1, check.lookups + Cardinality(asked),
                          open, of(gone), of(unanswered))
      BY <1>4 DEF ListAnswers
    <3> HIDE DEF of, grabs
    <3>2. QED
      BY <3>1 DEF EpisodesOf
  <2>3. Cardinality(asked) \in Nat
    <3> DEFINE S == {g \in grabs : g.episode \in asked}
    <3>1. S \in SUBSET history
      BY DEF ToResolve, Candidates
    <3>2. EpisodesOf(S) = asked
      BY DEF EpisodesOf
    <3> HIDE DEF S
    <3>3. QED
      BY <3>1, <3>2, EpisodeCount DEF TrackingInv
  <2>4. check.lookups + Cardinality(asked) \in 0..MaxLookups
    BY <1>1, <2>2, <2>3
  <2>5. QED
    BY <2>1, <2>2, <2>4
<1>5. QED
  BY <1>2, <1>3, <1>4 DEF ReadGroup

LEMMA TypeNext == TrackingInv /\ TypeOK /\ [Next]_vars => TypeOK'
<1> SUFFICES ASSUME TrackingInv, TypeOK, [Next]_vars PROVE TypeOK'
  OBVIOUS
<1>1. StoreInv' /\ CheckInv'
  BY TrackingNext DEF TrackingInv
<1>2. rows \in Seq(TypedRow) /\ check \in CheckRecord
  BY DEF TypeOK, TypedRow, CheckRecord
<1>3. \A r \in DOMAIN rows : rows[r] \in TypedRow
  BY <1>2, ElementOfSeq, LenProperties
<1>4. now' \in 0..MaxTime /\ faults' \in 0..MaxFaults
  <2>1. now \in 0..MaxTime /\ faults \in 0..MaxFaults /\ MaxTime \in Nat /\ MaxFaults \in Nat
    BY LimitsAssumption DEF TypeOK
  <2>2. now' = now \/ (now < MaxTime /\ now' = now + 1)
    BY DEF Next, Work, Tick, Grab, Search, StartCheck, ReadGroup, WriteRow, EndCheck,
           HistoryFails, Abort, vars
  <2>3. faults' = faults \/ (faults < MaxFaults /\ faults' = faults + 1)
    BY DEF Next, Work, Tick, Grab, Search, StartCheck, ReadGroup, WriteRow, EndCheck,
           HistoryFails, Abort, vars
  <2>4. QED
    BY <2>1, <2>2, <2>3
<1>5. rows' \in Seq(TypedRow) /\ found' \in Nat /\ DOMAIN rows \subseteq DOMAIN rows'
  <2>1. CASE Search
    <3>1. PICK t \in Targets :
            rows' = Append(rows, [series |-> t.series, season |-> t.season,
                                  missing |-> t.missing, at |-> now,
                                  outcome |-> "searched"])
      BY <2>1 DEF Search
    <3>2. now \in 0..LastSearch
      BY <2>1, LimitsAssumption DEF Search, TypeOK
    <3>3. [series |-> t.series, season |-> t.season, missing |-> t.missing, at |-> now,
           outcome |-> "searched"] \in TypedRow
      BY <3>2, TargetsAssumption DEF TypedRow, Outcomes
    <3>4. DOMAIN rows = 1..Len(rows) /\ DOMAIN rows' = 1..Len(rows') /\ Len(rows) \in Nat
          /\ Len(rows') = Len(rows) + 1 /\ rows' \in Seq(TypedRow)
      BY <1>2, <3>1, <3>3, AppendProperties, LenProperties
    <3>5. QED
      BY <2>1, <3>4 DEF Search, TypeOK
  <2>2. CASE WriteRow
    <3>1. PICK w \in check.writes : Credits(w)
      BY <2>2, WriteRowCredits
    <3>2. w \in Write /\ w.row \in DOMAIN rows
      BY <1>2, <3>1 DEF CheckRecord, TrackingInv, CheckInv, WriteInv
    <3>3. [rows[w.row] EXCEPT !.outcome = w.outcome] \in TypedRow
      BY <1>3, <3>2 DEF Write, TypedRow
    <3>4. rows' = [rows EXCEPT ![w.row] = [rows[w.row] EXCEPT !.outcome = w.outcome]]
      BY <3>1 DEF Credits
    <3>5. rows' \in Seq(TypedRow) /\ DOMAIN rows' = DOMAIN rows
      BY <1>2, <3>2, <3>3, <3>4, ExceptSeq
    <3>6. found' = found + w.found
      BY <3>1 DEF Credits
    <3>7. found \in Nat /\ w.found \in Nat
      BY <3>2 DEF Write, TypeOK
    <3>8. QED
      BY <3>5, <3>6, <3>7
  <2>3. CASE ~Search /\ ~WriteRow
    <3>1. UNCHANGED <<rows, found>>
      BY <2>3 DEF Next, Work, Tick, Grab, StartCheck, ReadGroup, EndCheck,
                  HistoryFails, Abort, vars
    <3>2. QED
      BY <1>2, <3>1 DEF TypeOK
  <2>4. QED
    BY <2>1, <2>2, <2>3
<1>6. check' \in CheckRecord'
  <2>1. CASE UNCHANGED check
    BY <1>2, <1>5, <2>1 DEF CheckRecord
  <2>2. CASE EndCheck \/ Abort
    <3>1. {MaxTime, MaxLists, MaxLookups} \subseteq Nat
      BY LimitsAssumption
    <3>2. check' = Idle
      BY <2>2 DEF EndCheck, Abort
    <3>3. QED
      BY <3>1, <3>2 DEF Idle, CheckRecord
  <2>3. CASE StartCheck
    <3>1. PICK E, G :
            /\ check' = [Idle EXCEPT !.pc = "check", !.now = now, !.entries = E, !.groups = G]
            /\ E \subseteq DOMAIN rows /\ G = {rows[r].series : r \in E}
      BY <2>3 DEF StartCheck
    <3>2. G \subseteq Nat
      BY <1>3, <3>1 DEF TypedRow
    <3>3. now \in 0..MaxTime /\ {MaxTime, MaxLists, MaxLookups} \subseteq Nat
      BY LimitsAssumption DEF TypeOK
    <3>4. E \in SUBSET DOMAIN rows'
      BY <1>5, <3>1
    <3>5. check' = [pc |-> "check", now |-> now, entries |-> E, groups |-> G, lists |-> 0,
                    lookups |-> 0, open |-> FALSE, writes |-> {}, heard |-> {}]
      BY <3>1 DEF Idle
    <3>6. QED
      BY <3>2, <3>3, <3>4, <3>5 DEF CheckRecord
  <2>4. CASE HistoryFails
    <3> DEFINE G == check.groups \ {NextSeries}
    <3>1. check' = [check EXCEPT !.groups = G]
      BY <2>4 DEF HistoryFails
    <3>2. G \in SUBSET Nat
      BY <1>2 DEF CheckRecord
    <3> HIDE DEF G
    <3>3. QED
      BY <1>2, <1>5, <3>1, <3>2 DEF CheckRecord
  <2>5. CASE ReadGroup
    <3>1. PICK lists \in 0..MaxLists, lookups \in 0..MaxLookups, open \in BOOLEAN :
          \E refused, unidentified :
            ReadSeries(lists, lookups, open, refused, unidentified)
      BY <2>5, ReadGroupBudgets
    <3>2. PICK refused, unidentified : ReadSeries(lists, lookups, open, refused, unidentified)
      BY <3>1
    <3> DEFINE G == check.groups \ {NextSeries}
               H == {g \in history : g.series = NextSeries} \ refused
               I == ToResolve(NextSeries) \ (refused \cup unidentified)
               W == Writes(NextSeries, I, unidentified)
    <3>3. check' = [check EXCEPT
            !.groups = G, !.lists = lists, !.lookups = lookups, !.open = open,
            !.heard = H, !.writes = W]
      BY <3>2 DEF ReadSeries
    <3>4. G \in SUBSET Nat /\ H \in SUBSET Grabs
      BY <1>2 DEF CheckRecord, TypeOK
    <3>5. \A w \in W : w = [row |-> w.row, grabs |-> w.grabs, outcome |-> w.outcome,
                            found |-> w.found]
      BY WritesAreRecords
    <3> HIDE DEF G, H, W
    <3>6. check'.writes = W
      BY <1>2, <3>3 DEF CheckRecord
    <3>7. ASSUME NEW w \in W
          PROVE  w \in Write
      <4>1. UNCHANGED <<now, rows, owner, history, found>> /\ WriteInv(w)'
        BY <1>1, <2>5, <3>6 DEF CheckInv, ReadGroup
      <4>2. WriteInv(w)
        BY <4>1 DEF WriteInv, Pending, Fits, SearchOf, OwnedBy
      <4>3. QED
        BY <3>5, <4>2, WritesAreTyped DEF TrackingInv
    <3>8. W \in SUBSET Write
      BY <3>7
    <3>9. QED
      BY <1>2, <1>5, <3>3, <3>4, <3>8 DEF CheckRecord
  <2>6. CASE WriteRow
    <3>1. PICK w \in check.writes, H \in {check.heard, {}} :
            check' = [check EXCEPT !.writes = @ \ {w}, !.heard = H]
      BY <2>6 DEF WriteRow
    <3>2. H \in SUBSET Grabs /\ check.writes \ {w} \in SUBSET Write
      BY <1>2 DEF CheckRecord
    <3>3. QED
      BY <1>2, <1>5, <3>1, <3>2 DEF CheckRecord
  <2>7. QED
    BY <2>1, <2>2, <2>3, <2>4, <2>5, <2>6 DEF Next, Work, Tick, Grab, Search, vars
<1>7. /\ owner' \in [DOMAIN owner' -> DOMAIN rows'] /\ DOMAIN owner' \subseteq Grabs
      /\ history' \subseteq Grabs
  BY <1>1 DEF StoreInv
<1>8. QED
  BY <1>4, <1>5, <1>6, <1>7 DEF TypeOK, TypedRow, CheckRecord

(* The types, and with them the budgets _MAX_SERIES_EPISODE_LISTS_PER_CHECK *)
(* and _MAX_EPISODE_ID_LOOKUPS_PER_CHECK: no check asks Sonarr for more.    *)
THEOREM TypeCorrect == Spec => []TypeOK
<1>1. QED
  BY TrackingInit, TrackingNext, TypeInit, TypeNext, PTL DEF Spec
=============================================================================
