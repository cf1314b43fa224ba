------------------------ MODULE ArrTracking_proofs -------------------------
(***************************************************************************)
(* The bounds and the totals of the search history, for any servers,       *)
(* grabs, names and limits: pending rows are bounded and never pruned, the *)
(* newest verdicts stay, a total counts each search that found something   *)
(* once, and no search is given up over a grab that only it could have.    *)
(***************************************************************************)
EXTENDS ArrTracking, LeastElements, FiniteSetTheorems, TLAPS

-----------------------------------------------------------------------------

RowFields == {"item", "at", "name", "server", "outcome", "grabs"}

(* A table: numbered rows with their fields.                               *)
IsTable(t, last) ==
  /\ last \in Nat /\ DOMAIN t \subseteq 1..last
  /\ \A r \in DOMAIN t : DOMAIN t[r] = RowFields /\ t[r].server \in Servers

LEMMA RowSetsAreFinite ==
  ASSUME NEW t, NEW last, IsTable(t, last), NEW R \in SUBSET DOMAIN t
  PROVE  IsFiniteSet(R) /\ Cardinality(R) \in Nat
<1>1. IsFiniteSet(1..last) /\ R \subseteq 1..last
  BY FS_Interval DEF IsTable
<1>2. QED
  BY <1>1, FS_Subset, FS_CardinalityType

(* Whatever is pruned has its verdict, and of the verdicts after it as     *)
(* many as are kept stay.                                                  *)
LEMMA PrunedIsOld ==
  ASSUME NEW t, NEW last, IsTable(t, last), NEW max \in Nat,
         NEW r \in DOMAIN t, r \notin DOMAIN Pruned(t, max)
  PROVE  /\ ~IsPending(t[r])
         /\ Cardinality({q \in Resolved(Pruned(t, max)) : q > r}) >= max
<1> DEFINE N == Newer(t, r)
           K == {q \in N : Cardinality(Newer(t, q)) < max}
<1>1. ~IsPending(t[r]) /\ ~(Cardinality(N) < max)
  BY DEF Pruned
<1>2. N \subseteq DOMAIN t /\ IsFiniteSet(N) /\ Cardinality(N) \in Nat
  <2>1. N \in SUBSET DOMAIN t
    BY DEF Newer, Resolved
  <2>2. QED
    BY <2>1, RowSetsAreFinite
<1>3. IsFiniteSet(K) /\ Cardinality(K) \in Nat
  <2>1. K \in SUBSET DOMAIN t
    BY <1>2
  <2>2. QED
    BY <2>1, RowSetsAreFinite
<1>4. {q \in Resolved(Pruned(t, max)) : q > r} = K
  BY DEF Pruned, Resolved, Newer
<1>5. SUFFICES ASSUME Cardinality(K) < max
               PROVE  FALSE
  BY <1>1, <1>3, <1>4
<1>6. N \ K # {}
  BY <1>1, <1>5
<1>7. PICK m \in N \ K : \A q \in N \ K : q <= m
  <2>1. N \ K \in SUBSET (1..last) /\ last \in Nat
    BY <1>2 DEF IsTable
  <2>2. QED
    BY <1>6, <2>1, GreatestExists
<1>8. Newer(t, m) \in SUBSET K
  <2>1. SUFFICES ASSUME NEW q \in Newer(t, m)
                 PROVE  q \in K
    OBVIOUS
  <2>2. q \in Nat /\ m \in Nat /\ r \in Nat /\ q > m /\ m > r /\ q \in Resolved(t)
    BY <1>2, <2>1 DEF Newer, Resolved, IsTable
  <2>3. q \in N
    BY <2>2 DEF Newer
  <2>4. QED
    BY <1>7, <2>2, <2>3
<1>9. Cardinality(Newer(t, m)) <= Cardinality(K) /\ Cardinality(Newer(t, m)) \in Nat
  BY <1>3, <1>8, FS_Subset, FS_CardinalityType
<1>10. m \in K
  BY <1>3, <1>5, <1>7, <1>9
<1>11. QED
  BY <1>7, <1>10

-----------------------------------------------------------------------------

(* The rows are a table, and one that was grabbed has its verdict and does *)
(* not lose it.                                                            *)
RowsInv ==
  /\ IsTable(rows, lastId)
  /\ won \subseteq (1..lastId) \X Servers
  /\ \A r \in DOMAIN rows, s \in Servers : <<r, s>> \in won => ~IsPending(rows[r])

(* The rows a check has not come to, and those it is going to write, are   *)
(* pending still, and each is written once.                                *)
CheckInv(c, t) ==
  /\ DOMAIN c = DOMAIN Idle
  /\ c.pc = "check" =>
       /\ c.entries \subseteq DOMAIN t /\ c.items \subseteq {t[r].item : r \in c.entries}
       /\ \A r \in c.entries : t[r].item \in c.items => IsPending(t[r])
       /\ \A w \in c.writes :
            /\ w.row \in DOMAIN t /\ IsPending(t[w.row])
            /\ t[w.row].item \notin c.items
            /\ w.outcome \in {"grabbed", "unresolved"}
       /\ \A v, w \in c.writes : v.row = w.row => v = w

TotalsInv == found \in [Servers -> Nat] /\ FoundIsExact

HistoryInv == RowsInv /\ CheckInv(check, rows) /\ PendingBounded /\ TotalsInv

LEMMA HistoryInit == Init => HistoryInv
<1> SUFFICES ASSUME Init PROVE HistoryInv
  OBVIOUS
<1>1. RowsInv
  BY DEF Init, RowsInv, IsTable
<1>2. CheckInv(check, rows)
  BY DEF Init, CheckInv, Idle
<1>3. PendingBounded
  <2>1. \A s \in Servers : PendingOf(rows, s) = {}
    BY DEF Init, PendingOf
  <2>2. MaxKept \in Nat
    BY LimitsAssumption
  <2>3. QED
    BY <2>1, <2>2, FS_EmptySet DEF PendingBounded
<1>4. TotalsInv
  <2>1. \A s \in Servers : {r \in 1..lastId : <<r, s>> \in won} = {}
    BY DEF Init
  <2>2. QED
    BY <2>1, FS_EmptySet DEF Init, TotalsInv, FoundIsExact
<1>5. QED
  BY <1>1, <1>2, <1>3, <1>4 DEF HistoryInv

(* Fewer pending rows are as well bounded.                                 *)
LEMMA FewerPending ==
  ASSUME HistoryInv, NEW s \in Servers, NEW R \in SUBSET PendingOf(rows, s)
  PROVE  IsFiniteSet(R) /\ Cardinality(R) <= 2 * MaxKept
<1>1. PendingOf(rows, s) \in SUBSET DOMAIN rows
  BY DEF PendingOf
<1>2. IsFiniteSet(PendingOf(rows, s)) /\ Cardinality(PendingOf(rows, s)) \in Nat
  BY <1>1, RowSetsAreFinite DEF HistoryInv, RowsInv
<1>3. IsFiniteSet(R) /\ Cardinality(R) <= Cardinality(PendingOf(rows, s))
  BY <1>2, FS_Subset
<1>4. Cardinality(PendingOf(rows, s)) <= 2 * MaxKept
  BY DEF HistoryInv, PendingBounded
<1>5. Cardinality(R) \in Nat /\ MaxKept \in Nat
  BY <1>3, FS_CardinalityType, LimitsAssumption
<1>6. QED
  BY <1>2, <1>3, <1>4, <1>5

(* An insert leaves a table, and of the rows there were the same rows.     *)
LEMMA InsertedTable ==
  ASSUME RowsInv, NEW row, DOMAIN row = RowFields, row.server \in Servers,
         NEW max
  PROVE  LET t == Inserted(rows, lastId + 1, row, max) IN
         /\ IsTable(t, lastId + 1)
         /\ DOMAIN t \subseteq DOMAIN rows \cup {lastId + 1}
         /\ \A r \in DOMAIN t : t[r] = IF r = lastId + 1 THEN row ELSE rows[r]
<1> DEFINE id == lastId + 1
           u == [r \in DOMAIN rows \cup {id} |-> IF r = id THEN row ELSE rows[r]]
           t == Inserted(rows, id, row, max)
<1>1. DOMAIN t \subseteq DOMAIN rows \cup {id} /\ \A r \in DOMAIN t : t[r] = u[r]
  BY DEF Inserted, Pruned
<1>2. id \in Nat /\ DOMAIN rows \cup {id} \subseteq 1..id
  BY DEF RowsInv, IsTable
<1>3. \A r \in DOMAIN rows \cup {id} : DOMAIN u[r] = RowFields /\ u[r].server \in Servers
  BY DEF RowsInv, IsTable
<1>4. QED
  BY <1>1, <1>2, <1>3 DEF IsTable

LEMMA SearchStep ==
  ASSUME HistoryInv, NEW s \in Servers, Search(s)
  PROVE  HistoryInv'
<1> DEFINE id == lastId + 1
<1>1. PICK row :
        /\ DOMAIN row = RowFields /\ row.server = s /\ row.outcome \in {"searched", "failed"}
        /\ row.outcome = "searched" => ~CapReached(rows, s, names[s], MaxKept)
        /\ rows' = Inserted(rows, id, row, MaxKept)
  <2>1. PICK i \in Items, outcome \in {"searched", "failed"} :
          /\ outcome = "searched" => ~CapReached(rows, s, names[s], MaxKept)
          /\ rows' = Inserted(rows, id,
                       [item |-> i, at |-> now, name |-> names[s], server |-> s,
                        outcome |-> outcome, grabs |-> {}], MaxKept)
    BY DEF Search
  <2>2. DOMAIN [item |-> i, at |-> now, name |-> names[s], server |-> s,
                outcome |-> outcome, grabs |-> {}] = RowFields
    BY DEF RowFields
  <2>3. QED
    BY <2>1, <2>2
<1>2. lastId' = id /\ won' = won /\ found' = found /\ check' = check /\ check.pc = "idle"
  BY DEF Search
<1>3. /\ IsTable(rows', id) /\ DOMAIN rows' \subseteq DOMAIN rows \cup {id}
      /\ \A r \in DOMAIN rows' : rows'[r] = IF r = id THEN row ELSE rows[r]
  BY <1>1, InsertedTable DEF HistoryInv
<1>4. id \in Nat /\ id \notin DOMAIN rows /\ 1..lastId \subseteq 1..id /\ id \notin 1..lastId
  BY DEF HistoryInv, RowsInv, IsTable
<1>5. RowsInv'
  <2>1. \A r \in DOMAIN rows', t \in Servers : <<r, t>> \in won => ~IsPending(rows'[r])
    BY <1>3, <1>4 DEF HistoryInv, RowsInv
  <2>2. QED
    BY <1>2, <1>3, <1>4, <2>1 DEF HistoryInv, RowsInv
<1>6. CheckInv(check', rows')
  BY <1>2 DEF HistoryInv, CheckInv
<1>7. PendingBounded'
  <2>1. SUFFICES ASSUME NEW t \in Servers
                 PROVE  Cardinality(PendingOf(rows', t)) <= 2 * MaxKept
    BY DEF PendingBounded
  <2>2. CASE t # s \/ row.outcome = "failed"
    <3>1. PendingOf(rows', t) \subseteq PendingOf(rows, t)
      BY <1>1, <1>3, <2>2 DEF PendingOf, IsPending
    <3>2. QED
      BY <3>1, FewerPending
  <2>3. CASE t = s /\ row.outcome = "searched"
    <3>1. PendingOf(rows', s) \in SUBSET (PendingOf(rows, s) \cup {id})
      BY <1>3 DEF PendingOf
    <3>2. IsFiniteSet(PendingOf(rows, s)) /\ Cardinality(PendingOf(rows, s)) \in Nat
      BY FewerPending, FS_CardinalityType
    <3>3. ~(Cardinality(PendingOf(rows, s)) >= 2 * MaxKept)
      BY <1>1, <2>3 DEF CapReached
    <3>4. /\ IsFiniteSet(PendingOf(rows, s) \cup {id})
          /\ Cardinality(PendingOf(rows, s) \cup {id}) <= Cardinality(PendingOf(rows, s)) + 1
      BY <3>2, FS_AddElement
    <3>5. /\ Cardinality(PendingOf(rows', s)) <= Cardinality(PendingOf(rows, s) \cup {id})
          /\ Cardinality(PendingOf(rows', s)) \in Nat
          /\ Cardinality(PendingOf(rows, s) \cup {id}) \in Nat
      BY <3>1, <3>4, FS_Subset, FS_CardinalityType
    <3>6. MaxKept \in Nat
      BY LimitsAssumption
    <3>7. QED
      BY <2>3, <3>2, <3>3, <3>4, <3>5, <3>6
  <2>4. QED
    BY <1>1, <2>2, <2>3
<1>8. TotalsInv'
  <2>1. \A t \in Servers :
          {r \in 1..lastId' : <<r, t>> \in won'} = {r \in 1..lastId : <<r, t>> \in won}
    BY <1>2, <1>4 DEF HistoryInv, RowsInv
  <2>2. QED
    BY <1>2, <2>1 DEF HistoryInv, TotalsInv, FoundIsExact
<1>9. QED
  BY <1>5, <1>6, <1>7, <1>8 DEF HistoryInv

(* Steps that leave the table alone.                                       *)
LEMMA TableKept ==
  ASSUME HistoryInv, UNCHANGED <<rows, lastId, found, won>>, CheckInv(check', rows')
  PROVE  HistoryInv'
BY DEF HistoryInv, RowsInv, PendingBounded, TotalsInv, FoundIsExact

LEMMA StartCheckStep ==
  ASSUME HistoryInv, NEW s \in Servers, StartCheck(s)
  PROVE  HistoryInv'
<1>1. CheckInv(check', rows')
  BY DEF StartCheck, Pending, Trackable, CheckInv, Idle, IsPending
<1>2. QED
  BY <1>1, TableKept DEF StartCheck

(* A check that goes on, with fewer items, keeps what a check knows.       *)
LEMMA GoOnKept ==
  ASSUME NEW c, CheckInv(c, rows'), GoOn(c)
  PROVE  CheckInv(check', rows')
BY DEF GoOn, CheckInv, Idle

LEMMA HistoryFailsStep ==
  ASSUME HistoryInv, HistoryFails
  PROVE  HistoryInv'
<1> DEFINE c == [check EXCEPT !.items = @ \ {NextItem}]
<1>1. CheckInv(c, rows')
  BY DEF HistoryInv, HistoryFails, CheckInv, Idle
<1>2. CheckInv(check', rows')
  <2> HIDE DEF c
  <2>1. GoOn(c)
    BY DEF HistoryFails, c
  <2>2. QED
    BY <1>1, <2>1, GoOnKept
<1>3. QED
  BY <1>2, TableKept DEF HistoryFails

(* What is decided for an item is about its rows, each once.               *)
LEMMA WritesAreVerdicts ==
  ASSUME NEW i, NEW G, NEW w \in Writes(i, G)
  PROVE  /\ w.row \in check.entries /\ rows[w.row].item = i
         /\ w.outcome \in {"grabbed", "unresolved"}
         /\ \A v \in Writes(i, G) : v.row = w.row => v = w
<1> DEFINE credit == Correlate({SearchOf(r) : r \in Group(i)}, G, Window, FALSE)
           verdict(r) == ArrOutcome(Cardinality(credit[SearchOf(r)]),
                                    check.now > rows[r].at + Window)
           write(r) == [row |-> r, outcome |-> verdict(r), grabs |-> credit[SearchOf(r)]]
           R == {r \in Group(i) : verdict(r) # "none"}
<1>1. Writes(i, G) = {write(r) : r \in R}
  BY DEF Writes
<1>2. \A r : verdict(r) \in {"grabbed", "unresolved", "none"}
  BY DEF ArrOutcome
<1> HIDE DEF credit, verdict
<1>3. \A r \in R : /\ r \in check.entries /\ rows[r].item = i
                   /\ verdict(r) \in {"grabbed", "unresolved"}
  BY <1>2 DEF Group
<1> HIDE DEF R
<1>4. QED
  BY <1>1, <1>3

(* The next item is one of those that are left.                            *)
LEMMA NextItemIsLeft ==
  ASSUME RowsInv, CheckInv(check, rows), check.pc = "check", check.items # {}
  PROVE  NextItem \in check.items
<1> DEFINE R == {r \in check.entries : rows[r].item \in check.items}
<1>1. R # {} /\ R \in SUBSET Nat
  BY DEF CheckInv, RowsInv, IsTable
<1>2. Min(R) \in R
  BY <1>1, MinIsLeast
<1>3. QED
  BY <1>2 DEF NextItem

LEMMA ReadItemStep ==
  ASSUME HistoryInv, ReadItem
  PROVE  HistoryInv'
<1> DEFINE i == NextItem
           W == Writes(i, {g \in history[check.server] : g.item = i})
<1>1. PICK c :
        /\ GoOn(c) /\ DOMAIN c = DOMAIN Idle
        /\ c.pc = check.pc /\ c.entries = check.entries
        /\ c.items = check.items \ {i} /\ c.writes = W
  <2> HIDE DEF i
  <2> DEFINE H == {g \in history[check.server] : g.item = i}
             d == [check EXCEPT !.items = @ \ {i}, !.heard = H, !.writes = Writes(i, H)]
  <2>1. GoOn(d)
    BY DEF ReadItem, i
  <2>2. /\ DOMAIN d = DOMAIN Idle /\ d.pc = check.pc /\ d.entries = check.entries
        /\ d.items = check.items \ {i} /\ d.writes = Writes(i, H)
    <3> HIDE DEF H
    <3>1. QED
      BY DEF HistoryInv, CheckInv, Idle
  <2> HIDE DEF d
  <2>3. QED
    BY <2>1, <2>2
<1>2. rows' = rows /\ check.pc = "check"
  BY DEF ReadItem
<1> HIDE DEF i
<1>3. \A w \in W : /\ w.row \in check.entries /\ rows[w.row].item = i
                   /\ w.outcome \in {"grabbed", "unresolved"}
                   /\ \A v \in W : v.row = w.row => v = w
  BY WritesAreVerdicts
<1>4. i \in check.items
  BY NextItemIsLeft DEF HistoryInv, ReadItem, i
<1> HIDE DEF W
<1>5. CheckInv(c, rows')
  BY <1>1, <1>2, <1>3, <1>4 DEF HistoryInv, CheckInv
<1>6. QED
  BY <1>1, <1>5, GoOnKept, TableKept DEF ReadItem

(* A row that is written has its verdict for good, and is counted once.    *)
LEMMA WriteRowStep ==
  ASSUME HistoryInv, WriteRow
  PROVE  HistoryInv'
<1>1. PICK w \in check.writes :
        LET s == rows[w.row].server
            n == IF w.outcome = "grabbed" THEN 1 ELSE 0
        IN
          /\ rows' = [rows EXCEPT ![w.row].outcome = w.outcome,
                                  ![w.row].grabs = w.grabs]
          /\ found' = [found EXCEPT ![s] = @ + n]
          /\ won' = IF n = 1 THEN won \cup {<<w.row, s>>} ELSE won
          /\ GoOn([check EXCEPT !.writes = @ \ {w},
                                !.heard = IF check.writes = {w} THEN {} ELSE @])
  BY DEF WriteRow
<1> DEFINE s == rows[w.row].server
           c == [check EXCEPT !.writes = @ \ {w},
                              !.heard = IF check.writes = {w} THEN {} ELSE @]
<1>2. /\ check.pc = "check" /\ lastId' = lastId
      /\ w.row \in DOMAIN rows /\ IsPending(rows[w.row])
      /\ w.outcome \in {"grabbed", "unresolved"} /\ s \in Servers
  BY DEF WriteRow, HistoryInv, CheckInv, RowsInv, IsTable
<1>3. /\ DOMAIN rows' = DOMAIN rows
      /\ \A r \in DOMAIN rows : r # w.row => rows'[r] = rows[r]
      /\ DOMAIN rows'[w.row] = RowFields
      /\ rows'[w.row].outcome = w.outcome
      /\ rows'[w.row].server = s /\ rows'[w.row].item = rows[w.row].item
  BY <1>1, <1>2 DEF HistoryInv, RowsInv, IsTable, RowFields
<1>4. ~IsPending(rows'[w.row])
  BY <1>2, <1>3 DEF IsPending
<1>5. \A t \in Servers : <<w.row, t>> \notin won
  BY <1>2 DEF HistoryInv, RowsInv
<1>6. w.row \in 1..lastId /\ lastId \in Nat
  BY <1>2 DEF HistoryInv, RowsInv, IsTable
<1>7. won' = IF w.outcome = "grabbed" THEN won \cup {<<w.row, s>>} ELSE won
  BY <1>1
<1>8. RowsInv'
  <2>1. IsTable(rows', lastId')
    BY <1>2, <1>3 DEF HistoryInv, RowsInv, IsTable
  <2>2. won' \subseteq (1..lastId') \X Servers
    BY <1>2, <1>6, <1>7 DEF HistoryInv, RowsInv
  <2>3. ASSUME NEW r \in DOMAIN rows, NEW t \in Servers, <<r, t>> \in won'
        PROVE  ~IsPending(rows'[r])
    <3>1. CASE r = w.row
      BY <1>4, <3>1
    <3>2. CASE r # w.row
      <4>1. <<r, t>> \in won
        BY <1>7, <2>3, <3>2
      <4>2. QED
        BY <1>3, <3>2, <4>1 DEF HistoryInv, RowsInv
    <3>3. QED
      BY <3>1, <3>2
  <2>4. QED
    BY <1>3, <2>1, <2>2, <2>3 DEF RowsInv
<1>9. CheckInv(check', rows')
  <2>1. /\ DOMAIN c = DOMAIN Idle
        /\ c.pc = check.pc /\ c.entries = check.entries /\ c.items = check.items
        /\ c.writes = check.writes \ {w} /\ GoOn(c)
    BY <1>1 DEF HistoryInv, CheckInv, Idle
  <2> HIDE DEF c
  <2>2. \A r \in DOMAIN rows : rows'[r].item = rows[r].item
    BY <1>3
  <2>3. c.entries \subseteq DOMAIN rows' /\ c.items \subseteq {rows'[r].item : r \in c.entries}
    BY <1>2, <1>3, <2>1, <2>2 DEF HistoryInv, CheckInv
  <2>4. \A r \in c.entries : rows'[r].item \in c.items => IsPending(rows'[r])
    BY <1>2, <1>3, <2>1 DEF HistoryInv, CheckInv
  <2>5. \A v \in c.writes :
          /\ v.row \in DOMAIN rows' /\ IsPending(rows'[v.row])
          /\ rows'[v.row].item \notin c.items
          /\ v.outcome \in {"grabbed", "unresolved"}
    BY <1>2, <1>3, <2>1 DEF HistoryInv, CheckInv
  <2>6. \A v, x \in c.writes : v.row = x.row => v = x
    BY <1>2, <2>1 DEF HistoryInv, CheckInv
  <2>7. CheckInv(c, rows')
    BY <2>1, <2>3, <2>4, <2>5, <2>6 DEF CheckInv
  <2>8. QED
    BY <2>1, <2>7, GoOnKept
<1>10. PendingBounded'
  <2>1. SUFFICES ASSUME NEW t \in Servers
                 PROVE  Cardinality(PendingOf(rows', t)) <= 2 * MaxKept
    BY DEF PendingBounded
  <2>2. PendingOf(rows', t) \subseteq PendingOf(rows, t)
    BY <1>3, <1>4 DEF PendingOf
  <2>3. QED
    BY <2>2, FewerPending
<1>11. TotalsInv'
  <2> DEFINE W(t) == {r \in 1..lastId : <<r, t>> \in won}
             V(t) == {r \in 1..lastId' : <<r, t>> \in won'}
  <2>1. \A t \in Servers : /\ IsFiniteSet(W(t)) /\ Cardinality(W(t)) \in Nat
                            /\ found[t] = Cardinality(W(t)) /\ found[t] \in Nat
    <3>1. IsFiniteSet(1..lastId)
      BY <1>6, FS_Interval
    <3>2. QED
      BY <3>1, FS_Subset, FS_CardinalityType DEF HistoryInv, TotalsInv, FoundIsExact
  <2>2. CASE w.outcome = "unresolved"
    <3>1. won' = won /\ found' = [found EXCEPT ![s] = @ + 0]
      BY <1>1, <2>2
    <3>2. found' = found
      BY <1>2, <2>1, <3>1 DEF HistoryInv, TotalsInv
    <3>3. QED
      BY <1>2, <3>1, <3>2 DEF HistoryInv, TotalsInv, FoundIsExact
  <2>3. CASE w.outcome = "grabbed"
    <3>1. won' = won \cup {<<w.row, s>>} /\ found' = [found EXCEPT ![s] = @ + 1]
      BY <1>1, <2>3
    <3>2. /\ found' \in [Servers -> Nat] /\ found'[s] = found[s] + 1
          /\ \A t \in Servers : t # s => found'[t] = found[t]
      BY <1>2, <2>1, <3>1 DEF HistoryInv, TotalsInv
    <3>3. V(s) = W(s) \cup {w.row} /\ w.row \notin W(s)
      BY <1>2, <1>5, <1>6, <3>1
    <3>4. \A t \in Servers : t # s => V(t) = W(t)
      BY <1>2, <3>1
    <3> HIDE DEF W, V
    <3>5. Cardinality(V(s)) = Cardinality(W(s)) + 1
      BY <1>2, <2>1, <3>3, FS_AddElement
    <3>6. \A t \in Servers : found'[t] = Cardinality(V(t))
      BY <1>2, <2>1, <3>2, <3>4, <3>5
    <3>7. QED
      BY <3>2, <3>6 DEF TotalsInv, FoundIsExact, V
  <2>4. QED
    BY <1>2, <2>2, <2>3
<1>12. QED
  BY <1>8, <1>9, <1>10, <1>11 DEF HistoryInv

LEMMA HistoryNext == HistoryInv /\ [Next]_vars => HistoryInv'
<1> SUFFICES ASSUME HistoryInv, [Next]_vars PROVE HistoryInv'
  OBVIOUS
<1>1. CheckInv(check, rows)
  BY DEF HistoryInv
<1>2. CASE Tick \/ Rename \/ (\E s \in Servers : Grab(s)) \/ UNCHANGED vars
  <2>1. UNCHANGED <<rows, lastId, found, won, check>>
    BY <1>2 DEF Tick, Rename, Grab, vars
  <2>2. QED
    BY <1>1, <2>1, TableKept
<1>3. CASE \E s \in Servers : Search(s)
  BY <1>3, SearchStep
<1>4. CASE \E s \in Servers : StartCheck(s)
  BY <1>4, StartCheckStep
<1>5. CASE ReadItem
  BY <1>5, ReadItemStep
<1>6. CASE WriteRow
  BY <1>6, WriteRowStep
<1>7. CASE HistoryFails
  BY <1>7, HistoryFailsStep
<1>8. CASE Abort
  <2>1. UNCHANGED <<rows, lastId, found, won>> /\ CheckInv(check', rows')
    BY <1>8 DEF Abort, CheckInv, Idle
  <2>2. QED
    BY <2>1, TableKept
<1>9. QED
  BY <1>2, <1>3, <1>4, <1>5, <1>6, <1>7, <1>8 DEF Next, CheckStep

LEMMA HistoryHolds == Spec => []HistoryInv
<1>1. QED
  BY HistoryInit, HistoryNext, PTL DEF Spec

-----------------------------------------------------------------------------

(* insert_search_entry refuses an accepted search of a server with         *)
(* 2 * max_rows pending rows, so that a server never has more, however     *)
(* long its checks fail and whatever it is called meanwhile.               *)
THEOREM PendingIsBounded == Spec => []PendingBounded
<1>1. HistoryInv => PendingBounded
  BY DEF HistoryInv
<1>2. QED
  BY <1>1, HistoryHolds, PTL

(* update_outcome_and_lifetime_stats counts a search in the same           *)
(* transaction that ends its being pending, so that a total counts every   *)
(* search that found something exactly once, over aborted checks, renames  *)
(* and pruned rows.                                                        *)
THEOREM TotalsAreExact == Spec => []FoundIsExact
<1>1. HistoryInv => FoundIsExact
  BY DEF HistoryInv, TotalsInv
<1>2. QED
  BY <1>1, HistoryHolds, PTL

(* Only an insert prunes, and what it prunes has its verdict and is older  *)
(* than max_rows verdicts that stay.                                       *)
LEMMA OldVerdictsGo ==
  ASSUME HistoryInv, [Next]_vars, NEW r \in DOMAIN rows \ DOMAIN rows'
  PROVE  /\ ~IsPending(rows[r])
         /\ Cardinality({q \in Resolved(rows') : q > r}) >= MaxKept
<1>1. PICK s \in Servers : Search(s)
  <2>1. CASE WriteRow
    <3>1. PICK w : rows' = [rows EXCEPT ![w.row].outcome = w.outcome,
                                       ![w.row].grabs = w.grabs]
      BY <2>1 DEF WriteRow
    <3>2. QED
      BY <3>1
  <2>2. QED
    BY <2>1 DEF Next, CheckStep, Tick, Rename, Grab, StartCheck, ReadItem,
                HistoryFails, Abort, vars
<1> DEFINE id == lastId + 1
<1>2. PICK i \in Items, outcome \in {"searched", "failed"} :
        rows' = Inserted(rows, id,
                  [item |-> i, at |-> now, name |-> names[s], server |-> s,
                   outcome |-> outcome, grabs |-> {}], MaxKept)
  BY <1>1 DEF Search
<1> DEFINE row == [item |-> i, at |-> now, name |-> names[s], server |-> s,
                   outcome |-> outcome, grabs |-> {}]
           u == [q \in DOMAIN rows \cup {id} |-> IF q = id THEN row ELSE rows[q]]
<1>3. rows' = Pruned(u, MaxKept)
  BY <1>2 DEF Inserted
<1>4. IsTable(u, id)
  <2>1. DOMAIN row = RowFields /\ row.server \in Servers
    BY DEF RowFields
  <2>2. id \in Nat /\ DOMAIN rows \cup {id} \subseteq 1..id
    BY DEF HistoryInv, RowsInv, IsTable
  <2> HIDE DEF row
  <2>3. \A q \in DOMAIN rows \cup {id} : DOMAIN u[q] = RowFields /\ u[q].server \in Servers
    BY <2>1 DEF HistoryInv, RowsInv, IsTable
  <2>4. QED
    BY <2>2, <2>3 DEF IsTable
<1>5. r \in DOMAIN u /\ u[r] = rows[r]
  BY DEF HistoryInv, RowsInv, IsTable
<1> HIDE DEF u
<1>6. MaxKept \in Nat
  BY LimitsAssumption
<1>7. QED
  BY <1>3, <1>4, <1>5, <1>6, PrunedIsOld

(* insert_search_entry prunes rows that have their verdict, the oldest     *)
(* first: a pending search never leaves the table, and the newest          *)
(* verdicts stay.                                                          *)
THEOREM VerdictsStay == Spec => VerdictsLast
<1>1. HistoryInv /\ [Next]_vars =>
        [\A r \in DOMAIN rows \ DOMAIN rows' :
           /\ ~IsPending(rows[r])
           /\ Cardinality({q \in Resolved(rows') : q > r}) >= MaxKept]_vars
  BY OldVerdictsGo
<1>2. QED
  BY <1>1, HistoryHolds, PTL DEF Spec, VerdictsLast

-----------------------------------------------------------------------------

(* Times are times, and the rows of a check were written under one name.   *)
TimesInv ==
  /\ now \in Nat
  /\ \A r \in DOMAIN rows : rows[r].at \in Nat
  /\ \A s \in Servers : history[s] \subseteq Grabs /\ IsFiniteSet(history[s])
  /\ check.pc = "check" =>
       /\ check.server \in Servers
       /\ \A q, r \in check.entries : rows[q].name = rows[r].name

(* Search t has a grab, or gets it when the check comes to write it.       *)
HasOrGets(t, g, name) ==
  /\ \/ IsPending(rows[t]) /\ rows[t].name = name
     \/ g \in rows[t].grabs
  /\ \A x \in check.writes : x.row = t => g \in x.grabs

(* A grab that was reported when its item was read, and fits a row that is *)
(* going to be given up, is for a newer row.                               *)
Noticed(g, w) ==
  \E t \in DOMAIN rows :
    /\ t # w.row /\ Fits(g, t) /\ rows[t].at >= rows[w.row].at
    /\ HasOrGets(t, g, rows[w.row].name)

NoticedInv ==
  check.pc = "check" =>
    \A w \in check.writes, g \in check.heard :
      w.outcome = "unresolved" /\ Fits(g, w.row) => Noticed(g, w)

LEMMA TimesInit == Init => TimesInv
<1> SUFFICES ASSUME Init PROVE TimesInv
  OBVIOUS
<1>1. check.pc = "idle" /\ DOMAIN rows = {}
  BY DEF Init, Idle
<1>2. QED
  BY <1>1, FS_EmptySet DEF Init, TimesInv

(* A check that goes on is the one given, or over.                         *)
LEMMA GoOnGoesOn ==
  ASSUME NEW c, GoOn(c)
  PROVE  check' = c \/ check' = Idle
BY DEF GoOn

(* What a written row changes, and what is left of the check.              *)
LEMMA WriteRowWrites ==
  ASSUME HistoryInv, WriteRow
  PROVE  \E w \in check.writes : \E c :
           /\ rows' = [rows EXCEPT ![w.row].outcome = w.outcome, ![w.row].grabs = w.grabs]
           /\ GoOn(c) /\ c.server = check.server /\ c.entries = check.entries
           /\ c.writes = check.writes \ {w} /\ c.heard \in {check.heard, {}}
<1>1. PICK w \in check.writes :
        /\ rows' = [rows EXCEPT ![w.row].outcome = w.outcome, ![w.row].grabs = w.grabs]
        /\ GoOn([check EXCEPT !.writes = @ \ {w},
                              !.heard = IF check.writes = {w} THEN {} ELSE @])
  BY DEF WriteRow
<1> DEFINE c == [check EXCEPT !.writes = @ \ {w},
                              !.heard = IF check.writes = {w} THEN {} ELSE @]
<1>2. /\ c.server = check.server /\ c.entries = check.entries
      /\ c.writes = check.writes \ {w} /\ c.heard \in {check.heard, {}}
  BY DEF HistoryInv, CheckInv, Idle
<1>3. GoOn(c)
  BY <1>1
<1> HIDE DEF c
<1>4. QED
  BY <1>1, <1>2, <1>3

LEMMA TimesNext == HistoryInv /\ TimesInv /\ [Next]_vars => TimesInv'
<1> SUFFICES ASSUME HistoryInv, TimesInv, [Next]_vars PROVE TimesInv'
  OBVIOUS
<1>1. CASE Tick \/ Rename \/ UNCHANGED vars
  <2>1. UNCHANGED <<rows, history, check>> /\ now' \in {now, now + 1}
    BY <1>1 DEF Tick, Rename, vars
  <2>2. QED
    BY <2>1 DEF TimesInv
<1>2. ASSUME NEW s \in Servers, Grab(s)
      PROVE  TimesInv'
  <2>1. PICK g \in Grabs : history' = [history EXCEPT ![s] = @ \cup {g}]
    BY <1>2 DEF Grab
  <2>2. \A t \in Servers : history'[t] \in {history[t], history[t] \cup {g}}
    BY <2>1
  <2>3. ASSUME NEW t \in Servers
        PROVE  history'[t] \subseteq Grabs /\ IsFiniteSet(history'[t])
    <3>1. history[t] \subseteq Grabs /\ IsFiniteSet(history[t])
      BY DEF TimesInv
    <3>2. IsFiniteSet(history[t] \cup {g})
      BY <3>1, FS_AddElement
    <3>3. QED
      BY <2>2, <3>1, <3>2
  <2>4. QED
    BY <1>2, <2>3 DEF Grab, TimesInv
<1>3. ASSUME NEW s \in Servers, Search(s)
      PROVE  TimesInv'
  <2>1. PICK row : /\ DOMAIN row = RowFields /\ row.server \in Servers /\ row.at = now
                   /\ rows' = Inserted(rows, lastId + 1, row, MaxKept)
    <3>1. PICK i \in Items, outcome \in {"searched", "failed"} :
            rows' = Inserted(rows, lastId + 1,
                      [item |-> i, at |-> now, name |-> names[s], server |-> s,
                       outcome |-> outcome, grabs |-> {}], MaxKept)
      BY <1>3 DEF Search
    <3>2. QED
      BY <3>1 DEF RowFields
  <2>2. /\ DOMAIN rows' \subseteq DOMAIN rows \cup {lastId + 1}
        /\ \A r \in DOMAIN rows' : rows'[r] = IF r = lastId + 1 THEN row ELSE rows[r]
    BY <2>1, InsertedTable DEF HistoryInv
  <2>3. \A r \in DOMAIN rows' : rows'[r].at \in Nat
    BY <2>1, <2>2 DEF TimesInv
  <2>4. UNCHANGED <<now, history, check>> /\ check.pc = "idle"
    BY <1>3 DEF Search
  <2>5. QED
    BY <2>3, <2>4 DEF TimesInv
<1>4. ASSUME NEW s \in Servers, StartCheck(s)
      PROVE  TimesInv'
  <2>1. /\ check'.server = s /\ check'.entries = Pending(names[s])
        /\ UNCHANGED <<now, rows, history>>
    BY <1>4 DEF StartCheck, Idle
  <2>2. \A r \in check'.entries : rows[r].name = names[s]
    BY <2>1 DEF Pending, Trackable
  <2>3. QED
    BY <2>1, <2>2 DEF TimesInv
<1>5. CASE HistoryFails \/ ReadItem \/ Abort
  <2>1. UNCHANGED <<now, rows, history>> /\ check.pc = "check"
    BY <1>5 DEF HistoryFails, ReadItem, Abort
  <2>2. \/ check'.server = check.server /\ check'.entries = check.entries
        \/ check'.pc = "idle"
    <3>1. CASE HistoryFails
      <4> DEFINE c == [check EXCEPT !.items = @ \ {NextItem}]
      <4>1. c.server = check.server /\ c.entries = check.entries
        BY DEF HistoryInv, CheckInv, Idle
      <4>2. GoOn(c)
        BY <3>1 DEF HistoryFails
      <4> HIDE DEF c
      <4>3. QED
        BY <4>1, <4>2, GoOnGoesOn DEF Idle
    <3>2. CASE ReadItem
      <4>1. PICK H, W : GoOn([check EXCEPT !.items = @ \ {NextItem}, !.heard = H,
                                           !.writes = W])
        BY <3>2 DEF ReadItem
      <4> DEFINE c == [check EXCEPT !.items = @ \ {NextItem}, !.heard = H, !.writes = W]
      <4>2. c.server = check.server /\ c.entries = check.entries
        BY DEF HistoryInv, CheckInv, Idle
      <4> HIDE DEF c
      <4>3. GoOn(c)
        BY <4>1 DEF c
      <4>4. QED
        BY <4>2, <4>3, GoOnGoesOn DEF Idle
    <3>3. CASE Abort
      BY <3>3 DEF Abort, Idle
    <3>4. QED
      BY <1>5, <3>1, <3>2, <3>3
  <2>3. QED
    BY <2>1, <2>2 DEF TimesInv
<1>6. CASE WriteRow
  <2>1. PICK w \in check.writes : \E c :
          /\ rows' = [rows EXCEPT ![w.row].outcome = w.outcome, ![w.row].grabs = w.grabs]
          /\ GoOn(c) /\ c.server = check.server /\ c.entries = check.entries
    BY <1>6, WriteRowWrites
  <2>2. \/ check'.server = check.server /\ check'.entries = check.entries
        \/ check'.pc = "idle"
    BY <2>1, GoOnGoesOn DEF Idle
  <2>3. /\ DOMAIN rows' = DOMAIN rows
        /\ \A r \in DOMAIN rows : rows'[r].at = rows[r].at /\ rows'[r].name = rows[r].name
    BY <1>6, <2>1 DEF WriteRow, HistoryInv, CheckInv, RowsInv, IsTable, RowFields
  <2>4. UNCHANGED <<now, history>> /\ check.pc = "check" /\ check.entries \subseteq DOMAIN rows
    BY <1>6 DEF WriteRow, HistoryInv, CheckInv
  <2>5. QED
    BY <2>2, <2>3, <2>4 DEF TimesInv
<1>7. QED
  BY <1>1, <1>2, <1>3, <1>4, <1>5, <1>6 DEF Next, CheckStep

(* What is decided for an item notices every grab that was reported.       *)
LEMMA WritesNotice ==
  ASSUME NEW i, NEW G \in SUBSET Grabs, IsFiniteSet(G),
         \A r \in Group(i) : r \in Nat /\ rows[r].at \in Nat,
         NEW w \in Writes(i, G), w.outcome = "unresolved",
         NEW g \in G, Fits(g, w.row)
  PROVE  \E t \in Group(i) :
           /\ t # w.row /\ InWindow(g, SearchOf(t), Window)
           /\ rows[t].at >= rows[w.row].at
           /\ \A x \in Writes(i, G) : x.row = t => g \in x.grabs
<1> DEFINE searches == {SearchOf(r) : r \in Group(i)}
           credit == Correlate(searches, G, Window, FALSE)
           verdict(r) == ArrOutcome(Cardinality(credit[SearchOf(r)]),
                                    check.now > rows[r].at + Window)
           write(r) == [row |-> r, outcome |-> verdict(r), grabs |-> credit[SearchOf(r)]]
           R == {r \in Group(i) : verdict(r) # "none"}
<1>1. Writes(i, G) = {write(r) : r \in R}
  BY DEF Writes
<1>2. PICK q \in R : w = write(q)
  BY <1>1
<1>3. w.row = q /\ verdict(q) = "unresolved" /\ q \in Group(i)
  BY <1>2
<1>4. \A x \in Writes(i, G) : x.grabs = credit[SearchOf(x.row)]
  <2> HIDE DEF credit, verdict, R
  <2>1. QED
    BY <1>1
<1>5. credit[SearchOf(q)] = {}
  <2>1. SearchOf(q) \in searches
    BY <1>3
  <2>2. credit[SearchOf(q)] \in SUBSET G
    BY <2>1 DEF Correlate
  <2>3. IsFiniteSet(credit[SearchOf(q)]) /\ Cardinality(credit[SearchOf(q)]) \in Nat
    <3> HIDE DEF credit
    <3>1. QED
      BY <2>2, FS_Subset, FS_CardinalityType
  <2> HIDE DEF credit
  <2>4. ~(Cardinality(credit[SearchOf(q)]) > 0)
    BY <1>3 DEF ArrOutcome
  <2>5. QED
    BY <2>3, <2>4, FS_EmptySet
<1>6. PICK s \in searches : g \in credit[s]
  <2>1. g.at \in Nat \cup {NoDate}
    BY GrabsAssumption
  <2>2. \A s \in searches : s.at \in Nat /\ s.id \in Nat
    BY DEF SearchOf
  <2>3. \A s, t \in searches : s.id = t.id => s = t
    BY DEF SearchOf
  <2>4. SearchOf(q) \in Matching(g, searches, Window, FALSE)
    BY <1>3 DEF Fits, Matching
  <2> HIDE DEF searches
  <2>5. QED
    BY <2>1, <2>2, <2>3, <2>4, SomebodyIsFirst DEF credit
<1>7. PICK t \in Group(i) : s = SearchOf(t)
  OBVIOUS
<1>8. t # q
  BY <1>5, <1>6, <1>7
<1>9. InWindow(g, SearchOf(t), Window) /\ rows[t].at >= rows[q].at
  <2>1. /\ s \in Matching(g, searches, Window, FALSE)
        /\ \A u \in Matching(g, searches, Window, FALSE) : u = s \/ Precedes(s, u)
    BY <1>6 DEF Correlate
  <2>2. SearchOf(q) \in Matching(g, searches, Window, FALSE)
    BY <1>3 DEF Fits, Matching
  <2>3. InWindow(g, SearchOf(t), Window)
    BY <1>7, <2>1 DEF Matching
  <2> HIDE DEF searches
  <2>4. SearchOf(q) = SearchOf(t) \/ Precedes(SearchOf(t), SearchOf(q))
    BY <1>7, <2>1, <2>2
  <2>5. rows[t].at \in Nat /\ rows[q].at \in Nat
    BY <1>3
  <2>6. QED
    BY <1>8, <2>3, <2>4, <2>5 DEF SearchOf, Precedes
<1>10. QED
  BY <1>3, <1>4, <1>6, <1>7, <1>8, <1>9

LEMMA ReadItemNotices ==
  ASSUME HistoryInv, TimesInv, ReadItem
  PROVE  NoticedInv'
<1> DEFINE i == NextItem
           H == {g \in history[check.server] : g.item = i}
<1>1. /\ UNCHANGED rows /\ check.pc = "check" /\ i \in check.items
      /\ \/ check'.heard = H /\ check'.writes = Writes(i, H)
         \/ check'.writes = {}
  <2> DEFINE c == [check EXCEPT !.items = @ \ {i}, !.heard = H, !.writes = Writes(i, H)]
  <2>1. GoOn(c) /\ UNCHANGED rows /\ check.pc = "check"
    BY DEF ReadItem
  <2>2. i \in check.items
    BY NextItemIsLeft DEF HistoryInv, ReadItem
  <2> HIDE DEF i, H
  <2>3. c.heard = H /\ c.writes = Writes(i, H)
    BY DEF HistoryInv, CheckInv, Idle
  <2> HIDE DEF c
  <2>4. QED
    BY <2>1, <2>2, <2>3, GoOnGoesOn DEF Idle
<1>2. \A r \in Group(i) : /\ r \in DOMAIN rows /\ r \in Nat /\ rows[r].at \in Nat
                          /\ rows[r].item = i /\ IsPending(rows[r])
  BY <1>1 DEF Group, HistoryInv, RowsInv, IsTable, CheckInv, TimesInv
<1> HIDE DEF i
<1>3. ASSUME NEW w \in Writes(i, H), NEW g \in H, w.outcome = "unresolved", Fits(g, w.row)
      PROVE  \E t \in DOMAIN rows :
               /\ t # w.row /\ Fits(g, t) /\ rows[t].at >= rows[w.row].at
               /\ IsPending(rows[t]) /\ rows[t].name = rows[w.row].name
               /\ \A x \in Writes(i, H) : x.row = t => g \in x.grabs
  <2>1. H \in SUBSET Grabs /\ IsFiniteSet(H)
    <3>1. H \subseteq history[check.server] /\ check.server \in Servers
      BY <1>1 DEF TimesInv
    <3>2. QED
      BY <3>1, FS_Subset DEF TimesInv
  <2>2. g.item = i
    OBVIOUS
  <2> HIDE DEF H
  <2>3. PICK t \in Group(i) :
          /\ t # w.row /\ InWindow(g, SearchOf(t), Window)
          /\ rows[t].at >= rows[w.row].at
          /\ \A x \in Writes(i, H) : x.row = t => g \in x.grabs
    BY <1>2, <1>3, <2>1, WritesNotice
  <2>4. w.row \in check.entries
    BY WritesAreVerdicts
  <2>5. rows[t].name = rows[w.row].name
    BY <1>1, <2>4 DEF TimesInv, Group
  <2>6. QED
    BY <1>2, <2>2, <2>3, <2>5 DEF Fits
<1> HIDE DEF H
<1>4. \A g, r : Fits(g, r)' <=> Fits(g, r)
  BY <1>1 DEF Fits, SearchOf
<1>5. CASE check'.writes = {}
  BY <1>5 DEF NoticedInv
<1>6. CASE check'.heard = H /\ check'.writes = Writes(i, H)
  BY <1>1, <1>3, <1>4, <1>6 DEF NoticedInv, Noticed, HasOrGets
<1>7. QED
  BY <1>1, <1>5, <1>6

LEMMA WriteRowNotices ==
  ASSUME HistoryInv, NoticedInv, WriteRow
  PROVE  NoticedInv'
<1>1. PICK v \in check.writes :
        /\ rows' = [rows EXCEPT ![v.row].outcome = v.outcome, ![v.row].grabs = v.grabs]
        /\ check'.writes \subseteq check.writes \ {v} /\ check'.heard \subseteq check.heard
  <2>1. PICK v \in check.writes : \E c :
          /\ rows' = [rows EXCEPT ![v.row].outcome = v.outcome, ![v.row].grabs = v.grabs]
          /\ GoOn(c) /\ c.writes = check.writes \ {v} /\ c.heard \in {check.heard, {}}
    BY WriteRowWrites
  <2>2. PICK c : GoOn(c) /\ c.writes = check.writes \ {v} /\ c.heard \in {check.heard, {}}
    BY <2>1
  <2>3. check' = c \/ check' = Idle
    BY <2>2, GoOnGoesOn
  <2>4. check'.writes \subseteq check.writes \ {v} /\ check'.heard \subseteq check.heard
    BY <2>2, <2>3 DEF Idle
  <2>5. QED
    BY <2>1, <2>4
<1>2. /\ check.pc = "check" /\ \A w \in check.writes : w.row \in DOMAIN rows
      /\ \A w, x \in check.writes : w.row = x.row => w = x
  BY DEF WriteRow, HistoryInv, CheckInv
<1>3. /\ DOMAIN rows' = DOMAIN rows /\ rows'[v.row].grabs = v.grabs
      /\ \A r \in DOMAIN rows :
           /\ r # v.row => rows'[r] = rows[r]
           /\ rows'[r].at = rows[r].at /\ rows'[r].name = rows[r].name
           /\ rows'[r].item = rows[r].item
  BY <1>1, <1>2 DEF HistoryInv, RowsInv, IsTable, RowFields
<1>4. \A r \in DOMAIN rows : \A g : Fits(g, r)' <=> Fits(g, r)
  BY <1>3 DEF Fits, SearchOf
<1>5. ASSUME NEW w \in check'.writes, NEW g \in check'.heard,
             w.outcome = "unresolved", Fits(g, w.row)'
      PROVE  Noticed(g, w)'
  <2>1. w \in check.writes /\ w.row \in DOMAIN rows /\ g \in check.heard /\ Fits(g, w.row)
    BY <1>1, <1>2, <1>4, <1>5
  <2>2. PICK t \in DOMAIN rows :
          /\ t # w.row /\ Fits(g, t) /\ rows[t].at >= rows[w.row].at
          /\ HasOrGets(t, g, rows[w.row].name)
    BY <1>2, <1>5, <2>1 DEF NoticedInv, Noticed
  <2>3. HasOrGets(t, g, rows[w.row].name)'
    <3>1. CASE t = v.row
      BY <1>1, <1>2, <1>3, <2>1, <2>2, <3>1 DEF HasOrGets
    <3>2. CASE t # v.row
      BY <1>1, <1>3, <2>1, <2>2, <3>2 DEF HasOrGets
    <3>3. QED
      BY <3>1, <3>2
  <2>4. QED
    BY <1>3, <1>4, <2>1, <2>2, <2>3 DEF Noticed
<1>6. QED
  BY <1>5 DEF NoticedInv

LEMMA NoticedNext == HistoryInv /\ TimesInv /\ NoticedInv /\ [Next]_vars => NoticedInv'
<1> SUFFICES ASSUME HistoryInv, TimesInv, NoticedInv, [Next]_vars PROVE NoticedInv'
  OBVIOUS
<1>1. CASE ReadItem
  BY <1>1, ReadItemNotices
<1>2. CASE WriteRow
  BY <1>2, WriteRowNotices
<1>3. CASE Tick \/ Rename \/ (\E s \in Servers : Grab(s)) \/ UNCHANGED vars
  <2>1. UNCHANGED <<rows, check>>
    BY <1>3 DEF Tick, Rename, Grab, vars
  <2>2. QED
    BY <2>1 DEF NoticedInv, Noticed, HasOrGets, Fits, SearchOf
<1>4. CASE HistoryFails \/ Abort \/ \E s \in Servers : Search(s) \/ StartCheck(s)
  <2>1. check'.writes = {} \/ check'.pc = "idle"
    <3>1. CASE HistoryFails
      <4> DEFINE c == [check EXCEPT !.items = @ \ {NextItem}]
      <4>1. c.writes = check.writes
        BY DEF HistoryInv, CheckInv, Idle
      <4>2. GoOn(c) /\ check.writes = {}
        BY <3>1 DEF HistoryFails
      <4> HIDE DEF c
      <4>3. QED
        BY <4>1, <4>2, GoOnGoesOn DEF Idle
    <3>2. CASE Abort
      BY <3>2 DEF Abort, Idle
    <3>3. ASSUME NEW s \in Servers, Search(s)
          PROVE  check'.pc = "idle"
      BY <3>3 DEF Search
    <3>4. ASSUME NEW s \in Servers, StartCheck(s)
          PROVE  check'.writes = {}
      BY <3>4 DEF StartCheck, Idle
    <3>5. QED
      BY <1>4, <3>1, <3>2, <3>3, <3>4
  <2>2. QED
    BY <2>1 DEF NoticedInv
<1>5. QED
  BY <1>1, <1>2, <1>3, <1>4 DEF Next, CheckStep

LEMMA NoticedHolds == Spec => [](HistoryInv /\ TimesInv /\ NoticedInv)
<1>1. Init => NoticedInv
  BY DEF Init, Idle, NoticedInv
<1>2. QED
  BY <1>1, HistoryInit, HistoryNext, TimesInit, TimesNext, NoticedNext, PTL DEF Spec

LEMMA GivenUpIsNoticed ==
  ASSUME HistoryInv, NoticedInv, [Next]_vars,
         NEW r \in DOMAIN rows \cap DOMAIN rows', NEW g \in check.heard,
         rows'[r].outcome = "unresolved", IsPending(rows[r]), Fits(g, r)
  PROVE  \E t \in DOMAIN rows :
           /\ t # r /\ Fits(g, t) /\ rows[t].at >= rows[r].at
           /\ t \in Trackable(rows, rows[r].name) \/ g \in rows[t].grabs
<1>1. rows'[r].outcome # rows[r].outcome
  BY DEF IsPending
<1>2. WriteRow
  <2>1. ASSUME NEW s \in Servers, Search(s)
        PROVE  FALSE
    <3>1. PICK row : /\ DOMAIN row = RowFields /\ row.server \in Servers
                     /\ rows' = Inserted(rows, lastId + 1, row, MaxKept)
      <4>1. PICK i \in Items, outcome \in {"searched", "failed"} :
              rows' = Inserted(rows, lastId + 1,
                        [item |-> i, at |-> now, name |-> names[s], server |-> s,
                         outcome |-> outcome, grabs |-> {}], MaxKept)
        BY <2>1 DEF Search
      <4>2. QED
        BY <4>1 DEF RowFields
    <3>2. r # lastId + 1
      BY DEF HistoryInv, RowsInv, IsTable
    <3>3. rows'[r] = rows[r]
      BY <3>1, <3>2, InsertedTable DEF HistoryInv
    <3>4. QED
      BY <1>1, <3>3
  <2>2. QED
    BY <1>1, <2>1 DEF Next, CheckStep, Tick, Rename, Grab, StartCheck, ReadItem,
                      HistoryFails, Abort, vars
<1>3. PICK w \in check.writes :
        rows' = [rows EXCEPT ![w.row].outcome = w.outcome, ![w.row].grabs = w.grabs]
  BY <1>2, WriteRowWrites
<1>4. r = w.row
  BY <1>1, <1>3
<1>5. w.outcome = "unresolved"
  BY <1>3, <1>4 DEF HistoryInv, RowsInv, IsTable, RowFields
<1>6. Noticed(g, w)
  BY <1>2, <1>4, <1>5 DEF NoticedInv, WriteRow
<1>7. QED
  BY <1>4, <1>6 DEF Noticed, HasOrGets, Trackable

(* run_tracking_check gives a search up although a grab that fits it had   *)
(* been reported only if a search of the item that is no older has that    *)
(* grab or is still to get it: the newest search gets the credit, and it   *)
(* is written in the same check, or stays pending.                         *)
THEOREM NothingIsOverlooked == Spec => NothingOverlooked
<1>1. HistoryInv /\ TimesInv /\ NoticedInv /\ [Next]_vars =>
        [\A r \in DOMAIN rows \cap DOMAIN rows', g \in check.heard :
           rows'[r].outcome = "unresolved" /\ IsPending(rows[r]) /\ Fits(g, r) =>
             \E t \in DOMAIN rows :
               /\ t # r /\ Fits(g, t) /\ rows[t].at >= rows[r].at
               /\ t \in Trackable(rows, rows[r].name) \/ g \in rows[t].grabs]_vars
  BY GivenUpIsNoticed
<1>2. QED
  BY <1>1, NoticedHolds, PTL DEF Spec, NothingOverlooked

-----------------------------------------------------------------------------
(* Types.                                                                  *)

TypedRow == [item : Items, at : 0..LastSearch, name : Names, server : Servers,
             outcome : Outcomes, grabs : SUBSET Grabs]

IsTypedRow(row) == row \in TypedRow /\ (row.grabs # {} <=> row.outcome = "grabbed")

(* A write that finds something names it.                                  *)
WriteType(w) ==
  /\ w.outcome \in {"grabbed", "unresolved"} /\ w.grabs \in SUBSET Grabs
  /\ w.grabs # {} <=> w.outcome = "grabbed"

WritesInv == check.pc = "check" => check.entries # {} /\ \A w \in check.writes : WriteType(w)

LEMMA WritesAreTyped ==
  ASSUME NEW i, NEW G \in SUBSET Grabs, IsFiniteSet(G), NEW w \in Writes(i, G)
  PROVE  WriteType(w)
<1> DEFINE searches == {SearchOf(r) : r \in Group(i)}
           credit == Correlate(searches, G, Window, FALSE)
           verdict(r) == ArrOutcome(Cardinality(credit[SearchOf(r)]),
                                    check.now > rows[r].at + Window)
           write(r) == [row |-> r, outcome |-> verdict(r), grabs |-> credit[SearchOf(r)]]
           R == {r \in Group(i) : verdict(r) # "none"}
<1>1. Writes(i, G) = {write(r) : r \in R}
  BY DEF Writes
<1>2. PICK q \in R : w = write(q)
  BY <1>1
<1>3. /\ w.outcome = verdict(q) /\ w.grabs = credit[SearchOf(q)]
      /\ SearchOf(q) \in searches /\ verdict(q) # "none"
  BY <1>2
<1>4. w.grabs \in SUBSET G
  <2> HIDE DEF verdict
  <2>1. QED
    BY <1>3 DEF Correlate
<1>5. Cardinality(w.grabs) \in Nat /\ (Cardinality(w.grabs) > 0 <=> w.grabs # {})
  BY <1>4, FS_Subset, FS_CardinalityType, FS_EmptySet
<1>6. w.outcome = ArrOutcome(Cardinality(w.grabs), check.now > rows[q].at + Window)
  BY <1>3
<1>7. w.outcome # "none"
  BY <1>3
<1> HIDE DEF credit, verdict
<1>8. QED
  BY <1>4, <1>5, <1>6, <1>7 DEF WriteType, ArrOutcome

LEMMA WritesTyped == HistoryInv /\ TimesInv /\ WritesInv /\ [Next]_vars => WritesInv'
<1> SUFFICES ASSUME HistoryInv, TimesInv, WritesInv, [Next]_vars PROVE WritesInv'
  OBVIOUS
<1>1. CASE Tick \/ Rename \/ (\E s \in Servers : Grab(s) \/ Search(s)) \/ UNCHANGED vars
  <2>1. UNCHANGED check
    BY <1>1 DEF Tick, Rename, Grab, Search, vars
  <2>2. QED
    BY <2>1 DEF WritesInv
<1>2. ASSUME NEW s \in Servers, StartCheck(s)
      PROVE  WritesInv'
  BY <1>2 DEF StartCheck, Idle, WritesInv
<1>3. CASE HistoryFails
  <2> DEFINE c == [check EXCEPT !.items = @ \ {NextItem}]
  <2>1. c.writes = check.writes /\ c.entries = check.entries
    BY DEF HistoryInv, CheckInv, Idle
  <2>2. GoOn(c) /\ check.pc = "check"
    BY <1>3 DEF HistoryFails
  <2> HIDE DEF c
  <2>3. QED
    BY <2>1, <2>2, GoOnGoesOn DEF WritesInv, Idle
<1>4. CASE ReadItem
  <2> DEFINE i == NextItem
             H == {g \in history[check.server] : g.item = i}
             W == Writes(i, H)
             c == [check EXCEPT !.items = @ \ {i}, !.heard = H, !.writes = W]
  <2>1. GoOn(c) /\ check.pc = "check"
    BY <1>4 DEF ReadItem
  <2>2. H \in SUBSET Grabs /\ IsFiniteSet(H)
    <3>1. H \subseteq history[check.server] /\ check.server \in Servers
      BY <2>1 DEF TimesInv
    <3>2. QED
      BY <3>1, FS_Subset DEF TimesInv
  <2> HIDE DEF i, H
  <2>3. \A w \in W : WriteType(w)
    BY <2>2, WritesAreTyped
  <2> HIDE DEF W
  <2>4. c.writes = W /\ c.entries = check.entries
    BY DEF HistoryInv, CheckInv, Idle
  <2> HIDE DEF c
  <2>5. QED
    BY <2>1, <2>3, <2>4, GoOnGoesOn DEF WritesInv, Idle
<1>5. CASE WriteRow
  <2>1. PICK w \in check.writes : \E c :
          GoOn(c) /\ c.entries = check.entries /\ c.writes = check.writes \ {w}
    BY <1>5, WriteRowWrites
  <2>2. PICK c : GoOn(c) /\ c.entries = check.entries /\ c.writes = check.writes \ {w}
    BY <2>1
  <2>3. check.pc = "check"
    BY <1>5 DEF WriteRow
  <2>4. QED
    BY <2>2, <2>3, GoOnGoesOn DEF WritesInv, Idle
<1>6. CASE Abort
  BY <1>6 DEF Abort, Idle, WritesInv
<1>7. QED
  BY <1>1, <1>2, <1>3, <1>4, <1>5, <1>6 DEF Next, CheckStep

LEMMA TypeInit == Init => TypeOK
<1> SUFFICES ASSUME Init PROVE TypeOK
  OBVIOUS
<1>1. names \in Injection(Servers, Names)
  BY NamesAssumption DEF Init
<1>2. {MaxTime, MaxFaults, MaxRenames, MaxInserts} \subseteq Nat
  BY LimitsAssumption
<1>3. DOMAIN rows = {} /\ check.pc = "idle"
  BY DEF Init, Idle
<1>4. QED
  BY <1>1, <1>2, <1>3 DEF Init, TypeOK

LEMMA TypeNext ==
  HistoryInv /\ TimesInv /\ WritesInv /\ TypeOK /\ [Next]_vars => TypeOK'
<1> SUFFICES ASSUME HistoryInv, TimesInv, WritesInv, TypeOK, [Next]_vars PROVE TypeOK'
  OBVIOUS
<1>1. HistoryInv' /\ TimesInv' /\ WritesInv'
  BY HistoryNext, TimesNext, WritesTyped
<1>2. {MaxTime, MaxFaults, MaxRenames, MaxInserts, LastSearch} \subseteq Nat
  BY LimitsAssumption
<1>3. now' = now \/ (now < MaxTime /\ now' = now + 1)
  BY DEF Next, CheckStep, Tick, Rename, Grab, Search, StartCheck, ReadItem, WriteRow,
         HistoryFails, Abort, vars
<1>4. faults' = faults \/ (faults < MaxFaults /\ faults' = faults + 1)
  BY DEF Next, CheckStep, Tick, Rename, Grab, Search, StartCheck, ReadItem, WriteRow,
         HistoryFails, Abort, vars
<1>5. /\ renames' = renames \/ (renames < MaxRenames /\ renames' = renames + 1)
      /\ names' = names \/ names' \in Injection(Servers, Names)
  BY DEF Next, CheckStep, Tick, Rename, Grab, Search, StartCheck, ReadItem, WriteRow,
         HistoryFails, Abort, vars
<1>6. lastId' = lastId \/ (lastId < MaxInserts /\ lastId' = lastId + 1)
  BY DEF Next, CheckStep, Tick, Rename, Grab, Search, StartCheck, ReadItem, WriteRow,
         HistoryFails, Abort, vars
<1>7. \A r \in DOMAIN rows' : IsTypedRow(rows'[r])
  <2>1. \A r \in DOMAIN rows : IsTypedRow(rows[r])
    BY DEF TypeOK, IsTypedRow, TypedRow
  <2>2. ASSUME NEW s \in Servers, Search(s)
        PROVE  \A r \in DOMAIN rows' : IsTypedRow(rows'[r])
    <3>1. PICK i \in Items, outcome \in {"searched", "failed"} :
            rows' = Inserted(rows, lastId + 1,
                      [item |-> i, at |-> now, name |-> names[s], server |-> s,
                       outcome |-> outcome, grabs |-> {}], MaxKept)
      BY <2>2 DEF Search
    <3> DEFINE row == [item |-> i, at |-> now, name |-> names[s], server |-> s,
                       outcome |-> outcome, grabs |-> {}]
    <3>2. now \in 0..LastSearch /\ names[s] \in Names
      BY <2>2 DEF Search, TypeOK, Injection
    <3>3. IsTypedRow(row)
      BY <3>2 DEF IsTypedRow, TypedRow, Outcomes
    <3>4. DOMAIN row = RowFields /\ row.server \in Servers
      BY DEF RowFields
    <3> HIDE DEF row
    <3>5. rows' = Inserted(rows, lastId + 1, row, MaxKept)
      BY <3>1 DEF row
    <3>6. /\ DOMAIN rows' \subseteq DOMAIN rows \cup {lastId + 1}
          /\ \A r \in DOMAIN rows' : rows'[r] = IF r = lastId + 1 THEN row ELSE rows[r]
      BY <3>4, <3>5, InsertedTable DEF HistoryInv
    <3>7. QED
      BY <2>1, <3>3, <3>6
  <2>3. CASE WriteRow
    <3>1. PICK w \in check.writes :
            rows' = [rows EXCEPT ![w.row].outcome = w.outcome, ![w.row].grabs = w.grabs]
      BY <2>3, WriteRowWrites
    <3>2. WriteType(w) /\ w.row \in DOMAIN rows
      BY <2>3 DEF WriteRow, WritesInv, HistoryInv, CheckInv
    <3>3. /\ DOMAIN rows' = DOMAIN rows
          /\ \A r \in DOMAIN rows : r # w.row => rows'[r] = rows[r]
          /\ rows'[w.row] = [rows[w.row] EXCEPT !.outcome = w.outcome, !.grabs = w.grabs]
      BY <3>1, <3>2
    <3>4. rows[w.row] \in TypedRow
      BY <2>1, <3>2 DEF IsTypedRow
    <3>5. /\ rows'[w.row] \in TypedRow
          /\ rows'[w.row].outcome = w.outcome /\ rows'[w.row].grabs = w.grabs
      BY <3>2, <3>3, <3>4 DEF TypedRow, WriteType, Outcomes
    <3>6. IsTypedRow(rows'[w.row])
      BY <3>2, <3>5 DEF IsTypedRow, WriteType
    <3>7. QED
      BY <2>1, <3>3, <3>6
  <2>4. CASE UNCHANGED rows
    BY <2>1, <2>4
  <2>5. QED
    BY <2>2, <2>3, <2>4 DEF Next, CheckStep, Tick, Rename, Grab, StartCheck, ReadItem,
                            HistoryFails, Abort, vars
<1>8. /\ now' \in 0..MaxTime /\ faults' \in 0..MaxFaults /\ renames' \in 0..MaxRenames
      /\ names' \in Injection(Servers, Names) /\ lastId' \in 0..MaxInserts
  BY <1>2, <1>3, <1>4, <1>5, <1>6 DEF TypeOK
<1>9. DOMAIN rows' \subseteq 1..lastId' /\ found' \in [Servers -> Nat]
  BY <1>1 DEF HistoryInv, RowsInv, IsTable, TotalsInv
<1>10. history' \in [Servers -> SUBSET Grabs]
  <2>1. ASSUME NEW s \in Servers, Grab(s)
        PROVE  history' \in [Servers -> SUBSET Grabs]
    BY <2>1 DEF Grab, TypeOK
  <2>2. QED
    BY <2>1 DEF TypeOK, Next, CheckStep, Tick, Rename, Search, StartCheck, ReadItem,
                WriteRow, HistoryFails, Abort, vars
<1>11. (check.pc = "check" => /\ check.server \in Servers /\ check.entries # {}
                             /\ check.entries \subseteq DOMAIN rows)'
  BY <1>1 DEF HistoryInv, CheckInv, TimesInv, WritesInv
<1>12. QED
  BY <1>7, <1>8, <1>9, <1>10, <1>11 DEF TypeOK, IsTypedRow, TypedRow

(* A row is written as a whole: it names grabs when it has its verdict and *)
(* the verdict is that something was found, and a check never works on a   *)
(* row that was pruned since it started.                                   *)
THEOREM TypeCorrect == Spec => []TypeOK
<1>1. Init => WritesInv
  BY DEF Init, Idle, WritesInv
<1>2. QED
  BY <1>1, HistoryInit, HistoryNext, TimesInit, TimesNext, WritesTyped, TypeInit, TypeNext,
     PTL DEF Spec
=============================================================================
