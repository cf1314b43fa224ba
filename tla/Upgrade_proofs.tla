--------------------------- MODULE Upgrade_proofs ---------------------------
(***************************************************************************)
(* For every database an older build may leave and any number of crashes:  *)
(* the cutover parts the rows of older builds from those of this build,    *)
(* and a startup that is cut off at any statement leaves a database that   *)
(* has what its version promises, but for columns whose ALTER failed,      *)
(* every row and every total; and every database on the way has its shape. *)
(***************************************************************************)
EXTENDS Upgrade, SequenceTheorems, FiniteSetTheorems, WellFoundedInduction,
        TLAPS

(* A database whose rows are numbered, with a cutover at one of them.      *)
WellFormed(d) ==
  /\ DOMAIN d = Fields
  /\ d.last \in Nat /\ DOMAIN d.hist = 1..d.last /\ d.cutover \subseteq 0..d.last
  /\ \A i \in 1..d.last : DOMAIN d.hist[i] = RowFields

(* Two databases that differ in nothing the cutover is about.              *)
Alike(d, e) ==
  /\ d.last = e.last /\ d.cutover = e.cutover
  /\ \A i \in 1..d.last : d.hist[i].new = e.hist[i].new

Parted(d) ==
  \A i \in 1..d.last : d.hist[i].new <=> \E c \in d.cutover : i > c

(* The logged searches are imported before there is a cutover.             *)
ImportFirst ==
  /\ file \in Nat /\ log \in Nat
  /\ pc \in {"migrate", "import"} => log = file
  /\ pc \in {"save", "cutover", "up"} => log = 0
  /\ pc \in {"cutover", "up"} => file = 0
  /\ disk.cutover # {} => file = 0

(* A migration, committed or not, touches nothing the cutover is about.    *)
Consistent == WellFormed(disk) /\ WellFormed(work) /\ Alike(work, disk)

CutoverInv ==
  /\ Consistent /\ ImportFirst /\ Parted(disk)
  /\ pc = "up" => disk.cutover # {}

LEMMA CutoverInit == Init => CutoverInv
<1> SUFFICES ASSUME Init PROVE CutoverInv
  OBVIOUS
<1>1. first \in FirstDbs /\ disk = first /\ work = first /\ file \in Nat
  BY UpgradeAssumption DEF Init
<1>2. WellFormed(first) /\ Parted(first) /\ first.cutover = {}
  BY <1>1, FirstDbsAssumption DEF WellFormed, Parted, IsDatabase, RowFields
<1>3. Alike(first, first)
  BY DEF Alike
<1>4. QED
  BY <1>1, <1>2, <1>3 DEF Init, CutoverInv, Consistent, ImportFirst

(* A database is alike to itself with any other schema, statistics or      *)
(* version.                                                                *)
LEMMA FieldKept ==
  ASSUME NEW d, WellFormed(d), NEW f \in {"ver", "has", "stats", "copy"}, NEW x
  PROVE  WellFormed([d EXCEPT ![f] = x]) /\ Alike([d EXCEPT ![f] = x], d)
BY DEF WellFormed, Alike, Fields

(* Nor do other values in its rows matter.                                 *)
LEMMA RowsKept ==
  ASSUME NEW d, WellFormed(d), NEW h, DOMAIN h = 1..d.last,
         \A i \in 1..d.last : DOMAIN h[i] = RowFields /\ h[i].new = d.hist[i].new
  PROVE  WellFormed([d EXCEPT !.hist = h]) /\ Alike([d EXCEPT !.hist = h], d)
BY DEF WellFormed, Alike, Fields

LEMMA AlikeTransitive ==
  ASSUME NEW d, NEW e, NEW f, Alike(d, e), Alike(e, f)
  PROVE  Alike(d, f)
BY DEF Alike

LEMMA RegradedKept ==
  ASSUME NEW d, WellFormed(d), NEW was, NEW o
  PROVE  WellFormed(Regraded(d, was, o)) /\ Alike(Regraded(d, was, o), d)
<1> DEFINE h == [i \in DOMAIN d.hist |->
      IF d.hist[i].outcome = was THEN [d.hist[i] EXCEPT !.outcome = o] ELSE d.hist[i]]
<1>1. DOMAIN h = 1..d.last
  BY DEF WellFormed
<1>2. \A i \in 1..d.last : DOMAIN h[i] = RowFields /\ h[i].new = d.hist[i].new
  BY DEF WellFormed, RowFields
<1>3. Regraded(d, was, o) = [d EXCEPT !.hist = h]
  BY DEF Regraded
<1>4. WellFormed([d EXCEPT !.hist = h]) /\ Alike([d EXCEPT !.hist = h], d)
  <2> HIDE DEF h
  <2> QED  BY <1>1, <1>2, RowsKept
<1>5. QED
  BY <1>3, <1>4

(* What a statement may do.                                                *)
Harmless ==
  /\ WellFormed(work') /\ Alike(work', work)
  /\ disk' \in {disk, work'}
  /\ pc = "migrate" /\ UNCHANGED <<pc, file, log>>

LEMMA DdlHarmless ==
  ASSUME Consistent, NEW s, NEW d, Ddl(s, d), WellFormed(d), Alike(d, work)
  PROVE  Harmless
BY DEF Consistent, Ddl, Executes, Harmless

LEMMA DmlHarmless ==
  ASSUME Consistent, NEW s, NEW d, Dml(s, d), WellFormed(d), Alike(d, work)
  PROVE  Harmless
BY DEF Consistent, Dml, Executes, Harmless

LEMMA StatementHarmless ==
  ASSUME Consistent, Statement
  PROVE  Harmless
<1>1. WellFormed(work) /\ Alike(work, work)
  BY DEF Consistent, Alike
<1>2. CASE AddColumn
  <2>1. PICK c \in Columns : Ddl(c, [work EXCEPT !.has = @ \cup {c}])
    BY <1>2 DEF AddColumn
  <2>2. QED
    BY <1>1, <2>1, FieldKept, DdlHarmless
<1>3. CASE CreateStats
  BY <1>1, <1>3, FieldKept, DdlHarmless DEF CreateStats
<1>4. CASE SeedStats
  BY <1>1, <1>4, FieldKept, DmlHarmless DEF SeedStats
<1>5. CASE Backfill
  BY <1>1, <1>5, RegradedKept, DmlHarmless DEF Backfill
<1>6. CASE CreateCopy
  BY <1>1, <1>6, FieldKept, DdlHarmless DEF CreateCopy
<1>7. CASE FillCopy
  BY <1>1, <1>7, FieldKept, DmlHarmless DEF FillCopy
<1>8. CASE DropStats
  BY <1>1, <1>8, FieldKept, DdlHarmless DEF DropStats
<1>9. CASE RenameCopy
  <2> DEFINE d == [work EXCEPT !.stats = work.copy[at]]
             e == [d EXCEPT !.copy = [work.copy EXCEPT ![at] = NoTable]]
  <2>1. WellFormed(d) /\ Alike(d, work)
    BY <1>1, FieldKept
  <2>2. WellFormed(e) /\ Alike(e, d)
    BY <2>1, FieldKept
  <2>3. Ddl("rename_copy", e)
    BY <1>9, <1>1 DEF RenameCopy, WellFormed, Fields
  <2>4. QED
    BY <2>1, <2>2, <2>3, AlikeTransitive, DdlHarmless
<1>10. CASE ExpirePartials
  BY <1>1, <1>10, RegradedKept, DmlHarmless DEF ExpirePartials
<1>11. CASE Recount
  BY <1>1, <1>11, FieldKept, DmlHarmless DEF Recount
<1>12. CASE CheckLeftover
  BY <1>1, <1>12, FieldKept DEF CheckLeftover, Executes, Harmless, Consistent
<1>13. CASE Associate
  <2> DEFINE h == [i \in DOMAIN work.hist |-> Linked(work.hist[i], work.hist[i].name)]
             t == [n \in DOMAIN work.stats.rows |-> Linked(work.stats.rows[n], n)]
             d == [work EXCEPT !.hist = h]
             e == [d EXCEPT !.stats = [work.stats EXCEPT !.rows = t]]
  <2>1. DOMAIN h = 1..work.last
    BY <1>1 DEF WellFormed
  <2>2. ASSUME NEW i \in 1..work.last
        PROVE  DOMAIN h[i] = RowFields /\ h[i].new = work.hist[i].new
    BY <1>1 DEF WellFormed, RowFields, Linked
  <2>3. WellFormed(d) /\ Alike(d, work)
    <3> HIDE DEF h
    <3> QED  BY <1>1, <2>1, <2>2, RowsKept
  <2>4. WellFormed(e) /\ Alike(e, d)
    BY <2>3, FieldKept
  <2>5. Dml("associate", e)
    BY <1>13, <1>1 DEF Associate, WellFormed, Fields
  <2>6. QED
    BY <2>3, <2>4, <2>5, AlikeTransitive, DmlHarmless
<1>14. CASE Begin
  BY <1>1, <1>14 DEF Begin, Executes, Harmless, Consistent
<1>15. CASE RecordVersion
  BY <1>1, <1>15, FieldKept, DmlHarmless DEF RecordVersion
<1>16. CASE Commit
  BY <1>1, <1>16 DEF Commit, Executes, Harmless, Consistent
<1>17. CASE IndexInstance
  BY <1>1, <1>17, DdlHarmless DEF IndexInstance
<1>18. QED
  BY <1>2, <1>3, <1>4, <1>5, <1>6, <1>7, <1>8, <1>9, <1>10, <1>11, <1>12,
     <1>13, <1>14, <1>15, <1>16, <1>17 DEF Statement

LEMMA InsertedFacts ==
  ASSUME NEW d, WellFormed(d), NEW k \in Nat, NEW row, DOMAIN row = RowFields
  PROVE  LET e == Inserted(d, k, row)
         IN  /\ WellFormed(e) /\ e.last = d.last + k /\ e.cutover = d.cutover
             /\ \A i \in 1..d.last : e.hist[i] = d.hist[i]
             /\ \A i \in 1..e.last : i > d.last => e.hist[i] = row
BY DEF Inserted, WellFormed, Fields

LEMMA RowFacts ==
  ASSUME NEW n, NEW s, NEW new
  PROVE  DOMAIN Row(n, s, new) = RowFields /\ Row(n, s, new).new = new
BY DEF Row, RowFields

LEMMA PartedAlike ==
  ASSUME NEW d, NEW e, Alike(e, d), Parted(d)
  PROVE  Parted(e)
BY DEF Alike, Parted

LEMMA CutoverNext == CutoverInv /\ [Next]_vars => CutoverInv'
<1> SUFFICES ASSUME CutoverInv, [Next]_vars PROVE CutoverInv'
  OBVIOUS
<1>1. Consistent /\ ImportFirst /\ Parted(disk) /\ (pc = "up" => disk.cutover # {})
  BY DEF CutoverInv
<1>0. Parted(work)
  BY <1>1, PartedAlike DEF Consistent
<1>2. Alike(disk, disk)
  BY DEF Alike
<1>3. CASE UNCHANGED vars
  BY <1>1, <1>3 DEF vars, CutoverInv, Consistent, ImportFirst, WellFormed, Alike, Parted
<1>4. CASE Start \/ NextVersion \/ MissColumn \/ NothingToImport \/ SaveState
  <2>1. UNCHANGED <<disk, work>>
    BY <1>4 DEF Start, NextVersion, MissColumn, NothingToImport, SaveState
  <2>2. Consistent' /\ Parted(disk)'
    BY <1>1, <2>1 DEF Consistent, WellFormed, Alike, Parted
  <2>3. ImportFirst' /\ pc' # "up"
    BY <1>1, <1>4, <2>1
       DEF Start, NextVersion, MissColumn, NothingToImport, SaveState, ImportFirst
  <2>4. QED
    BY <2>2, <2>3 DEF CutoverInv
<1>5. CASE Statement
  <2>1. Harmless
    BY <1>1, <1>5, StatementHarmless
  <2>2. WellFormed(disk') /\ Alike(work', disk') /\ Alike(disk', disk)
    <3>1. Alike(work', disk)
      BY <1>1, <2>1, AlikeTransitive DEF Harmless, Consistent
    <3>2. CASE disk' = disk
      BY <1>1, <1>2, <3>1, <3>2 DEF Consistent, WellFormed
    <3>3. CASE disk' = work'
      BY <2>1, <3>1, <3>3 DEF Harmless, Alike
    <3>4. QED
      BY <2>1, <3>2, <3>3 DEF Harmless
  <2>3. Parted(disk)' /\ disk'.cutover = disk.cutover
    BY <1>1, <2>2, PartedAlike DEF Alike, Parted
  <2>4. QED
    BY <1>1, <2>1, <2>2, <2>3 DEF Harmless, CutoverInv, Consistent, ImportFirst
<1>6. CASE Import
  <2> DEFINE row == Row("Default", "", FALSE)
  <2>1. /\ work.cutover = {} /\ log \in Nat
        /\ disk' = Inserted(work, log, row) /\ work' = disk'
        /\ pc' = "save" /\ log' = 0 /\ file' = file
    <3>1. pc = "import" /\ log > 0 /\ log = file /\ log \in Nat
      BY <1>1, <1>6 DEF Import, ImportFirst
    <3>2. work.cutover = {}
      BY <1>1, <3>1 DEF ImportFirst, Consistent, Alike
    <3>3. QED
      BY <1>6, <3>1, <3>2 DEF Import
  <2>2. DOMAIN row = RowFields /\ row.new = FALSE
    BY RowFacts
  <2>3. /\ WellFormed(disk') /\ disk'.cutover = {} /\ disk'.last \in Nat
        /\ \A i \in 1..disk'.last : ~disk'.hist[i].new
    <3> HIDE DEF row
    <3>1. WellFormed(work) /\ work.last \in Nat
      BY <1>1 DEF Consistent, WellFormed
    <3>2. /\ WellFormed(disk') /\ disk'.last = work.last + log /\ disk'.cutover = {}
          /\ \A i \in 1..work.last : disk'.hist[i] = work.hist[i]
          /\ \A i \in 1..disk'.last : i > work.last => disk'.hist[i] = row
      BY <2>1, <2>2, <3>1, InsertedFacts
    <3>3. \A i \in 1..work.last : ~work.hist[i].new
      BY <1>0, <2>1 DEF Parted
    <3>4. ASSUME NEW i \in 1..disk'.last
          PROVE  ~disk'.hist[i].new
      <4>1. CASE i > work.last
        BY <2>2, <3>2, <4>1
      <4>2. CASE ~(i > work.last)
        BY <3>1, <3>2, <3>3, <4>2
      <4>3. QED
        BY <4>1, <4>2
    <3>5. QED
      BY <2>1, <3>1, <3>2, <3>4
  <2>4. QED
    BY <1>1, <2>1, <2>3 DEF CutoverInv, Consistent, ImportFirst, Alike, Parted
<1>7. CASE RecordCutover
  <2>1. /\ work' = disk' /\ pc' = "up"
        /\ UNCHANGED <<file, log>> /\ file = 0 /\ log = 0
        /\ disk' = IF work.cutover # {} THEN work ELSE [work EXCEPT !.cutover = {work.last}]
    BY <1>1, <1>7 DEF RecordCutover, ImportFirst
  <2>2. /\ WellFormed(disk') /\ disk'.cutover # {}
        /\ \A i \in 1..disk'.last : disk'.hist[i].new <=> \E c \in disk'.cutover : i > c
    BY <1>0, <1>1, <2>1 DEF Consistent, WellFormed, Parted, Fields
  <2>3. QED
    BY <1>1, <2>1, <2>2 DEF CutoverInv, Consistent, ImportFirst, Alike, Parted
<1>8. ASSUME NEW n \in DOMAIN IdOf, Search(n)
      PROVE  CutoverInv'
  <2> DEFINE row == Row(n, IdOf[n], TRUE)
  <2>1. /\ work.cutover # {}
        /\ disk' = Inserted(work, 1, row) /\ work' = disk'
        /\ pc' = "up" /\ file = 0 /\ log = 0 /\ UNCHANGED <<log, file>>
    BY <1>1, <1>8 DEF Search, Consistent, Alike, ImportFirst
  <2>2. DOMAIN row = RowFields /\ row.new = TRUE
    BY RowFacts
  <2>3. /\ WellFormed(disk') /\ disk'.cutover = work.cutover
        /\ work.last \in Nat /\ disk'.last = work.last + 1
        /\ \A i \in 1..work.last : disk'.hist[i] = work.hist[i]
        /\ disk'.hist[work.last + 1] = row
    <3> HIDE DEF row
    <3>1. WellFormed(work) /\ work.last \in Nat /\ 1 \in Nat
      BY <1>1 DEF Consistent, WellFormed
    <3>2. /\ WellFormed(disk') /\ disk'.last = work.last + 1
          /\ disk'.cutover = work.cutover
          /\ \A i \in 1..work.last : disk'.hist[i] = work.hist[i]
          /\ \A i \in 1..disk'.last : i > work.last => disk'.hist[i] = row
      BY <2>1, <2>2, <3>1, InsertedFacts
    <3>3. QED
      BY <3>1, <3>2
  <2>4. ASSUME NEW i \in 1..disk'.last
        PROVE  disk'.hist[i].new <=> \E c \in disk'.cutover : i > c
    <3> HIDE DEF row
    <3>1. CASE i \in 1..work.last
      BY <1>0, <2>3, <3>1 DEF Parted
    <3>2. CASE i = work.last + 1
      <4>1. PICK c \in work.cutover : c \in 0..work.last
        BY <1>1, <2>1 DEF Consistent, WellFormed
      <4>2. i > c
        BY <2>3, <3>2, <4>1
      <4>3. QED
        BY <2>2, <2>3, <3>2, <4>1, <4>2
    <3>3. QED
      BY <2>3, <3>1, <3>2
  <2>5. QED
    BY <1>1, <2>1, <2>3, <2>4 DEF CutoverInv, Consistent, ImportFirst, Alike, Parted
<1>9. CASE Refuse \/ Crash \/ Stop
  <2>1. GoesDown
    BY <1>9 DEF Refuse, Crash, Stop
  <2>2. QED
    BY <1>1, <1>2, <2>1 DEF GoesDown, CutoverInv, Consistent, ImportFirst, WellFormed, Alike, Parted
<1>10. QED
  BY <1>3, <1>4, <1>5, <1>6, <1>7, <1>8, <1>9 DEF Next, Progress

(* No crash, failed save or restart ever lets the cutover move past a      *)
(* search of this build, or an imported row slip behind it.                *)
THEOREM CutoverHolds == Spec => []CutoverParts
<1>1. CutoverInv => CutoverParts
  BY DEF CutoverInv, Consistent, WellFormed, Parted, CutoverParts
<1>2. QED
  BY <1>1, CutoverInit, CutoverNext, PTL DEF Spec

-----------------------------------------------------------------------------
(* An upgrade may still find rows that v8 will call settled.               *)
NoneExpired(d) ==
  \A i \in DOMAIN d.hist : d.hist[i].outcome # "window_expired"

(* Of the tables of statistics there is one, with its rows and their two   *)
(* fields; an empty copy next to it is what a crash in v7 leaves, any      *)
(* other copy comes from an older build and is of v10.  The table of v10   *)
(* has the columns of v9.                                                  *)
WellKept(t) ==
  /\ DOMAIN t = {"key", "rows"} /\ (t.key = "none" => t = NoTable)
  /\ \A n \in DOMAIN t.rows : DOMAIN t.rows[n] = {"n", "sid"}

Tables(d) ==
  /\ WellKept(d.stats) /\ DOMAIN d.copy = {7, 10} /\ WellKept(d.copy[10])
  /\ d.copy[7] # NoTable => d.ver = 6 /\ d.copy[7] = Table("name")
  /\ d.copy[10] # NoTable => d.ver = 9 /\ first.ver = 9
  /\ d.stats = NoTable => \/ d.ver < 3 /\ first.stats = NoTable
                          \/ first.ver \notin 0..8
  /\ d.stats.key = "id" => {"albums_found", "albums_updated"} \subseteq d.has

(* Every total is the right one; one that v8 corrected stays right because *)
(* that migration finds nothing to change any more.                        *)
RightTotals(d) ==
  \A n \in DOMAIN Totals(first) :
    /\ n \in DOMAIN Totals(d) /\ Right(d, n)
    /\ NoneExpired(d) \/ Totals(d)[n].n = Totals(first)[n].n

RowsThere(d) ==
  first.last <= d.last /\ \A i \in 1..first.last : d.hist[i].n = first.hist[i].n

(* A database a startup may be interrupted with.                           *)
Sound(d) ==
  /\ d.ver \in first.ver..10
  /\ \A v \in (first.ver + 1)..d.ver : Has(d, v)
  /\ RowsThere(d) /\ Tables(d) /\ RightTotals(d)

(* The statements left are the end of the plan.                            *)
Passed == Len(Plan(at)) - Len(todo)

Words == Columns \cup {"index_instance", "create_stats", "seed_stats", "backfill",
  "create_copy", "fill_copy", "drop_stats", "rename_copy", "expire_partials",
  "recount", "check_leftover", "associate", "begin", "version", "commit"}

OnPlan ==
  /\ at \in 1..10 /\ todo \in Seq(Words) /\ Len(todo) <= Len(Plan(at))
  /\ \A i \in 1..Len(todo) : todo[i] = Plan(at)[Passed + i]

(* In the middle of a rebuild: the copy is there, it has all rows, it is   *)
(* the only one.  The database is sound with the table that will be.       *)
Rebuilding == at \in {7, 10} /\ Len(todo) \in {4, 5, 6}

NewKey == IF at = 10 THEN "id" ELSE "name"

WithStats(d, t) == [d EXCEPT !.stats = t, !.copy[at] = NoTable]

SameRows(t, u) ==
  DOMAIN t.rows = DOMAIN u.rows /\ \A n \in DOMAIN t.rows : t.rows[n] = u.rows[n]

Rebuilt ==
  /\ work.copy[at].key = NewKey /\ WellKept(work.copy[at])
  /\ tx \/ (Len(todo) = 6 /\ at = 7)
  /\ Len(todo) = 6 => work.copy[at].rows = <<>>
  /\ Len(todo) = 5 => /\ work.stats # NoTable /\ SameRows(work.copy[at], work.stats)
                      /\ at = 10 => {"albums_found", "albums_updated"} \subseteq work.has
  /\ Len(todo) = 4 => work.stats = NoTable
  /\ Sound(WithStats(work, IF Len(todo) = 4 THEN work.copy[at] ELSE work.stats))

(* What the statements of a migration have done when they are passed: each *)
(* has found the columns it reads.                                         *)
Added ==
  \A i \in 1..Passed :
    /\ Plan(at)[i] \in Columns => Plan(at)[i] \in work.has \cup lost
    /\ Reads(at, Plan(at)[i]) \subseteq work.has

RecountedTotals(d) ==
  \A n \in DOMAIN Totals(first) :
    Settled(d, n) # {} => Totals(d)[n].n = Recounted(d, n)

Achieved ==
  /\ at = 3 /\ Len(todo) <= 4 => work.stats # NoTable
  /\ at = 7 /\ Len(todo) <= 3 => work.stats.key = "name" /\ work.copy[7] = NoTable
  /\ at = 8 /\ Len(todo) <= 4 => NoneExpired(work)
  /\ at = 8 /\ Len(todo) <= 3 => RecountedTotals(work)
  /\ at = 10 /\ Len(todo) <= 7 => work.copy[10] = NoTable \/ Rebuilding
  /\ at = 10 /\ Len(todo) <= 3 => work.stats.key = "id"
  /\ at = 10 /\ Len(todo) <= 10 => tx

Migrating ==
  /\ at \in 0..10
  /\ work.ver = IF Len(todo) >= 2 THEN at - 1 ELSE at
  /\ IF Rebuilding THEN Rebuilt ELSE Sound(work)
  /\ todo # <<>> => OnPlan /\ Added /\ Achieved

UpgradeInv ==
  /\ first \in FirstDbs /\ Sound(disk)
  /\ pc = "down" => work = disk
  /\ pc = "migrate" => Migrating
  /\ pc \in {"import", "save", "cutover", "up"} => Sound(work) /\ work.ver = 10
  /\ pc \in {"down", "migrate", "import", "save", "cutover", "up"}

-----------------------------------------------------------------------------
(* Statement s of the plan of version v, with l statements left.           *)
Position(v, l, s) ==
  /\ s \in Columns => l >= 4 /\ v \in {1, 2, 5, 6, 9, 10} /\ (v = 10 => l \in {9, 10})
  /\ s = "index_instance" => v = 6 /\ l = 4
  /\ s = "create_stats" => v = 3 /\ l = 5
  /\ s = "seed_stats" => v = 3 /\ l = 4
  /\ s = "backfill" => v = 4 /\ l = 4
  /\ s = "create_copy" => v \in {7, 10} /\ l = 7
  /\ s = "fill_copy" => v \in {7, 10} /\ l = 6
  /\ s = "drop_stats" => v \in {7, 10} /\ l = 5
  /\ s = "rename_copy" => v \in {7, 10} /\ l = 4
  /\ s = "expire_partials" => v = 8 /\ l = 5
  /\ s = "recount" => v = 8 /\ l = 4
  /\ s = "check_leftover" => v = 10 /\ l = 8
  /\ s = "associate" => v = 10 /\ l = 3
  /\ s = "begin" => v = 10 /\ l = 11
  /\ s = "version" => l = 2
  /\ s = "commit" => l = 1 \/ (l = 3 /\ v # 10)

PlanFacts(v) ==
  /\ Plan(v) \in Seq(Words)
  /\ \A i \in 1..Len(Plan(v)) : Position(v, Len(Plan(v)) + 1 - i, Plan(v)[i])
  /\ \A i \in DOMAIN Script[v] : \E j \in 1..(Len(Plan(v)) - 2) : Plan(v)[j] = Script[v][i]
  /\ Len(Plan(v)) >= 4
  /\ v \in {3, 8} => Len(Plan(v)) = 5
  /\ v = 7 => Len(Plan(v)) = 7
  /\ v = 10 => Len(Plan(v)) = 11

LEMMA Plans == \A v \in 1..10 : PlanFacts(v)
<1>0. Target = 10
  BY DEF Target, Script
<1>1. PlanFacts(1)
  BY <1>0 DEF Plan, Script, PlanFacts, Position, Words, Columns
<1>2. PlanFacts(2)
  BY <1>0 DEF Plan, Script, PlanFacts, Position, Words, Columns
<1>3. PlanFacts(3)
  BY <1>0 DEF Plan, Script, PlanFacts, Position, Words, Columns
<1>4. PlanFacts(4)
  BY <1>0 DEF Plan, Script, PlanFacts, Position, Words, Columns
<1>5. PlanFacts(5)
  BY <1>0 DEF Plan, Script, PlanFacts, Position, Words, Columns
<1>6. PlanFacts(6)
  BY <1>0 DEF Plan, Script, PlanFacts, Position, Words, Columns
<1>7. PlanFacts(7)
  BY <1>0 DEF Plan, Script, Rebuild, PlanFacts, Position, Words, Columns
<1>8. PlanFacts(8)
  BY <1>0 DEF Plan, Script, PlanFacts, Position, Words, Columns
<1>9. PlanFacts(9)
  BY <1>0 DEF Plan, Script, PlanFacts, Position, Words, Columns
<1>10. PlanFacts(10)
  <2>1. /\ Plan(10) \in Seq(Words) /\ Len(Plan(10)) = 11
        /\ Plan(10)[1] = "begin"
        /\ Plan(10)[2] = "attribution_cutover" /\ Plan(10)[3] = "instance_stable_id"
        /\ Plan(10)[4] = "check_leftover" /\ Plan(10)[5] = "create_copy"
        /\ Plan(10)[6] = "fill_copy" /\ Plan(10)[7] = "drop_stats"
        /\ Plan(10)[8] = "rename_copy" /\ Plan(10)[9] = "associate"
        /\ Plan(10)[10] = "version" /\ Plan(10)[11] = "commit"
    BY <1>0 DEF Plan, Script, Rebuild, Words, Columns
  <2>2. /\ DOMAIN Script[10] = 1..8
        /\ \A i \in 1..8 : i + 1 \in 1..9 /\ Plan(10)[i + 1] = Script[10][i]
    BY <1>0 DEF Plan, Script, Rebuild
  <2>3. \A i \in 1..11 : Position(10, 12 - i, Plan(10)[i])
    BY <2>1 DEF Position, Columns
  <2>4. \A i \in DOMAIN Script[10] :
          \E j \in 1..(Len(Plan(10)) - 2) : Plan(10)[j] = Script[10][i]
    BY <2>1, <2>2
  <2>5. \A i \in 1..Len(Plan(10)) : Position(10, Len(Plan(10)) + 1 - i, Plan(10)[i])
    <3>1. Len(Plan(10)) = 11
      BY <2>1
    <3>2. \A n \in {11} : \A i \in 1..11 : n + 1 - i = 12 - i
      OBVIOUS
    <3>3. QED
      BY <2>3, <3>1, <3>2
  <2>6. Len(Plan(10)) >= 4 /\ ~(10 \in {3, 8}) /\ 10 # 7
    BY <2>1
  <2>7. QED
    BY <2>1, <2>4, <2>5, <2>6, Zenon DEF PlanFacts
<1>11. QED
  BY <1>1, <1>2, <1>3, <1>4, <1>5, <1>6, <1>7, <1>8, <1>9, <1>10

(* Rows that are added, relabelled or linked, none of them settled by it.  *)
KeepsRows(e, d) ==
  /\ e.last \in Nat /\ d.last <= e.last
  /\ \A i \in 1..d.last : e.hist[i].n = d.hist[i].n
  /\ \A n : Settled(e, n) = Settled(d, n)
  /\ NoneExpired(d) => NoneExpired(e)

LEMMA RecountedKept ==
  ASSUME NEW d, NEW e, WellFormed(d), KeepsRows(e, d), NEW n
  PROVE  Recounted(e, n) = Recounted(d, n)
<1>1. \A i \in Settled(d, n) : i \in 1..d.last
  BY DEF Settled, WellFormed
<1>2. [i \in Settled(e, n) |-> e.hist[i].n] = [i \in Settled(d, n) |-> d.hist[i].n]
  BY <1>1 DEF KeepsRows
<1>3. QED
  BY <1>2 DEF Recounted

LEMMA RightKept ==
  ASSUME NEW d, NEW e, NEW n, e.ver = d.ver, Totals(e)[n].n = Totals(d)[n].n,
         Settled(e, n) = Settled(d, n), Recounted(e, n) = Recounted(d, n), Right(d, n)
  PROVE  Right(e, n)
BY DEF Right

LEMMA RowsSound ==
  ASSUME NEW d, NEW e, first \in FirstDbs, WellFormed(d), Sound(d), KeepsRows(e, d),
         e.ver = d.ver, d.has \subseteq e.has, e.stats = d.stats, e.copy = d.copy
  PROVE  Sound(e)
<1>1. \A n : Recounted(e, n) = Recounted(d, n)
  BY RecountedKept
<1>2. Totals(e) = Totals(d)
  BY DEF Totals
<1>3. RightTotals(e)
  <2> SUFFICES ASSUME NEW n \in DOMAIN Totals(first)
               PROVE  /\ n \in DOMAIN Totals(e) /\ Right(e, n)
                      /\ NoneExpired(e) \/ Totals(e)[n].n = Totals(first)[n].n
    BY DEF RightTotals
  <2>1. /\ n \in DOMAIN Totals(d) /\ Right(d, n)
        /\ NoneExpired(d) \/ Totals(d)[n].n = Totals(first)[n].n
    BY DEF Sound, RightTotals
  <2>2. Right(e, n)
    BY <1>1, <1>2, <2>1, RightKept DEF KeepsRows
  <2>3. QED
    BY <1>2, <2>1, <2>2 DEF KeepsRows
<1>4. RowsThere(e)
  <2>1. first.last \in Nat /\ d.last \in Nat
    BY FirstDbsAssumption DEF IsDatabase, WellFormed
  <2>2. QED
    BY <2>1 DEF Sound, RowsThere, KeepsRows
<1>5. Tables(e)
  BY DEF Sound, Tables
<1>6. ASSUME NEW v \in (first.ver + 1)..d.ver
      PROVE  Has(e, v)
  <2>1. Has(d, v)
    BY DEF Sound
  <2>2. v = 8 => NoneExpired(e)
    BY <2>1 DEF Has, NoneExpired, KeepsRows
  <2>3. QED
    BY <2>1, <2>2 DEF Has, NoneExpired
<1>7. QED
  BY <1>3, <1>4, <1>5, <1>6 DEF Sound

LEMMA TablesSound ==
  ASSUME NEW d, NEW e, WellFormed(d), Sound(d), Tables(e),
         e.ver = d.ver, e.has = d.has, e.hist = d.hist, e.last = d.last,
         d.stats # NoTable => e.stats # NoTable,
         d.ver >= 7 /\ d.stats.key # "app" => e.stats.key # "app",
         d.ver = 10 => e.stats.key = d.stats.key,
         \A n \in DOMAIN Totals(d) :
           n \in DOMAIN Totals(e) /\ Totals(e)[n].n = Totals(d)[n].n
  PROVE  Sound(e)
<1>1. \A n : Settled(e, n) = Settled(d, n) /\ Recounted(e, n) = Recounted(d, n)
  BY DEF Settled, Recounted
<1>2. RightTotals(e)
  <2> SUFFICES ASSUME NEW n \in DOMAIN Totals(first)
               PROVE  /\ n \in DOMAIN Totals(e) /\ Right(e, n)
                      /\ NoneExpired(e) \/ Totals(e)[n].n = Totals(first)[n].n
    BY DEF RightTotals
  <2>1. /\ n \in DOMAIN Totals(d) /\ Right(d, n)
        /\ NoneExpired(d) \/ Totals(d)[n].n = Totals(first)[n].n
    BY DEF Sound, RightTotals
  <2>2. n \in DOMAIN Totals(e) /\ Totals(e)[n].n = Totals(d)[n].n
    BY <2>1
  <2>3. Right(e, n)
    BY <1>1, <2>1, <2>2, RightKept
  <2>4. QED
    BY <2>1, <2>2, <2>3 DEF NoneExpired
<1>3. RowsThere(e)
  BY DEF Sound, RowsThere
<1>4. ASSUME NEW v \in (first.ver + 1)..d.ver
      PROVE  Has(e, v)
  <2>1. Has(d, v)
    BY DEF Sound
  <2>2. v = 7 => e.copy[7] = NoTable
    BY DEF Tables
  <2>3. v = 10 => e.copy[10] = NoTable
    BY DEF Tables, Sound
  <2>4. v = 10 => d.ver = 10
    BY DEF Sound
  <2>5. QED
    BY <2>1, <2>2, <2>3, <2>4 DEF Has
<1>5. QED
  BY <1>2, <1>3, <1>4 DEF Sound

LEMMA TargetIsTen == Target = 10
BY DEF Target, Script

LEMMA FirstFacts ==
  ASSUME first \in FirstDbs
  PROVE  /\ WellFormed(first) /\ first.ver \in 0..10 /\ first.last \in Nat
         /\ Tables(first) /\ Sound(first)
<1>1. Target = 10
  BY TargetIsTen
<1>2. /\ IsDatabase(first) /\ first.cutover = {}
      /\ first.copy[7] # NoTable => first.ver = 6 /\ first.copy[7] = Table("name")
      /\ first.copy[10] # NoTable => first.ver = 9
      /\ first.stats = NoTable => first.ver \notin 3..8
      /\ first.stats.key = "id" => {"albums_found", "albums_updated"} \subseteq first.has
  BY <1>1, FirstDbsAssumption
<1>3. WellFormed(first) /\ first.ver \in 0..10 /\ first.last \in Nat
  BY <1>1, <1>2 DEF IsDatabase, WellFormed, RowFields
<1>4. WellKept(first.stats) /\ WellKept(first.copy[10])
  BY <1>1, <1>2 DEF IsDatabase, IsTable, WellKept
<1>5. Tables(first)
  BY <1>1, <1>2, <1>3, <1>4 DEF Tables, IsDatabase
<1>6. RightTotals(first)
  BY <1>3 DEF RightTotals, Right
<1>7. QED
  BY <1>3, <1>5, <1>6 DEF Sound, RowsThere

LEMMA ColumnSound ==
  ASSUME NEW d, first \in FirstDbs, WellFormed(d), Sound(d), NEW c
  PROVE  Sound([d EXCEPT !.has = @ \cup {c}])
<1> DEFINE e == [d EXCEPT !.has = @ \cup {c}]
<1>1. /\ e.ver = d.ver /\ e.has = d.has \cup {c} /\ e.stats = d.stats
      /\ e.copy = d.copy /\ e.hist = d.hist /\ e.last = d.last /\ d.last \in Nat
  BY DEF WellFormed, Fields
<1> HIDE DEF e
<1>2. KeepsRows(e, d)
  BY <1>1 DEF KeepsRows, Settled, NoneExpired
<1>3. Sound(e)
  BY <1>1, <1>2, RowsSound
<1>4. QED
  BY <1>3 DEF e

LEMMA CreateStatsSound ==
  ASSUME NEW d, first \in FirstDbs, WellFormed(d), Sound(d), d.ver = 2, d.stats = NoTable
  PROVE  Sound([d EXCEPT !.stats = Table("app")])
<1> DEFINE e == [d EXCEPT !.stats = Table("app")]
<1>1. /\ e.ver = d.ver /\ e.has = d.has /\ e.stats = Table("app")
      /\ e.copy = d.copy /\ e.hist = d.hist /\ e.last = d.last
  BY DEF WellFormed, Fields
<1> HIDE DEF e
<1>2. Tables(d) /\ d.ver = 2 /\ d.stats = NoTable
  BY DEF Sound
<1>3. d.copy[10] = NoTable /\ d.copy[7] = NoTable
  BY <1>2 DEF Tables
<1>4. DOMAIN Totals(d) = {}
  <2>1. Totals(d) = NoTable.rows
    BY <1>2, <1>3, TargetIsTen DEF Totals
  <2>2. QED
    BY <2>1 DEF NoTable
<1>5. WellKept(Table("app")) /\ Table("app") # NoTable /\ Table("app").key # "id"
  BY DEF WellKept, Table, NoTable
<1>6. Tables(e)
  BY <1>1, <1>2, <1>5 DEF Tables
<1>7. \A n \in DOMAIN Totals(d) :
        n \in DOMAIN Totals(e) /\ Totals(e)[n].n = Totals(d)[n].n
  BY <1>4
<1>8. Sound(e)
  BY <1>1, <1>2, <1>5, <1>6, <1>7, TablesSound
<1>9. QED
  BY <1>8 DEF e

LEMMA SeedSound ==
  ASSUME NEW d, first \in FirstDbs, WellFormed(d), Sound(d), d.stats # NoTable
  PROVE  Sound([d EXCEPT !.stats.rows =
           OrIgnored(@, [n \in {"Default"} |-> [n |-> 0, sid |-> ""]])])
<1> DEFINE rows == OrIgnored(d.stats.rows, [n \in {"Default"} |-> [n |-> 0, sid |-> ""]])
           e    == [d EXCEPT !.stats.rows =
           OrIgnored(@, [n \in {"Default"} |-> [n |-> 0, sid |-> ""]])]
<1>1. WellKept(d.stats) /\ Tables(d)
  BY DEF Sound, Tables
<1>2. /\ DOMAIN rows = DOMAIN d.stats.rows \cup {"Default"}
      /\ \A n \in DOMAIN d.stats.rows : rows[n] = d.stats.rows[n]
      /\ "Default" \notin DOMAIN d.stats.rows => rows["Default"] = [n |-> 0, sid |-> ""]
  BY DEF OrIgnored
<1>3. /\ e.ver = d.ver /\ e.has = d.has /\ e.copy = d.copy /\ e.hist = d.hist
      /\ e.last = d.last /\ DOMAIN e.stats = {"key", "rows"}
      /\ e.stats.key = d.stats.key /\ e.stats.rows = rows
  BY <1>1 DEF WellFormed, Fields, WellKept
<1> HIDE DEF e, rows
<1>4. e.stats # NoTable /\ d.stats.key # "none"
  BY <1>1, <1>3 DEF NoTable, WellKept
<1>5. WellKept(e.stats)
  <2>1. DOMAIN [n |-> 0, sid |-> ""] = {"n", "sid"}
    OBVIOUS
  <2>2. \A n \in DOMAIN rows : DOMAIN rows[n] = {"n", "sid"}
    BY <1>1, <1>2, <2>1 DEF WellKept
  <2>3. QED
    BY <1>1, <1>3, <1>4, <2>2 DEF WellKept
<1>6. Tables(e)
  BY <1>1, <1>3, <1>4, <1>5 DEF Tables
<1>7. \A n \in DOMAIN Totals(d) :
        n \in DOMAIN Totals(e) /\ Totals(e)[n].n = Totals(d)[n].n
  BY <1>2, <1>3, <1>4 DEF Totals
<1>8. Sound(e)
  BY <1>3, <1>4, <1>6, <1>7, TablesSound
<1>9. QED
  BY <1>8 DEF e

(* v7 may find the empty copy of an earlier attempt or make one.           *)
LEMMA CreateCopySound ==
  ASSUME NEW d, first \in FirstDbs, WellFormed(d), Sound(d), d.ver = 6
  PROVE  Sound([d EXCEPT !.copy[7] = Table("name")])
<1> DEFINE e == [d EXCEPT !.copy[7] = Table("name")]
<1>1. Tables(d)
  BY DEF Sound
<1>2. /\ e.ver = d.ver /\ e.has = d.has /\ e.stats = d.stats /\ e.hist = d.hist
      /\ e.last = d.last /\ DOMAIN e.copy = {7, 10}
      /\ e.copy[7] = Table("name") /\ e.copy[10] = d.copy[10]
  BY <1>1 DEF WellFormed, Fields, Tables
<1> HIDE DEF e
<1>3. Tables(e)
  BY <1>1, <1>2 DEF Tables
<1>4. d.stats # NoTable
  BY <1>1, FirstFacts DEF Tables, Sound
<1>5. Totals(e) = Totals(d)
  BY <1>2, <1>4 DEF Totals
<1>6. Sound(e)
  BY <1>2, <1>3, <1>4, <1>5, TablesSound
<1>7. QED
  BY <1>6 DEF e

(* Before v7 no total has been touched, whatever the outcomes say.         *)
LEMMA EarlySound ==
  ASSUME NEW d, NEW e, Sound(d), d.ver \in 0..6,
         e.ver = d.ver, e.has = d.has, e.stats = d.stats, e.copy = d.copy,
         e.last = d.last, first.last \in Nat, d.last \in Nat, first.ver \in 0..10,
         \A i \in 1..d.last : e.hist[i].n = d.hist[i].n
  PROVE  Sound(e)
<1>1. Totals(e) = Totals(d)
  BY DEF Totals
<1>2. RightTotals(e)
  <2> SUFFICES ASSUME NEW n \in DOMAIN Totals(first)
               PROVE  /\ n \in DOMAIN Totals(e) /\ Right(e, n)
                      /\ Totals(e)[n].n = Totals(first)[n].n
    BY DEF RightTotals
  <2>1. n \in DOMAIN Totals(d) /\ Right(d, n)
    BY DEF Sound, RightTotals
  <2>2. Totals(d)[n].n = Totals(first)[n].n
    BY <2>1 DEF Right
  <2>3. QED
    BY <1>1, <2>1, <2>2 DEF Right
<1>3. RowsThere(e)
  BY DEF Sound, RowsThere
<1>4. Tables(e)
  BY DEF Sound, Tables
<1>5. ASSUME NEW v \in (first.ver + 1)..d.ver
      PROVE  Has(e, v)
  <2>1. Has(d, v) /\ v # 8
    BY DEF Sound
  <2>2. QED
    BY <2>1 DEF Has
<1>6. QED
  BY <1>2, <1>3, <1>4, <1>5 DEF Sound

(* What the table and the copies become.                                   *)
LEMMA WithStatsFacts ==
  ASSUME NEW d, WellFormed(d), DOMAIN d.copy = {7, 10}, at \in {7, 10}, NEW t
  PROVE  LET e == WithStats(d, t)
         IN  /\ e.ver = d.ver /\ e.has = d.has /\ e.hist = d.hist /\ e.last = d.last
             /\ e.stats = t /\ DOMAIN e.copy = {7, 10} /\ e.copy[at] = NoTable
             /\ \A k \in {7, 10} : k # at => e.copy[k] = d.copy[k]
             /\ WellFormed(e)
<1> DEFINE c == [d EXCEPT !.stats = t]
           e == [c EXCEPT !.copy = [c.copy EXCEPT ![at] = NoTable]]
<1>1. /\ WellFormed(c) /\ c.ver = d.ver /\ c.has = d.has /\ c.hist = d.hist
      /\ c.last = d.last /\ c.copy = d.copy /\ c.stats = t
  BY FieldKept DEF WellFormed, Fields
<1> HIDE DEF c
<1>2. /\ WellFormed(e) /\ e.ver = d.ver /\ e.has = d.has /\ e.hist = d.hist
      /\ e.last = d.last /\ e.stats = t /\ e.copy = [d.copy EXCEPT ![at] = NoTable]
  BY <1>1, FieldKept DEF WellFormed, Fields
<1>3. e = WithStats(d, t)
  BY <1>1 DEF WithStats, c
<1> HIDE DEF e
<1>4. /\ DOMAIN e.copy = {7, 10} /\ e.copy[at] = NoTable
      /\ \A k \in {7, 10} : k # at => e.copy[k] = d.copy[k]
  BY <1>2
<1>5. QED
  BY <1>2, <1>3, <1>4

(* Two databases that differ in the copy the rebuild makes only have the   *)
(* same outcome.                                                           *)
LEMMA SameOutcome ==
  ASSUME NEW d, NEW e, NEW t, NEW u, WellFormed(d), WellFormed(e), at \in {7, 10},
         DOMAIN d.copy = {7, 10}, DOMAIN e.copy = {7, 10}, Sound(WithStats(d, t)),
         e.ver = d.ver, e.has = d.has, e.hist = d.hist, e.last = d.last,
         \A k \in {7, 10} : k # at => e.copy[k] = d.copy[k],
         t # NoTable, u # NoTable, WellKept(u), SameRows(u, t),
         d.ver >= 7 /\ t.key # "app" => u.key # "app", d.ver # 10,
         u.key = "id" => {"albums_found", "albums_updated"} \subseteq d.has
  PROVE  Sound(WithStats(e, u))
<1> DEFINE a == WithStats(d, t)
           b == WithStats(e, u)
<1>1. /\ a.ver = d.ver /\ a.has = d.has /\ a.hist = d.hist /\ a.last = d.last
      /\ a.stats = t /\ DOMAIN a.copy = {7, 10} /\ a.copy[at] = NoTable
      /\ \A k \in {7, 10} : k # at => a.copy[k] = d.copy[k]
      /\ WellFormed(a)
  BY WithStatsFacts
<1>2. /\ b.ver = e.ver /\ b.has = e.has /\ b.hist = e.hist /\ b.last = e.last
      /\ b.stats = u /\ DOMAIN b.copy = {7, 10} /\ b.copy[at] = NoTable
      /\ \A k \in {7, 10} : k # at => b.copy[k] = e.copy[k]
  BY WithStatsFacts
<1>3. Sound(a)
  OBVIOUS
<1> HIDE DEF a, b
<1>4. b.copy[7] = a.copy[7] /\ b.copy[10] = a.copy[10]
  BY <1>1, <1>2
<1>5. Tables(b)
  BY <1>1, <1>2, <1>3, <1>4 DEF Sound, Tables
<1>6. Totals(a) = t.rows /\ Totals(b) = u.rows
  BY <1>1, <1>2 DEF Totals
<1>7. Sound(b)
  BY <1>1, <1>2, <1>3, <1>5, <1>6, TablesSound DEF SameRows
<1>8. QED
  BY <1>7 DEF b

(* v10 drops a leftover only when the table has the totals.                *)
LEMMA LeftoverSound ==
  ASSUME NEW d, WellFormed(d), Sound(d), at = 10,
         d.copy[10] # NoTable => HasV9Shape(d)
  PROVE  Sound([d EXCEPT !.copy[at] = NoTable])
<1> DEFINE e == [d EXCEPT !.copy[at] = NoTable]
<1>1. Tables(d)
  BY DEF Sound
<1>2. /\ e.ver = d.ver /\ e.has = d.has /\ e.stats = d.stats /\ e.hist = d.hist
      /\ e.last = d.last /\ DOMAIN e.copy = {7, 10} /\ e.copy[10] = NoTable
      /\ e.copy[7] = d.copy[7]
  BY <1>1 DEF WellFormed, Fields, Tables
<1> HIDE DEF e
<1>3. WellKept(NoTable)
  BY DEF WellKept, NoTable
<1>4. Tables(e)
  BY <1>1, <1>2, <1>3 DEF Tables
<1>5. Totals(e) = Totals(d)
  <2>1. CASE d.copy[10] = NoTable
    BY <1>2, <2>1, TargetIsTen DEF Totals
  <2>2. CASE d.copy[10] # NoTable
    BY <1>2, <2>2 DEF Totals, HasV9Shape, NoTable
  <2>3. QED
    BY <2>1, <2>2
<1>6. Sound(e)
  BY <1>2, <1>4, <1>5, TablesSound
<1>7. QED
  BY <1>6 DEF e

(* Rows that expire while totals are still to be recounted.                *)
LEMMA ExpireSound ==
  ASSUME NEW d, WellFormed(d), Sound(d), d.ver = 7, first \in FirstDbs
  PROVE  LET e == Regraded(d, "window_expired", "partial_expired")
         IN  Sound(e) /\ NoneExpired(e)
<1> DEFINE h == [i \in DOMAIN d.hist |->
                   IF d.hist[i].outcome = "window_expired"
                   THEN [d.hist[i] EXCEPT !.outcome = "partial_expired"] ELSE d.hist[i]]
           e == Regraded(d, "window_expired", "partial_expired")
<1>1. /\ DOMAIN h = 1..d.last /\ d.last \in Nat
      /\ \A i \in 1..d.last : h[i].n = d.hist[i].n /\ h[i].outcome # "window_expired"
  BY DEF WellFormed, RowFields
<1>2. /\ e.ver = d.ver /\ e.has = d.has /\ e.stats = d.stats /\ e.copy = d.copy
      /\ e.last = d.last /\ e.hist = h
  BY DEF Regraded, WellFormed, Fields
<1>3. NoneExpired(d) => \A i \in 1..d.last : h[i] = d.hist[i]
  BY DEF NoneExpired, WellFormed
<1> HIDE DEF e, h
<1>4. NoneExpired(e)
  BY <1>1, <1>2 DEF NoneExpired
<1>5. Totals(e) = Totals(d)
  BY <1>2 DEF Totals
<1>6. RightTotals(e)
  <2> SUFFICES ASSUME NEW n \in DOMAIN Totals(first)
               PROVE  n \in DOMAIN Totals(e) /\ Right(e, n)
    BY <1>4 DEF RightTotals
  <2>1. /\ n \in DOMAIN Totals(d) /\ Right(d, n)
        /\ NoneExpired(d) \/ Totals(d)[n].n = Totals(first)[n].n
    BY DEF Sound, RightTotals
  <2>2. CASE Totals(d)[n].n = Totals(first)[n].n
    BY <1>2, <1>5, <2>1, <2>2 DEF Right
  <2>3. CASE NoneExpired(d)
    <3>1. DOMAIN e.hist = DOMAIN d.hist /\ \A i \in DOMAIN d.hist : e.hist[i] = d.hist[i]
      BY <1>1, <1>2, <1>3, <2>3 DEF WellFormed
    <3>2. Settled(e, n) = Settled(d, n)
      BY <3>1 DEF Settled
    <3>3. [i \in Settled(e, n) |-> e.hist[i].n] = [i \in Settled(d, n) |-> d.hist[i].n]
      BY <3>1, <3>2 DEF Settled
    <3>4. Recounted(e, n) = Recounted(d, n)
      BY <3>3 DEF Recounted
    <3>5. QED
      BY <1>2, <1>5, <2>1, <3>2, <3>4, RightKept
  <2>4. QED
    BY <1>5, <2>1, <2>2, <2>3
<1>7. RowsThere(e)
  BY <1>1, <1>2, FirstFacts DEF Sound, RowsThere
<1>8. Tables(e)
  BY <1>2 DEF Sound, Tables
<1>9. ASSUME NEW v \in (first.ver + 1)..d.ver
      PROVE  Has(e, v)
  <2>1. Has(d, v)
    BY DEF Sound
  <2>2. QED
    BY <1>2, <1>4, <2>1 DEF Has, NoneExpired
<1>10. Sound(e)
  BY <1>2, <1>6, <1>7, <1>8, <1>9 DEF Sound
<1>11. QED
  BY <1>4, <1>10 DEF e

LEMMA RecountSound ==
  ASSUME NEW d, WellFormed(d), Sound(d), d.ver = 7, NoneExpired(d), first \in FirstDbs
  PROVE  LET e == [d EXCEPT !.stats.rows = [n \in DOMAIN d.stats.rows |->
                     [d.stats.rows[n] EXCEPT !.n =
                        IF Settled(d, n) = {} THEN d.stats.rows[n].n ELSE Recounted(d, n)]]]
         IN  Sound(e) /\ NoneExpired(e) /\ RecountedTotals(e)
<1> DEFINE rows == [n \in DOMAIN d.stats.rows |->
                     [d.stats.rows[n] EXCEPT !.n =
                        IF Settled(d, n) = {} THEN d.stats.rows[n].n ELSE Recounted(d, n)]]
           e    == [d EXCEPT !.stats.rows = rows]
<1>1. Tables(d) /\ WellKept(d.stats) /\ d.stats # NoTable /\ first.ver \in 0..7
  BY FirstFacts DEF Sound, Tables
<1>2. /\ DOMAIN rows = DOMAIN d.stats.rows
      /\ \A n \in DOMAIN rows :
           /\ DOMAIN rows[n] = {"n", "sid"}
           /\ rows[n].n = IF Settled(d, n) = {} THEN d.stats.rows[n].n ELSE Recounted(d, n)
  BY <1>1 DEF WellKept
<1>3. /\ e.ver = d.ver /\ e.has = d.has /\ e.copy = d.copy /\ e.hist = d.hist
      /\ e.last = d.last /\ DOMAIN e.stats = {"key", "rows"}
      /\ e.stats.key = d.stats.key /\ e.stats.rows = rows
  BY <1>1 DEF WellFormed, Fields, WellKept
<1> HIDE DEF e, rows
<1>4. e.stats # NoTable /\ d.stats.key # "none"
  BY <1>1, <1>3 DEF NoTable, WellKept
<1>5. WellKept(e.stats)
  BY <1>1, <1>2, <1>3, <1>4 DEF WellKept
<1>6. Tables(e)
  BY <1>1, <1>3, <1>4, <1>5 DEF Tables
<1>7. NoneExpired(e) /\ \A n : Settled(e, n) = Settled(d, n) /\ Recounted(e, n) = Recounted(d, n)
  BY <1>3 DEF NoneExpired, Settled, Recounted
<1>8. Totals(d) = d.stats.rows /\ Totals(e) = rows
  BY <1>1, <1>3, <1>4 DEF Totals
<1>9. RightTotals(e) /\ RecountedTotals(e)
  <2> SUFFICES ASSUME NEW n \in DOMAIN Totals(first)
               PROVE  /\ n \in DOMAIN Totals(e) /\ Right(e, n)
                      /\ Settled(e, n) # {} => Totals(e)[n].n = Recounted(e, n)
    BY <1>7 DEF RightTotals, RecountedTotals
  <2>1. n \in DOMAIN Totals(d) /\ Right(d, n)
    BY DEF Sound, RightTotals
  <2>2. CASE Settled(d, n) = {}
    <3>1. Totals(d)[n].n = Totals(first)[n].n
      BY <2>1, <2>2 DEF Right
    <3>2. Totals(e)[n].n = Totals(first)[n].n /\ n \in DOMAIN Totals(e)
      BY <1>2, <1>8, <2>1, <2>2, <3>1
    <3>3. QED
      BY <1>7, <2>2, <3>2 DEF Right
  <2>3. CASE Settled(d, n) # {}
    <3>1. Totals(e)[n].n = Recounted(e, n) /\ n \in DOMAIN Totals(e)
      BY <1>2, <1>7, <1>8, <2>1, <2>3
    <3>2. QED
      BY <1>1, <1>3, <1>7, <2>3, <3>1 DEF Right
  <2>4. QED
    BY <2>2, <2>3
<1>10. RowsThere(e)
  BY <1>3 DEF Sound, RowsThere
<1>11. ASSUME NEW v \in (first.ver + 1)..d.ver
       PROVE  Has(e, v)
  <2>1. Has(d, v) /\ v # 10
    BY <1>1 DEF Sound
  <2>2. QED
    BY <1>3, <1>4, <2>1 DEF Has
<1>12. Sound(e)
  BY <1>3, <1>6, <1>9, <1>10, <1>11 DEF Sound
<1>13. QED
  BY <1>7, <1>9, <1>12 DEF e, rows

LEMMA AssociateSound ==
  ASSUME NEW d, WellFormed(d), Sound(d), first \in FirstDbs, d.stats.key = "id"
  PROVE  Sound([d EXCEPT
           !.hist = [i \in DOMAIN d.hist |-> Linked(d.hist[i], d.hist[i].name)],
           !.stats.rows = [n \in DOMAIN d.stats.rows |-> Linked(d.stats.rows[n], n)]])
<1> DEFINE h    == [i \in DOMAIN d.hist |-> Linked(d.hist[i], d.hist[i].name)]
           rows == [n \in DOMAIN d.stats.rows |-> Linked(d.stats.rows[n], n)]
           c    == [d EXCEPT !.hist = h]
           e    == [c EXCEPT !.stats = [c.stats EXCEPT !.rows = rows]]
<1>1. Tables(d) /\ WellKept(d.stats)
  BY DEF Sound, Tables
<1>2. /\ DOMAIN h = 1..d.last /\ d.last \in Nat
      /\ \A i \in 1..d.last : /\ DOMAIN h[i] = RowFields /\ h[i].name = d.hist[i].name
                              /\ h[i].outcome = d.hist[i].outcome
                              /\ h[i].n = d.hist[i].n /\ h[i].new = d.hist[i].new
  BY DEF WellFormed, RowFields, Linked
<1>3. /\ DOMAIN rows = DOMAIN d.stats.rows
      /\ \A n \in DOMAIN rows : DOMAIN rows[n] = {"n", "sid"} /\ rows[n].n = d.stats.rows[n].n
  BY <1>1 DEF WellKept, Linked
<1>4. /\ c.ver = d.ver /\ c.has = d.has /\ c.stats = d.stats /\ c.copy = d.copy
      /\ c.hist = h /\ c.last = d.last
  BY DEF WellFormed, Fields
<1>5. WellFormed(c)
  <2> HIDE DEF h
  <2> QED  BY <1>2, RowsKept
<1>6. /\ e.ver = c.ver /\ e.has = c.has /\ e.copy = c.copy /\ e.hist = c.hist
      /\ e.last = c.last /\ e.stats = [c.stats EXCEPT !.rows = rows]
  BY <1>5 DEF WellFormed, Fields
<1>7. e = [d EXCEPT
           !.hist = [i \in DOMAIN d.hist |-> Linked(d.hist[i], d.hist[i].name)],
           !.stats.rows = [n \in DOMAIN d.stats.rows |-> Linked(d.stats.rows[n], n)]]
  BY <1>4
<1> HIDE DEF h, rows, c, e
<1>8. Sound(c)
  <2>1. KeepsRows(c, d)
    <3>1. \A n : Settled(c, n) = Settled(d, n)
      BY <1>2, <1>4 DEF Settled, WellFormed
    <3>2. NoneExpired(d) => NoneExpired(c)
      BY <1>2, <1>4 DEF NoneExpired, WellFormed
    <3>3. QED
      BY <1>2, <1>4, <3>1, <3>2 DEF KeepsRows
  <2>2. QED
    BY <1>4, <2>1, RowsSound
<1>9. /\ DOMAIN e.stats = {"key", "rows"} /\ e.stats.key = d.stats.key
      /\ e.stats.rows = rows
  BY <1>1, <1>4, <1>6 DEF WellKept
<1>10. e.stats # NoTable /\ d.stats # NoTable
  BY <1>9 DEF NoTable
<1>11. WellKept(e.stats)
  BY <1>3, <1>9 DEF WellKept
<1>12. Tables(e)
  BY <1>1, <1>4, <1>6, <1>10, <1>11 DEF Tables
<1>13. \A n \in DOMAIN Totals(c) :
         n \in DOMAIN Totals(e) /\ Totals(e)[n].n = Totals(c)[n].n
  BY <1>3, <1>4, <1>9, <1>10 DEF Totals
<1>14. Sound(e)
  BY <1>4, <1>5, <1>6, <1>8, <1>9, <1>10, <1>12, <1>13, TablesSound
<1>15. QED
  BY <1>7, <1>14

(* A migration that is recorded has done what its version promises.        *)
LEMMA VersionSound ==
  ASSUME WellFormed(work), Sound(work), OnPlan, Added, Achieved, Len(todo) = 2,
         work.ver = at - 1, first \in FirstDbs
  PROVE  Sound([work EXCEPT !.ver = at])
<1> DEFINE e == [work EXCEPT !.ver = at]
<1>1. /\ e.ver = at /\ e.has = work.has /\ e.stats = work.stats /\ e.copy = work.copy
      /\ e.hist = work.hist /\ e.last = work.last
  BY DEF WellFormed, Fields
<1>2. at \in 1..10 /\ first.ver \in 0..10 /\ ~Rebuilding /\ PlanFacts(at)
      /\ first.ver <= at - 1
  <2>1. at \in 1..10 /\ PlanFacts(at)
    BY Plans DEF OnPlan
  <2>2. ~Rebuilding
    BY DEF Rebuilding
  <2>3. first.ver \in 0..10 /\ first.ver <= at - 1
    BY <2>1, FirstFacts DEF Sound
  <2>4. QED
    BY <2>1, <2>2, <2>3
<1>3. /\ at = 3 => work.stats # NoTable
      /\ at = 7 => work.stats.key = "name" /\ work.copy[7] = NoTable
      /\ at = 8 => NoneExpired(work) /\ RecountedTotals(work)
      /\ at = 10 => work.copy[10] = NoTable /\ work.stats.key = "id"
  BY <1>2 DEF Achieved
<1>4. Adds(at) \ lost \subseteq work.has /\ Needs(at) \subseteq work.has
  <2>1. Passed = Len(Plan(at)) - 2
    BY DEF Passed
  <2>2. \A i \in DOMAIN Script[at] : \E j \in 1..Passed : Plan(at)[j] = Script[at][i]
    BY <1>2, <2>1 DEF PlanFacts
  <2>3. \A j \in 1..Passed :
          /\ Plan(at)[j] \in Columns => Plan(at)[j] \in work.has \cup lost
          /\ Reads(at, Plan(at)[j]) \subseteq work.has
    BY DEF Added
  <2>4. \A i \in DOMAIN Script[at] :
          /\ Script[at][i] \in Columns => Script[at][i] \in work.has \cup lost
          /\ Reads(at, Script[at][i]) \subseteq work.has
    BY <2>2, <2>3
  <2>5. QED
    BY <2>4 DEF Adds, Needs
<1> HIDE DEF e
<1>5. Totals(e) = Totals(work)
  BY <1>1 DEF Totals
<1>6. \A n : Settled(e, n) = Settled(work, n) /\ Recounted(e, n) = Recounted(work, n)
  BY <1>1 DEF Settled, Recounted
<1>7. RightTotals(e)
  <2> SUFFICES ASSUME NEW n \in DOMAIN Totals(first)
               PROVE  /\ n \in DOMAIN Totals(e) /\ Right(e, n)
                      /\ NoneExpired(e) \/ Totals(e)[n].n = Totals(first)[n].n
    BY DEF RightTotals
  <2>1. /\ n \in DOMAIN Totals(work) /\ Right(work, n)
        /\ NoneExpired(work) \/ Totals(work)[n].n = Totals(first)[n].n
    BY DEF Sound, RightTotals
  <2>2. at = 8 /\ Settled(work, n) # {} => Totals(work)[n].n = Recounted(work, n)
    BY <1>3 DEF RecountedTotals
  <2>3. Right(e, n)
    BY <1>1, <1>2, <1>5, <1>6, <2>1, <2>2 DEF Right
  <2>4. QED
    BY <1>1, <1>5, <2>1, <2>3 DEF NoneExpired
<1>8. RowsThere(e)
  BY <1>1 DEF Sound, RowsThere
<1>9. Tables(e)
  BY <1>1, <1>2, <1>3 DEF Sound, Tables
<1>10. ASSUME NEW v \in (first.ver + 1)..at
       PROVE  Has(e, v)
  <2>1. CASE v = at
    BY <1>1, <1>3, <1>4, <2>1 DEF Has, NoneExpired
  <2>2. CASE v # at
    <3>1. Has(work, v)
      BY <1>2, <2>2 DEF Sound
    <3>2. QED
      BY <1>1, <3>1 DEF Has
  <2>3. QED
    BY <2>1, <2>2
<1>11. Sound(e)
  BY <1>1, <1>2, <1>7, <1>8, <1>9, <1>10 DEF Sound
<1>12. QED
  BY <1>11 DEF e

(* A search, or the import of searches, adds rows no total depends on.     *)
LEMMA InsertedSound ==
  ASSUME NEW d, WellFormed(d), Sound(d), first \in FirstDbs, NEW k \in Nat,
         NEW n, NEW s, NEW new
  PROVE  Sound(Inserted(d, k, Row(n, s, new)))
<1> DEFINE row == Row(n, s, new)
           e   == Inserted(d, k, row)
<1>1. DOMAIN row = RowFields /\ row.outcome = "searched"
  BY DEF Row, RowFields
<1> HIDE DEF row
<1>2. /\ WellFormed(e) /\ e.last = d.last + k
      /\ \A i \in 1..d.last : e.hist[i] = d.hist[i]
      /\ \A i \in 1..e.last : i > d.last => e.hist[i] = row
  BY <1>1, InsertedFacts
<1>3. e.ver = d.ver /\ e.has = d.has /\ e.stats = d.stats /\ e.copy = d.copy
  BY DEF Inserted, WellFormed, Fields
<1> HIDE DEF e
<1>4. d.last \in Nat /\ DOMAIN d.hist = 1..d.last /\ DOMAIN e.hist = 1..e.last
  BY <1>2 DEF WellFormed
<1>5. \A i \in 1..e.last : i \in 1..d.last \/ e.hist[i].outcome = "searched"
  BY <1>1, <1>2, <1>4
<1>6. \A m : Settled(e, m) = Settled(d, m)
  BY <1>2, <1>4, <1>5 DEF Settled
<1>7. NoneExpired(d) => NoneExpired(e)
  BY <1>2, <1>4, <1>5 DEF NoneExpired
<1>8. KeepsRows(e, d)
  BY <1>2, <1>4, <1>6, <1>7 DEF KeepsRows
<1>9. Sound(e)
  BY <1>3, <1>8, RowsSound
<1>10. QED
  BY <1>9 DEF e, row

LEMMA CutoverSound ==
  ASSUME NEW d, WellFormed(d), Sound(d), first \in FirstDbs, NEW c
  PROVE  Sound([d EXCEPT !.cutover = c])
<1> DEFINE e == [d EXCEPT !.cutover = c]
<1>1. /\ e.ver = d.ver /\ e.has = d.has /\ e.stats = d.stats /\ e.copy = d.copy
      /\ e.hist = d.hist /\ e.last = d.last /\ d.last \in Nat
  BY DEF WellFormed, Fields
<1> HIDE DEF e
<1>2. KeepsRows(e, d)
  BY <1>1 DEF KeepsRows, Settled, NoneExpired
<1>3. Sound(e)
  BY <1>1, <1>2, RowsSound
<1>4. QED
  BY <1>3 DEF e

-----------------------------------------------------------------------------
(* What the next statement of a plan is.                                   *)
LEMMA HeadPosition ==
  ASSUME OnPlan, todo # <<>>
  PROVE  /\ Len(todo) \in Nat \ {0} /\ Position(at, Len(todo), Head(todo))
         /\ Head(todo) = todo[1] /\ Head(todo) = Plan(at)[Passed + 1]
         /\ Passed + 1 \in 1..Len(Plan(at))
<1>1. PlanFacts(at) /\ todo \in Seq(Words) /\ Plan(at) \in Seq(Words)
  BY Plans DEF OnPlan, PlanFacts
<1>2. Len(todo) \in Nat /\ Len(todo) # 0 /\ Head(todo) = todo[1]
  BY <1>1
<1>3. Len(Plan(at)) \in Nat /\ Passed \in 0..Len(Plan(at)) /\ Passed = Len(Plan(at)) - Len(todo)
      /\ Len(todo) <= Len(Plan(at))
  BY <1>1, <1>2 DEF Passed, OnPlan
<1>4. Head(todo) = Plan(at)[Passed + 1]
  BY <1>2 DEF OnPlan
<1>5. \A p, l, t \in Nat : p = l - t /\ t # 0 /\ t <= l =>
        p + 1 \in 1..l /\ l + 1 - (p + 1) = t
  OBVIOUS
<1>6. Passed + 1 \in 1..Len(Plan(at)) /\ Len(Plan(at)) + 1 - (Passed + 1) = Len(todo)
  BY <1>2, <1>3, <1>5
<1>7. Position(at, Len(Plan(at)) + 1 - (Passed + 1), Plan(at)[Passed + 1])
  BY <1>1, <1>6 DEF PlanFacts
<1>8. QED
  BY <1>2, <1>4, <1>6, <1>7

(* A column that is lost asks for less than one that is there.             *)
LEMMA SoundDisk ==
  ASSUME UNCHANGED first, lost \subseteq lost', Sound(disk')
  PROVE  Sound(disk)'
BY DEF Sound, RowsThere, Tables, RightTotals, Right, Has

LEMMA SoundWork ==
  ASSUME UNCHANGED first, lost \subseteq lost', Sound(work')
  PROVE  Sound(work)'
BY DEF Sound, RowsThere, Tables, RightTotals, Right, Has

LEMMA SoundRebuilt ==
  ASSUME UNCHANGED <<first, at, lost>>,
         Sound(WithStats(work', IF Len(todo') = 4 THEN work'.copy[at] ELSE work'.stats))
  PROVE  Sound(WithStats(work, IF Len(todo) = 4 THEN work.copy[at] ELSE work.stats))'
BY DEF Sound, RowsThere, Tables, RightTotals, Right, WithStats, Has

(* One statement further.                                                  *)
LEMMA Advance ==
  ASSUME OnPlan, todo # <<>>, UNCHANGED at, todo' = Tail(todo)
  PROVE  /\ Len(todo') = Len(todo) - 1 /\ Passed' = Passed + 1 /\ OnPlan'
         /\ todo' # <<>> => Len(todo) >= 2
<1>1. /\ Len(todo) \in Nat \ {0} /\ Passed + 1 \in 1..Len(Plan(at))
      /\ Passed = Len(Plan(at)) - Len(todo) /\ todo \in Seq(Words)
      /\ Plan(at) \in Seq(Words)
  BY HeadPosition, Plans DEF Passed, OnPlan, PlanFacts
<1>2. /\ todo' \in Seq(Words) /\ Len(todo') = Len(todo) - 1
      /\ \A i \in 1..Len(todo') : todo'[i] = todo[i + 1]
  BY <1>1, HeadTailProperties
<1>3. Passed' = Passed + 1
  BY <1>1, <1>2 DEF Passed
<1>4. OnPlan'
  BY <1>1, <1>2, <1>3 DEF OnPlan
<1>5. QED
  BY <1>1, <1>2, <1>3, <1>4

(* A table that has its new key is not rebuilt.                            *)
LEMMA Skip ==
  ASSUME OnPlan, at = 10, Len(todo) = 8, UNCHANGED at,
         todo' = SubSeq(todo, 2 + Len(Rebuild), Len(todo))
  PROVE  /\ Len(todo') = 3 /\ Passed' = Passed + 5 /\ Passed = 3 /\ OnPlan'
<1>1. /\ PlanFacts(10) /\ todo \in Seq(Words) /\ Plan(at) \in Seq(Words)
      /\ Passed = 3 /\ Len(Plan(at)) = 11
  BY Plans DEF OnPlan, PlanFacts, Passed
<1>2. todo' = SubSeq(todo, 6, 8)
  BY DEF Rebuild
<1>3. \A i \in 6..8 : todo[i] \in Words
  <2>1. 6..8 \subseteq 1..Len(todo)
    OBVIOUS
  <2>2. QED
    BY <1>1, <2>1, ElementOfSeq
<1>4. /\ todo' \in Seq(Words) /\ Len(todo') = 3
      /\ \A i \in 1..3 : todo'[i] = todo[i + 5]
  <2>1. /\ SubSeq(todo, 6, 8) \in Seq(Words)
        /\ Len(SubSeq(todo, 6, 8)) = IF 6 <= 8 THEN 8 - 6 + 1 ELSE 0
        /\ \A i \in 1..(8 - 6 + 1) : SubSeq(todo, 6, 8)[i] = todo[6 + i - 1]
    BY <1>3, SubSeqProperties, 6 \in Int, 8 \in Int
  <2>2. \A i \in 1..3 : 6 + i - 1 = i + 5
    OBVIOUS
  <2>3. 8 - 6 + 1 = 3 /\ 6 <= 8
    OBVIOUS
  <2>4. QED
    BY <1>2, <2>1, <2>2, <2>3
<1>5. Passed' = 8
  <2>1. Passed' = Len(Plan(at)) - Len(todo')
    BY DEF Passed
  <2>2. QED
    BY <1>1, <1>4, <2>1
<1>6. \A i \in 1..8 : todo[i] = Plan(at)[3 + i]
  BY <1>1 DEF OnPlan
<1>7. \A i \in 1..3 : todo'[i] = Plan(at)[8 + i]
  BY <1>4, <1>6
<1>8. OnPlan'
  BY <1>1, <1>4, <1>5, <1>7 DEF OnPlan
<1>9. QED
  BY <1>1, <1>4, <1>5, <1>8

LEMMA SkipAdded ==
  ASSUME OnPlan, Added, at = 10, Passed = 3, Passed' = 8, UNCHANGED <<at, lost>>,
         work'.has = work.has, {"albums_found", "albums_updated"} \subseteq work.has
  PROVE  Added'
<1>1. PlanFacts(10) /\ Len(Plan(10)) = 11
  BY Plans DEF PlanFacts
<1>2. \A i \in 1..11 : Position(10, Len(Plan(10)) + 1 - i, Plan(10)[i])
  BY <1>1 DEF PlanFacts
<1>3. \A n \in {11} : \A i \in 4..8 :
        ~(n + 1 - i \in {9, 10}) /\ n + 1 - i # 3 /\ i \in 1..11
  OBVIOUS
<1>4. \A i \in 4..8 :
        /\ Plan(10)[i] \notin Columns
        /\ Plan(10)[i] \notin {"backfill", "index_instance", "expire_partials",
                               "recount", "associate"}
  <2>1. ASSUME NEW s, NEW l, Position(10, l, s), l \notin {9, 10}, l # 3
        PROVE  /\ s \notin Columns
               /\ s \notin {"backfill", "index_instance", "expire_partials",
                           "recount", "associate"}
    BY <2>1 DEF Position
  <2>2. \A i \in 4..8 : \E l : l \notin {9, 10} /\ l # 3 /\ Position(10, l, Plan(10)[i])
    BY <1>1, <1>2, <1>3
  <2>3. QED
    BY <2>1, <2>2
<1>5. \A i \in 4..8 : Reads(10, Plan(10)[i]) \subseteq work.has
  BY <1>4 DEF Reads
<1>6. \A i \in 1..8 : i \in 1..3 \/ i \in 4..8
  OBVIOUS
<1>7. QED
  BY <1>4, <1>5, <1>6 DEF Added

LEMMA StepAdded ==
  ASSUME OnPlan, Added, todo # <<>>, UNCHANGED at, Passed' = Passed + 1,
         work.has \subseteq work'.has, lost \subseteq lost',
         Head(todo) \in Columns => Head(todo) \in work'.has \cup lost',
         Reads(at, Head(todo)) \subseteq work'.has
  PROVE  Added'
<1>1. Head(todo) = Plan(at)[Passed + 1] /\ Passed \in Int
  <2>1. Plan(at) \in Seq(Words) /\ todo \in Seq(Words)
    BY Plans DEF OnPlan, PlanFacts
  <2>2. QED
    BY <2>1, HeadPosition DEF Passed
<1>2. \A i \in 1..(Passed + 1) : i \in 1..Passed \/ i = Passed + 1
  BY <1>1
<1>3. QED
  BY <1>1, <1>2 DEF Added

(* What is known when a statement is executed.                             *)
Ready(s) ==
  /\ first \in FirstDbs /\ WellFormed(work) /\ Sound(disk)
  /\ at \in 1..10 /\ Len(todo) \in Nat \ {0} /\ Position(at, Len(todo), s)
  /\ OnPlan /\ Added /\ Achieved /\ todo # <<>> /\ Head(todo) = s
  /\ Reads(at, s) \subseteq work.has
  /\ work.ver = IF Len(todo) >= 2 THEN at - 1 ELSE at
  /\ IF Rebuilding THEN Rebuilt ELSE Sound(work)

Executed == Migrating' /\ Sound(disk)'

LEMMA ReadyAtHead ==
  ASSUME UpgradeInv, WellFormed(work), NEW s, pc = "migrate", todo # <<>>,
         Head(todo) = s, Reads(at, s) \subseteq work.has
  PROVE  Ready(s)
<1>1. Migrating
  BY DEF UpgradeInv
<1>2. OnPlan /\ Added /\ Achieved /\ at \in 1..10
  BY <1>1 DEF Migrating, OnPlan
<1>3. QED
  BY <1>1, <1>2, HeadPosition DEF UpgradeInv, Migrating, Ready

LEMMA ReadyToExecute ==
  ASSUME UpgradeInv, WellFormed(work), NEW s, Executes(s)
  PROVE  Ready(s) /\ UNCHANGED <<at, first, pc, lost>> /\ ~Raises
<1>1. pc = "migrate" /\ todo # <<>> /\ Head(todo) = s /\ ~Raises
  BY DEF Executes
<1>2. Reads(at, s) \subseteq work.has
  BY <1>1 DEF Raises
<1>3. QED
  BY <1>1, <1>2, ReadyAtHead DEF Executes

(* A statement outside a rebuild, after it the database is sound again.    *)
LEMMA PlainStep ==
  ASSUME NEW s, Ready(s), UNCHANGED <<at, first>>, lost \subseteq lost',
         todo' = Tail(todo), ~(at \in {7, 10} /\ Len(todo) \in {5, 6, 7}),
         Sound(work'), work'.ver = IF Len(todo) >= 3 THEN at - 1 ELSE at,
         work.has \subseteq work'.has, s \in Columns => s \in work'.has \cup lost',
         disk' \in {disk, work'}, todo' # <<>> => Achieved'
  PROVE  Executed
<1>1. /\ Len(todo') = Len(todo) - 1 /\ Passed' = Passed + 1 /\ OnPlan'
      /\ todo' # <<>> => Len(todo) >= 2
  BY Advance DEF Ready
<1>2. Added'
  BY <1>1, StepAdded DEF Ready
<1>3. Sound(work)' /\ ~Rebuilding'
  BY <1>1, SoundWork DEF Rebuilding, Ready
<1>4. Sound(disk)'
  BY SoundDisk DEF Ready
<1>5. work'.ver = IF Len(todo') >= 2 THEN at' - 1 ELSE at'
  BY <1>1 DEF Ready
<1>6. QED
  BY <1>1, <1>2, <1>3, <1>4, <1>5 DEF Executed, Migrating, Ready

(* A column is added, or its ALTER fails.                                  *)
LEMMA ColumnStep ==
  ASSUME NEW c \in Columns, Ready(c), UNCHANGED <<at, first>>, lost \subseteq lost',
         todo' = Tail(todo), disk' \in {disk, work'}, tx' = tx,
         work' \in {work, [work EXCEPT !.has = @ \cup {c}]}, c \in work'.has \cup lost'
  PROVE  Executed
<1>1. /\ todo' = Tail(todo) /\ disk' \in {disk, work'} /\ tx' = tx
      /\ work' = work \/ work' = [work EXCEPT !.has = @ \cup {c}]
  OBVIOUS
<1>2. /\ Len(todo) \in Nat /\ Len(todo) >= 4 /\ at \in {1, 2, 5, 6, 9, 10}
      /\ at = 10 => Len(todo) \in {9, 10}
  BY DEF Ready, Position
<1>3. ~Rebuilding /\ Sound(work)
  <2>1. at # 7 /\ (at = 10 => ~(Len(todo) \in {4, 5, 6}))
    <3>1. at # 7
      BY <1>2
    <3>2. \A l \in {9, 10} : ~(l \in {4, 5, 6})
      OBVIOUS
    <3>3. QED
      BY <1>2, <3>1, <3>2
  <2>2. ~Rebuilding
    BY <2>1 DEF Rebuilding
  <2>3. QED
    BY <2>2 DEF Ready
<1>4. Sound(work')
  <2>1. first \in FirstDbs /\ WellFormed(work)
    BY DEF Ready
  <2>2. Sound([work EXCEPT !.has = @ \cup {c}])
    BY <1>3, <2>1, ColumnSound
  <2>3. QED
    BY <1>1, <1>3, <2>2
<1>5. /\ work'.ver = work.ver /\ work.has \subseteq work'.has
      /\ work'.copy = work.copy /\ work'.stats = work.stats
  BY <1>1 DEF Ready, WellFormed, Fields
<1>6. Len(todo') = Len(todo) - 1
  BY <1>1, Advance DEF Ready
<1>7. Achieved'
  <2>1. at' = at /\ at \notin {3, 7, 8} /\ tx' = tx
    BY <1>1, <1>2
  <2>2. CASE at # 10
    BY <2>1, <2>2 DEF Achieved
  <2>3. CASE at = 10
    <3>1. Len(todo) \in {9, 10} /\ Len(todo') = Len(todo) - 1
      BY <1>2, <1>6, <2>3
    <3>2. Len(todo') \in {8, 9}
      <4>1. \A l \in {9, 10} : l - 1 \in {8, 9}
        OBVIOUS
      <4>2. QED
        BY <3>1, <4>1
    <3>3. tx
      BY <2>3, <3>1 DEF Ready, Achieved
    <3>4. /\ at' # 3 /\ at' # 7 /\ at' # 8 /\ tx'
          /\ ~(Len(todo') <= 7) /\ ~(Len(todo') <= 3)
      <4>1. \A l \in {8, 9} : ~(l <= 7) /\ ~(l <= 3)
        OBVIOUS
      <4>2. QED
        BY <2>1, <2>3, <3>2, <3>3, <4>1
    <3>5. QED
      BY <3>4, Zenon DEF Achieved
  <2>4. QED
    BY <2>2, <2>3
<1>8. todo' = Tail(todo) /\ disk' \in {disk, work'}
  BY <1>1
<1>9. work'.ver = IF Len(todo) >= 3 THEN at - 1 ELSE at
  BY <1>2, <1>5 DEF Ready
<1>10. ~(at \in {7, 10} /\ Len(todo) \in {5, 6, 7})
  <2>1. \A l \in {9, 10} : ~(l \in {5, 6, 7})
    OBVIOUS
  <2>2. at # 7
    BY <1>2
  <2>3. QED
    BY <1>2, <2>1, <2>2
<1>11. QED
  BY <1>4, <1>5, <1>7, <1>8, <1>9, <1>10, PlainStep

LEMMA CreateStatsStep ==
  ASSUME Ready("create_stats"), UNCHANGED <<at, first, lost>>, CreateStats
  PROVE  Executed
<1>1. /\ todo' = Tail(todo) /\ disk' \in {disk, work'}
      /\ work' = IF work.stats # NoTable THEN work ELSE [work EXCEPT !.stats = Table("app")]
  BY DEF CreateStats, Ddl
<1>2. at = 3 /\ Len(todo) = 5 /\ work.ver = 2 /\ Sound(work)
  <2>1. at = 3 /\ Len(todo) = 5
    BY DEF Ready, Position
  <2>2. ~Rebuilding
    BY <2>1 DEF Rebuilding
  <2>3. QED
    BY <2>1, <2>2 DEF Ready
<1>3. Sound(work')
  BY <1>1, <1>2, CreateStatsSound DEF Ready
<1>4. work'.ver = work.ver /\ work'.has = work.has /\ work'.stats # NoTable
  BY <1>1 DEF Ready, WellFormed, Fields, Table, NoTable
<1>5. Achieved'
  BY <1>2, <1>4 DEF Achieved
<1>6. QED
  BY <1>1, <1>2, <1>3, <1>4, <1>5, PlainStep DEF Columns

LEMMA SeedStep ==
  ASSUME Ready("seed_stats"), UNCHANGED <<at, first, lost>>, SeedStats
  PROVE  Executed
<1>1. /\ todo' = Tail(todo) /\ disk' \in {disk, work'}
      /\ work' = [work EXCEPT !.stats.rows =
           OrIgnored(@, [n \in {"Default"} |-> [n |-> 0, sid |-> ""]])]
  BY DEF SeedStats, Dml
<1>2. at = 3 /\ Len(todo) = 4 /\ work.ver = 2 /\ Sound(work) /\ work.stats # NoTable
  <2>1. at = 3 /\ Len(todo) = 4
    BY DEF Ready, Position
  <2>2. ~Rebuilding
    BY <2>1 DEF Rebuilding
  <2>3. QED
    BY <2>1, <2>2 DEF Ready, Achieved
<1>3. Sound(work')
  BY <1>1, <1>2, SeedSound DEF Ready
<1>4. WellKept(work.stats)
  BY <1>2 DEF Sound, Tables
<1>5. /\ work'.ver = work.ver /\ work'.has = work.has /\ work'.stats.key = work.stats.key
  BY <1>1, <1>4 DEF Ready, WellFormed, Fields, WellKept
<1>6. work'.stats # NoTable
  BY <1>2, <1>4, <1>5 DEF WellKept, NoTable
<1>7. Achieved'
  BY <1>2, <1>6 DEF Achieved
<1>8. todo' = Tail(todo) /\ disk' \in {disk, work'}
  BY <1>1
<1>9. QED
  BY <1>2, <1>3, <1>5, <1>7, <1>8, PlainStep DEF Columns

LEMMA IndexStep ==
  ASSUME Ready("index_instance"), UNCHANGED <<at, first, lost>>, IndexInstance
  PROVE  Executed
<1>1. todo' = Tail(todo) /\ disk' \in {disk, work'} /\ work' = work
  BY DEF IndexInstance, Ddl
<1>2. at = 6 /\ Len(todo) = 4 /\ work.ver = 5 /\ Sound(work)
  BY DEF Ready, Position, Rebuilding
<1>3. Achieved'
  BY <1>2 DEF Achieved
<1>4. QED
  BY <1>1, <1>2, <1>3, PlainStep DEF Columns

LEMMA BackfillStep ==
  ASSUME Ready("backfill"), UNCHANGED <<at, first, lost>>, Backfill
  PROVE  Executed
<1>1. /\ todo' = Tail(todo) /\ disk' \in {disk, work'}
      /\ work' = Regraded(work, "none", "unresolved")
  BY DEF Backfill, Dml
<1>2. at = 4 /\ Len(todo) = 4 /\ work.ver = 3 /\ Sound(work)
  BY DEF Ready, Position, Rebuilding
<1>3. /\ work'.ver = work.ver /\ work'.has = work.has /\ work'.stats = work.stats
      /\ work'.copy = work.copy /\ work'.last = work.last /\ work.last \in Nat
      /\ \A i \in 1..work.last : work'.hist[i].n = work.hist[i].n
  BY <1>1 DEF Regraded, Ready, WellFormed, Fields, RowFields
<1>4. Sound(work')
  BY <1>2, <1>3, EarlySound, FirstFacts DEF Ready
<1>5. Achieved'
  BY <1>2 DEF Achieved
<1>6. QED
  BY <1>1, <1>2, <1>3, <1>4, <1>5, PlainStep DEF Columns

LEMMA ExpireStep ==
  ASSUME Ready("expire_partials"), UNCHANGED <<at, first, lost>>, ExpirePartials
  PROVE  Executed
<1>1. /\ todo' = Tail(todo) /\ disk' \in {disk, work'}
      /\ work' = Regraded(work, "window_expired", "partial_expired")
  BY DEF ExpirePartials, Dml
<1>2. at = 8 /\ Len(todo) = 5 /\ work.ver = 7 /\ Sound(work)
  <2>1. at = 8 /\ Len(todo) = 5
    BY DEF Ready, Position
  <2>2. ~Rebuilding
    BY <2>1 DEF Rebuilding
  <2>3. QED
    BY <2>1, <2>2 DEF Ready
<1>3. work'.ver = work.ver /\ work'.has = work.has
  BY <1>1 DEF Regraded, Ready, WellFormed, Fields
<1>4. Sound(work') /\ NoneExpired(work')
  BY <1>1, <1>2, ExpireSound DEF Ready
<1>5. Len(todo') = 4
  BY <1>1, <1>2, Advance DEF Ready
<1>6. Achieved'
  BY <1>2, <1>4, <1>5 DEF Achieved, NoneExpired
<1>7. QED
  BY <1>1, <1>2, <1>3, <1>4, <1>6, PlainStep DEF Columns

LEMMA RecountStep ==
  ASSUME Ready("recount"), UNCHANGED <<at, first, lost>>, Recount
  PROVE  Executed
<1>1. /\ todo' = Tail(todo) /\ disk' \in {disk, work'}
      /\ work' = [work EXCEPT !.stats.rows = [n \in DOMAIN work.stats.rows |->
           [work.stats.rows[n] EXCEPT !.n = IF Settled(work, n) = {}
              THEN work.stats.rows[n].n ELSE Recounted(work, n)]]]
  BY DEF Recount, Dml
<1>2. at = 8 /\ Len(todo) = 4 /\ work.ver = 7 /\ Sound(work) /\ NoneExpired(work)
  <2>1. at = 8 /\ Len(todo) = 4
    BY DEF Ready, Position
  <2>2. ~Rebuilding
    BY <2>1 DEF Rebuilding
  <2>3. QED
    BY <2>1, <2>2 DEF Ready, Achieved
<1>3. work'.ver = work.ver /\ work'.has = work.has
  BY <1>1 DEF Ready, WellFormed, Fields
<1>4. Sound(work') /\ NoneExpired(work') /\ RecountedTotals(work')
  BY <1>1, <1>2, RecountSound DEF Ready
<1>5. RecountedTotals(work)'
  BY <1>4 DEF RecountedTotals
<1>6. Achieved'
  BY <1>2, <1>4, <1>5 DEF Achieved, NoneExpired
<1>7. todo' = Tail(todo) /\ disk' \in {disk, work'}
  BY <1>1
<1>8. QED
  BY <1>2, <1>3, <1>4, <1>6, <1>7, PlainStep DEF Columns

LEMMA AssociateStep ==
  ASSUME Ready("associate"), UNCHANGED <<at, first, lost>>, Associate
  PROVE  Executed
<1>1. /\ todo' = Tail(todo) /\ disk' \in {disk, work'} /\ tx' = TRUE
      /\ work' = [work EXCEPT
           !.hist = [i \in DOMAIN work.hist |-> Linked(work.hist[i], work.hist[i].name)],
           !.stats.rows = [n \in DOMAIN work.stats.rows |-> Linked(work.stats.rows[n], n)]]
  BY DEF Associate, Dml
<1>2. /\ at = 10 /\ Len(todo) = 3 /\ work.ver = 9 /\ Sound(work)
      /\ work.copy[10] = NoTable /\ work.stats.key = "id" /\ WellKept(work.stats)
  <2>1. at = 10 /\ Len(todo) = 3
    BY DEF Ready, Position
  <2>2. ~Rebuilding
    BY <2>1 DEF Rebuilding
  <2>3. work.ver = 9 /\ Sound(work) /\ work.copy[10] = NoTable /\ work.stats.key = "id"
    BY <2>1, <2>2 DEF Ready, Achieved
  <2>4. QED
    BY <2>1, <2>3 DEF Sound, Tables
<1>3. /\ work'.ver = work.ver /\ work'.has = work.has /\ work'.copy = work.copy
      /\ work'.stats.key = work.stats.key
  BY <1>1, <1>2 DEF Ready, WellFormed, Fields, WellKept
<1>4. Sound(work')
  BY <1>1, <1>2, AssociateSound DEF Ready
<1>5. Achieved'
  BY <1>1, <1>2, <1>3 DEF Achieved
<1>6. todo' = Tail(todo) /\ disk' \in {disk, work'}
  BY <1>1
<1>7. QED
  BY <1>2, <1>3, <1>4, <1>5, <1>6, PlainStep DEF Columns

LEMMA BeginStep ==
  ASSUME Ready("begin"), UNCHANGED <<at, first, lost>>, Begin
  PROVE  Executed
<1>1. todo' = Tail(todo) /\ tx' = TRUE /\ disk' = disk /\ work' = work
  BY DEF Begin
<1>2. at = 10 /\ Len(todo) = 11
  BY DEF Ready, Position
<1>3. Sound(work) /\ work.ver = 9
  <2>1. ~Rebuilding
    BY <1>2 DEF Rebuilding
  <2>2. QED
    BY <1>2, <2>1 DEF Ready
<1>4. Len(todo') = 10
  BY <1>1, <1>2, Advance DEF Ready
<1>5. Achieved'
  <2>1. at' # 3 /\ at' # 7 /\ at' # 8 /\ tx'
    BY <1>1, <1>2
  <2>2. ~(Len(todo') <= 7) /\ ~(Len(todo') <= 3)
    BY <1>4
  <2>3. QED
    BY <2>1, <2>2, Zenon DEF Achieved
<1>6. QED
  BY <1>1, <1>2, <1>3, <1>5, PlainStep DEF Columns

LEMMA VersionStep ==
  ASSUME Ready("version"), UNCHANGED <<at, first, lost>>, RecordVersion
  PROVE  Executed
<1>1. /\ todo' = Tail(todo) /\ tx' = TRUE /\ disk' = disk
      /\ work' = [work EXCEPT !.ver = at]
  BY DEF RecordVersion, Dml
<1>2. Len(todo) = 2 /\ at \in 1..10
  BY DEF Ready, Position
<1>3. Sound(work) /\ work.ver = at - 1
  <2>1. ~Rebuilding
    BY <1>2 DEF Rebuilding
  <2>2. QED
    BY <1>2, <2>1 DEF Ready
<1>4. Sound(work')
  BY <1>1, <1>2, <1>3, VersionSound DEF Ready
<1>5. /\ work'.ver = at /\ work'.has = work.has /\ work'.copy = work.copy
      /\ work'.stats = work.stats /\ work'.hist = work.hist
  BY <1>1 DEF Ready, WellFormed, Fields
<1>6. Len(todo') = 1
  BY <1>1, <1>2, Advance DEF Ready
<1>7. RecountedTotals(work) => RecountedTotals(work)'
  BY <1>5 DEF RecountedTotals, Settled, Recounted, Totals
<1>8. Achieved'
  <2>1. /\ at = 3 => work.stats # NoTable
        /\ at = 7 => work.stats.key = "name" /\ work.copy[7] = NoTable
        /\ at = 8 => NoneExpired(work) /\ RecountedTotals(work)
        /\ at = 10 => work.copy[10] = NoTable /\ work.stats.key = "id"
    BY <1>2 DEF Ready, Achieved, Rebuilding
  <2>2. NoneExpired(work) => NoneExpired(work)'
    BY <1>5 DEF NoneExpired
  <2>3. at' = at /\ tx' = TRUE
    BY <1>1
  <2>4. QED
    BY <1>5, <1>7, <2>1, <2>2, <2>3 DEF Achieved
<1>9. QED
  BY <1>1, <1>2, <1>4, <1>5, <1>8, PlainStep DEF Columns

LEMMA CommitStep ==
  ASSUME Ready("commit"), UNCHANGED <<at, first, lost>>, Commit
  PROVE  Executed
<1>1. todo' = Tail(todo) /\ tx' = FALSE /\ disk' = work' /\ work' = work
  BY DEF Commit
<1>2. (Len(todo) = 1 \/ (Len(todo) = 3 /\ at # 10)) /\ at \in 1..10
  BY DEF Ready, Position
<1>3. Sound(work) /\ work.ver = IF Len(todo) >= 3 THEN at - 1 ELSE at
  <2>1. ~Rebuilding
    BY <1>2 DEF Rebuilding
  <2>2. Sound(work) /\ work.ver = IF Len(todo) >= 2 THEN at - 1 ELSE at
    BY <2>1 DEF Ready
  <2>3. (Len(todo) >= 2) <=> (Len(todo) >= 3)
    <3>1. \A l \in {1, 3} : (l >= 2) <=> (l >= 3)
      OBVIOUS
    <3>2. QED
      BY <1>2, <3>1
  <2>4. QED
    BY <2>2, <2>3
<1>4. ASSUME todo' # <<>>
      PROVE  Achieved'
  <2>1. Len(todo) = 3 /\ at # 10
    BY <1>1, <1>2, <1>4, Advance DEF Ready
  <2>2. /\ at = 3 => work.stats # NoTable
        /\ at = 7 => work.stats.key = "name" /\ work.copy[7] = NoTable
        /\ at = 8 => NoneExpired(work) /\ RecountedTotals(work)
    BY <2>1 DEF Ready, Achieved
  <2>3. NoneExpired(work) => NoneExpired(work)'
    BY <1>1 DEF NoneExpired
  <2>4. RecountedTotals(work) => RecountedTotals(work)'
    BY <1>1 DEF RecountedTotals, Settled, Recounted, Totals
  <2>5. at' = at /\ at' # 10 /\ work' = work
    BY <1>1, <2>1
  <2>6. QED
    BY <2>2, <2>3, <2>4, <2>5 DEF Achieved
<1>5. work'.has = work.has /\ "commit" \notin Columns
  BY <1>1 DEF Columns
<1>6. ~(at \in {7, 10} /\ Len(todo) \in {5, 6, 7})
  BY <1>2
<1>7. QED
  BY <1>1, <1>3, <1>4, <1>5, <1>6, PlainStep

-----------------------------------------------------------------------------
LEMMA LeftoverStep ==
  ASSUME Ready("check_leftover"), UNCHANGED <<at, first, lost>>, ~Raises, CheckLeftover
  PROVE  Executed
<1>1. /\ work' = [work EXCEPT !.copy[at] = NoTable]
      /\ disk' \in {disk, work'} /\ tx' = tx
      /\ todo' = IF work.stats.key = "id"
                 THEN SubSeq(todo, 2 + Len(Rebuild), Len(todo)) ELSE Tail(todo)
  BY DEF CheckLeftover
<1>2. at = 10 /\ Len(todo) = 8
  BY DEF Ready, Position
<1>3. Sound(work) /\ work.ver = 9 /\ tx
  <2>1. ~Rebuilding
    BY <1>2 DEF Rebuilding
  <2>2. QED
    BY <1>2, <2>1 DEF Ready, Achieved
<1>4. work.copy[10] # NoTable => HasV9Shape(work)
  BY <1>2 DEF Ready, Raises, CheckLeftover, Executes
<1>5. Sound(work')
  BY <1>1, <1>2, <1>3, <1>4, LeftoverSound DEF Ready
<1>6. /\ work'.ver = 9 /\ work'.has = work.has /\ work'.stats = work.stats
      /\ work'.copy[10] = NoTable
  <2>1. DOMAIN work.copy = {7, 10}
    BY <1>3 DEF Sound, Tables
  <2>2. QED
    BY <1>1, <1>2, <1>3, <2>1 DEF Ready, WellFormed, Fields
<1>7. at' = 10 /\ tx' /\ at' # 3 /\ at' # 7 /\ at' # 8
  BY <1>1, <1>2, <1>3
<1>8. CASE work.stats.key # "id"
  <2>1. todo' = Tail(todo)
    BY <1>1, <1>8
  <2>2. Len(todo') = 7
    BY <1>2, <2>1, Advance DEF Ready
  <2>3. ~(Len(todo') <= 3) /\ work'.copy[10] = NoTable
    BY <1>6, <2>2
  <2>4. Achieved'
    BY <1>7, <2>3, Zenon DEF Achieved
  <2>5. /\ ~(at \in {7, 10} /\ Len(todo) \in {5, 6, 7})
        /\ work'.ver = IF Len(todo) >= 3 THEN at - 1 ELSE at
    BY <1>2, <1>6
  <2>6. disk' \in {disk, work'} /\ "check_leftover" \notin Columns
    BY <1>1 DEF Columns
  <2>7. QED
    BY <1>5, <1>6, <2>1, <2>4, <2>5, <2>6, PlainStep
<1>9. CASE work.stats.key = "id"
  <2>1. Len(todo') = 3 /\ Passed' = 8 /\ Passed = 3 /\ OnPlan'
    BY <1>1, <1>2, <1>9, Skip DEF Ready
  <2>2. Added'
    <3>1. {"albums_found", "albums_updated"} \subseteq work.has
      BY <1>3, <1>9 DEF Sound, Tables
    <3>2. QED
      BY <1>2, <1>6, <2>1, <3>1, SkipAdded DEF Ready
  <2>3. work'.copy[10] = NoTable /\ work'.stats.key = "id"
    BY <1>6, <1>9
  <2>4. Achieved'
    BY <1>7, <2>3, Zenon DEF Achieved
  <2>5. Sound(work)' /\ Sound(disk)'
    BY <1>1, <1>5, SoundWork, SoundDisk DEF Ready
  <2>6. ~Rebuilding' /\ work'.ver = IF Len(todo') >= 2 THEN at' - 1 ELSE at'
    BY <1>6, <1>7, <2>1 DEF Rebuilding
  <2>7. at' \in 0..10
    BY <1>7
  <2>8. QED
    BY <2>1, <2>2, <2>4, <2>5, <2>6, <2>7 DEF Executed, Migrating
<1>10. QED
  BY <1>8, <1>9

(* A step of a rebuild that leaves one statement of it at least.           *)
LEMMA RebuildStep ==
  ASSUME NEW s, s \notin Columns, Ready(s), UNCHANGED <<at, first, lost>>, todo' = Tail(todo),
         at \in {7, 10}, Len(todo) \in {5, 6, 7}, work'.ver = work.ver,
         work'.has = work.has, Rebuilt', Sound(disk'), at = 10 => tx'
  PROVE  Executed
<1>1. Len(todo') = Len(todo) - 1 /\ Passed' = Passed + 1 /\ OnPlan'
  BY Advance DEF Ready
<1>2. Added'
  BY <1>1, StepAdded DEF Ready
<1>3. /\ Len(todo') \in {4, 5, 6} /\ ~(Len(todo') <= 3)
      /\ Len(todo') >= 2 /\ Len(todo) >= 2
  <2>1. \A l \in {5, 6, 7} : /\ l - 1 \in {4, 5, 6} /\ ~(l - 1 <= 3)
                            /\ l - 1 >= 2 /\ l >= 2
    OBVIOUS
  <2>2. QED
    BY <1>1, <2>1
<1>4. Rebuilding'
  BY <1>3 DEF Rebuilding
<1>5. at # 3 /\ at # 8 /\ at \in 0..10
  OBVIOUS
<1>6. Achieved'
  <2>1. at' # 3 /\ at' # 8 /\ (at' = 10 => tx')
    BY <1>5, Zenon
  <2>2. QED
    BY <1>3, <1>4, <2>1, Zenon DEF Achieved
<1>7. Sound(disk)'
  BY SoundDisk
<1>8. work'.ver = at - 1
  BY <1>3 DEF Ready
<1>9. at' \in 0..10 /\ work'.ver = IF Len(todo') >= 2 THEN at' - 1 ELSE at'
  BY <1>3, <1>5, <1>8, Zenon
<1>10. QED
  BY <1>1, <1>2, <1>4, <1>6, <1>7, <1>9, Zenon DEF Executed, Migrating

LEMMA CopyAside ==
  ASSUME NEW d, NEW e, WellFormed(d), WellFormed(e), Sound(d), first \in FirstDbs,
         at \in {7, 10}, d.ver = at - 1, d.copy[at] = NoTable \/ at = 7,
         e.ver = d.ver, e.has = d.has, e.hist = d.hist, e.last = d.last,
         e.stats = d.stats, DOMAIN e.copy = {7, 10},
         \A k \in {7, 10} : k # at => e.copy[k] = d.copy[k]
  PROVE  Sound(WithStats(e, e.stats))
<1> DEFINE b == WithStats(e, e.stats)
<1>1. /\ b.ver = e.ver /\ b.has = e.has /\ b.hist = e.hist /\ b.last = e.last
      /\ b.stats = e.stats /\ DOMAIN b.copy = {7, 10} /\ b.copy[at] = NoTable
      /\ \A k \in {7, 10} : k # at => b.copy[k] = e.copy[k]
  BY WithStatsFacts
<1> HIDE DEF b
<1>2. Tables(d)
  BY DEF Sound
<1>3. WellKept(NoTable)
  BY DEF WellKept, NoTable
<1>4. Tables(b)
  <2>1. CASE at = 7
    BY <1>1, <1>2, <2>1 DEF Tables
  <2>2. CASE at = 10
    BY <1>1, <1>2, <1>3, <2>2 DEF Tables
  <2>3. QED
    BY <2>1, <2>2
<1>5. Totals(b) = Totals(d)
  <2>1. CASE d.stats # NoTable
    BY <1>1, <2>1 DEF Totals
  <2>2. CASE d.stats = NoTable
    <3>1. at = 10
      <4>1. ASSUME at = 7
            PROVE  FALSE
        <5>1. first.ver \in 0..6
          BY <4>1, FirstFacts DEF Sound
        <5>2. QED
          BY <1>2, <2>2, <4>1, <5>1 DEF Tables
      <4>2. QED
        BY <4>1
    <3>2. b.copy[10] = NoTable /\ d.copy[10] = NoTable /\ b.copy[7] = d.copy[7]
      BY <1>1, <3>1
    <3>3. QED
      BY <1>1, <2>2, <3>2, TargetIsTen DEF Totals
  <2>3. QED
    BY <2>1, <2>2
<1>6. Sound(b)
  BY <1>1, <1>4, <1>5, TablesSound
<1>7. QED
  BY <1>6 DEF b

LEMMA CreateCopyStep ==
  ASSUME Ready("create_copy"), UNCHANGED <<at, first, lost>>, ~Raises, CreateCopy,
         WellFormed(work')
  PROVE  Executed
<1> DEFINE t == Table(NewKey)
<1>1. /\ todo' = Tail(todo) /\ tx' = tx /\ disk' = IF tx THEN disk ELSE work'
      /\ work' = IF work.copy[at] # NoTable THEN work ELSE [work EXCEPT !.copy[at] = t]
  BY TargetIsTen DEF CreateCopy, Ddl, NewKey
<1>2. at \in {7, 10} /\ Len(todo) = 7
  BY DEF Ready, Position
<1>3. Sound(work) /\ work.ver = at - 1
  <2>1. ~Rebuilding
    BY <1>2 DEF Rebuilding
  <2>2. QED
    BY <1>2, <2>1 DEF Ready
<1>4. Tables(work)
  BY <1>3 DEF Sound
<1>5. at = 10 => work.copy[at] = NoTable /\ tx
  <2>1. at = 10 => work.copy[at] = NoTable
    BY TargetIsTen DEF Raises, CreateCopy, Ddl, Executes
  <2>2. at = 10 => tx
    BY <1>2 DEF Ready, Achieved
  <2>3. QED
    BY <2>1, <2>2
<1>6. at = 7 => work.copy[7] = NoTable \/ work.copy[7] = t
  BY <1>4 DEF Tables, NewKey
<1> HIDE DEF t
<1>7. /\ work'.ver = work.ver /\ work'.has = work.has /\ work'.stats = work.stats
      /\ work'.hist = work.hist /\ work'.last = work.last
      /\ DOMAIN work'.copy = {7, 10} /\ work'.copy[at] = t
      /\ \A k \in {7, 10} : k # at => work'.copy[k] = work.copy[k]
  <2>1. CASE work.copy[at] # NoTable
    BY <1>1, <1>2, <1>4, <1>5, <1>6, <2>1 DEF Tables
  <2>2. CASE work.copy[at] = NoTable
    <3>1. work' = [work EXCEPT !.copy = [work.copy EXCEPT ![at] = t]]
      BY <1>1, <2>2
    <3>2. QED
      BY <1>2, <1>4, <3>1 DEF Tables, Ready, WellFormed, Fields
  <2>3. QED
    BY <2>1, <2>2
<1>8. Sound(WithStats(work', work'.stats))
  BY <1>2, <1>3, <1>5, <1>7, CopyAside DEF Ready
<1>9. Sound(disk')
  <2>1. CASE tx
    BY <1>1, <2>1 DEF Ready
  <2>2. CASE ~tx
    <3>1. at = 7 /\ disk' = work' /\ work.ver = 6
      BY <1>1, <1>2, <1>3, <1>5, <2>2
    <3>2. CASE work.copy[at] # NoTable
      BY <1>1, <1>3, <3>1, <3>2
    <3>3. CASE work.copy[at] = NoTable
      <4>1. work' = [work EXCEPT !.copy[7] = Table("name")]
        BY <1>1, <3>1, <3>3 DEF t, NewKey
      <4>2. QED
        BY <1>3, <3>1, <4>1, CreateCopySound DEF Ready
    <3>4. QED
      BY <3>2, <3>3
  <2>3. QED
    BY <2>1, <2>2
<1>10. Len(todo') = 6
  BY <1>1, <1>2, Advance DEF Ready
<1>11. t.key = NewKey /\ WellKept(t) /\ t.rows = <<>> /\ NewKey' = NewKey
  BY <1>2 DEF t, Table, WellKept, NewKey, NoTable
<1>12. Rebuilt'
  <2>1. Sound(WithStats(work, IF Len(todo) = 4 THEN work.copy[at] ELSE work.stats))'
    BY <1>8, <1>10, SoundRebuilt
  <2>2. tx' \/ (Len(todo') = 6 /\ at' = 7)
    BY <1>1, <1>2, <1>5, <1>10
  <2>3. /\ work'.copy[at'].key = NewKey' /\ WellKept(work'.copy[at'])
        /\ work'.copy[at'].rows = <<>> /\ Len(todo') # 5 /\ Len(todo') # 4
    BY <1>7, <1>10, <1>11
  <2>4. QED
    BY <2>1, <2>2, <2>3, Zenon DEF Rebuilt
<1>13. at = 10 => tx'
  BY <1>1, <1>5
<1>14. QED
  BY <1>1, <1>2, <1>7, <1>9, <1>12, <1>13, RebuildStep DEF Columns

(* The copies are where they are, with the table in place or aside.        *)
LEMMA RebuildFacts ==
  ASSUME NEW d, WellFormed(d), NEW t, Sound(WithStats(d, t))
  PROVE  DOMAIN d.copy = {7, 10} /\ WellKept(t)
<1> DEFINE b == WithStats(d, t)
<1>1. DOMAIN b.copy = DOMAIN d.copy /\ b.stats = t
  BY DEF WithStats, WellFormed, Fields
<1> HIDE DEF b
<1>2. Tables(b)
  BY DEF Sound, b
<1>3. QED
  BY <1>1, <1>2 DEF Tables

LEMMA FillStep ==
  ASSUME Ready("fill_copy"), UNCHANGED <<at, first, lost>>, ~Raises, FillCopy,
         WellFormed(work')
  PROVE  Executed
<1>1. /\ todo' = Tail(todo) /\ tx' = TRUE /\ disk' = disk
      /\ work' = [work EXCEPT !.copy[at].rows = OrIgnored(@, work.stats.rows)]
  BY DEF FillCopy, Dml
<1>2. at \in {7, 10} /\ Len(todo) = 6
  BY DEF Ready, Position
<1>3. Rebuilt /\ work.ver = at - 1
  <2>1. Rebuilding
    BY <1>2 DEF Rebuilding
  <2>2. QED
    BY <1>2, <2>1 DEF Ready
<1>4. work.stats # NoTable
  BY DEF Raises, FillCopy, Dml, Executes
<1>5. /\ work.copy[at].key = NewKey /\ WellKept(work.copy[at])
      /\ work.copy[at].rows = <<>> /\ Sound(WithStats(work, work.stats))
  BY <1>2, <1>3 DEF Rebuilt
<1>6. /\ WellFormed(work) /\ DOMAIN work.copy = {7, 10} /\ WellKept(work.stats)
  BY <1>5, RebuildFacts DEF Ready
<1> DEFINE t == [key |-> NewKey, rows |-> OrIgnored(<<>>, work.stats.rows)]
           d == [work EXCEPT !.copy = [work.copy EXCEPT ![at] =
                   [work.copy[at] EXCEPT !.rows = OrIgnored(@, work.stats.rows)]]]
<1>7. work' = d
  BY <1>1
<1>8. /\ d.ver = work.ver /\ d.has = work.has /\ d.stats = work.stats
      /\ d.hist = work.hist /\ d.last = work.last /\ DOMAIN d.copy = {7, 10}
      /\ d.copy[at] = [work.copy[at] EXCEPT !.rows = OrIgnored(@, work.stats.rows)]
      /\ \A k \in {7, 10} : k # at => d.copy[k] = work.copy[k]
  BY <1>2, <1>6 DEF WellFormed, Fields
<1>9. /\ DOMAIN d.copy[at] = {"key", "rows"} /\ d.copy[at].key = NewKey
      /\ d.copy[at].rows = OrIgnored(<<>>, work.stats.rows)
  BY <1>5, <1>8 DEF WellKept
<1>10. /\ DOMAIN OrIgnored(<<>>, work.stats.rows) = DOMAIN work.stats.rows
       /\ \A n \in DOMAIN work.stats.rows :
            OrIgnored(<<>>, work.stats.rows)[n] = work.stats.rows[n]
  BY DEF OrIgnored
<1> HIDE DEF d
<1>11. SameRows(d.copy[at], work.stats)
  BY <1>9, <1>10 DEF SameRows
<1>12. WellKept(d.copy[at])
  BY <1>2, <1>6, <1>9, <1>10 DEF WellKept, NewKey
<1>13. Sound(WithStats(d, work.stats))
  <2>1. work.ver # 10 /\ SameRows(work.stats, work.stats)
    BY <1>2, <1>3 DEF SameRows
  <2>2. WellFormed(d)
    BY <1>7
  <2>3. work.stats.key = "id" => {"albums_found", "albums_updated"} \subseteq work.has
    BY <1>5, <1>6, <1>2, WithStatsFacts DEF Sound, Tables, Ready
  <2>4. QED
    BY <1>2, <1>4, <1>5, <1>6, <1>8, <2>1, <2>2, <2>3, SameOutcome
<1>14. Len(todo') = 5
  BY <1>1, <1>2, Advance DEF Ready
<1>15. Rebuilt'
  <2>1. Sound(WithStats(work', IF Len(todo') = 4 THEN work'.copy[at] ELSE work'.stats))
    BY <1>7, <1>8, <1>13, <1>14
  <2>2. Sound(WithStats(work, IF Len(todo) = 4 THEN work.copy[at] ELSE work.stats))'
    BY <2>1, SoundRebuilt
  <2>3. /\ work'.copy[at'].key = NewKey' /\ WellKept(work'.copy[at'])
        /\ work'.stats # NoTable /\ tx'
    BY <1>1, <1>4, <1>7, <1>8, <1>9, <1>12 DEF NewKey
  <2>4. SameRows(work'.copy[at'], work'.stats)
    BY <1>7, <1>8, <1>11
  <2>5. Len(todo') # 6 /\ Len(todo') # 4
    BY <1>14
  <2>6. at' = 10 => {"albums_found", "albums_updated"} \subseteq work'.has
    <3>1. at = 10 => Reads(at, "fill_copy") = {"albums_found", "albums_updated"}
      BY TargetIsTen DEF Reads
    <3>2. QED
      BY <1>7, <1>8, <3>1 DEF Ready
  <2>7. QED
    BY <2>2, <2>3, <2>4, <2>5, <2>6, Zenon DEF Rebuilt
<1>16. work'.ver = work.ver /\ work'.has = work.has /\ Sound(disk')
  BY <1>1, <1>7, <1>8 DEF Ready
<1>17. todo' = Tail(todo) /\ tx'
  BY <1>1
<1>18. QED
  BY <1>2, <1>15, <1>16, <1>17, RebuildStep DEF Columns

LEMMA DropStep ==
  ASSUME Ready("drop_stats"), UNCHANGED <<at, first, lost>>, DropStats, WellFormed(work')
  PROVE  Executed
<1>1. /\ todo' = Tail(todo) /\ tx' = tx /\ disk' = IF tx THEN disk ELSE work'
      /\ work' = [work EXCEPT !.stats = NoTable]
  BY DEF DropStats, Ddl
<1>2. at \in {7, 10} /\ Len(todo) = 5
  BY DEF Ready, Position
<1>3. Rebuilt /\ work.ver = at - 1
  <2>1. Rebuilding
    BY <1>2 DEF Rebuilding
  <2>2. QED
    BY <1>2, <2>1 DEF Ready
<1>4. /\ work.copy[at].key = NewKey /\ WellKept(work.copy[at]) /\ tx
      /\ work.stats # NoTable /\ SameRows(work.copy[at], work.stats)
      /\ Sound(WithStats(work, work.stats))
      /\ at = 10 => {"albums_found", "albums_updated"} \subseteq work.has
  BY <1>2, <1>3 DEF Rebuilt
<1>5. WellFormed(work) /\ DOMAIN work.copy = {7, 10}
  BY <1>4, RebuildFacts DEF Ready
<1>6. /\ work'.ver = work.ver /\ work'.has = work.has /\ work'.stats = NoTable
      /\ work'.hist = work.hist /\ work'.last = work.last /\ work'.copy = work.copy
  BY <1>1, <1>5 DEF WellFormed, Fields
<1>7. /\ work.copy[at].key # "app" /\ work.copy[at] # NoTable
      /\ work.copy[at].key = "id" => {"albums_found", "albums_updated"} \subseteq work.has
  BY <1>4 DEF NewKey, NoTable
<1>8. Sound(WithStats(work', work.copy[at]))
  <2>1. work.ver # 10
    BY <1>2, <1>3
  <2>2. QED
    BY <1>2, <1>4, <1>5, <1>6, <1>7, <2>1, SameOutcome
<1>9. Len(todo') = 4
  BY <1>1, <1>2, Advance DEF Ready
<1>10. Rebuilt'
  <2>1. Sound(WithStats(work', IF Len(todo') = 4 THEN work'.copy[at] ELSE work'.stats))
    BY <1>6, <1>8, <1>9
  <2>2. Sound(WithStats(work, IF Len(todo) = 4 THEN work.copy[at] ELSE work.stats))'
    BY <2>1, SoundRebuilt
  <2>3. /\ work'.copy[at'].key = NewKey' /\ WellKept(work'.copy[at'])
        /\ work'.stats = NoTable /\ tx'
    BY <1>1, <1>4, <1>6 DEF NewKey
  <2>4. Len(todo') # 6 /\ Len(todo') # 5
    BY <1>9
  <2>5. QED
    BY <2>2, <2>3, <2>4, Zenon DEF Rebuilt
<1>11. Sound(disk') /\ tx' /\ todo' = Tail(todo)
  BY <1>1, <1>4 DEF Ready
<1>12. QED
  BY <1>2, <1>6, <1>10, <1>11, RebuildStep DEF Columns

LEMMA RenameStep ==
  ASSUME Ready("rename_copy"), UNCHANGED <<at, first, lost>>, RenameCopy
  PROVE  Executed
<1>1. /\ todo' = Tail(todo) /\ tx' = tx /\ disk' = IF tx THEN disk ELSE work'
      /\ work' = WithStats(work, work.copy[at])
  BY DEF RenameCopy, Ddl, WithStats
<1>2. at \in {7, 10} /\ Len(todo) = 4
  BY DEF Ready, Position
<1>3. Rebuilt /\ work.ver = at - 1
  <2>1. Rebuilding
    BY <1>2 DEF Rebuilding
  <2>2. QED
    BY <1>2, <2>1 DEF Ready
<1>4. work.copy[at].key = NewKey /\ tx /\ Sound(WithStats(work, work.copy[at]))
  BY <1>2, <1>3 DEF Rebuilt
<1>5. WellFormed(work) /\ DOMAIN work.copy = {7, 10}
  BY <1>4, RebuildFacts DEF Ready
<1>6. /\ work'.ver = work.ver /\ work'.has = work.has /\ work'.stats = work.copy[at]
      /\ work'.copy[at] = NoTable
  BY <1>1, <1>2, <1>5, WithStatsFacts
<1>7. Len(todo') = 3
  BY <1>1, <1>2, Advance DEF Ready
<1>8. Achieved'
  <2>1. at' # 3 /\ at' # 8 /\ tx' /\ work'.copy[at'] = NoTable
    BY <1>1, <1>2, <1>4, <1>6
  <2>2. /\ at' = 7 => work'.stats.key = "name"
        /\ at' = 10 => work'.stats.key = "id"
    BY <1>4, <1>6 DEF NewKey
  <2>3. QED
    BY <2>1, <2>2, Zenon DEF Achieved
<1>9. ~(at \in {7, 10} /\ Len(todo) \in {5, 6, 7})
  BY <1>2
<1>10. work'.ver = IF Len(todo) >= 3 THEN at - 1 ELSE at
  BY <1>2, <1>3, <1>6
<1>11. /\ todo' = Tail(todo) /\ Sound(work') /\ disk' \in {disk, work'}
       /\ work.has \subseteq work'.has
  BY <1>1, <1>4, <1>6
<1>12. QED
  BY <1>8, <1>9, <1>10, <1>11, PlainStep DEF Columns

LEMMA MissStep ==
  ASSUME UpgradeInv, WellFormed(work), MissColumn
  PROVE  Executed /\ UNCHANGED <<first, pc>> /\ pc = "migrate" /\ Ready(Head(todo))
<1> DEFINE c == Head(todo)
<1>1. /\ pc = "migrate" /\ todo # <<>> /\ c \in Columns /\ todo' = Tail(todo)
      /\ lost' = lost \cup {c} /\ UNCHANGED <<disk, work, tx, pc, at, first>>
  BY DEF MissColumn, Suppressed
<1>2. Reads(at, c) = {}
  BY <1>1 DEF Reads, Columns
<1>3. Ready(c)
  BY <1>1, <1>2, ReadyAtHead
<1> HIDE DEF c
<1>4. Executed
  BY <1>1, <1>3, ColumnStep
<1>5. QED
  BY <1>1, <1>3, <1>4 DEF c

LEMMA StatementStep ==
  ASSUME UpgradeInv, Statement, WellFormed(work), WellFormed(work')
  PROVE  Executed /\ UNCHANGED <<first, pc>> /\ pc = "migrate"
<1>1. CASE AddColumn
  <2>1. PICK c \in Columns : Ddl(c, [work EXCEPT !.has = @ \cup {c}])
    BY <1>1 DEF AddColumn
  <2>2. Executes(c)
    BY <2>1 DEF Ddl
  <2>3. /\ todo' = Tail(todo) /\ disk' \in {disk, work'} /\ tx' = tx
        /\ work' = [work EXCEPT !.has = @ \cup {c}]
    BY <2>1 DEF Ddl
  <2>4. c \in work'.has
    BY <2>3 DEF WellFormed, Fields
  <2>5. Ready(c) /\ UNCHANGED <<at, first, lost, pc>> /\ pc = "migrate"
    BY <2>2, ReadyToExecute DEF Executes
  <2>6. QED
    BY <2>3, <2>4, <2>5, ColumnStep
<1>2. CASE CreateStats
  <2>1. Executes("create_stats")
    BY <1>2 DEF CreateStats, Ddl
  <2>2. QED
    BY <1>2, <2>1, ReadyToExecute, CreateStatsStep DEF Executes
<1>3. CASE SeedStats
  <2>1. Executes("seed_stats")
    BY <1>3 DEF SeedStats, Dml
  <2>2. QED
    BY <1>3, <2>1, ReadyToExecute, SeedStep DEF Executes
<1>4. CASE Backfill
  <2>1. Executes("backfill")
    BY <1>4 DEF Backfill, Dml
  <2>2. QED
    BY <1>4, <2>1, ReadyToExecute, BackfillStep DEF Executes
<1>5. CASE CreateCopy
  <2>1. Executes("create_copy")
    BY <1>5 DEF CreateCopy, Ddl
  <2>2. QED
    BY <1>5, <2>1, ReadyToExecute, CreateCopyStep DEF Executes
<1>6. CASE FillCopy
  <2>1. Executes("fill_copy")
    BY <1>6 DEF FillCopy, Dml
  <2>2. QED
    BY <1>6, <2>1, ReadyToExecute, FillStep DEF Executes
<1>7. CASE DropStats
  <2>1. Executes("drop_stats")
    BY <1>7 DEF DropStats, Ddl
  <2>2. QED
    BY <1>7, <2>1, ReadyToExecute, DropStep DEF Executes
<1>8. CASE RenameCopy
  <2>1. Executes("rename_copy")
    BY <1>8 DEF RenameCopy, Ddl
  <2>2. QED
    BY <1>8, <2>1, ReadyToExecute, RenameStep DEF Executes
<1>9. CASE ExpirePartials
  <2>1. Executes("expire_partials")
    BY <1>9 DEF ExpirePartials, Dml
  <2>2. QED
    BY <1>9, <2>1, ReadyToExecute, ExpireStep DEF Executes
<1>10. CASE Recount
  <2>1. Executes("recount")
    BY <1>10 DEF Recount, Dml
  <2>2. QED
    BY <1>10, <2>1, ReadyToExecute, RecountStep DEF Executes
<1>11. CASE CheckLeftover
  <2>1. Executes("check_leftover")
    BY <1>11 DEF CheckLeftover
  <2>2. QED
    BY <1>11, <2>1, ReadyToExecute, LeftoverStep DEF Executes
<1>12. CASE Associate
  <2>1. Executes("associate")
    BY <1>12 DEF Associate, Dml
  <2>2. QED
    BY <1>12, <2>1, ReadyToExecute, AssociateStep DEF Executes
<1>13. CASE Begin
  <2>1. Executes("begin")
    BY <1>13 DEF Begin
  <2>2. QED
    BY <1>13, <2>1, ReadyToExecute, BeginStep DEF Executes
<1>14. CASE RecordVersion
  <2>1. Executes("version")
    BY <1>14 DEF RecordVersion, Dml
  <2>2. QED
    BY <1>14, <2>1, ReadyToExecute, VersionStep DEF Executes
<1>15. CASE Commit
  <2>1. Executes("commit")
    BY <1>15 DEF Commit
  <2>2. QED
    BY <1>15, <2>1, ReadyToExecute, CommitStep DEF Executes
<1>16. CASE IndexInstance
  <2>1. Executes("index_instance")
    BY <1>16 DEF IndexInstance, Ddl
  <2>2. QED
    BY <1>16, <2>1, ReadyToExecute, IndexStep DEF Executes
<1>17. QED
  BY <1>1, <1>2, <1>3, <1>4, <1>5, <1>6, <1>7, <1>8, <1>9, <1>10, <1>11, <1>12,
     <1>13, <1>14, <1>15, <1>16 DEF Statement

LEMMA UpgradeInit == Init => UpgradeInv
<1> SUFFICES ASSUME Init PROVE UpgradeInv
  OBVIOUS
<1>1. first \in FirstDbs /\ disk = first /\ work = disk /\ pc = "down"
  BY DEF Init
<1>2. QED
  BY <1>1, FirstFacts DEF UpgradeInv

LEMMA NextVersionStep ==
  ASSUME UpgradeInv, NextVersion
  PROVE  UpgradeInv'
<1>1. /\ pc = "migrate" /\ todo = <<>> /\ UNCHANGED <<disk, work, first, lost>>
      /\ first \in FirstDbs /\ Sound(disk) /\ Migrating
  BY DEF NextVersion, UpgradeInv
<1>2. Len(todo) = 0
  BY <1>1
<1>3. Sound(work) /\ work.ver = at /\ at \in 0..10
  BY <1>1, <1>2 DEF Migrating, Rebuilding
<1>4. Sound(disk)' /\ Sound(work)'
  BY <1>1, <1>3, SoundDisk, SoundWork
<1>5. CASE at < Target
  <2>1. /\ at' = at + 1 /\ todo' = Plan(at') /\ pc' = pc /\ at' \in 1..10
    BY <1>3, <1>5, TargetIsTen DEF NextVersion
  <2>2. /\ Plan(at') \in Seq(Words) /\ Len(Plan(at')) >= 4 /\ Len(Plan(at')) \in Nat
        /\ at' \in {3, 8} => Len(Plan(at')) = 5
        /\ at' = 7 => Len(Plan(at')) = 7
        /\ at' = 10 => Len(Plan(at')) = 11
    <3>1. \A v \in 1..10 :
             /\ Plan(v) \in Seq(Words) /\ Len(Plan(v)) >= 4
             /\ v \in {3, 8} => Len(Plan(v)) = 5
             /\ v = 7 => Len(Plan(v)) = 7
             /\ v = 10 => Len(Plan(v)) = 11
      BY Plans, Zenon DEF PlanFacts
    <3>2. Plan(at') \in Seq(Words)
      BY <2>1, <3>1, Zenon
    <3>3. Len(Plan(at')) \in Nat
      BY <3>2, LenProperties
    <3>4. QED
      BY <2>1, <3>1, <3>3, Zenon
  <2>3. Passed' = 0
    <3>1. \A l \in Nat : l - l = 0
      OBVIOUS
    <3>2. Passed' = Len(Plan(at')) - Len(todo')
      BY DEF Passed
    <3>3. QED
      BY <2>1, <2>2, <3>1, <3>2
  <2>4. /\ at' = 3 \/ at' = 8 => ~(Len(todo') <= 4) /\ ~(Len(todo') <= 3)
        /\ at' = 7 => ~(Len(todo') <= 3) /\ Len(todo') \notin {4, 5, 6}
        /\ at' = 10 => /\ ~(Len(todo') <= 10) /\ ~(Len(todo') <= 7) /\ ~(Len(todo') <= 3)
                       /\ Len(todo') \notin {4, 5, 6}
    <3>1. /\ \A l \in {5} : ~(l <= 4) /\ ~(l <= 3)
          /\ \A l \in {7} : ~(l <= 3) /\ l \notin {4, 5, 6}
          /\ \A l \in {11} : ~(l <= 10) /\ ~(l <= 7) /\ ~(l <= 3) /\ l \notin {4, 5, 6}
      OBVIOUS
    <3>2. /\ at' = 3 \/ at' = 8 => Len(todo') \in {5}
          /\ at' = 7 => Len(todo') \in {7}
          /\ at' = 10 => Len(todo') \in {11}
      BY <2>1, <2>2
    <3>3. QED
      BY <3>1, <3>2, Zenon
  <2>5. Achieved' /\ ~Rebuilding'
    BY <2>4, Zenon DEF Achieved, Rebuilding
  <2>6. Added'
    BY <2>3 DEF Added
  <2>7. OnPlan'
    <3>1. /\ todo' \in Seq(Words) /\ Len(todo') <= Len(Plan(at'))
          /\ \A i \in 1..Len(todo') : todo'[i] = Plan(at')[Passed' + i]
      BY <2>1, <2>2, <2>3
    <3>2. QED
      BY <2>1, <3>1 DEF OnPlan
  <2>8. at' \in 0..10 /\ work'.ver = IF Len(todo') >= 2 THEN at' - 1 ELSE at'
    <3>1. Len(todo') >= 2
      BY <2>1, <2>2
    <3>2. QED
      BY <1>1, <1>3, <2>1, <3>1
  <2>9. Migrating'
    BY <1>4, <2>5, <2>6, <2>7, <2>8 DEF Migrating
  <2>10. QED
    BY <1>1, <1>4, <2>1, <2>9 DEF UpgradeInv
<1>6. CASE ~(at < Target)
  <2>1. pc' = "import" /\ work'.ver = 10
    BY <1>1, <1>3, <1>6, TargetIsTen DEF NextVersion
  <2>2. QED
    BY <1>1, <1>4, <2>1 DEF UpgradeInv
<1>7. QED
  BY <1>5, <1>6

LEMMA StartStep ==
  ASSUME UpgradeInv, Start
  PROVE  UpgradeInv'
<1>1. /\ pc = "down" /\ pc' = "migrate" /\ UNCHANGED <<disk, work, first, lost>>
      /\ at' = disk.ver /\ todo' = <<>> /\ work = disk
      /\ first \in FirstDbs /\ Sound(disk)
  BY DEF Start, UpgradeInv
<1>2. Sound(disk)' /\ Sound(work)'
  BY <1>1, SoundDisk, SoundWork
<1>3. disk.ver \in 0..10 /\ Len(todo') = 0
  BY <1>1, FirstFacts DEF Sound
<1>4. ~Rebuilding' /\ work'.ver = IF Len(todo') >= 2 THEN at' - 1 ELSE at'
  BY <1>1, <1>3 DEF Rebuilding
<1>5. Migrating'
  BY <1>1, <1>2, <1>3, <1>4 DEF Migrating
<1>6. QED
  BY <1>1, <1>2, <1>5 DEF UpgradeInv

(* After the migrations every step leaves a sound database.                *)
LEMMA LaterStep ==
  ASSUME UpgradeInv, UNCHANGED <<first, lost>>, Sound(work'), work'.ver = 10,
         disk' \in {disk, work'}, pc' \in {"import", "save", "cutover", "up"}
  PROVE  UpgradeInv'
<1>1. Sound(disk)' /\ Sound(work)'
  BY SoundDisk, SoundWork DEF UpgradeInv
<1>2. QED
  BY <1>1 DEF UpgradeInv

LEMMA UpgradeNext ==
  ASSUME UpgradeInv, CutoverInv, CutoverInv', [Next]_vars
  PROVE  UpgradeInv'
<1>1. /\ first \in FirstDbs /\ Sound(disk) /\ WellFormed(work) /\ WellFormed(work')
      /\ WellFormed(disk) /\ log \in Nat
  BY DEF UpgradeInv, CutoverInv, Consistent, ImportFirst
<1>2. CASE UNCHANGED vars
  <2>1. Sound(disk)'
    BY <1>1, <1>2, SoundDisk DEF vars
  <2>2. Sound(work) => Sound(work)'
    BY <1>2, SoundWork DEF vars
  <2>3. Sound(WithStats(work, IF Len(todo) = 4 THEN work.copy[at] ELSE work.stats))
          => Sound(WithStats(work, IF Len(todo) = 4 THEN work.copy[at] ELSE work.stats))'
    BY <1>2, SoundRebuilt DEF vars
  <2>4. Rebuilding' = Rebuilding /\ (Rebuilt => Rebuilt')
    BY <1>2, <2>3 DEF vars, Rebuilding, Rebuilt, NewKey
  <2>5. (Added => Added') /\ (OnPlan => OnPlan')
    BY <1>2 DEF vars, Added, OnPlan, Passed
  <2>6. Achieved => Achieved'
    BY <1>2, <2>4 DEF vars, Achieved, NoneExpired, RecountedTotals, Totals, Settled, Recounted
  <2>7. Migrating => Migrating'
    BY <1>2, <2>2, <2>4, <2>5, <2>6 DEF vars, Migrating
  <2>8. QED
    BY <1>1, <1>2, <2>1, <2>2, <2>7 DEF vars, UpgradeInv
<1>3. CASE Start
  BY <1>3, StartStep
<1>4. CASE NextVersion
  BY <1>4, NextVersionStep
<1>5. CASE Statement
  BY <1>1, <1>5, StatementStep DEF Executed, UpgradeInv
<1>6. CASE Import
  <2>1. /\ Sound(work) /\ work.ver = 10 /\ UNCHANGED <<first, lost>> /\ pc' = "save"
        /\ work' = Inserted(work, log, Row("Default", "", FALSE)) /\ disk' = work'
    BY <1>6 DEF Import, UpgradeInv
  <2>2. Sound(work')
    BY <1>1, <2>1, InsertedSound
  <2>3. work'.ver = 10
    BY <1>1, <2>1 DEF Inserted, WellFormed, Fields
  <2>4. QED
    BY <2>1, <2>2, <2>3, LaterStep
<1>7. CASE SaveState \/ NothingToImport
  <2>1. /\ Sound(work) /\ work.ver = 10 /\ UNCHANGED <<first, lost, work, disk>>
        /\ pc' = "cutover"
    BY <1>7 DEF SaveState, NothingToImport, UpgradeInv
  <2>2. QED
    BY <2>1, LaterStep
<1>8. CASE RecordCutover
  <2>1. /\ Sound(work) /\ work.ver = 10 /\ UNCHANGED <<first, lost>>
        /\ pc' = "up" /\ disk' = work'
        /\ work' = IF work.cutover # {} THEN work ELSE [work EXCEPT !.cutover = {work.last}]
    BY <1>8 DEF RecordCutover, UpgradeInv
  <2>2. Sound(work')
    BY <1>1, <2>1, CutoverSound
  <2>3. work'.ver = 10
    BY <1>1, <2>1 DEF WellFormed, Fields
  <2>4. QED
    BY <2>1, <2>2, <2>3, LaterStep
<1>9. ASSUME NEW n \in DOMAIN IdOf, Search(n)
      PROVE  UpgradeInv'
  <2>1. /\ Sound(work) /\ work.ver = 10 /\ UNCHANGED <<first, lost, pc>> /\ pc = "up"
        /\ work' = Inserted(work, 1, Row(n, IdOf[n], TRUE)) /\ disk' = work'
    BY <1>9 DEF Search, UpgradeInv
  <2>2. Sound(work')
    <3>1. 1 \in Nat
      OBVIOUS
    <3>2. QED
      BY <1>1, <2>1, <3>1, InsertedSound
  <2>3. work'.ver = 10
    BY <1>1, <2>1 DEF Inserted, WellFormed, Fields
  <2>4. QED
    BY <2>1, <2>2, <2>3, LaterStep
<1>10. CASE Refuse \/ Crash \/ Stop
  <2>1. pc' = "down" /\ work' = disk /\ UNCHANGED <<disk, first, lost>>
    BY <1>10 DEF Refuse, Crash, Stop, GoesDown
  <2>2. Sound(disk)'
    BY <1>1, <2>1, SoundDisk
  <2>3. QED
    BY <1>1, <2>1, <2>2 DEF UpgradeInv
<1>11. CASE MissColumn
  BY <1>1, <1>11, MissStep DEF Executed, UpgradeInv
<1>12. QED
  BY <1>2, <1>3, <1>4, <1>5, <1>6, <1>7, <1>8, <1>9, <1>10, <1>11 DEF Next, Progress

(* Wherever a startup is cut off, the database it leaves is at a version   *)
(* whose promises it keeps, with every row and every right total there.    *)
(* Of the columns it lacks none but those whose ALTER failed, and no       *)
(* version is recorded without the columns its own statements read.        *)
THEOREM RestartSafe == Spec => []RestartIsSafe
<1>1. ASSUME UpgradeInv
      PROVE  RestartIsSafe
  <2>1. first \in FirstDbs /\ Sound(disk)
    BY <1>1 DEF UpgradeInv
  <2>2. DOMAIN first.hist = 1..first.last
    BY <2>1, FirstFacts DEF WellFormed
  <2>3. QED
    BY <2>1, <2>2 DEF Sound, RowsThere, RightTotals, RestartIsSafe
<1>2. UpgradeInv /\ CutoverInv /\ CutoverInv' /\ [Next]_vars => UpgradeInv'
  BY UpgradeNext
<1>3. QED
  BY <1>1, <1>2, UpgradeInit, CutoverInit, CutoverNext, PTL DEF Spec
-----------------------------------------------------------------------------
(* A sum of natural numbers over a finite set is one, although the fold    *)
(* that computes it is recursive: level by level of the subsets' sizes the *)
(* recursion has a solution, and every solution has natural values.        *)
Least(S) == CHOOSE x \in S : TRUE

Partial(g, f, S, k) ==
  g = [s \in {t \in SUBSET S : Cardinality(t) <= k} |->
         IF s = {} THEN 0 ELSE f[Least(s)] + g[s \ {Least(s)}]]

LEMMA SmallestNumber ==
  ASSUME NEW T, T \subseteq Nat, T # {}
  PROVE  \E x \in T : \A y \in T : x <= y
<1>1. PICK x \in T : \A y \in T : ~ (<<y, x>> \in OpToRel(<, Nat))
  BY NatLessThanWellFounded, WFMin
<1>2. ASSUME NEW y \in T PROVE x <= y
  <2>1. CASE y < x
    <3>1. <<y, x>> \in Nat \X Nat /\ <<y, x>>[1] = y /\ <<y, x>>[2] = x
      OBVIOUS
    <3>2. <<y, x>>[1] < <<y, x>>[2]
      BY <2>1, <3>1
    <3>3. <<y, x>> \in OpToRel(<, Nat)
      BY <3>1, <3>2, Zenon DEF OpToRel
    <3>4. QED
      BY <1>1, <3>3
  <2>2. QED
    BY <2>1
<1>3. QED
  BY <1>2

LEMMA WithoutOne ==
  ASSUME NEW s, IsFiniteSet(s), s # {}
  PROVE  /\ Least(s) \in s /\ IsFiniteSet(s \ {Least(s)})
         /\ Cardinality(s) \in Nat /\ Cardinality(s) # 0
         /\ Cardinality(s \ {Least(s)}) = Cardinality(s) - 1
<1>1. Least(s) \in s
  BY DEF Least
<1>2. QED
  BY <1>1, FS_RemoveElement, FS_EmptySet, FS_CardinalityType

LEMMA SumStep ==
  ASSUME NEW S, IsFiniteSet(S), NEW f, NEW k \in Nat, NEW g, Partial(g, f, S, k)
  PROVE  \E h : Partial(h, f, S, k + 1)
<1> DEFINE Level(n) == {t \in SUBSET S : Cardinality(t) <= n}
           h == [s \in Level(k + 1) |->
                   IF s \in Level(k) THEN g[s] ELSE f[Least(s)] + g[s \ {Least(s)}]]
           e == [s \in Level(k + 1) |->
                   IF s = {} THEN 0 ELSE f[Least(s)] + h[s \ {Least(s)}]]
<1>1. ASSUME NEW s \in SUBSET S PROVE IsFiniteSet(s) /\ Cardinality(s) \in Nat
  BY FS_Subset, FS_CardinalityType
<1>2. ASSUME NEW s \in Level(k) PROVE s \in Level(k + 1)
  BY <1>1
<1>3. ASSUME NEW s \in Level(k + 1), s # {}
      PROVE  s \ {Least(s)} \in Level(k)
  <2>1. IsFiniteSet(s)
    BY <1>1
  <2>2. Cardinality(s \ {Least(s)}) = Cardinality(s) - 1 /\ Cardinality(s) \in Nat
    BY <1>3, <2>1, WithoutOne
  <2>3. Cardinality(s) <= k + 1
    OBVIOUS
  <2>4. Cardinality(s \ {Least(s)}) <= k
    BY <2>2, <2>3
  <2>5. QED
    BY <2>4
<1>4. {} \in Level(k)
  BY FS_EmptySet
<1>5. \A s \in Level(k) : g[s] = IF s = {} THEN 0 ELSE f[Least(s)] + g[s \ {Least(s)}]
  BY Zenon DEF Partial
<1> HIDE DEF Level
<1>6. ASSUME NEW s \in Level(k + 1) PROVE h[s] = e[s]
  <2>1. CASE s = {}
    <3>1. h[s] = g[s] /\ g[s] = 0 /\ e[s] = 0
      BY <1>4, <1>5, <2>1
    <3>2. QED
      BY <3>1
  <2>2. CASE s # {}
    <3>1. s \ {Least(s)} \in Level(k) /\ s \ {Least(s)} \in Level(k + 1)
      BY <1>2, <1>3, <2>2
    <3>2. h[s \ {Least(s)}] = g[s \ {Least(s)}]
      BY <3>1
    <3>3. h[s] = f[Least(s)] + g[s \ {Least(s)}]
      BY <1>5, <2>2
    <3>4. e[s] = f[Least(s)] + h[s \ {Least(s)}]
      BY <2>2
    <3> HIDE DEF h, e
    <3>5. QED
      BY <3>2, <3>3, <3>4
  <2>3. QED
    BY <2>1, <2>2
<1>7. h = e
  <2>1. h = [s \in Level(k + 1) |-> h[s]] /\ e = [s \in Level(k + 1) |-> e[s]]
    OBVIOUS
  <2> HIDE DEF h, e
  <2>2. QED
    BY <1>6, <2>1, Zenon
<1>8. Partial(h, f, S, k + 1)
  BY <1>7, Zenon DEF Partial, Level
<1>9. QED
  BY <1>8, Zenon

LEMMA SumDefined ==
  ASSUME NEW S, IsFiniteSet(S), NEW f
  PROVE  \E g : Partial(g, f, S, Cardinality(S))
<1> DEFINE T == {k \in Nat : ~ \E g : Partial(g, f, S, k)}
<1>1. Cardinality(S) \in Nat
  BY FS_CardinalityType
<1>2. SUFFICES ASSUME T # {} PROVE FALSE
  BY <1>1
<1>3. T \subseteq Nat
  OBVIOUS
<1>4. PICK k \in T : \A l \in T : k <= l
  <2> HIDE DEF T
  <2> QED
    BY <1>2, <1>3, SmallestNumber
<1>5. k \in Nat /\ ~ \E g : Partial(g, f, S, k)
  OBVIOUS
<1>6. CASE k = 0
  <2> DEFINE L == {t \in SUBSET S : Cardinality(t) <= 0}
             g == [s \in L |-> 0]
             e == [s \in L |-> IF s = {} THEN 0 ELSE f[Least(s)] + g[s \ {Least(s)}]]
  <2>1. ASSUME NEW s \in L PROVE s = {}
    <3>1. IsFiniteSet(s) /\ Cardinality(s) \in Nat
      BY FS_Subset, FS_CardinalityType
    <3>2. Cardinality(s) = 0
      BY <3>1
    <3>3. QED
      BY <3>1, <3>2, FS_EmptySet
  <2> HIDE DEF L
  <2>2. g = e
    BY <2>1
  <2>3. Partial(g, f, S, 0)
    BY <2>2, Zenon DEF Partial, L
  <2>4. QED
    BY <1>5, <1>6, <2>3, Zenon
<1>7. CASE k # 0
  <2>1. k - 1 \in Nat /\ ~(k <= k - 1) /\ (k - 1) + 1 = k
    BY <1>5, <1>7
  <2>2. PICK g : Partial(g, f, S, k - 1)
    BY <1>4, <2>1
  <2>3. \E h : Partial(h, f, S, (k - 1) + 1)
    BY <2>1, <2>2, SumStep
  <2>4. QED
    BY <1>5, <2>1, <2>3
<1>8. QED
  BY <1>6, <1>7

LEMMA SumNatural ==
  ASSUME NEW S, IsFiniteSet(S), NEW f, DOMAIN f = S, \A x \in S : f[x] \in Nat
  PROVE  SumFunction(f) \in Nat
<1> DEFINE N == Cardinality(S)
           Solves(g) ==
             g = [s \in SUBSET S |-> IF s = {} THEN 0
                                     ELSE f[Least(s)] + g[s \ {Least(s)}]]
           g == CHOOSE h : Solves(h)
<1>1. {t \in SUBSET S : Cardinality(t) <= N} = SUBSET S
  BY FS_Subset
<1>2. \E h : Solves(h)
  <2>1. PICK h : Partial(h, f, S, N)
    BY SumDefined
  <2>2. Solves(h)
    BY <1>1, <2>1 DEF Partial
  <2>3. QED
    BY <2>2
<1>3. Solves(g)
  BY <1>2
<1>4. SumFunction(f) = g[S]
  BY DEF SumFunction, SumFunctionOnSet, FoldFunctionOnSet, MapThenFoldSet, Least
<1> HIDE DEF g, N
<1>5. \A s \in SUBSET S : g[s] = IF s = {} THEN 0 ELSE f[Least(s)] + g[s \ {Least(s)}]
  BY <1>3, Zenon
<1> DEFINE Bad == {s \in SUBSET S : g[s] \notin Nat}
           T == {Cardinality(s) : s \in Bad}
<1>6. SUFFICES ASSUME Bad # {} PROVE FALSE
  BY <1>4
<1>7. \A s \in SUBSET S : IsFiniteSet(s) /\ Cardinality(s) \in Nat
  BY FS_Subset, FS_CardinalityType
<1>8. T \subseteq Nat /\ T # {}
  BY <1>6, <1>7
<1>9. PICK k \in T : \A l \in T : k <= l
  <2> HIDE DEF T
  <2> QED
    BY <1>8, SmallestNumber
<1>10. PICK s \in Bad : k = Cardinality(s)
  OBVIOUS
<1>11. s \in SUBSET S /\ g[s] \notin Nat /\ IsFiniteSet(s) /\ k \in Nat
  BY <1>7, <1>10
<1>12. s # {} /\ g[s] = f[Least(s)] + g[s \ {Least(s)}]
  BY <1>5, <1>11
<1>13. /\ Least(s) \in s /\ Cardinality(s \ {Least(s)}) = k - 1
  BY <1>10, <1>11, <1>12, WithoutOne
<1>14. s \ {Least(s)} \in SUBSET S /\ s \ {Least(s)} \notin Bad
  <2>1. ~(k <= k - 1)
    BY <1>11
  <2>2. s \ {Least(s)} \in SUBSET S
    BY <1>11
  <2>3. QED
    BY <1>9, <1>13, <2>1, <2>2
<1>15. f[Least(s)] \in Nat /\ g[s \ {Least(s)}] \in Nat
  BY <1>11, <1>13, <1>14
<1>16. QED
  BY <1>11, <1>12, <1>15
-----------------------------------------------------------------------------
(* Databases keep their shape.                                             *)
HistoryRows == [name : Names, sid : Ids, outcome : Outcomes, n : Nat, new : BOOLEAN]
TotalRows   == [n : Nat, sid : Ids]

LEMMA FieldTyped ==
  ASSUME NEW d, IsDatabase(d)
  PROVE  /\ \A v \in 0..Target : IsDatabase([d EXCEPT !.ver = v])
         /\ \A c \in Columns : IsDatabase([d EXCEPT !.has = @ \cup {c}])
         /\ \A c \in SUBSET Nat : IsDatabase([d EXCEPT !.cutover = c])
         /\ \A t : IsTable(t) => IsDatabase([d EXCEPT !.stats = t])
         /\ \A t, k : IsTable(t) => IsDatabase([d EXCEPT !.copy[k] = t])
         /\ \A h \in [1..d.last -> HistoryRows] : IsDatabase([d EXCEPT !.hist = h])
<1>1. ASSUME NEW v \in 0..Target PROVE IsDatabase([d EXCEPT !.ver = v])
  BY DEF IsDatabase, Fields
<1>2. ASSUME NEW c \in Columns PROVE IsDatabase([d EXCEPT !.has = @ \cup {c}])
  BY DEF IsDatabase, Fields
<1>3. ASSUME NEW c \in SUBSET Nat PROVE IsDatabase([d EXCEPT !.cutover = c])
  BY DEF IsDatabase, Fields
<1>4. ASSUME NEW t, IsTable(t) PROVE IsDatabase([d EXCEPT !.stats = t])
  BY <1>4 DEF IsDatabase, Fields
<1>5. ASSUME NEW t, NEW k, IsTable(t) PROVE IsDatabase([d EXCEPT !.copy[k] = t])
  <2> DEFINE c == [d.copy EXCEPT ![k] = t]
             e == [d EXCEPT !.copy = c]
  <2>1. DOMAIN c = {7, Target} /\ IsTable(c[7]) /\ IsTable(c[Target])
    BY <1>5 DEF IsDatabase
  <2> HIDE DEF c
  <2>2. IsDatabase(e)
    BY <2>1 DEF IsDatabase, Fields
  <2>3. e = [d EXCEPT !.copy[k] = t]
    BY DEF c
  <2>4. QED
    BY <2>2, <2>3, Zenon
<1>6. ASSUME NEW h \in [1..d.last -> HistoryRows] PROVE IsDatabase([d EXCEPT !.hist = h])
  BY DEF IsDatabase, Fields, HistoryRows
<1>7. QED
  BY <1>1, <1>2, <1>3, <1>4, <1>5, <1>6, Zenon

LEMMA NoTableTyped == IsTable(NoTable)
BY DEF IsTable, NoTable

LEMMA EmptyTyped ==
  ASSUME NEW k \in {"app", "name", "id"}
  PROVE  IsTable(Table(k)) /\ Table(k).key = k /\ Table(k).rows = <<>>
BY DEF IsTable, Table

(* The rows of a table that is there may become any rows of totals.        *)
LEMMA RowsTyped ==
  ASSUME NEW t, IsTable(t), t.key # "none", NEW D, D \subseteq Names,
         NEW r \in [D -> TotalRows]
  PROVE  IsTable([t EXCEPT !.rows = r])
BY DEF IsTable, TotalRows

LEMMA OrIgnoredTyped ==
  ASSUME NEW A, NEW B, NEW r \in [A -> TotalRows], NEW m \in [B -> TotalRows]
  PROVE  OrIgnored(r, m) \in [A \cup B -> TotalRows]
<1>1. DOMAIN r = A /\ DOMAIN m = B
  OBVIOUS
<1>2. ASSUME NEW n \in A \cup B
      PROVE  (IF n \in A THEN r[n] ELSE m[n]) \in TotalRows
  OBVIOUS
<1>3. QED
  BY <1>1, <1>2 DEF OrIgnored

LEMMA TableRows ==
  ASSUME NEW t, IsTable(t)
  PROVE  /\ DOMAIN t.rows \subseteq Names /\ t.rows \in [DOMAIN t.rows -> TotalRows]
         /\ t.key = "none" => t = NoTable
BY DEF IsTable, TotalRows

LEMMA HistoryTyped ==
  ASSUME NEW d, IsDatabase(d)
  PROVE  /\ d.last \in Nat /\ DOMAIN d.hist = 1..d.last
         /\ d.hist \in [1..d.last -> HistoryRows]
         /\ IsTable(d.stats) /\ IsTable(d.copy[7]) /\ IsTable(d.copy[Target])
         /\ DOMAIN d.copy = {7, Target} /\ d.cutover \subseteq Nat
         /\ d.ver \in 0..Target
BY DEF IsDatabase, HistoryRows

LEMMA RegradedTyped ==
  ASSUME NEW d, IsDatabase(d), NEW was, NEW o \in Outcomes
  PROVE  IsDatabase(Regraded(d, was, o))
<1> DEFINE h == [i \in DOMAIN d.hist |->
      IF d.hist[i].outcome = was THEN [d.hist[i] EXCEPT !.outcome = o] ELSE d.hist[i]]
<1>1. /\ DOMAIN d.hist = 1..d.last /\ \A i \in 1..d.last : d.hist[i] \in HistoryRows
  BY HistoryTyped
<1>2. \A r \in HistoryRows : [r EXCEPT !.outcome = o] \in HistoryRows
  BY DEF HistoryRows
<1>3. h \in [1..d.last -> HistoryRows]
  BY <1>1, <1>2
<1>4. Regraded(d, was, o) = [d EXCEPT !.hist = h]
  BY DEF Regraded
<1> HIDE DEF h
<1>5. QED
  BY <1>3, <1>4, FieldTyped

LEMMA InsertedTyped ==
  ASSUME NEW d, IsDatabase(d), NEW k \in Nat, NEW row \in HistoryRows
  PROVE  IsDatabase(Inserted(d, k, row))
<1> DEFINE e == Inserted(d, k, row)
<1>1. /\ DOMAIN e = Fields /\ e.ver = d.ver /\ e.has = d.has /\ e.stats = d.stats
      /\ e.copy = d.copy /\ e.cutover = d.cutover /\ e.last = d.last + k
      /\ e.hist = [i \in 1..(d.last + k) |-> IF i <= d.last THEN d.hist[i] ELSE row]
  BY DEF Inserted, IsDatabase, Fields
<1> HIDE DEF e
<1>2. d.last \in Nat /\ \A i \in 1..d.last : d.hist[i] \in HistoryRows
  BY HistoryTyped
<1>3. e.last \in Nat
  BY <1>1, <1>2
<1>4. ASSUME NEW i \in 1..e.last
      PROVE  (IF i <= d.last THEN d.hist[i] ELSE row) \in HistoryRows
  <2>1. i <= d.last => i \in 1..d.last
    BY <1>2, <1>3
  <2>2. QED
    BY <1>2, <2>1
<1>5. e.hist \in [1..e.last -> HistoryRows]
  BY <1>1, <1>4
<1>6. IsDatabase(e)
  BY <1>1, <1>3, <1>5 DEF IsDatabase, HistoryRows
<1>7. QED
  BY <1>6 DEF e

LEMMA LinkedTyped ==
  ASSUME NEW n
  PROVE  /\ \A r \in HistoryRows : Linked(r, n) \in HistoryRows
         /\ \A r \in TotalRows : Linked(r, n) \in TotalRows
<1>1. n \in DOMAIN IdOf => IdOf[n] \in Ids
  BY DEF Ids, Range
<1>2. QED
  BY <1>1 DEF Linked, HistoryRows, TotalRows

LEMMA RecountedTyped ==
  ASSUME NEW d, IsDatabase(d), NEW n
  PROVE  Recounted(d, n) \in Nat
<1> DEFINE S == Settled(d, n)
           f == [i \in S |-> d.hist[i].n]
<1>1. S \subseteq 1..d.last /\ d.last \in Nat
  BY HistoryTyped DEF Settled
<1>2. IsFiniteSet(1..d.last)
  BY <1>1, FS_Interval, 1 \in Int, d.last \in Int
<1>3. IsFiniteSet(S)
  BY <1>1, <1>2, FS_Subset
<1>4. \A i \in S : d.hist[i].n \in Nat
  BY <1>1, HistoryTyped DEF HistoryRows
<1>5. DOMAIN f = S /\ \A i \in S : f[i] \in Nat
  BY <1>4
<1>6. Recounted(d, n) = SumFunction(f)
  BY DEF Recounted
<1> HIDE DEF f, S
<1>7. QED
  BY <1>3, <1>5, <1>6, SumNatural
LEMMA StatementTyped ==
  ASSUME IsDatabase(work), UpgradeInv, CutoverInv, Statement, at \in 0..Target
  PROVE  IsDatabase(work')
<1>1. WellFormed(work)
  BY DEF CutoverInv, Consistent
<1>2. ASSUME NEW s, Executes(s)
      PROVE  /\ Position(at, Len(todo), s) /\ Len(todo) \in Nat
             /\ Achieved /\ IF Rebuilding THEN Rebuilt ELSE Sound(work)
  BY <1>1, <1>2, ReadyToExecute DEF Ready
<1>3. /\ IsTable(work.stats) /\ IsTable(work.copy[7]) /\ IsTable(work.copy[10])
      /\ DOMAIN work.copy = {7, 10} /\ work.last \in Nat
      /\ work.hist \in [1..work.last -> HistoryRows] /\ DOMAIN work.hist = 1..work.last
  BY HistoryTyped, TargetIsTen
<1>4. CASE AddColumn
  BY <1>4, FieldTyped DEF AddColumn, Ddl
<1>5. CASE CreateStats
  <2>1. IsTable(Table("app"))
    BY EmptyTyped
  <2>2. work' = IF work.stats # NoTable THEN work ELSE [work EXCEPT !.stats = Table("app")]
    BY <1>5 DEF CreateStats, Ddl
  <2>3. QED
    BY <2>1, <2>2, FieldTyped
<1>6. CASE SeedStats
  <2> DEFINE zero == [n \in {"Default"} |-> [n |-> 0, sid |-> ""]]
             r == OrIgnored(work.stats.rows, zero)
             t == [work.stats EXCEPT !.rows = r]
  <2>1. Executes("seed_stats") /\ work' = [work EXCEPT !.stats = t]
    BY <1>6 DEF SeedStats, Dml
  <2>2. work.stats # NoTable
    <3>1. at = 3 /\ Len(todo) = 4
      BY <1>2, <2>1 DEF Position
    <3>2. Len(todo) <= 4
      BY <3>1
    <3>3. QED
      BY <1>2, <2>1, <3>1, <3>2 DEF Achieved
  <2>3. "" \in Ids /\ "Default" \in Names
    BY UpgradeAssumption DEF Ids
  <2>4. zero \in [{"Default"} -> TotalRows]
    BY <2>3 DEF TotalRows
  <2>5. /\ DOMAIN work.stats.rows \subseteq Names /\ work.stats.key # "none"
        /\ work.stats.rows \in [DOMAIN work.stats.rows -> TotalRows]
    BY <1>3, <2>2, TableRows
  <2> HIDE DEF zero
  <2>6. r \in [DOMAIN work.stats.rows \cup {"Default"} -> TotalRows]
    BY <2>4, <2>5, OrIgnoredTyped
  <2>7. DOMAIN work.stats.rows \cup {"Default"} \subseteq Names
    BY <2>3, <2>5
  <2> HIDE DEF r
  <2>8. IsTable(t)
    BY <1>3, <2>5, <2>6, <2>7, RowsTyped
  <2> HIDE DEF t
  <2>9. QED
    BY <2>1, <2>8, FieldTyped
<1>7. CASE Backfill
  <2>1. "unresolved" \in Outcomes
    BY DEF Outcomes
  <2>2. QED
    BY <1>7, <2>1, RegradedTyped DEF Backfill, Dml
<1>8. CASE CreateCopy
  <2>1. work' = IF work.copy[at] # NoTable THEN work
                ELSE [work EXCEPT !.copy[at] = Table(IF at = Target THEN "id" ELSE "name")]
    BY <1>8 DEF CreateCopy, Ddl
  <2>2. IsTable(Table("id")) /\ IsTable(Table("name"))
    BY EmptyTyped
  <2>3. IsTable(Table(IF at = Target THEN "id" ELSE "name"))
    BY <2>2
  <2>4. QED
    BY <2>1, <2>3, FieldTyped
<1>9. CASE FillCopy
  <2> DEFINE r == OrIgnored(work.copy[at].rows, work.stats.rows)
             t == [work.copy[at] EXCEPT !.rows = r]
  <2>1. Executes("fill_copy") /\ work' = [work EXCEPT !.copy[at] = t]
    BY <1>9 DEF FillCopy, Dml
  <2>2. at \in {7, 10} /\ Len(todo) = 6
    BY <1>2, <2>1 DEF Position
  <2>3. Rebuilt
    BY <1>2, <2>1, <2>2 DEF Rebuilding
  <2>4. work.copy[at].key # "none"
    BY <2>3 DEF Rebuilt, NewKey
  <2>5. IsTable(work.copy[at])
    BY <1>3, <2>2
  <2>6. /\ DOMAIN work.stats.rows \subseteq Names
        /\ work.stats.rows \in [DOMAIN work.stats.rows -> TotalRows]
        /\ DOMAIN work.copy[at].rows \subseteq Names
        /\ work.copy[at].rows \in [DOMAIN work.copy[at].rows -> TotalRows]
    BY <1>3, <2>5, TableRows
  <2>7. r \in [DOMAIN work.copy[at].rows \cup DOMAIN work.stats.rows -> TotalRows]
    BY <2>6, OrIgnoredTyped
  <2>8. DOMAIN work.copy[at].rows \cup DOMAIN work.stats.rows \subseteq Names
    BY <2>6
  <2> HIDE DEF r
  <2>9. IsTable(t)
    BY <2>4, <2>5, <2>7, <2>8, RowsTyped
  <2> HIDE DEF t
  <2>10. QED
    BY <2>1, <2>9, FieldTyped
<1>10. CASE DropStats
  BY <1>10, NoTableTyped, FieldTyped DEF DropStats, Ddl
<1>11. CASE RenameCopy
  <2> DEFINE d == [work EXCEPT !.stats = work.copy[at]]
  <2>1. Executes("rename_copy") /\ work' = [d EXCEPT !.copy[at] = NoTable]
    <3>1. Executes("rename_copy")
          /\ work' = [work EXCEPT !.stats = work.copy[at], !.copy[at] = NoTable]
      BY <1>11 DEF RenameCopy, Ddl
    <3>2. d.copy = work.copy
      BY <1>1 DEF WellFormed, Fields
    <3>3. QED
      BY <3>1, <3>2
  <2>2. at \in {7, 10}
    BY <1>2, <2>1 DEF Position
  <2>3. IsTable(work.copy[at])
    BY <1>3, <2>2
  <2>4. IsDatabase(d)
    BY <2>3, FieldTyped
  <2> HIDE DEF d
  <2>5. QED
    BY <2>1, <2>4, NoTableTyped, FieldTyped
<1>12. CASE ExpirePartials
  <2>1. "partial_expired" \in Outcomes
    BY DEF Outcomes
  <2>2. QED
    BY <1>12, <2>1, RegradedTyped DEF ExpirePartials, Dml
<1>13. CASE Recount
  <2> DEFINE D == DOMAIN work.stats.rows
             r == [n \in D |-> [work.stats.rows[n] EXCEPT !.n =
                     IF Settled(work, n) = {} THEN work.stats.rows[n].n
                                              ELSE Recounted(work, n)]]
             t == [work.stats EXCEPT !.rows = r]
  <2>1. Executes("recount") /\ work' = [work EXCEPT !.stats = t]
    BY <1>13 DEF Recount, Dml
  <2>2. D \subseteq Names /\ work.stats.rows \in [D -> TotalRows]
    BY <1>3, TableRows
  <2>3. \A n \in D : Recounted(work, n) \in Nat
    BY RecountedTyped
  <2>4. \A x \in TotalRows : \A k \in Nat : [x EXCEPT !.n = k] \in TotalRows /\ x.n \in Nat
    BY DEF TotalRows
  <2>5. \A n \in D : work.stats.rows[n] \in TotalRows
    BY <2>2
  <2>6. r \in [D -> TotalRows]
    BY <2>3, <2>4, <2>5
  <2>7. work.stats # NoTable
    <3>1. at = 8 /\ Sound(work) /\ work.ver = 7
      <4>1. at = 8 /\ Len(todo) = 4
        BY <1>2, <2>1 DEF Position
      <4>2. ~Rebuilding /\ Migrating
        BY <2>1, <4>1 DEF Rebuilding, UpgradeInv, Executes
      <4>3. QED
        BY <1>2, <2>1, <4>1, <4>2 DEF Migrating
    <3>2. first.ver \in 0..8
      BY <3>1, FirstFacts DEF Sound, UpgradeInv
    <3>3. QED
      BY <3>1, <3>2 DEF Sound, Tables
  <2>8. work.stats.key # "none"
    BY <1>3, <2>7, TableRows
  <2> HIDE DEF r, D
  <2>9. IsTable(t)
    BY <1>3, <2>2, <2>6, <2>8, RowsTyped
  <2> HIDE DEF t
  <2>10. QED
    BY <2>1, <2>9, FieldTyped
<1>14. CASE CheckLeftover
  BY <1>14, NoTableTyped, FieldTyped DEF CheckLeftover
<1>15. CASE Associate
  <2> DEFINE D == DOMAIN work.stats.rows
             h == [i \in DOMAIN work.hist |-> Linked(work.hist[i], work.hist[i].name)]
             r == [n \in D |-> Linked(work.stats.rows[n], n)]
             t == [work.stats EXCEPT !.rows = r]
             d == [work EXCEPT !.hist = h]
  <2>1. Executes("associate")
        /\ work' = [work EXCEPT !.hist = h, !.stats.rows = r]
    BY <1>15 DEF Associate, Dml
  <2>2. work' = [d EXCEPT !.stats = t]
    <3>1. d.stats = work.stats
      BY <1>1 DEF WellFormed, Fields
    <3>2. QED
      BY <2>1, <3>1
  <2>3. h \in [1..work.last -> HistoryRows]
    <3>1. \A i \in 1..work.last : work.hist[i] \in HistoryRows
      BY <1>3
    <3>2. QED
      BY <1>3, <3>1, LinkedTyped
  <2>4. D \subseteq Names /\ work.stats.rows \in [D -> TotalRows]
    BY <1>3, TableRows
  <2>5. r \in [D -> TotalRows]
    BY <2>4, LinkedTyped
  <2>6. work.stats.key # "none"
    <3>1. at = 10 /\ Len(todo) = 3
      BY <1>2, <2>1 DEF Position
    <3>2. work.stats.key = "id"
      BY <1>2, <2>1, <3>1 DEF Achieved
    <3>3. QED
      BY <3>2
  <2> HIDE DEF h, r, D
  <2>7. IsTable(t)
    BY <1>3, <2>4, <2>5, <2>6, RowsTyped
  <2>8. IsDatabase(d)
    BY <2>3, FieldTyped
  <2> HIDE DEF t, d
  <2>9. QED
    BY <2>2, <2>7, <2>8, FieldTyped
<1>16. CASE Begin
  BY <1>16 DEF Begin
<1>17. CASE RecordVersion
  BY <1>17, FieldTyped DEF RecordVersion, Dml
<1>18. CASE Commit
  BY <1>18 DEF Commit
<1>19. CASE IndexInstance
  BY <1>19 DEF IndexInstance, Ddl
<1>20. QED
  BY <1>4, <1>5, <1>6, <1>7, <1>8, <1>9, <1>10, <1>11, <1>12, <1>13, <1>14, <1>15,
     <1>16, <1>17, <1>18, <1>19 DEF Statement

(* A migration ends with the commit of its last statement.                 *)
Finished == pc = "migrate" /\ todo = <<>> => ~tx

TypeInv == TypeOK /\ Finished

LEMMA OneAtMost ==
  /\ IsFiniteSet({}) /\ Cardinality({}) <= 1
  /\ \A x : Cardinality({x}) <= 1
BY FS_EmptySet, FS_Singleton

LEMMA TypeInit == Init => TypeInv
<1> SUFFICES ASSUME Init PROVE TypeInv
  OBVIOUS
<1>1. IsDatabase(first) /\ first.cutover = {} /\ file \in Nat /\ MaxFaults \in Nat
  BY FirstDbsAssumption, UpgradeAssumption DEF Init
<1>2. 0 \in 0..file /\ 0 \in 0..Target /\ 0 \in 0..MaxFaults
  BY <1>1, TargetIsTen
<1>3. QED
  BY <1>1, <1>2, OneAtMost DEF Init, TypeInv, TypeOK, Finished

(* A statement that is not the commit leaves another.                      *)
LEMMA NotTheLast ==
  ASSUME OnPlan, NEW s, Position(at, Len(todo), s), Len(todo) \in Nat,
         s # "commit", s \in Words, todo' = Tail(todo), UNCHANGED at, todo # <<>>
  PROVE  todo' # <<>>
<1>1. Len(todo) # 1
  <2> DEFINE l == Len(todo)
  <2>1. Position(at, l, s) /\ l \in Nat
    OBVIOUS
  <2> HIDE DEF l
  <2>2. l # 1
    BY <2>1 DEF Position, Words
  <2>3. QED
    BY <2>2 DEF l
<1>2. Len(todo') = Len(todo) - 1
  BY Advance
<1>3. Len(todo') # 0
  BY <1>1, <1>2
<1>4. QED
  BY <1>3

LEMMA LastCommits ==
  ASSUME UpgradeInv, WellFormed(work), Statement, tx \in BOOLEAN
  PROVE  /\ tx' \in BOOLEAN
         /\ ~tx' /\ (~tx => work = disk) => work' = disk'
         /\ todo' = <<>> => ~tx'
<1>1. ASSUME NEW s, Executes(s)
      PROVE  /\ Position(at, Len(todo), s) /\ OnPlan /\ todo # <<>>
             /\ Len(todo) \in Nat /\ UNCHANGED at
  BY <1>1, ReadyToExecute DEF Ready
<1>2. ASSUME NEW s, s \in Words, s # "commit", Executes(s), todo' = Tail(todo)
      PROVE  todo' # <<>>
  BY <1>1, <1>2, NotTheLast
<1>3. ASSUME NEW s \in Words, s # "commit", NEW d, Ddl(s, d)
      PROVE  /\ tx' = tx /\ todo' # <<>>
             /\ ~tx => work' = disk'
  BY <1>2, <1>3 DEF Ddl
<1>4. ASSUME NEW s \in Words, s # "commit", NEW d, Dml(s, d)
      PROVE  tx' = TRUE /\ todo' # <<>>
  BY <1>2, <1>4 DEF Dml
<1>5. CASE AddColumn
  <2>1. PICK c \in Columns : Ddl(c, [work EXCEPT !.has = @ \cup {c}])
    BY <1>5 DEF AddColumn
  <2>2. c \in Words /\ c # "commit"
    BY DEF Words, Columns
  <2>3. QED
    BY <1>3, <2>1, <2>2
<1>6. CASE IndexInstance \/ CreateStats \/ CreateCopy \/ DropStats \/ RenameCopy
  <2>1. PICK s \in {"index_instance", "create_stats", "create_copy", "drop_stats",
                    "rename_copy"} : \E d : Ddl(s, d)
    BY <1>6 DEF IndexInstance, CreateStats, CreateCopy, DropStats, RenameCopy
  <2>2. s \in Words /\ s # "commit"
    BY DEF Words
  <2>3. QED
    BY <1>3, <2>1, <2>2
<1>7. CASE \/ SeedStats \/ Backfill \/ FillCopy \/ ExpirePartials \/ Recount
           \/ Associate \/ RecordVersion
  <2>1. PICK s \in {"seed_stats", "backfill", "fill_copy", "expire_partials",
                    "recount", "associate", "version"} : \E d : Dml(s, d)
    BY <1>7 DEF SeedStats, Backfill, FillCopy, ExpirePartials, Recount, Associate,
                RecordVersion
  <2>2. s \in Words /\ s # "commit"
    BY DEF Words
  <2>3. QED
    BY <1>4, <2>1, <2>2
<1>8. CASE CheckLeftover
  <2>1. /\ Executes("check_leftover") /\ tx' = tx /\ (~tx => disk' = work')
        /\ todo' = IF work.stats.key = "id"
                   THEN SubSeq(todo, 2 + Len(Rebuild), Len(todo)) ELSE Tail(todo)
    BY <1>8 DEF CheckLeftover
  <2>2. at = 10 /\ Len(todo) = 8 /\ OnPlan /\ UNCHANGED at
    BY <1>1, <2>1 DEF Position
  <2>3. CASE work.stats.key = "id"
    <3>1. Len(todo') = 3
      BY <2>1, <2>2, <2>3, Skip
    <3>2. todo' # <<>>
      BY <3>1
    <3>3. QED
      BY <2>1, <3>2, Zenon
  <2>4. CASE work.stats.key # "id"
    <3>1. todo' = Tail(todo) /\ "check_leftover" \in Words
      BY <2>1, <2>4 DEF Words
    <3>2. todo' # <<>>
      BY <1>2, <2>1, <3>1
    <3>3. QED
      BY <2>1, <3>2
  <2>5. QED
    BY <2>3, <2>4
<1>9. CASE Begin
  <2>1. Executes("begin") /\ todo' = Tail(todo) /\ tx' = TRUE /\ "begin" \in Words
    BY <1>9 DEF Begin, Words
  <2>2. QED
    BY <1>2, <2>1
<1>10. CASE Commit
  BY <1>10 DEF Commit
<1>11. QED
  BY <1>5, <1>6, <1>7, <1>8, <1>9, <1>10 DEF Statement

LEMMA TypeNext ==
  ASSUME TypeInv, UpgradeInv, CutoverInv, [Next]_vars
  PROVE  TypeInv'
<1>1. /\ IsDatabase(disk) /\ IsDatabase(work) /\ Cardinality(disk.cutover) <= 1
      /\ tx \in BOOLEAN /\ (~tx => work = disk) /\ file \in Nat /\ log \in 0..file
      /\ pc \in {"down", "migrate", "import", "save", "cutover", "up"}
      /\ (tx => pc = "migrate") /\ at \in 0..Target /\ faults \in 0..MaxFaults
      /\ lost \subseteq Suppressed /\ Finished
  BY DEF TypeInv, TypeOK
<1>2. WellFormed(work) /\ Consistent /\ work.cutover = disk.cutover
  BY DEF CutoverInv, Consistent, Alike
<1>3. Target = 10 /\ MaxFaults \in Nat /\ log \in Nat
  <2>1. log \in Nat
    BY <1>1
  <2>2. QED
    BY <2>1, TargetIsTen, UpgradeAssumption, Zenon
<1>4. CASE UNCHANGED vars
  BY <1>1, <1>4 DEF vars, TypeInv, TypeOK, Finished
<1>5. CASE Start
  <2>1. /\ pc' = "migrate" /\ log' = file /\ at' = disk.ver /\ ~tx
        /\ UNCHANGED <<disk, work, tx, file, lost, faults>>
    BY <1>1, <1>5 DEF Start
  <2>2. disk.ver \in 0..Target /\ file \in 0..file
    BY <1>1, HistoryTyped
  <2>3. QED
    BY <1>1, <2>1, <2>2 DEF TypeInv, TypeOK, Finished
<1>6. CASE NextVersion
  <2>1. /\ pc = "migrate" /\ ~tx /\ UNCHANGED <<disk, work, tx, file, log, lost, faults>>
        /\ at' \in 0..Target /\ pc' \in {"migrate", "import"}
    BY <1>1, <1>3, <1>6 DEF NextVersion, Finished
  <2>2. QED
    BY <1>1, <2>1 DEF TypeInv, TypeOK, Finished
<1>7. CASE Statement
  <2>1. IsDatabase(work')
    BY <1>1, <1>7, StatementTyped
  <2>2. /\ disk' \in {disk, work'} /\ pc = "migrate" /\ UNCHANGED <<pc, file, log>>
        /\ Alike(work', work)
    BY <1>2, <1>7, StatementHarmless DEF Harmless
  <2>3. UNCHANGED <<at, lost, faults>>
    BY <1>7 DEF Statement, AddColumn, IndexInstance, CreateStats, SeedStats, Backfill, CreateCopy,
      FillCopy, DropStats, RenameCopy, ExpirePartials, Recount, CheckLeftover,
      Associate, Begin, RecordVersion, Commit, Ddl, Dml, Executes
  <2>4. IsDatabase(disk') /\ Cardinality(disk'.cutover) <= 1
    BY <1>1, <1>2, <2>1, <2>2 DEF Alike
  <2>5. /\ tx' \in BOOLEAN /\ (~tx' => work' = disk') /\ (todo' = <<>> => ~tx')
    BY <1>1, <1>2, <1>7, LastCommits
  <2>6. QED
    BY <1>1, <2>1, <2>2, <2>3, <2>4, <2>5 DEF TypeInv, TypeOK, Finished
<1>8. CASE Import
  <2> DEFINE row == Row("Default", "", FALSE)
  <2>1. /\ work' = Inserted(work, log, row) /\ disk' = work' /\ log' = 0 /\ pc' = "save"
        /\ ~tx /\ UNCHANGED <<tx, file, at, lost, faults>>
    BY <1>1, <1>8 DEF Import
  <2>2. row \in HistoryRows
    BY UpgradeAssumption DEF Row, HistoryRows, Ids, Outcomes
  <2>3. work'.cutover = work.cutover
    BY <1>2, <2>1 DEF Inserted, WellFormed, Fields
  <2> HIDE DEF row
  <2>4. IsDatabase(work')
    BY <1>1, <1>3, <2>1, <2>2, InsertedTyped
  <2>5. 0 \in 0..file
    BY <1>1
  <2>6. QED
    BY <1>1, <1>2, <2>1, <2>3, <2>4, <2>5 DEF TypeInv, TypeOK, Finished
<1>9. CASE SaveState
  <2>1. /\ file' = log /\ pc' = "cutover" /\ ~tx
        /\ UNCHANGED <<disk, work, tx, log, at, lost, faults>>
    BY <1>1, <1>9 DEF SaveState
  <2>2. log \in 0..log
    BY <1>3
  <2>3. QED
    BY <1>1, <1>3, <2>1, <2>2 DEF TypeInv, TypeOK, Finished
<1>10. CASE NothingToImport
  <2>1. pc' = "cutover" /\ ~tx /\ UNCHANGED <<disk, work, tx, file, log, at, lost, faults>>
    BY <1>1, <1>10 DEF NothingToImport
  <2>2. QED
    BY <1>1, <2>1 DEF TypeInv, TypeOK, Finished
<1>11. CASE RecordCutover
  <2>1. /\ work' = IF work.cutover # {} THEN work
                   ELSE [work EXCEPT !.cutover = {work.last}]
        /\ disk' = work' /\ pc' = "up" /\ ~tx
        /\ UNCHANGED <<tx, file, log, at, lost, faults>>
    BY <1>1, <1>11 DEF RecordCutover
  <2>2. {work.last} \in SUBSET Nat
    BY <1>1, HistoryTyped
  <2>3. IsDatabase(work')
    BY <1>1, <2>1, <2>2, FieldTyped
  <2>4. Cardinality(work'.cutover) <= 1
    <3>1. work.cutover = {} => work'.cutover = {work.last}
      BY <1>2, <2>1 DEF WellFormed, Fields
    <3>2. QED
      BY <1>1, <1>2, <2>1, <3>1, OneAtMost
  <2>5. QED
    BY <1>1, <2>1, <2>3, <2>4 DEF TypeInv, TypeOK, Finished
<1>12. ASSUME NEW n \in DOMAIN IdOf, Search(n)
       PROVE  TypeInv'
  <2> DEFINE row == Row(n, IdOf[n], TRUE)
  <2>1. /\ work' = Inserted(work, 1, row) /\ disk' = work' /\ pc = "up" /\ ~tx
        /\ UNCHANGED <<tx, file, log, pc, at, lost, faults>>
    BY <1>1, <1>12 DEF Search
  <2>2. row \in HistoryRows
    BY UpgradeAssumption DEF Row, HistoryRows, Ids, Outcomes, Range
  <2>3. work'.cutover = work.cutover
    BY <1>2, <2>1 DEF Inserted, WellFormed, Fields
  <2> HIDE DEF row
  <2>4. IsDatabase(work')
    <3>1. 1 \in Nat
      OBVIOUS
    <3>2. QED
      BY <1>1, <2>1, <2>2, <3>1, InsertedTyped
  <2>5. QED
    BY <1>1, <1>2, <2>1, <2>3, <2>4 DEF TypeInv, TypeOK, Finished
<1>13. CASE Refuse \/ Crash \/ Stop
  <2>1. /\ pc' = "down" /\ work' = disk /\ tx' = FALSE /\ log' = 0 /\ at' = 0
        /\ UNCHANGED <<disk, file, lost>>
    BY <1>13 DEF Refuse, Crash, Stop, GoesDown
  <2>2. faults' \in 0..MaxFaults
    BY <1>1, <1>3, <1>13 DEF Refuse, Crash, Stop
  <2>3. 0 \in 0..file /\ 0 \in 0..Target
    BY <1>1, <1>3
  <2>4. QED
    BY <1>1, <2>1, <2>2, <2>3 DEF TypeInv, TypeOK, Finished
<1>14. CASE MissColumn
  <2>1. /\ pc = "migrate" /\ todo # <<>> /\ Head(todo) \in Suppressed /\ todo' = Tail(todo)
        /\ lost' = lost \cup {Head(todo)} /\ faults < MaxFaults /\ faults' = faults + 1
        /\ UNCHANGED <<disk, work, tx, file, log, pc, at>>
    BY <1>14 DEF MissColumn
  <2>2. /\ OnPlan /\ Position(at, Len(todo), Head(todo)) /\ Len(todo) \in Nat
    BY <1>2, <1>14, MissStep DEF Ready
  <2>3. Head(todo) # "commit" /\ Head(todo) \in Words
    BY <2>1 DEF Suppressed, Columns, Words
  <2>4. todo' # <<>>
    BY <2>1, <2>2, <2>3, NotTheLast
  <2>5. lost' \subseteq Suppressed /\ faults' \in 0..MaxFaults
    BY <1>1, <1>3, <2>1
  <2>6. QED
    BY <1>1, <2>1, <2>4, <2>5 DEF TypeInv, TypeOK, Finished
<1>15. QED
  BY <1>4, <1>5, <1>6, <1>7, <1>8, <1>9, <1>10, <1>11, <1>12, <1>13, <1>14
     DEF Next, Progress

(* Every database is of its shape at every statement, with one cutover at  *)
(* most, and nothing is uncommitted outside a transaction.                 *)
THEOREM TypeCorrect == Spec => []TypeOK
<1>1. TypeInv => TypeOK
  BY DEF TypeInv
<1>2. UpgradeInv /\ CutoverInv /\ CutoverInv' /\ [Next]_vars => UpgradeInv'
  BY UpgradeNext
<1>3. TypeInv /\ UpgradeInv /\ CutoverInv /\ [Next]_vars => TypeInv'
  BY TypeNext
<1>4. QED
  BY <1>1, <1>2, <1>3, TypeInit, UpgradeInit, CutoverInit, CutoverNext, PTL DEF Spec
=============================================================================
