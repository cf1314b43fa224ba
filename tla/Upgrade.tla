------------------------------ MODULE Upgrade ------------------------------
(***************************************************************************)
(* A startup of Triggarr on a database of any age: db.run_migrations, the  *)
(* import of the search log that old builds kept in state.json, and        *)
(* attribution.ensure_cutover_recorded, statement by statement.  SQLite    *)
(* commits a CREATE, DROP or ALTER at once unless a transaction is open;   *)
(* an INSERT or UPDATE opens one.  A process may die between any two       *)
(* statements, and what the next one finds is what had been committed.     *)
(*                                                                         *)
(* One *arr type is modelled, and of its lifetime statistics the one       *)
(* counter of episodes; other types have rows of their own.                *)
(***************************************************************************)
EXTENDS Integers, Sequences, FiniteSets, Functions

CONSTANTS
  Names,     \* the names instances have had
  IdOf,      \* the stable ID of each instance that is configured now
  FirstDbs,  \* the databases older builds may have left
  FirstLogs, \* the numbers of searches state.json may still hold
  MaxRows,   \* bounds the rows of search_history
  MaxFaults  \* bounds the crashes and the statements and saves that fail

ASSUME UpgradeAssumption ==
  /\ DOMAIN IdOf \subseteq Names /\ "Default" \in Names /\ "" \notin Range(IdOf)
  /\ FirstLogs \subseteq Nat /\ MaxRows \in Nat /\ MaxFaults \in Nat

-----------------------------------------------------------------------------
(* A table of statistics has a key and a counter and a stable ID per name. *)
NoTable == [key |-> "none", rows |-> <<>>]
Table(k) == [key |-> k, rows |-> <<>>]

Columns == {"outcome", "detail", "item_id", "season_number", "missing_count",
            "resolved_at", "instance_id", "albums_found", "albums_updated",
            "attribution_cutover", "instance_stable_id"}

(* What the migrations of old builds add, each column by an ALTER whose    *)
(* every operational error is suppressed: that the column is there already *)
(* and that the database is locked, full or unreadable.                    *)
Suppressed == Columns \ {"attribution_cutover", "instance_stable_id"}

(* The statements of each migration; those that add a column or a table    *)
(* that nothing else touches have its name.                                *)
Rebuild == <<"create_copy", "fill_copy", "drop_stats", "rename_copy">>

Script ==
  << <<"outcome", "detail">>,
     <<"item_id", "season_number", "missing_count">>,
     <<"create_stats", "seed_stats">>,
     <<"backfill">>,
     <<"resolved_at">>,
     <<"instance_id", "index_instance">>,
     Rebuild,
     <<"expire_partials", "recount">>,
     <<"albums_found", "albums_updated">>,
     <<"attribution_cutover", "instance_stable_id", "check_leftover">>
       \o Rebuild \o <<"associate">> >>

Target == Len(Script)

Adds(v) == {Script[v][i] : i \in DOMAIN Script[v]} \cap Columns

(* The columns that statement s of version v names besides.                *)
Reads(v, s) ==
  CASE s = "backfill"                  -> {"outcome"}
    [] s = "index_instance"            -> {"instance_id"}
    [] s = "expire_partials"           -> {"outcome", "detail"}
    [] s = "recount"                   -> {"outcome", "detail", "instance_id",
                                           "missing_count"}
    [] s = "fill_copy" /\ v = Target   -> {"albums_found", "albums_updated"}
    [] s = "associate"                 -> {"instance_id"}
    [] OTHER                           -> {}

Needs(v) == UNION {Reads(v, Script[v][i]) : i \in DOMAIN Script[v]}

Outcomes == {"none", "searched", "unresolved", "grabbed", "partial",
             "window_expired", "partial_expired"}

Ids == Range(IdOf) \cup {""}

IsTable(t) ==
  /\ DOMAIN t = {"key", "rows"} /\ t.key \in {"none", "app", "name", "id"}
  /\ t.key = "none" => t = NoTable
  /\ DOMAIN t.rows \subseteq Names
  /\ t.rows \in [DOMAIN t.rows -> [n : Nat, sid : Ids]]

Fields    == {"ver", "has", "stats", "copy", "hist", "last", "cutover"}
RowFields == {"name", "sid", "outcome", "n", "new"}

IsDatabase(d) ==
  /\ DOMAIN d = Fields
  /\ d.ver \in 0..Target /\ d.has \subseteq Columns /\ d.cutover \subseteq Nat
  /\ IsTable(d.stats)
  /\ DOMAIN d.copy = {7, Target} /\ IsTable(d.copy[7]) /\ IsTable(d.copy[Target])
  /\ d.last \in Nat
  /\ d.hist \in [1..d.last ->
       [name : Names, sid : Ids, outcome : Outcomes, n : Nat, new : BOOLEAN]]

(* What an older build may have left, dying between two statements: no     *)
(* cutover and no row of this build; of v7 no more than its empty copy,    *)
(* the rest of that rebuild being one transaction; of v10, which was no    *)
(* transaction, the copy next to the table or instead of it.  A table with *)
(* the key of v10 was created with the columns of v9.  Until v7 there was  *)
(* one instance of a type.  Columns may be missing: older builds           *)
(* suppressed the same errors.                                             *)
ASSUME FirstDbsAssumption ==
  \A d \in FirstDbs :
    /\ IsDatabase(d)
    /\ d.cutover = {} /\ \A i \in 1..d.last : d.hist[i].new = FALSE
    /\ d.copy[7] # NoTable => d.ver = 6 /\ d.copy[7] = Table("name")
    /\ d.copy[Target] # NoTable => d.ver = 9
    /\ d.stats = NoTable => d.ver \notin 3..8
    /\ d.stats.key = "id" => {"albums_found", "albums_updated"} \subseteq d.has
    /\ d.ver < 7 => DOMAIN d.stats.rows \subseteq {"Default"}

-----------------------------------------------------------------------------
VARIABLES
  disk,   \* the committed database
  work,   \* the database as the open connection sees it
  tx,     \* whether a transaction is open
  file,   \* the searches logged in state.json
  log,    \* and those in the state in memory
  pc,     \* how far the startup is
  at,     \* the version it migrates to
  todo,   \* the statements left of that migration
  first,  \* the database before the first startup of this build
  lost,   \* the columns whose ALTER failed since, without a trace
  faults

vars == <<disk, work, tx, file, log, pc, at, todo, first, lost, faults>>

-----------------------------------------------------------------------------
(* Changed form: the version is recorded before the migration has run. *)
PlanVersionFirst(v) ==
  IF v = Target THEN <<"begin">> \o Script[v] \o <<"version", "commit">>
                ELSE <<"version", "commit">> \o Script[v] \o <<"commit">>

(* Migrations commit and then record their version; the last one is the    *)
(* runner's own transaction, version included.                             *)
Plan(v) ==
  IF v = Target THEN <<"begin">> \o Script[v] \o <<"version", "commit">>
                ELSE Script[v] \o <<"commit", "version", "commit">>

(* What v8 takes for the right total of a name.                            *)
Settled(d, n) ==
  {i \in DOMAIN d.hist : d.hist[i].name = n
                         /\ d.hist[i].outcome \in {"grabbed", "partial_expired"}}
Recounted(d, n) == SumFunction([i \in Settled(d, n) |-> d.hist[i].n])

HasV9Shape(d) ==
  d.stats.key = "name" /\ {"albums_found", "albums_updated"} \subseteq d.has

-----------------------------------------------------------------------------
Init ==
  /\ first \in FirstDbs /\ file \in FirstLogs
  /\ disk = first /\ work = first /\ tx = FALSE /\ log = 0
  /\ pc = "down" /\ at = 0 /\ todo = <<>>
  /\ lost = {} /\ faults = 0

(* The state file is loaded, the base tables are there, the version is     *)
(* read once.                                                              *)
Start ==
  /\ pc = "down"
  /\ pc' = "migrate" /\ log' = file /\ at' = disk.ver /\ todo' = <<>>
  /\ UNCHANGED <<disk, work, tx, file, first, lost, faults>>

NextVersion ==
  /\ pc = "migrate" /\ todo = <<>>
  /\ IF at < Target THEN at' = at + 1 /\ todo' = Plan(at + 1) /\ pc' = pc
                    ELSE pc' = "import" /\ UNCHANGED <<at, todo>>
  /\ UNCHANGED <<disk, work, tx, file, log, first, lost, faults>>

(* The next statement raises: it reads a column that is not there, a table *)
(* is missing or already there, or the copy an interrupted upgrade left    *)
(* may be the only one.                                                    *)
Raises ==
  /\ pc = "migrate" /\ todo # <<>>
  /\ \/ ~(Reads(at, Head(todo)) \subseteq work.has)
     \/ Head(todo) \in {"fill_copy", "drop_stats"} /\ work.stats = NoTable
     \/ Head(todo) = "create_copy" /\ at = Target /\ work.copy[at] # NoTable
     \/ Head(todo) = "check_leftover" /\ work.copy[at] # NoTable /\ ~HasV9Shape(work)
     \/ Head(todo) = "begin" /\ tx

Executes(s) ==
  /\ pc = "migrate" /\ todo # <<>> /\ Head(todo) = s /\ ~Raises
  /\ UNCHANGED <<file, log, pc, at, first, lost, faults>>

Ddl(s, d) ==
  /\ Executes(s) /\ todo' = Tail(todo)
  /\ work' = d /\ UNCHANGED tx
  /\ disk' = IF tx THEN disk ELSE d

Dml(s, d) ==
  /\ Executes(s) /\ todo' = Tail(todo)
  /\ work' = d /\ tx' = TRUE /\ UNCHANGED disk

(* A column that is there already is left alone.                           *)
AddColumn == \E c \in Columns : Ddl(c, [work EXCEPT !.has = @ \cup {c}])

(* The ALTER fails, the error is suppressed like that of a column that is  *)
(* there, and the migration goes on without the column.                    *)
MissColumn ==
  /\ pc = "migrate" /\ todo # <<>> /\ Head(todo) \in Suppressed \ work.has
  /\ faults < MaxFaults /\ faults' = faults + 1
  /\ todo' = Tail(todo) /\ lost' = lost \cup {Head(todo)}
  /\ UNCHANGED <<disk, work, tx, file, log, pc, at, first>>

IndexInstance == Ddl("index_instance", work)

(* INSERT OR IGNORE: a row that is there already stays as it is.           *)
OrIgnored(rows, more) ==
  [n \in DOMAIN rows \cup DOMAIN more |-> IF n \in DOMAIN rows THEN rows[n] ELSE more[n]]

CreateStats ==
  Ddl("create_stats",
      IF work.stats # NoTable THEN work ELSE [work EXCEPT !.stats = Table("app")])

SeedStats ==
  Dml("seed_stats", [work EXCEPT !.stats.rows =
         OrIgnored(@, [n \in {"Default"} |-> [n |-> 0, sid |-> ""]])])

(* UPDATE search_history SET outcome = o WHERE outcome = was.              *)
Regraded(d, was, o) ==
  [d EXCEPT !.hist = [i \in DOMAIN d.hist |->
     IF d.hist[i].outcome = was THEN [d.hist[i] EXCEPT !.outcome = o] ELSE d.hist[i]]]

Backfill == Dml("backfill", Regraded(work, "none", "unresolved"))

(* v7 keeps a copy that is there, v10 has made sure that there is none.    *)
CreateCopy ==
  Ddl("create_copy",
      IF work.copy[at] # NoTable THEN work
      ELSE [work EXCEPT !.copy[at] = Table(IF at = Target THEN "id" ELSE "name")])

(* v7 gives every row the name "Default", the only one there is then.      *)
FillCopy == Dml("fill_copy", [work EXCEPT !.copy[at].rows = OrIgnored(@, work.stats.rows)])

DropStats == Ddl("drop_stats", [work EXCEPT !.stats = NoTable])

RenameCopy ==
  Ddl("rename_copy", [work EXCEPT !.stats = work.copy[at], !.copy[at] = NoTable])

ExpirePartials ==
  Dml("expire_partials", Regraded(work, "window_expired", "partial_expired"))

(* Totals are corrected where the history has settled searches.            *)
Recount ==
  Dml("recount", [work EXCEPT !.stats.rows = [n \in DOMAIN work.stats.rows |->
    [work.stats.rows[n] EXCEPT !.n =
       IF Settled(work, n) = {} THEN work.stats.rows[n].n ELSE Recounted(work, n)]]])

(* Changed form: an intact table is taken as a reason to leave the leftover. *)
CheckLeftoverKeeping ==
  /\ Executes("check_leftover")
  /\ todo' = IF work.stats.key = "id"
             THEN SubSeq(todo, 2 + Len(Rebuild), Len(todo)) ELSE Tail(todo)
  /\ UNCHANGED <<disk, work, tx>>

(* v10: a leftover copy next to an intact table is dropped, and a table    *)
(* that has its new key already is not rebuilt.                            *)
CheckLeftover ==
  /\ Executes("check_leftover")
  /\ work' = [work EXCEPT !.copy[at] = NoTable]
  /\ disk' = IF tx THEN disk ELSE work'
  /\ todo' = IF work.stats.key = "id"
             THEN SubSeq(todo, 2 + Len(Rebuild), Len(todo)) ELSE Tail(todo)
  /\ UNCHANGED tx

(* The stable ID of a configured instance is set where none is.            *)
Linked(row, n) ==
  IF row.sid = "" /\ n \in DOMAIN IdOf THEN [row EXCEPT !.sid = IdOf[n]] ELSE row

Associate ==
  Dml("associate",
      [work EXCEPT
         !.hist = [i \in DOMAIN work.hist |-> Linked(work.hist[i], work.hist[i].name)],
         !.stats.rows = [n \in DOMAIN work.stats.rows |-> Linked(work.stats.rows[n], n)]])

Begin ==
  /\ Executes("begin") /\ todo' = Tail(todo)
  /\ tx' = TRUE /\ UNCHANGED <<disk, work>>

RecordVersion == Dml("version", [work EXCEPT !.ver = at])

Commit ==
  /\ Executes("commit") /\ todo' = Tail(todo)
  /\ disk' = work /\ tx' = FALSE /\ UNCHANGED work

Statement ==
  \/ AddColumn \/ IndexInstance \/ CreateStats \/ SeedStats \/ Backfill
  \/ CreateCopy \/ FillCopy \/ DropStats \/ RenameCopy
  \/ ExpirePartials \/ Recount \/ CheckLeftover \/ Associate
  \/ Begin \/ RecordVersion \/ Commit

-----------------------------------------------------------------------------
Row(n, s, new) == [name |-> n, sid |-> s, outcome |-> "searched", n |-> 0, new |-> new]

(* The database with k more rows.                                          *)
Inserted(d, k, row) ==
  [d EXCEPT !.last = @ + k,
            !.hist = [i \in 1..(d.last + k) |-> IF i <= d.last THEN d.hist[i] ELSE row]]

(* The searches of state.json become rows in one transaction, ...          *)
Import ==
  /\ pc = "import" /\ log > 0
  /\ work' = Inserted(work, log, Row("Default", "", FALSE))
  /\ disk' = work' /\ log' = 0 /\ pc' = "save"
  /\ UNCHANGED <<tx, file, at, todo, first, lost, faults>>

(* ... and leave the file in a step of its own.                            *)
SaveState ==
  /\ pc = "save"
  /\ file' = log /\ pc' = "cutover"
  /\ UNCHANGED <<disk, work, tx, log, at, todo, first, lost, faults>>

NothingToImport ==
  /\ pc = "import" /\ log = 0
  /\ pc' = "cutover"
  /\ UNCHANGED <<disk, work, tx, file, log, at, todo, first, lost, faults>>

(* Changed form: every startup records the cutover anew. *)
RecordCutoverAnew ==
  /\ pc = "cutover"
  /\ work' = [work EXCEPT !.cutover = {work.last}]
  /\ disk' = work' /\ pc' = "up"
  /\ UNCHANGED <<tx, file, log, at, todo, first, lost, faults>>

(* Changed form: every startup adds one, and the table takes more than one. *)
RecordCutoverAgain ==
  /\ pc = "cutover"
  /\ work' = [work EXCEPT !.cutover = @ \cup {work.last}]
  /\ disk' = work' /\ pc' = "up"
  /\ UNCHANGED <<tx, file, log, at, todo, first, lost, faults>>

(* The highest row there is when the cutover is recorded, once.            *)
RecordCutover ==
  /\ pc = "cutover"
  /\ work' = IF work.cutover # {} THEN work ELSE [work EXCEPT !.cutover = {work.last}]
  /\ disk' = work' /\ pc' = "up"
  /\ UNCHANGED <<tx, file, log, at, todo, first, lost, faults>>

(* The columns the row of a search is written to.                          *)
RowColumns == {"outcome", "detail", "item_id", "season_number", "missing_count",
               "instance_id", "instance_stable_id"}

(* Where one of them is missing the INSERT fails and no row is stored.     *)
Search(n) ==
  /\ pc = "up" /\ work.last < MaxRows /\ RowColumns \subseteq work.has
  /\ work' = Inserted(work, 1, Row(n, IdOf[n], TRUE))
  /\ disk' = work'
  /\ UNCHANGED <<tx, file, log, pc, at, todo, first, lost, faults>>

GoesDown ==
  /\ pc' = "down" /\ work' = disk /\ tx' = FALSE /\ log' = 0 /\ at' = 0 /\ todo' = <<>>
  /\ UNCHANGED <<disk, file, first, lost>>

Refuse == Raises /\ GoesDown /\ UNCHANGED faults
Stop   == pc = "up" /\ GoesDown /\ UNCHANGED faults

(* The process dies, or a statement fails whose errors are not suppressed, *)
(* or the state file cannot be saved: each ends the startup.               *)
Crash ==
  /\ pc # "down" /\ faults < MaxFaults
  /\ GoesDown /\ faults' = faults + 1

Progress ==
  \/ Start \/ NextVersion \/ Statement
  \/ Import \/ SaveState \/ NothingToImport \/ RecordCutover

Next == Progress \/ MissColumn \/ Refuse \/ Crash \/ Stop \/ \E n \in DOMAIN IdOf : Search(n)

Spec == Init /\ [][Next]_vars

(* Someone starts the program again, and it runs its statements, one that  *)
(* raises too.                                                             *)
FairSpec == Spec /\ WF_vars(Progress \/ Refuse)

-----------------------------------------------------------------------------
(* Databases have their shape, with one cutover at most, and outside a     *)
(* transaction the connection sees what is committed.                      *)
TypeOK ==
  /\ IsDatabase(disk) /\ IsDatabase(work)
  /\ Cardinality(disk.cutover) <= 1
  /\ tx \in BOOLEAN /\ (~tx => work = disk)
  /\ file \in Nat /\ log \in 0..file
  /\ pc \in {"down", "migrate", "import", "save", "cutover", "up"}
  /\ (tx => pc = "migrate") /\ at \in 0..Target
  /\ lost \subseteq Suppressed /\ faults \in 0..MaxFaults

(* What version v promises its readers: its columns, but for those whose   *)
(* ALTER failed, and in any case the columns that its own statements read. *)
Has(d, v) ==
  /\ Adds(v) \ lost \subseteq d.has
  /\ Needs(v) \subseteq d.has
  /\ v = 3  => d.stats # NoTable
  /\ v = 7  => d.stats.key # "app" /\ d.copy[7] = NoTable
  /\ v = 8  => \A i \in DOMAIN d.hist : d.hist[i].outcome # "window_expired"
  /\ v = 10 => d.stats.key = "id" /\ d.copy[10] = NoTable

(* The totals of a database that is being rebuilt.                         *)
Totals(d) ==
  IF d.stats # NoTable THEN d.stats.rows
  ELSE IF d.copy[Target] # NoTable THEN d.copy[Target].rows ELSE d.copy[7].rows

(* The total of a name is the one there was before the upgrade, until v8   *)
(* corrects it to what the history has (in the transaction of that step).  *)
Right(d, n) ==
  LET was == Totals(first)[n].n
      is  == Totals(d)[n].n
      corrected == first.ver < 8 /\ Settled(d, n) # {}
  IN  \/ is = was /\ (corrected => d.ver < 8)
      \/ is = Recounted(d, n) /\ corrected /\ d.ver >= 7

(* Wherever a startup is interrupted, the database that is left has all    *)
(* that its version promises, every search there was, and every total; a   *)
(* recorded version lacks no column but one whose ALTER failed, and none   *)
(* that this or an earlier migration had to read.                          *)
RestartIsSafe ==
  /\ \A v \in (first.ver + 1)..disk.ver : Has(disk, v)
  /\ \A i \in DOMAIN first.hist : disk.hist[i].n = first.hist[i].n
  /\ \A n \in DOMAIN Totals(first) : n \in DOMAIN Totals(disk) /\ Right(disk, n)

(* The cutover is recorded before the first search of this build and once: *)
(* it always parts the rows of older builds, imported ones included, which *)
(* are frozen, from the rows whose grabs are owned.                        *)
CutoverParts ==
  /\ pc = "up" => disk.cutover # {}
  /\ \A i \in DOMAIN disk.hist :
       disk.hist[i].new <=> \E c \in disk.cutover : i > c

(* No startup goes on after a migration that failed: a program that is up  *)
(* has every column of the versions it migrated to.                        *)
UpIsWhole ==
  pc = "up" => \A v \in (first.ver + 1)..disk.ver : Adds(v) \subseteq disk.has

(* A migration that is still to run reads a column that a version already  *)
(* recorded did not get: no startup will add it, and every one fails.      *)
Stranded(d) ==
  \E v \in 1..d.ver, w \in (d.ver + 1)..Target : ~(Adds(v) \cap Needs(w) \subseteq d.has)

(* Unless the only copy of the totals is the leftover of an upgrade, which *)
(* a person has to look at, the program comes up again and again, or a     *)
(* failed ALTER has stranded the database and it never does again.         *)
UpgradeEnds ==
  first.copy[Target] = NoTable \/ HasV9Shape(first) =>
    []<>(pc = "up") \/ <>[](Stranded(disk) /\ pc # "up")
=============================================================================
