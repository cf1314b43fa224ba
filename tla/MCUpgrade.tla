----------------------------- MODULE MCUpgrade -----------------------------
(* Databases of every version, with what an interrupted upgrade of an      *)
(* older build left at versions 2, 6 and 9, once without the table, and    *)
(* with a version recorded whose ALTER had failed.                         *)
EXTENDS Upgrade, TLC

MCIdOf == [n \in {"b"} |-> "id1"]

ColumnsOf(v) == UNION {Adds(w) : w \in 1..v}

Entry(n, o, k) ==
  [name |-> n, sid |-> "", outcome |-> o, n |-> k, new |-> FALSE]

HistoryOf(v) ==
  CASE v = 0      -> <<Entry("Default", "searched", 0)>>
    [] v \in 1..3 -> <<Entry("Default", "none", 0)>>
    [] v \in 4..5 -> <<Entry("Default", "grabbed", 2)>>
    [] v \in 6..7 -> <<Entry("b", "window_expired", 1), Entry("Default", "partial", 1)>>
    [] v \in 8..9 -> <<Entry("b", "partial_expired", 1), Entry("Default", "grabbed", 2)>>

Total(k) == [n |-> k, sid |-> ""]

StatsOf(v) ==
  CASE v < 3      -> NoTable
    [] v \in 3..6 -> [key |-> "app", rows |-> ("Default" :> Total(3))]
    [] v \in 7..9 -> [key |-> "name", rows |-> ("Default" :> Total(3) @@ "b" :> Total(2))]

Built(v) ==
  [ver |-> v, has |-> ColumnsOf(v), stats |-> StatsOf(v),
   copy |-> [k \in {7, 10} |-> NoTable],
   hist |-> HistoryOf(v), last |-> Len(HistoryOf(v)), cutover |-> {}]

Leftover == [key |-> "id", rows |-> StatsOf(9).rows]

MCFirstDbs ==
  {Built(v) : v \in 0..9} \cup
  {[Built(2) EXCEPT !.stats = Table("app")],
   [Built(6) EXCEPT !.copy[7] = Table("name")],
   [Built(9) EXCEPT !.copy[10] = Table("id")],
   [Built(9) EXCEPT !.copy[10] = Leftover, !.stats = NoTable],
   [Built(9) EXCEPT !.stats = Leftover, !.has = @ \cup {"instance_stable_id"}],
   [Built(3) EXCEPT !.has = @ \ {"outcome"}],
   [Built(9) EXCEPT !.has = @ \ {"albums_found"}],
   [Built(9) EXCEPT !.has = @ \ {"item_id"}]}
============================================================================
