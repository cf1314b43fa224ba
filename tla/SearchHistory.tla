--------------------------- MODULE SearchHistory ---------------------------
(***************************************************************************)
(* The table search_history (triggarr/db.py): a function from row ids to   *)
(* rows.  A row has the outcome of its search, the display name of the     *)
(* instance when it was written, and the server: the stable ID of the      *)
(* instance, which outlives its name.                                      *)
(***************************************************************************)
EXTENDS Naturals, FiniteSets

IsPending(row) == row.outcome \in {"searched", "partial"}

Resolved(rows) == {r \in DOMAIN rows : ~IsPending(rows[r])}

PendingOf(rows, server) ==
  {r \in DOMAIN rows : IsPending(rows[r]) /\ rows[r].server = server}

(* Changed form: the rows under the present name are counted. *)
CapReachedByName(rows, server, name, max) ==
  Cardinality({r \in DOMAIN rows : IsPending(rows[r]) /\ rows[r].name = name}) >= 2 * max

(* A tracker that does not come round leaves rows pending: no more than    *)
(* twice as many as are kept of the resolved ones.                         *)
CapReached(rows, server, name, max) ==
  Cardinality(PendingOf(rows, server)) >= 2 * max

Newer(rows, r) == {q \in Resolved(rows) : q > r}

(* Changed form: rows are pruned by age, whatever their outcome. *)
PrunedByAge(rows, max) ==
  [r \in {q \in DOMAIN rows : Cardinality({p \in DOMAIN rows : p > q}) < max} |-> rows[r]]

(* The newest resolved rows are kept, and every pending row. *)
Pruned(rows, max) ==
  [r \in {q \in DOMAIN rows :
            IsPending(rows[q]) \/ Cardinality(Newer(rows, q)) < max} |-> rows[r]]

(* Insert and prune are one transaction. *)
Inserted(rows, id, row, max) ==
  Pruned([r \in DOMAIN rows \cup {id} |-> IF r = id THEN row ELSE rows[r]], max)

(* Pending rows are found by display name (Radarr and Lidarr). *)
Trackable(rows, name) ==
  {r \in DOMAIN rows : IsPending(rows[r]) /\ rows[r].name = name}
============================================================================
