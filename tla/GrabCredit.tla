----------------------------- MODULE GrabCredit -----------------------------
(***************************************************************************)
(* What grab tracking promises, whatever it polls and whenever it fails:   *)
(* a grab is credited to one search, once and for all; a search gets one   *)
(* verdict, and keeps it; and the statistic grows by the episodes of a     *)
(* search exactly when the search is found to have succeeded.              *)
(***************************************************************************)
EXTENDS Integers, Sequences, FiniteSets

CONSTANT Grabs   \* grab events, each with an episode

VARIABLES
  owner,    \* the search a credited grab belongs to
  verdict,  \* per search: "open", "found" or "none"
  score     \* the lifetime statistic

vars == <<owner, verdict, score>>

CreditOf(r)   == {g \in DOMAIN owner : owner[g] = r}
EpisodesOf(r) == {g.episode : g \in CreditOf(r)}

Init ==
  /\ owner = [g \in {} |-> 0]
  /\ verdict = <<>>
  /\ score = 0

Open == verdict' = Append(verdict, "open") /\ UNCHANGED <<owner, score>>

(* An open search is credited with grabs nobody has, and may be settled:   *)
(* found with what it has been credited with, or without any credit.       *)
Credit(r, v) ==
  /\ verdict[r] = "open" /\ verdict' = [verdict EXCEPT ![r] = v]
  /\ DOMAIN owner \subseteq DOMAIN owner' /\ DOMAIN owner' \subseteq Grabs
  /\ \A g \in DOMAIN owner' :
       owner'[g] = IF g \in DOMAIN owner THEN owner[g] ELSE r
  /\ v = "found" => CreditOf(r)' # {}
  /\ v = "none" => CreditOf(r)' = {}
  /\ score' = score + IF v = "found" THEN Cardinality(EpisodesOf(r)') ELSE 0

Next ==
  \/ Open
  \/ \E r \in DOMAIN verdict, v \in {"open", "found", "none"} : Credit(r, v)

Spec == Init /\ [][Next]_vars
=============================================================================
