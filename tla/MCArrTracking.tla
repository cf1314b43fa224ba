--------------------------- MODULE MCArrTracking ---------------------------
(* Two instances that may swap their names, and a grab that lies in the     *)
(* windows of two searches; or one instance and several grabs, one of them  *)
(* without a date.                                                          *)
EXTENDS ArrTracking

Event(i, m, t) == [id |-> i, item |-> m, at |-> t]

SomeGrabs == {Event(1, "film", 1)}

MoreGrabs == SomeGrabs \cup {Event(2, "film", NoDate), Event(3, "film", 2)}

SomeItems == {"film"}

OneName == [s \in {"s1"} |-> "a"]

TwoNames == [s \in {"s1", "s2"} |-> IF s = "s1" THEN "a" ELSE "b"]
=============================================================================
