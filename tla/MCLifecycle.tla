---------------------------- MODULE MCLifecycle ----------------------------
(* One *arr type with two instances and two addresses. *)
EXTENDS Lifecycle

CONSTANTS i1, i2, u1, u2

On(u) == [enabled |-> TRUE, url |-> u]

MCFresh == [enabled |-> FALSE, url |-> NoUrl]

MCFormConfigs == {On(u2), [enabled |-> FALSE, url |-> u1]}

MCFirstConfigs == {[n \in {i1} |-> On(u1)]}
============================================================================
