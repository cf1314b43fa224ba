-------------------------- MODULE MCSonarrTracking --------------------------
(***************************************************************************)
(* Small instances of SonarrTracking: two series, two seasons of the       *)
(* first, a repeated episode, overlapping windows.                         *)
(***************************************************************************)
EXTENDS SonarrTracking

Event(i, s, n, e, t, k) ==
  [id |-> i, series |-> s, season |-> n, episode |-> e, at |-> t, kind |-> k]

Season(s, n, m) == [series |-> s, season |-> n, missing |-> m]

(* A pack of two seasons, an episode of it once more, another series. *)
SomePacks ==
  {{Event(1, 1, 1, 11, 1, "bare"), Event(2, 1, 1, 12, 1, "bare"),
    Event(3, 1, 2, 21, 1, "nested")},
   {Event(4, 1, 1, 11, 1, "nested")},
   {Event(5, 2, 1, 31, 0, "bare")}}

SomeTargets == {Season(1, 1, 2), Season(2, 1, 0)}
=============================================================================
