--------------------------- MODULE MCSearchCycle ---------------------------
(***************************************************************************)
(* Small instances of SearchCycle: one like Radarr, whose records may be   *)
(* malformed or repeated and whose queues may be tagged or inactive, and   *)
(* one like Sonarr, whose queues share their seasons.                      *)
(***************************************************************************)
EXTENDS SearchCycle

CONSTANTS a, b, c

Config(m, n, h, T) == [count |-> PerQueue(m, n), hardMax |-> h, tagged |-> T]

List(s, n) == [eligible |-> s, malformed |-> n, fault |-> FALSE]
Faulted    == [eligible |-> <<>>, malformed |-> 0, fault |-> TRUE]

(* Two movies: one configuration capped to a single command, one tagged    *)
(* with an inactive queue, one with two inactive queues.  A list may hold  *)
(* a malformed record, or the same movie twice (a page that shifted).      *)
MoviesConfigs ==
  {Config(1, 1, 1, {}), Config(2, 0, 0, {"missing"}), Config(0, 0, 0, {})}

MoviesLists ==
  {List(<<>>, 0), List(<<b>>, 1), List(<<a, b, b>>, 0), Faulted}

(* Three seasons in both queues, one with two episodes; the missing queue  *)
(* may claim everything the cutoff queue wants.  The settings may change   *)
(* to one search of the missing queue per cycle and back, the order of the *)
(* list from fetch to fetch, and one season comes and goes.                *)
SeasonsConfigs ==
  {Config(3, 1, 3, {"cutoff"}), Config(1, 0, 0, {})}

SeasonsLists ==
  {List(<<b, a, b>>, 0), List(<<a, b, c>>, 0)}
=============================================================================
