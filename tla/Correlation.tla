---------------------------- MODULE Correlation ----------------------------
(***************************************************************************)
(* Which search gets the credit for a grab (triggarr/correlation.py): the  *)
(* most recent one whose tracking window contains it and, for Sonarr,      *)
(* whose season is the grab's.                                             *)
(*                                                                         *)
(* A search is a record with an id, the time "at" it was recorded and its  *)
(* season; a grab has the time it happened, NoDate when its date cannot be *)
(* parsed, and for Sonarr a season and a kind that says whether it can be  *)
(* trusted.                                                                *)
(***************************************************************************)
EXTENDS Integers

NoDate == -1

(* The window is closed at both ends; an unparsed date lies in none. *)
InWindow(grab, search, window) ==
  /\ grab.at # NoDate
  /\ search.at <= grab.at /\ grab.at <= search.at + window

(* Changed form: the oldest search first. *)
OldestFirst(s, t) == s.at < t.at \/ (s.at = t.at /\ s.id < t.id)

(* Newest first, and rows of the same time in the order they are given. *)
Precedes(s, t) == s.at > t.at \/ (s.at = t.at /\ s.id < t.id)

(* Changed form: any season. *)
MatchingAnySeason(grab, searches, window, matchSeason) ==
  {s \in searches : InWindow(grab, s, window)}

(* A broken grab never matches where seasons do. *)
Matching(grab, searches, window, matchSeason) ==
  {s \in searches : /\ InWindow(grab, s, window)
                    /\ matchSeason => /\ grab.kind # "broken"
                                      /\ grab.season = s.season}

(* What each search is credited with: a grab goes to the first search, in  *)
(* the order above, that it matches.                                       *)
Correlate(searches, grabs, window, matchSeason) ==
  [s \in searches |->
     {g \in grabs :
        LET m == Matching(g, searches, window, matchSeason)
        IN  s \in m /\ \A t \in m : t = s \/ Precedes(s, t)}]
=============================================================================
