---------------------------- MODULE SearchQueue ----------------------------
(***************************************************************************)
(* Which items of one wanted queue a cycle searches, and the searched-log  *)
(* it leaves (triggarr/search/engine.py, prioritize_batch and              *)
(* deduplicate_to_seasons).  Items stand for the log keys: a movie or      *)
(* album id, or a series and season.  Logs and batches are sequences of    *)
(* items, oldest search first.                                             *)
(*                                                                         *)
(* The filters are written with the positions they keep, not with          *)
(* SelectSeq: its definition is a LET-bound recursive function the proof   *)
(* system cannot reason about.  MCAlgorithms checks that they agree.      *)
(***************************************************************************)
EXTENDS Integers, Sequences, FiniteSets, Functions

(* The n-th smallest element of a set of positions. *)
Nth(S, n) == CHOOSE i \in S : Cardinality({j \in S : j <= i}) = n

(* The elements of s at the positions in S, in their order. *)
Subsequence(s, S) == [n \in 1..Cardinality(S) |-> s[Nth(S, n)]]

Keep(s, X)  == Subsequence(s, {i \in DOMAIN s : s[i] \in X})
Drop(s, X)  == Subsequence(s, {i \in DOMAIN s : s[i] \notin X})
Distinct(s) == Subsequence(s, {i \in DOMAIN s : \A j \in 1..i-1 : s[j] # s[i]})

Smaller(a, b) == IF a <= b THEN a ELSE b

(* s[:max(0, n)] *)
Take(s, n) == SubSeq(s, 1, Smaller(n, Len(s)))

-----------------------------------------------------------------------------

(* Changed forms of PrioritizeBatch: the most recently searched items are  *)
(* topped up first; excluded items are pruned from the log; a pass is      *)
(* complete although nothing was batched, or judged before the marking;    *)
(* the log is ignored and the front of the list searched every time.       *)
FetchOrderOnly(eligible, searched, size, exclude) ==
  LET batch == Take(Drop(eligible, exclude), size)
  IN  [batch |-> batch, log |-> Drop(searched, Range(batch)) \o batch,
       passDone |-> FALSE]

TopUpNewestFirst(eligible, searched, size, exclude) ==
  LET log    == Keep(searched, Range(eligible))
      unseen == Drop(eligible, Range(log) \cup exclude)
      again  == Drop(log, exclude)
      recent == [i \in 1..Len(again) |-> again[Len(again) + 1 - i]]
      first  == Take(unseen, size)
      batch  == first \o Take(recent, size - Len(first))
      newLog == Drop(log, Range(batch)) \o batch
  IN  [batch |-> batch, log |-> newLog,
       passDone |-> batch # <<>> /\ Range(eligible) \ exclude \subseteq Range(newLog)]

PruneExcluded(eligible, searched, size, exclude) ==
  LET open   == Drop(eligible, exclude)
      log    == Keep(searched, Range(open))
      first  == Take(Drop(open, Range(log)), size)
      batch  == first \o Take(log, size - Len(first))
      newLog == Drop(log, Range(batch)) \o batch
  IN  [batch |-> batch, log |-> newLog,
       passDone |-> batch # <<>> /\ Range(open) \subseteq Range(newLog)]

PassWithoutBatch(eligible, searched, size, exclude) ==
  LET log    == Keep(searched, Range(eligible))
      unseen == Drop(eligible, Range(log) \cup exclude)
      first  == Take(unseen, size)
      batch  == first \o Take(Drop(log, exclude), size - Len(first))
      newLog == Drop(log, Range(batch)) \o batch
  IN  [batch |-> batch, log |-> newLog,
       passDone |-> Range(eligible) \ exclude \subseteq Range(newLog)]

PassJudgedBeforeMarking(eligible, searched, size, exclude) ==
  LET log    == Keep(searched, Range(eligible))
      unseen == Drop(eligible, Range(log) \cup exclude)
      first  == Take(unseen, size)
      batch  == first \o Take(Drop(log, exclude), size - Len(first))
  IN  [batch |-> batch, log |-> Drop(log, Range(batch)) \o batch,
       passDone |-> batch # <<>> /\ Range(eligible) \ exclude \subseteq Range(log)]

-----------------------------------------------------------------------------

(* Never-searched items first in fetch order, then the oldest searched;    *)
(* every batched item moves to the tail of the log.  The items in exclude  *)
(* (the seasons the missing queue already claimed) keep their place in the *)
(* log and count as covered.                                               *)
PrioritizeBatch(eligible, searched, size, exclude) ==
  LET log    == Keep(searched, Range(eligible))
      unseen == Drop(eligible, Range(log) \cup exclude)
      again  == Drop(log, exclude)
      first  == Take(unseen, size)
      batch  == first \o Take(again, size - Len(first))
      newLog == Drop(log, Range(batch)) \o batch
  IN  [batch    |-> batch,
       log      |-> newLog,
       passDone |-> batch # <<>> /\ Range(eligible) \ exclude \subseteq Range(newLog)]

-----------------------------------------------------------------------------

Candidates(eligible, exclude) == Range(eligible) \ exclude

(* Where an item stands in a log: a smaller age was searched longer ago. *)
Age(x, searched) == CHOOSE i \in DOMAIN searched : searched[i] = x

(* A batch is as full as the candidates allow, repeats an item only when   *)
(* every never-searched candidate is in the batch too, and never repeats a *)
(* recently searched item in place of one searched longer ago.             *)
OldestSearchedFirst(eligible, searched, size, exclude) ==
  LET batch == PrioritizeBatch(eligible, searched, size, exclude).batch
      left  == Candidates(eligible, exclude) \ Range(batch)
  IN  /\ Range(batch) \subseteq Candidates(eligible, exclude)
      /\ Len(batch) = Cardinality(Range(batch))
      /\ left # {} => Len(batch) = IF size > 0 THEN size ELSE 0
      /\ \A x \in Range(batch), y \in left :
           x \in Range(searched) =>
             y \in Range(searched) /\ Age(x, searched) < Age(y, searched)

(* A claimed season keeps its place in the other queue's log: it is not    *)
(* pruned, not moved and not marked (DEDUP-02); everything else in the new *)
(* log is still wanted and was searched before or is in the batch.         *)
ClaimedKeepPlace(eligible, searched, size, exclude) ==
  LET result == PrioritizeBatch(eligible, searched, size, exclude)
      wanted == Range(eligible)
      kept   == exclude \cap wanted
  IN  /\ Keep(result.log, kept) = Keep(searched, kept)
      /\ Range(result.log) = (Range(searched) \cap wanted)
                               \cup Range(result.batch)

(* Cycles of one stable queue, from a fresh log: the batch, the log and    *)
(* the judgement of the n-th cycle of size items.                          *)
AfterCycles(eligible, size, n) ==
  LET cycle[i \in 0..n] ==
        IF i = 0 THEN [batch |-> <<>>, log |-> <<>>, passDone |-> FALSE]
        ELSE PrioritizeBatch(eligible, cycle[i-1].log, size, {})
  IN  cycle[n]

(* While the queue is stable a pass over n items in batches of k completes *)
(* in the cycle that reaches the last of them, ceiling of n / k, and in    *)
(* none before it.                                                         *)
PassTakesCeiling(eligible, size) ==
  \A c \in 1..Len(eligible) :
    AfterCycles(eligible, size, c).passDone <=> c * size >= Len(eligible)
=============================================================================
