---------------------------- MODULE RangeTracker ----------------------------
(***************************************************************************)
(* The restriction tracker of partition slices and of API pages, as        *)
(* operators on its record.  PartitionRangeTracker and PageRangeTracker    *)
(* are the same code under two names.  The field err is left out: every    *)
(* caller passes an integer.                                               *)
(***************************************************************************)
EXTENDS Integers

NewTracker(s, e) == [start |-> s, end |-> e, claimed |-> s - 1, stopped |-> FALSE]

Claimable(t, index) ==
  /\ ~t.stopped
  /\ index >= t.start /\ index < t.end /\ index > t.claimed

(* TryClaim leaves the tracker stopped whenever it returns false. *)
TryClaim(t, index) ==
  [start |-> t.start, end |-> t.end,
   claimed |-> IF Claimable(t, index) THEN index ELSE t.claimed,
   stopped |-> t.stopped \/ ~Claimable(t, index)]

(* k is the rounded product of the indices that remain and the runner's    *)
(* fraction: any integer of 0..Remaining(t) for some fraction in (0, 1).   *)
Remaining(t) == t.end - t.claimed - 1
SplitPoint(t, k) == t.claimed + 1 + k

(* A split that may leave the primary nothing, or the residual nothing. *)
SplittableAtEnds(t, k) ==
  /\ ~t.stopped
  /\ SplitPoint(t, k) >= t.claimed + 1
  /\ SplitPoint(t, k) <= t.end

(* Where TrySplit returns two ranges rather than none. *)
Splittable(t, k) ==
  /\ ~t.stopped
  /\ SplitPoint(t, k) > t.claimed + 1
  /\ SplitPoint(t, k) < t.end
=============================================================================
