-------------------------- MODULE ByteOffsetTracker --------------------------
(***************************************************************************)
(* The restriction tracker of byte ranges, as operators on its record: the *)
(* range [start, end), the highest claimed offset and the stopped flag.    *)
(* Each operator is one method, atomic because the method holds the mutex. *)
(* The field err is left out: no caller in the repository passes a         *)
(* position that is not an integer.                                        *)
(***************************************************************************)
EXTENDS Integers

NewByteOffsetTracker(s, e) ==
  [start |-> s, end |-> e, claimed |-> s - 1, stopped |-> FALSE]

Claimable(t, pos) ==
  /\ ~t.stopped
  /\ pos >= t.start /\ pos < t.end /\ pos > t.claimed

(* ClaimOffset leaves the tracker stopped whenever it returns false. *)
ClaimOffset(t, pos) ==
  IF Claimable(t, pos) THEN [t EXCEPT !.claimed = pos]
                       ELSE [t EXCEPT !.stopped = TRUE]

Current(t) == IF t.claimed < t.start THEN t.start ELSE t.claimed
Remaining(t) == t.end - Current(t)

(* k is the rounded product of the bytes that remain and the runner's     *)
(* fraction: for some fraction strictly between 0 and 1 it is any integer *)
(* of 0..Remaining(t).                                                    *)
SplitPoint(t, k) == Current(t) + k

(* A split at the claimed offset itself. *)
SplittableAtClaim(t, k) ==
  /\ ~t.stopped
  /\ Remaining(t) >= 2
  /\ SplitPoint(t, k) >= Current(t)
  /\ SplitPoint(t, k) < t.end

Splittable(t, k) ==
  /\ ~t.stopped
  /\ Remaining(t) >= 2
  /\ SplitPoint(t, k) > Current(t)
  /\ SplitPoint(t, k) < t.end

(* The caller forgets to shorten its own range. *)
PrimaryKeepsAll(t, k) == t

Primary(t, k)  == [t EXCEPT !.end = SplitPoint(t, k)]
Residual(t, k) == NewByteOffsetTracker(SplitPoint(t, k), t.end)

MarkDone(t) == [t EXCEPT !.stopped = TRUE]
=============================================================================
