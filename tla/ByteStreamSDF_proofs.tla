------------------------- MODULE ByteStreamSDF_proofs -------------------------
(***************************************************************************)
(* Proofs about ByteStreamSDF for every file size, chunk size and number   *)
(* of restrictions (type correctness, no record read twice, and the        *)
(* implementation of WorkRange), and about the goroutines inside           *)
(* ProcessElement (RecordPipe) for every sequence of lines.                *)
(***************************************************************************)
EXTENDS ByteStreamSDF, RecordPipe, SequenceTheorems, WellFoundedInduction, TLAPS

Trackers == [start : 0..Size, end : 0..Size, claimed : (-1)..(Size - 1), stopped : BOOLEAN]

(* A tracker in good order: its claim lies inside its range, or just before it. *)
InOrder(t) ==
  /\ t \in Trackers
  /\ t.start <= t.end
  /\ t.start - 1 <= t.claimed
  /\ t.claimed < t.end

(* A new tracker is in good order: nothing is claimed yet. *)
LEMMA NewTracker ==
  ASSUME NEW s \in 0..Size, NEW e \in 0..Size, s <= e, Size \in Nat
  PROVE  InOrder(NewByteOffsetTracker(s, e))
BY DEF InOrder, Trackers, NewByteOffsetTracker

(* Claiming keeps the range and moves the claim up to the claimed offset. *)
LEMMA ClaimFacts ==
  ASSUME NEW t \in Trackers, InOrder(t), NEW pos \in 0..Size, Size \in Nat
  PROVE  /\ InOrder(ClaimOffset(t, pos))
         /\ ClaimOffset(t, pos).start = t.start
         /\ ClaimOffset(t, pos).end = t.end
         /\ t.claimed <= ClaimOffset(t, pos).claimed
         /\ Claimable(t, pos) => /\ ClaimOffset(t, pos).claimed = pos
                                 /\ pos >= t.start /\ pos < t.end /\ pos > t.claimed
         /\ ~Claimable(t, pos) => ClaimOffset(t, pos).claimed = t.claimed
<1>1. CASE Claimable(t, pos)
  <2>1. pos >= t.start /\ pos < t.end /\ pos > t.claimed
    BY <1>1 DEF Claimable
  <2>2. ClaimOffset(t, pos) = [t EXCEPT !.claimed = pos]
    BY <1>1 DEF ClaimOffset
  <2>3. pos \in (-1)..(Size - 1)
    BY <2>1 DEF Trackers
  <2>. QED
    BY <1>1, <2>1, <2>2, <2>3 DEF InOrder, Trackers
<1>2. CASE ~Claimable(t, pos)
  <2>1. ClaimOffset(t, pos) = [t EXCEPT !.stopped = TRUE]
    BY <1>2 DEF ClaimOffset
  <2>2. /\ ClaimOffset(t, pos) \in Trackers
        /\ ClaimOffset(t, pos).start = t.start
        /\ ClaimOffset(t, pos).end = t.end
        /\ ClaimOffset(t, pos).claimed = t.claimed
    BY <2>1 DEF Trackers
  <2>3. t.claimed \in Int
    BY DEF Trackers
  <2>. QED
    BY <1>2, <2>2, <2>3 DEF InOrder
<1>. QED
  BY <1>1, <1>2

(* MarkDone changes neither the range nor the claim. *)
LEMMA DoneFacts ==
  ASSUME NEW t \in Trackers, InOrder(t)
  PROVE  /\ InOrder(MarkDone(t))
         /\ MarkDone(t).start = t.start
         /\ MarkDone(t).end = t.end
         /\ MarkDone(t).claimed = t.claimed
BY DEF InOrder, Trackers, MarkDone

(* A split cuts the range above the claim. *)
LEMMA SplitFacts ==
  ASSUME NEW t \in Trackers, InOrder(t), NEW k \in 0..Remaining(t), Splittable(t, k), Size \in Nat
  PROVE  /\ SplitPoint(t, k) \in 0..Size
         /\ t.start < SplitPoint(t, k) /\ t.claimed < SplitPoint(t, k) /\ SplitPoint(t, k) < t.end
         /\ InOrder(Primary(t, k)) /\ InOrder(Residual(t, k))
         /\ Primary(t, k).start = t.start
         /\ Primary(t, k).end = SplitPoint(t, k)
         /\ Primary(t, k).claimed = t.claimed
         /\ Residual(t, k).start = SplitPoint(t, k)
         /\ Residual(t, k).end = t.end
         /\ Residual(t, k).claimed = SplitPoint(t, k) - 1
<1>1. /\ SplitPoint(t, k) \in 0..Size
      /\ t.start < SplitPoint(t, k) /\ t.claimed < SplitPoint(t, k) /\ SplitPoint(t, k) < t.end
  BY DEF InOrder, Trackers, Remaining, Splittable, SplitPoint, Current
<1>2. InOrder(Residual(t, k))
  <2>1. t.end \in 0..Size /\ SplitPoint(t, k) <= t.end
    BY <1>1 DEF Trackers
  <2>. QED
    BY <1>1, <2>1, NewTracker DEF Residual
<1>3. InOrder(Primary(t, k))
  BY <1>1 DEF Primary, InOrder, Trackers
<1>. QED
  BY <1>1, <1>2, <1>3 DEF Primary, Residual, NewByteOffsetTracker, Trackers

(* Reading a record moves the position forward and never past the file. *)
LEMMA ReadFacts ==
  ASSUME NEW p \in 0..Size
  PROVE  readRecordBytes(p) \in 0..Size
<1>. USE SizeAssumption
<1>1. CASE HitsEOF(p)
  BY <1>1 DEF readRecordBytes
<1>2. CASE ~HitsEOF(p)
  <2>1. PICK q \in p..(Size - 1) : FirstBreak(p, q)
    BY <1>2 DEF HitsEOF
  <2>2. (CHOOSE r \in p..(Size - 1) : FirstBreak(p, r)) \in p..(Size - 1)
    BY <2>1
  <2>. QED
    BY <1>2, <2>2 DEF readRecordBytes
<1>. QED
  BY <1>1, <1>2

-----------------------------------------------------------------------------
Owns(w, p) == tracker[w].start <= p /\ p < tracker[w].end

TrackersInOrder == \A w \in Workers : InOrder(tracker[w])
RangesDisjoint  == \A v, w \in Workers : v # w => \A p \in Offsets : ~(Owns(v, p) /\ Owns(w, p))
RangesCover     == \A p \in Offsets : \E w \in Workers : Owns(w, p)
UnbornIdle      == \A w \in Workers : pc[w] = "unborn" => tracker[w] = Idle
OutputDropped   == \A w \in Workers : pc[w] = "failed" => fed[w] = {}
ClaimCurrent    == \A w \in Workers : pc[w] = "claimed" =>
                     currPos[w] = tracker[w].claimed /\ tracker[w].start <= currPos[w]
FedClaimed      == \A w \in Workers : \A r \in fed[w] :
                     tracker[w].start <= r[1] /\ r[1] <= tracker[w].claimed

IInv ==
  /\ TypeOK
  /\ TrackersInOrder
  /\ RangesDisjoint
  /\ RangesCover
  /\ UnbornIdle
  /\ OutputDropped
  /\ ClaimCurrent
  /\ FedClaimed

(* The chunks of the initial restriction cut [0, Size) without gap or overlap. *)
LEMMA ChunkFacts ==
  /\ NumChunks \in Nat \ {0}
  /\ \A w \in 1..NumChunks : InOrder(SplitRestriction(w))
  /\ \A v, w \in 1..NumChunks : v < w =>
       SplitRestriction(v).end <= SplitRestriction(w).start
  /\ \A p \in Offsets : \E w \in 1..NumChunks :
       SplitRestriction(w).start <= p /\ p < SplitRestriction(w).end
<1>. USE SizeAssumption, ChunkAssumption, ModeAssumption
<1>1. CASE Compressed \/ Size <= ChunkSize
  <2>1. NumChunks = 1
    BY <1>1 DEF NumChunks
  <2>2. \A w \in 1..NumChunks : SplitRestriction(w) = NewByteOffsetTracker(0, Size)
    BY <2>1 DEF SplitRestriction
  <2>3. SplitRestriction(1).start = 0 /\ SplitRestriction(1).end = Size
    BY <2>1, <2>2 DEF NewByteOffsetTracker
  <2>4. \A w \in 1..NumChunks : InOrder(SplitRestriction(w))
    BY <2>2, NewTracker
  <2>. QED
    BY <2>1, <2>3, <2>4 DEF Offsets
<1>2. CASE ~Compressed /\ Size > ChunkSize
  <2>. DEFINE n == (Size - 1) \div ChunkSize
  <2>1. NumChunks = n + 1
    BY <1>2 DEF NumChunks
  <2>2. n \in Nat /\ n >= 1 /\ n * ChunkSize <= Size - 1 /\ Size - 1 < (n + 1) * ChunkSize
    BY <1>2
  <2>3. \A w \in 1..NumChunks :
          /\ (w - 1) * ChunkSize \in 0..(Size - 1)
          /\ (w - 1) * ChunkSize < w * ChunkSize
          /\ w * ChunkSize \in Nat
    <3>. SUFFICES ASSUME NEW w \in 1..NumChunks
                  PROVE  /\ (w - 1) * ChunkSize \in 0..(Size - 1)
                         /\ (w - 1) * ChunkSize < w * ChunkSize
                         /\ w * ChunkSize \in Nat
      OBVIOUS
    <3>. HIDE DEF n
    <3>1. w - 1 \in Nat /\ w - 1 <= n
      BY <2>1, <2>2
    <3>2. (w - 1) * ChunkSize <= n * ChunkSize
      BY <2>2, <3>1, Z3
    <3>3. w * ChunkSize = (w - 1) * ChunkSize + ChunkSize
      OBVIOUS
    <3>4. (w - 1) * ChunkSize \in Nat
      BY <3>1
    <3>. QED
      BY <2>2, <3>1, <3>2, <3>3, <3>4
  <2>4. \A w \in 1..NumChunks :
          /\ SplitRestriction(w) = NewByteOffsetTracker((w - 1) * ChunkSize, Minimum(w * ChunkSize, Size))
          /\ SplitRestriction(w).start = (w - 1) * ChunkSize
          /\ SplitRestriction(w).end = Minimum(w * ChunkSize, Size)
    BY <2>1, <2>2 DEF SplitRestriction, NewByteOffsetTracker
  <2>5. ASSUME NEW w \in 1..NumChunks
        PROVE  InOrder(SplitRestriction(w))
    BY <2>3, <2>4, NewTracker DEF Minimum
  <2>6. ASSUME NEW v \in 1..NumChunks, NEW w \in 1..NumChunks, v < w
        PROVE  SplitRestriction(v).end <= SplitRestriction(w).start
    <3>1. v * ChunkSize <= (w - 1) * ChunkSize
      BY <2>1, <2>2, <2>6, Z3
    <3>. QED
      BY <2>3, <2>4, <3>1 DEF Minimum
  <2>7. ASSUME NEW p \in Offsets
        PROVE  \E w \in 1..NumChunks :
                 SplitRestriction(w).start <= p /\ p < SplitRestriction(w).end
    <3>. DEFINE i == p \div ChunkSize
    <3>1. i \in Nat /\ i * ChunkSize <= p /\ p < (i + 1) * ChunkSize
      BY DEF Offsets
    <3>. HIDE DEF i, n
    <3>2. i <= n
      <4>1. ASSUME i >= n + 1 PROVE FALSE
        <5>1. (n + 1) * ChunkSize <= i * ChunkSize
          BY <2>2, <3>1, <4>1, Z3
        <5>. QED
          BY <2>2, <3>1, <5>1 DEF Offsets
      <4>. QED
        BY <2>2, <3>1, <4>1
    <3>3. i + 1 \in 1..NumChunks
      BY <2>1, <2>2, <3>1, <3>2
    <3>4. SplitRestriction(i + 1).start = i * ChunkSize
      BY <2>4, <3>1, <3>3
    <3>5. p < SplitRestriction(i + 1).end
      BY <2>3, <2>4, <3>1, <3>3 DEF Minimum, Offsets
    <3>. QED
      BY <3>1, <3>3, <3>4, <3>5
  <2>. QED
    BY <2>1, <2>2, <2>5, <2>6, <2>7
<1>. QED
  BY <1>1, <1>2

(* The chunks the run starts with satisfy the invariant. *)
LEMMA Initial == Init => IInv
<1>. SUFFICES ASSUME Init PROVE IInv
  OBVIOUS
<1>. USE SizeAssumption, PoolAssumption
<1>1. InOrder(Idle) /\ Idle.start = 0 /\ Idle.end = 0
  BY NewTracker DEF Idle, NewByteOffsetTracker
<1>2. \A w \in Workers : tracker[w] = IF w <= NumChunks THEN SplitRestriction(w) ELSE Idle
  BY DEF Init
<1>3. \A w \in Workers : w <= NumChunks => w \in 1..NumChunks
  BY ChunkFacts DEF Workers
<1>4. TrackersInOrder
  BY <1>1, <1>2, <1>3, ChunkFacts DEF TrackersInOrder
<1>5. TypeOK
  <2>1. tracker \in [Workers -> Trackers]
    BY <1>4 DEF TrackersInOrder, InOrder, Init
  <2>2. pc \in [Workers -> Labels]
    BY DEF Init, Labels
  <2>3. /\ file \in [Offsets -> ByteKinds]
        /\ rest \in [Workers -> [start : 0..Size, end : 0..Size]]
        /\ currPos \in [Workers -> 0..Size]
        /\ fed \in [Workers -> SUBSET (Offsets \X (0..Size))]
    BY DEF Init
  <2>. QED
    BY <2>1, <2>2, <2>3 DEF TypeOK, Trackers
<1>6. RangesDisjoint
  <2>. SUFFICES ASSUME NEW v \in Workers, NEW w \in Workers, v < w, NEW p \in Offsets,
                       Owns(v, p), Owns(w, p)
                PROVE  FALSE
    BY DEF RangesDisjoint, Workers
  <2>1. v <= NumChunks /\ w <= NumChunks
    BY <1>1, <1>2, ChunkFacts DEF Owns, Offsets, Workers
  <2>2. tracker[v].end <= tracker[w].start
    BY <1>2, <1>3, <2>1, ChunkFacts
  <2>3. tracker[v].end \in Int /\ tracker[w].start \in Int
    BY <1>4 DEF TrackersInOrder, InOrder, Trackers
  <2>. QED
    BY <2>2, <2>3 DEF Owns, Offsets
<1>7. RangesCover
  <2>. SUFFICES ASSUME NEW p \in Offsets PROVE \E w \in Workers : Owns(w, p)
    BY DEF RangesCover
  <2>1. PICK w \in 1..NumChunks : SplitRestriction(w).start <= p /\ p < SplitRestriction(w).end
    BY ChunkFacts
  <2>2. w \in Workers /\ w <= NumChunks
    BY ChunkFacts DEF Workers
  <2>. QED
    BY <1>2, <2>1, <2>2 DEF Owns
<1>8. UnbornIdle /\ OutputDropped /\ ClaimCurrent /\ FedClaimed
  BY <1>2 DEF Init, UnbornIdle, OutputDropped, ClaimCurrent, FedClaimed
<1>. QED
  BY <1>4, <1>5, <1>6, <1>7, <1>8 DEF IInv

(* A step that leaves every range as it is keeps the ranges a partition. *)
LEMMA SameRanges ==
  ASSUME RangesDisjoint, RangesCover,
         \A u \in Workers : /\ tracker'[u].start = tracker[u].start
                            /\ tracker'[u].end = tracker[u].end
  PROVE  RangesDisjoint' /\ RangesCover'
BY DEF RangesDisjoint, RangesCover, Owns

(* Replacing one tracker by another in good order. *)
LEMMA ReplaceTracker ==
  ASSUME TypeOK, TrackersInOrder, NEW w \in Workers, NEW t, InOrder(t),
         tracker' = [tracker EXCEPT ![w] = t]
  PROVE  /\ tracker' \in [Workers -> Trackers]
         /\ TrackersInOrder'
         /\ tracker'[w] = t
         /\ \A u \in Workers : u # w => tracker'[u] = tracker[u]
BY DEF TypeOK, Trackers, TrackersInOrder, InOrder

(* Opening a restriction changes no tracker. *)
LEMMA OpenInv == ASSUME IInv, NEW w \in Workers, Open(w) PROVE IInv'
<1>1. TypeOK'
  <2>1. tracker[w].start \in 0..Size /\ tracker[w].end \in 0..Size
    BY DEF IInv, TypeOK
  <2>2. rest' \in [Workers -> [start : 0..Size, end : 0..Size]]
    BY <2>1 DEF IInv, TypeOK, Open
  <2>3. currPos' \in [Workers -> 0..Size]
    BY <2>1 DEF IInv, TypeOK, Open
  <2>4. pc' \in [Workers -> Labels]
    BY DEF IInv, TypeOK, Open, Goto, Labels
  <2>. QED
    BY <2>2, <2>3, <2>4 DEF IInv, TypeOK, Open
<1>2. \A u \in Workers : pc'[u] = IF u = w THEN "opened" ELSE pc[u]
  BY DEF IInv, TypeOK, Open, Goto
<1>3. \A u \in Workers : u # w => currPos'[u] = currPos[u]
  BY DEF IInv, TypeOK, Open
<1>4. (RangesDisjoint /\ RangesCover /\ TrackersInOrder)'
  BY SameRanges DEF IInv, Open, TrackersInOrder
<1>5. (UnbornIdle /\ OutputDropped /\ ClaimCurrent /\ FedClaimed)'
  BY <1>2, <1>3 DEF IInv, Open, UnbornIdle, OutputDropped, ClaimCurrent, FedClaimed
<1>. QED
  BY <1>1, <1>4, <1>5 DEF IInv

(* Discarding the partial record changes no tracker. *)
LEMMA SyncInv == ASSUME IInv, NEW w \in Workers, Sync(w) PROVE IInv'
<1>. USE SizeAssumption
<1>1. currPos[w] \in 0..Size
  BY DEF IInv, TypeOK
<1>2. currPos' \in [Workers -> 0..Size] /\ \A u \in Workers : u # w => currPos'[u] = currPos[u]
  BY <1>1, ReadFacts DEF IInv, TypeOK, Sync
<1>3. \E l \in {"draining", "feed"} : pc' = [pc EXCEPT ![w] = l]
  BY DEF Sync, Goto
<1>4. pc' \in [Workers -> Labels]
  BY <1>3 DEF IInv, TypeOK, Labels
<1>5. pc'[w] \in {"draining", "feed"} /\ \A u \in Workers : u # w => pc'[u] = pc[u]
  BY <1>3 DEF IInv, TypeOK
<1>6. TypeOK'
  BY <1>2, <1>4 DEF IInv, TypeOK, Sync
<1>7. (RangesDisjoint /\ RangesCover /\ TrackersInOrder)'
  BY SameRanges DEF IInv, Sync, TrackersInOrder
<1>8. (UnbornIdle /\ OutputDropped /\ ClaimCurrent /\ FedClaimed)'
  BY <1>2, <1>5 DEF IInv, Sync, UnbornIdle, OutputDropped, ClaimCurrent, FedClaimed
<1>. QED
  BY <1>6, <1>7, <1>8 DEF IInv

(* A record is fed where the tracker has its claim. *)
LEMMA FeedInv == ASSUME IInv, NEW w \in Workers, Feed(w) PROVE IInv'
<1>. USE SizeAssumption
<1>. DEFINE p == currPos[w]
<1>1. p \in 0..Size /\ readRecordBytes(p) \in 0..Size
  BY ReadFacts DEF IInv, TypeOK
<1>2. /\ p = tracker[w].claimed /\ tracker[w].start <= p
      /\ p \in Offsets
  BY <1>1 DEF IInv, Feed, ClaimCurrent, TypeOK, Offsets
<1>3. \E l \in {"draining", "feed"} : pc' = [pc EXCEPT ![w] = l]
  BY DEF Feed, Goto
<1>4. pc' \in [Workers -> Labels]
  BY <1>3 DEF IInv, TypeOK, Labels
<1>5. pc'[w] \in {"draining", "feed"} /\ \A u \in Workers : u # w => pc'[u] = pc[u]
  BY <1>3 DEF IInv, TypeOK
<1>6. /\ fed' \in [Workers -> SUBSET (Offsets \X (0..Size))]
      /\ fed'[w] = fed[w] \cup {<<p, readRecordBytes(p)>>}
      /\ \A u \in Workers : u # w => fed'[u] = fed[u]
  BY <1>1, <1>2 DEF IInv, TypeOK, Feed
<1>7. /\ currPos' \in [Workers -> 0..Size]
      /\ \A u \in Workers : u # w => currPos'[u] = currPos[u]
  BY <1>1 DEF IInv, TypeOK, Feed
<1>8. TypeOK'
  BY <1>4, <1>6, <1>7 DEF IInv, TypeOK, Feed
<1>9. (RangesDisjoint /\ RangesCover /\ TrackersInOrder)'
  BY SameRanges DEF IInv, Feed, TrackersInOrder
<1>10. FedClaimed'
  <2>. SUFFICES ASSUME NEW u \in Workers, NEW r \in fed'[u]
                PROVE  tracker[u].start <= r[1] /\ r[1] <= tracker[u].claimed
    BY DEF FedClaimed, Feed
  <2>1. CASE r \in fed[u]
    BY <2>1 DEF IInv, FedClaimed
  <2>2. CASE r \notin fed[u]
    <3>1. u = w /\ r = <<p, readRecordBytes(p)>>
      BY <1>6, <2>2
    <3>. QED
      BY <1>1, <1>2, <3>1
  <2>. QED
    BY <2>1, <2>2
<1>11. (UnbornIdle /\ OutputDropped /\ ClaimCurrent)'
  BY <1>5, <1>6, <1>7 DEF IInv, Feed, UnbornIdle, OutputDropped, ClaimCurrent
<1>. QED
  BY <1>8, <1>9, <1>10, <1>11 DEF IInv

(* A claim stays in its range and above the records already fed. *)
LEMMA ClaimInv == ASSUME IInv, NEW w \in Workers, Claim(w) PROVE IInv'
<1>. USE SizeAssumption
<1>. DEFINE p == currPos[w]
           t == tracker[w]
<1>1. p \in 0..Size /\ t \in Trackers /\ InOrder(t)
  BY DEF IInv, TypeOK, Trackers, TrackersInOrder
<1>2. CASE p >= rest[w].end
  <2>1. pc' = [pc EXCEPT ![w] = "draining"] /\ UNCHANGED <<file, tracker, rest, currPos, fed>>
    BY <1>2 DEF Claim, Goto
  <2>2. pc' \in [Workers -> Labels] /\ pc'[w] = "draining" /\ \A u \in Workers : u # w => pc'[u] = pc[u]
    BY <2>1 DEF IInv, TypeOK, Labels
  <2>3. TypeOK'
    BY <2>1, <2>2 DEF IInv, TypeOK
  <2>4. (RangesDisjoint /\ RangesCover /\ TrackersInOrder)'
    BY <2>1, SameRanges DEF IInv, TrackersInOrder
  <2>5. (UnbornIdle /\ OutputDropped /\ ClaimCurrent /\ FedClaimed)'
    BY <2>1, <2>2 DEF IInv, UnbornIdle, OutputDropped, ClaimCurrent, FedClaimed
  <2>. QED
    BY <2>3, <2>4, <2>5 DEF IInv
<1>3. CASE ~(p >= rest[w].end)
  <2>1. /\ tracker' = [tracker EXCEPT ![w] = ClaimOffset(t, p)]
        /\ pc' = [pc EXCEPT ![w] = IF Claimable(t, p) THEN "claimed" ELSE "draining"]
        /\ UNCHANGED <<file, rest, currPos, fed>>
    BY <1>3 DEF Claim, Goto, IInv, TypeOK
  <2>2. /\ pc' \in [Workers -> Labels] /\ \A u \in Workers : u # w => pc'[u] = pc[u]
        /\ pc'[w] = IF Claimable(t, p) THEN "claimed" ELSE "draining"
    BY <2>1 DEF IInv, TypeOK, Labels
  <2>3. /\ InOrder(ClaimOffset(t, p))
        /\ ClaimOffset(t, p).start = t.start /\ ClaimOffset(t, p).end = t.end
        /\ t.claimed <= ClaimOffset(t, p).claimed
        /\ Claimable(t, p) => ClaimOffset(t, p).claimed = p /\ p >= t.start
    BY <1>1, ClaimFacts
  <2>4. /\ tracker' \in [Workers -> Trackers] /\ TrackersInOrder'
        /\ tracker'[w] = ClaimOffset(t, p)
        /\ \A u \in Workers : u # w => tracker'[u] = tracker[u]
    BY <2>1, <2>3, ReplaceTracker DEF IInv
  <2>5. TypeOK'
    BY <2>1, <2>2, <2>4 DEF IInv, TypeOK, Trackers
  <2>6. (RangesDisjoint /\ RangesCover)'
    BY <2>3, <2>4, SameRanges DEF IInv
  <2>7. FedClaimed'
    <3>. SUFFICES ASSUME NEW u \in Workers, NEW r \in fed[u]
                  PROVE  tracker'[u].start <= r[1] /\ r[1] <= tracker'[u].claimed
      BY <2>1 DEF FedClaimed
    <3>1. r[1] \in Int /\ tracker[u].start <= r[1] /\ r[1] <= tracker[u].claimed
      BY DEF IInv, FedClaimed, TypeOK, Offsets
    <3>2. CASE u = w
      <4>1. t.claimed \in Int /\ ClaimOffset(t, p).claimed \in Int
        BY <1>1, <2>3 DEF InOrder, Trackers
      <4>. QED
        BY <2>3, <2>4, <3>1, <3>2, <4>1
    <3>3. CASE u # w
      BY <2>4, <3>1, <3>3
    <3>. QED
      BY <3>2, <3>3
  <2>8. ClaimCurrent'
    BY <2>1, <2>2, <2>3, <2>4 DEF IInv, ClaimCurrent
  <2>9. (UnbornIdle /\ OutputDropped)'
    BY <2>1, <2>2, <2>4 DEF IInv, UnbornIdle, OutputDropped
  <2>. QED
    BY <2>4, <2>5, <2>6, <2>7, <2>8, <2>9 DEF IInv
<1>. QED
  BY <1>2, <1>3

(* Return and Fail both mark the tracker done; Fail also drops the output. *)
LEMMA DoneInv ==
  ASSUME IInv, NEW w \in Workers, NEW l \in {"done", "failed"},
         tracker' = [tracker EXCEPT ![w] = MarkDone(tracker[w])],
         pc' = [pc EXCEPT ![w] = l],
         (fed' = fed /\ l = "done") \/ fed' = [fed EXCEPT ![w] = {}],
         pc[w] # "unborn",
         UNCHANGED <<file, rest, currPos>>
  PROVE  IInv'
<1>1. tracker[w] \in Trackers /\ InOrder(tracker[w])
  BY DEF IInv, TypeOK, Trackers, TrackersInOrder
<1>2. /\ InOrder(MarkDone(tracker[w]))
      /\ MarkDone(tracker[w]).start = tracker[w].start
      /\ MarkDone(tracker[w]).end = tracker[w].end
      /\ MarkDone(tracker[w]).claimed = tracker[w].claimed
  BY <1>1, DoneFacts
<1>3. /\ tracker' \in [Workers -> Trackers] /\ TrackersInOrder'
      /\ tracker'[w] = MarkDone(tracker[w])
      /\ \A u \in Workers : u # w => tracker'[u] = tracker[u]
  BY <1>2, ReplaceTracker DEF IInv
<1>4. /\ pc' \in [Workers -> Labels] /\ pc'[w] = l
      /\ \A u \in Workers : u # w => pc'[u] = pc[u]
  BY DEF IInv, TypeOK, Labels
<1>5. /\ fed' \in [Workers -> SUBSET (Offsets \X (0..Size))]
      /\ \A u \in Workers : fed'[u] \subseteq fed[u]
      /\ l = "failed" => fed'[w] = {}
  BY DEF IInv, TypeOK
<1>6. TypeOK'
  BY <1>3, <1>4, <1>5 DEF IInv, TypeOK, Trackers
<1>7. (RangesDisjoint /\ RangesCover)'
  BY <1>2, <1>3, SameRanges DEF IInv
<1>8. (UnbornIdle /\ OutputDropped /\ ClaimCurrent /\ FedClaimed)'
  <2>1. UnbornIdle'
    BY <1>3, <1>4 DEF IInv, UnbornIdle
  <2>2. OutputDropped'
    BY <1>4, <1>5 DEF IInv, OutputDropped
  <2>3. ClaimCurrent'
    BY <1>3, <1>4 DEF IInv, ClaimCurrent
  <2>4. FedClaimed'
    BY <1>2, <1>3, <1>5 DEF IInv, FedClaimed
  <2>. QED
    BY <2>1, <2>2, <2>3, <2>4
<1>. QED
  BY <1>3, <1>6, <1>7, <1>8 DEF IInv

(* A retry starts over in the same range, with nothing fed. *)
LEMMA RetryInv == ASSUME IInv, NEW w \in Workers, Retry(w) PROVE IInv'
<1>. USE SizeAssumption
<1>. DEFINE t == tracker[w]
           n == NewByteOffsetTracker(t.start, t.end)
<1>1. InOrder(t) /\ t.start \in 0..Size /\ t.end \in 0..Size /\ t.start <= t.end
  BY DEF IInv, TypeOK, TrackersInOrder, InOrder
<1>2. InOrder(n) /\ n.start = t.start /\ n.end = t.end
  BY <1>1, NewTracker DEF NewByteOffsetTracker
<1>3. /\ tracker' = [tracker EXCEPT ![w] = n]
      /\ pc' = [pc EXCEPT ![w] = "queued"]
      /\ pc[w] = "failed"
      /\ UNCHANGED <<file, rest, currPos, fed>>
  BY DEF Retry, Goto
<1>4. /\ tracker' \in [Workers -> Trackers] /\ TrackersInOrder' /\ tracker'[w] = n
      /\ \A u \in Workers : u # w => tracker'[u] = tracker[u]
  BY <1>2, <1>3, ReplaceTracker DEF IInv
<1>5. /\ pc' \in [Workers -> Labels] /\ pc'[w] = "queued"
      /\ \A u \in Workers : u # w => pc'[u] = pc[u]
  BY <1>3 DEF IInv, TypeOK, Labels
<1>6. TypeOK'
  BY <1>3, <1>4, <1>5 DEF IInv, TypeOK, Trackers
<1>7. (RangesDisjoint /\ RangesCover)'
  BY <1>2, <1>4, SameRanges DEF IInv
<1>8. fed'[w] = {}
  BY <1>3 DEF IInv, OutputDropped
<1>9. (UnbornIdle /\ OutputDropped /\ ClaimCurrent /\ FedClaimed)'
  BY <1>3, <1>4, <1>5, <1>8 DEF IInv, UnbornIdle, OutputDropped, ClaimCurrent, FedClaimed
<1>. QED
  BY <1>4, <1>6, <1>7, <1>9 DEF IInv

(* What a split changes, in terms of the split point. *)
LEMMA SplitStep ==
  ASSUME IInv, NEW w \in Workers, NEW n \in Workers, w # n, TrySplit(w, n)
  PROVE  \E sp \in 0..Size :
           /\ tracker[w].start < sp /\ tracker[w].claimed < sp /\ sp < tracker[w].end
           /\ tracker[n].start = 0 /\ tracker[n].end = 0 /\ tracker[n].claimed = -1
           /\ tracker' \in [Workers -> Trackers]
           /\ TrackersInOrder'
           /\ tracker'[w].start = tracker[w].start /\ tracker'[w].end = sp
           /\ tracker'[w].claimed = tracker[w].claimed
           /\ tracker'[n].start = sp /\ tracker'[n].end = tracker[w].end
           /\ tracker'[n].claimed = sp - 1
           /\ \A u \in Workers : u # w /\ u # n => tracker'[u] = tracker[u]
<1>. USE SizeAssumption
<1>. DEFINE t == tracker[w]
<1>1. t \in Trackers /\ InOrder(t)
  BY DEF IInv, TypeOK, Trackers, TrackersInOrder
<1>2. PICK k \in 0..Remaining(t) :
        /\ Splittable(t, k)
        /\ tracker' = [tracker EXCEPT ![w] = Primary(t, k), ![n] = Residual(t, k)]
  BY DEF TrySplit
<1>3. tracker'[w] = Primary(t, k) /\ tracker'[n] = Residual(t, k)
      /\ \A u \in Workers : u # w /\ u # n => tracker'[u] = tracker[u]
  BY <1>2 DEF IInv, TypeOK
<1>4. /\ SplitPoint(t, k) \in 0..Size
      /\ t.start < SplitPoint(t, k) /\ t.claimed < SplitPoint(t, k) /\ SplitPoint(t, k) < t.end
      /\ InOrder(Primary(t, k)) /\ InOrder(Residual(t, k))
      /\ Primary(t, k).start = t.start
      /\ Primary(t, k).end = SplitPoint(t, k)
      /\ Primary(t, k).claimed = t.claimed
      /\ Residual(t, k).start = SplitPoint(t, k)
      /\ Residual(t, k).end = t.end
      /\ Residual(t, k).claimed = SplitPoint(t, k) - 1
  BY <1>1, <1>2, SplitFacts
<1>5. tracker[n].start = 0 /\ tracker[n].end = 0 /\ tracker[n].claimed = -1
  BY DEF IInv, UnbornIdle, TrySplit, Idle, NewByteOffsetTracker
<1>6. TrackersInOrder'
  BY <1>3, <1>4 DEF IInv, TrackersInOrder
<1>7. tracker' \in [Workers -> Trackers]
  BY <1>2, <1>4 DEF IInv, TypeOK, InOrder, Trackers
<1>. QED
  BY <1>3, <1>4, <1>5, <1>6, <1>7

(* A split keeps the ranges a partition and the claim in the primary. *)
LEMMA SplitInv ==
  ASSUME IInv, NEW w \in Workers, NEW n \in Workers, w # n, TrySplit(w, n)
  PROVE  IInv'
<1>. USE SizeAssumption
<1>1. PICK sp \in 0..Size :
           /\ tracker[w].start < sp /\ tracker[w].claimed < sp /\ sp < tracker[w].end
           /\ tracker[n].start = 0 /\ tracker[n].end = 0 /\ tracker[n].claimed = -1
           /\ tracker' \in [Workers -> Trackers]
           /\ TrackersInOrder'
           /\ tracker'[w].start = tracker[w].start /\ tracker'[w].end = sp
           /\ tracker'[w].claimed = tracker[w].claimed
           /\ tracker'[n].start = sp /\ tracker'[n].end = tracker[w].end
           /\ tracker'[n].claimed = sp - 1
           /\ \A u \in Workers : u # w /\ u # n => tracker'[u] = tracker[u]
  BY SplitStep
<1>2. /\ pc' = [pc EXCEPT ![n] = "queued"] /\ pc[n] = "unborn" /\ pc[w] # "unborn"
      /\ UNCHANGED <<file, rest, currPos, fed>>
  BY DEF TrySplit, Goto, Running
<1>3. /\ pc' \in [Workers -> Labels] /\ pc'[n] = "queued"
      /\ \A u \in Workers : u # n => pc'[u] = pc[u]
  BY <1>2 DEF IInv, TypeOK, Labels
<1>4. TypeOK'
  BY <1>1, <1>2, <1>3 DEF IInv, TypeOK, Trackers
<1>5. \A u \in Workers : tracker[u].start \in Int /\ tracker[u].end \in Int
  BY DEF IInv, TypeOK
<1>6. \A p \in Offsets :
        /\ Owns(w, p)' => Owns(w, p) /\ p < sp
        /\ Owns(n, p)' => Owns(w, p) /\ sp <= p
        /\ Owns(w, p) => Owns(w, p)' \/ Owns(n, p)'
        /\ ~Owns(n, p)
        /\ \A u \in Workers : u # w /\ u # n => (Owns(u, p)' <=> Owns(u, p))
  BY <1>1, <1>5 DEF Owns, Offsets
<1>7. RangesDisjoint'
  <2>. SUFFICES ASSUME NEW u \in Workers, NEW v \in Workers, u # v, NEW p \in Offsets,
                       Owns(u, p)', Owns(v, p)'
                PROVE  FALSE
    BY DEF RangesDisjoint
  <2>. QED
    BY <1>6 DEF IInv, RangesDisjoint, Offsets
<1>8. RangesCover'
  BY <1>6 DEF IInv, RangesCover
<1>9. fed[n] = {}
  <2>. SUFFICES ASSUME NEW r \in fed[n] PROVE FALSE
    BY DEF IInv, TypeOK
  <2>1. tracker[n].start <= r[1] /\ r[1] <= tracker[n].claimed /\ r[1] \in Int
    BY DEF IInv, FedClaimed, TypeOK, Offsets
  <2>. QED
    BY <1>1, <2>1
<1>10. FedClaimed'
  BY <1>1, <1>2, <1>9 DEF IInv, FedClaimed
<1>11. (UnbornIdle /\ OutputDropped /\ ClaimCurrent)'
  BY <1>1, <1>2, <1>3 DEF IInv, UnbornIdle, OutputDropped, ClaimCurrent
<1>. QED
  BY <1>1, <1>4, <1>7, <1>8, <1>10, <1>11 DEF IInv

-----------------------------------------------------------------------------
(* The invariant is inductive: one step for each action. *)
LEMMA Inductive == IInv /\ [Next]_vars => IInv'
<1>. SUFFICES ASSUME IInv, [Next]_vars PROVE IInv'
  OBVIOUS
<1>1. ASSUME NEW w \in Workers, Return(w) PROVE IInv'
  BY <1>1, DoneInv DEF Return, Goto
<1>2. ASSUME NEW w \in Workers, Fail(w) PROVE IInv'
  BY <1>2, DoneInv DEF Fail, Goto, Running
<1>3. CASE UNCHANGED vars
  BY <1>3 DEF vars, IInv, TypeOK, TrackersInOrder, RangesDisjoint, RangesCover, Owns,
              UnbornIdle, OutputDropped, ClaimCurrent, FedClaimed
<1>. QED
  BY <1>1, <1>2, <1>3, OpenInv, SyncInv, ClaimInv, FeedInv, RetryInv, SplitInv
     DEF Next, Terminated

(* The invariant holds in every reachable state. *)
LEMMA Invariance == Spec => []IInv
BY Initial, Inductive, PTL DEF Spec

(* The types hold for every file, chunk size and number of restrictions;   *)
(* in particular no tracker ever reaches past the file.                    *)
THEOREM TypeCorrect == Spec => []TypeOK
BY Invariance, PTL DEF IInv

(* Fed records begin at claimed offsets of disjoint ranges. *)
LEMMA NoDuplicateFromInv == IInv => NoDuplicateRecords
<1>. SUFFICES ASSUME IInv, NEW v \in Workers, NEW w \in Workers, v # w,
                     NEW q \in fed[v], NEW r \in fed[w], q[1] = r[1]
              PROVE  FALSE
  BY DEF NoDuplicateRecords
<1>1. q[1] \in Offsets
  BY DEF IInv, TypeOK
<1>2. tracker[v].claimed < tracker[v].end /\ tracker[w].claimed < tracker[w].end
  BY DEF IInv, TrackersInOrder, InOrder
<1>3. /\ tracker[v].claimed \in Int /\ tracker[v].end \in Int
      /\ tracker[w].claimed \in Int /\ tracker[w].end \in Int
  BY DEF IInv, TypeOK
<1>4. Owns(v, q[1]) /\ Owns(w, q[1])
  BY <1>1, <1>2, <1>3 DEF IInv, FedClaimed, Owns, Offsets
<1>. QED
  BY <1>1, <1>4 DEF IInv, RangesDisjoint

(* No interleaving of chunk workers, claims, dynamic splits, failures and  *)
(* retries reads a record twice (ClaimOffset, TrySplit, ProcessElement).   *)
THEOREM NeverReadTwice == Spec => []NoDuplicateRecords
BY Invariance, NoDuplicateFromInv, PTL

-----------------------------------------------------------------------------
(* What is read, when every newline ends a record (Multiline is FALSE).    *)

(* A record of the file begins at p, or the file ends there. *)
AtRecord(p) == p = 0 \/ p = Size \/ file[p - 1] = "newline"

(* The record starts restriction w answers for: not its own first byte,    *)
(* unless that is the file's.                                              *)
Due(w, s) == s > tracker[w].start \/ (s = 0 /\ tracker[w].start = 0)
FedBy(w, s) == \E r \in fed[w] : r[1] = s

(* ProcessElement's copy of the range is never shorter than the range. *)
Copied(w) == Running(w) => rest[w].start = tracker[w].start /\ tracker[w].end <= rest[w].end

(* Before the first claim nothing is fed, and nobody stops the tracker     *)
(* under a feeder.                                                         *)
Fresh(w) ==
  /\ pc[w] \in {"queued", "opened"} => tracker[w].claimed = tracker[w].start - 1 /\ fed[w] = {}
  /\ pc[w] = "opened" => currPos[w] = tracker[w].start
  /\ pc[w] \in {"queued", "opened", "feed", "claimed"} => ~tracker[w].stopped

(* The feeder stands at a record, above its claim. *)
Aligned(w) ==
  /\ pc[w] \in {"feed", "claimed"} => AtRecord(currPos[w])
  /\ pc[w] = "feed" => currPos[w] > tracker[w].claimed /\ currPos[w] >= tracker[w].start

FedWhole(w) == \A r \in fed[w] : AtRecord(r[1]) /\ r[2] = readRecordBytes(r[1])

(* All that is due below the feeder's position has been fed; all that is   *)
(* due in the range, once the feeder has ended.                            *)
ReadSoFar(w) ==
  pc[w] \in {"feed", "claimed"} =>
    \A s \in Offsets : AtRecord(s) /\ Due(w, s) /\ s < currPos[w] => FedBy(w, s)
ReadAll(w) ==
  pc[w] \in {"draining", "done"} =>
    \A s \in Offsets : AtRecord(s) /\ Due(w, s) /\ s < tracker[w].end => FedBy(w, s)

LineOK(w) == Copied(w) /\ Fresh(w) /\ Aligned(w) /\ FedWhole(w) /\ ReadSoFar(w) /\ ReadAll(w)
LineInv == \A w \in Workers : LineOK(w)

(* A newline at or after p means a first one. *)
LEMMA FirstNewline ==
  ASSUME ~Multiline, NEW p \in 0..Size, HitsEOF(p)
  PROVE  \A q \in p..(Size - 1) : file[q] # "newline"
<1>. USE SizeAssumption
<1>. DEFINE S == {q \in p..(Size - 1) : file[q] = "newline"}
            R == {ss \in Nat \X Nat : ss[1] < ss[2]}
<1>. SUFFICES ASSUME S # {} PROVE FALSE
  OBVIOUS
<1>1. IsWellFoundedOn(R, Nat)
  BY NatLessThanWellFounded DEF OpToRel
<1>2. S \subseteq Nat
  OBVIOUS
<1>3. PICK a \in S : TRUE
  OBVIOUS
<1>4. \E m \in S : \A y \in S : <<y, m>> \notin R
  <2>. HIDE DEF S, R
  <2>. QED
    BY <1>1, <1>2, <1>3, WFMin
<1>5. PICK m \in S : \A y \in S : ~(y < m)
  BY <1>2, <1>4
<1>6. m \in p..(Size - 1) /\ file[m] = "newline" /\ \A r \in p..(m - 1) : file[r] # "newline"
  BY <1>2, <1>5
<1>7. FirstBreak(p, m)
  BY <1>6 DEF FirstBreak, Breaks
<1>. QED
  BY <1>6, <1>7 DEF HitsEOF

(* Reading a record moves from a position to the next record: none is      *)
(* jumped over.                                                            *)
LEMMA ReadToNext ==
  ASSUME ~Multiline, NEW p \in 0..Size
  PROVE  /\ readRecordBytes(p) \in 0..Size
         /\ p <= readRecordBytes(p)
         /\ p < Size => p < readRecordBytes(p)
         /\ AtRecord(readRecordBytes(p))
         /\ HitsEOF(p) => readRecordBytes(p) = Size
         /\ \A s \in Offsets : p < s /\ s < readRecordBytes(p) => ~AtRecord(s)
<1>. USE SizeAssumption
<1>1. CASE HitsEOF(p)
  <2>1. readRecordBytes(p) = Size
    BY <1>1 DEF readRecordBytes
  <2>2. ASSUME NEW s \in Offsets, p < s PROVE ~AtRecord(s)
    <3>1. s - 1 \in p..(Size - 1) /\ s # 0 /\ s # Size
      BY <2>2 DEF Offsets
    <3>. QED
      BY <1>1, <3>1, FirstNewline DEF AtRecord
  <2>. QED
    BY <2>1, <2>2 DEF AtRecord
<1>2. CASE ~HitsEOF(p)
  <2>. DEFINE q == CHOOSE r \in p..(Size - 1) : FirstBreak(p, r)
  <2>1. q \in p..(Size - 1) /\ FirstBreak(p, q)
    BY <1>2 DEF HitsEOF
  <2>2. readRecordBytes(p) = q + 1
    BY <1>2 DEF readRecordBytes
  <2>. HIDE DEF q
  <2>3. file[q] = "newline" /\ \A r \in p..(q - 1) : file[r] # "newline"
    BY <2>1 DEF FirstBreak, Breaks
  <2>4. ASSUME NEW s \in Offsets, p < s, s < q + 1 PROVE ~AtRecord(s)
    <3>1. s - 1 \in p..(q - 1) /\ s # 0 /\ s # Size
      BY <2>1, <2>4 DEF Offsets
    <3>. QED
      BY <2>3, <3>1 DEF AtRecord
  <2>5. q + 1 \in 1..Size /\ p < q + 1 /\ (q + 1) - 1 = q
    BY <2>1
  <2>6. AtRecord(q + 1)
    BY <2>3, <2>5 DEF AtRecord
  <2>. QED
    BY <1>2, <2>2, <2>4, <2>5, <2>6
<1>. QED
  BY <1>1, <1>2

(* The file, and so the records in it, never change. *)
LEMMA SameRecords ==
  ASSUME file' = file, NEW p
  PROVE  readRecordBytes(p)' = readRecordBytes(p)
BY DEF readRecordBytes, HitsEOF, FirstBreak, Breaks, Quotes

(* The restrictions an action does not touch stay as they are. *)
LEMMA LineElsewhere ==
  ASSUME NEW u \in Workers, LineOK(u), file' = file, tracker'[u] = tracker[u], pc'[u] = pc[u],
         rest'[u] = rest[u], currPos'[u] = currPos[u], fed'[u] = fed[u]
  PROVE  LineOK(u)'
<1>1. \A s : AtRecord(s)' <=> AtRecord(s)
  BY DEF AtRecord
<1>2. FedWhole(u)'
  BY <1>1, SameRecords DEF LineOK, FedWhole
<1>3. (Copied(u) /\ Fresh(u) /\ Aligned(u))'
  BY <1>1 DEF LineOK, Copied, Fresh, Aligned, Running
<1>4. (ReadSoFar(u) /\ ReadAll(u))'
  BY <1>1 DEF LineOK, ReadSoFar, ReadAll, Due, FedBy
<1>. QED
  BY <1>2, <1>3, <1>4 DEF LineOK

LEMMA LineInitial == Init => LineInv
<1>. SUFFICES ASSUME Init, NEW w \in Workers PROVE LineOK(w)
  BY DEF LineInv
<1>1. pc[w] \in {"queued", "unborn"} /\ fed[w] = {}
  BY DEF Init
<1>2. \E a, b : tracker[w] = NewByteOffsetTracker(a, b)
  BY DEF Init, SplitRestriction, Idle
<1>3. tracker[w].claimed = tracker[w].start - 1 /\ ~tracker[w].stopped
  BY <1>2 DEF NewByteOffsetTracker
<1>. QED
  BY <1>1, <1>3 DEF LineOK, Copied, Fresh, Aligned, FedWhole, ReadSoFar, ReadAll, Running

(* Opening reads the range from the tracker. *)
LEMMA LineOpen == ASSUME IInv, LineInv, NEW w \in Workers, Open(w) PROVE LineInv'
<1>1. /\ pc'[w] = "opened" /\ rest'[w].start = tracker[w].start /\ rest'[w].end = tracker[w].end
      /\ currPos'[w] = tracker[w].start /\ tracker' = tracker /\ fed' = fed /\ file' = file
      /\ pc[w] = "queued"
  BY DEF IInv, TypeOK, Open, Goto
<1>2. \A u \in Workers : u # w => pc'[u] = pc[u] /\ rest'[u] = rest[u] /\ currPos'[u] = currPos[u]
  BY DEF IInv, TypeOK, Open, Goto
<1>3. tracker[w].end \in Int
  BY DEF IInv, TypeOK
<1>4. LineOK(w)
  BY DEF LineInv
<1>5. LineOK(w)'
  BY <1>1, <1>3, <1>4 DEF LineOK, Copied, Fresh, Aligned, FedWhole, ReadSoFar, ReadAll, Running
<1>. QED
  BY <1>1, <1>2, <1>5, LineElsewhere DEF LineInv

(* Discarding a partial record ends at the next record of the file. *)
LEMMA LineSync == ASSUME ~Multiline, IInv, LineInv, NEW w \in Workers, Sync(w) PROVE LineInv'
<1>. USE SizeAssumption
<1>. DEFINE a == tracker[w].start
            c == currPos'[w]
<1>1. /\ pc[w] = "opened" /\ tracker' = tracker /\ fed' = fed /\ file' = file /\ rest' = rest
  BY DEF Sync
<1>2. \A u \in Workers : u # w => pc'[u] = pc[u] /\ currPos'[u] = currPos[u]
  BY DEF IInv, TypeOK, Sync, Goto
<1>3. /\ a \in 0..Size /\ tracker[w].end \in 0..Size /\ rest[w].end \in 0..Size
      /\ rest[w].start = a /\ currPos[w] = a /\ tracker[w].end <= rest[w].end
      /\ tracker[w].claimed = a - 1 /\ ~tracker[w].stopped /\ fed[w] = {}
  BY <1>1 DEF IInv, TypeOK, LineInv, LineOK, Copied, Fresh, Running
<1>4. /\ a > 0 => c = readRecordBytes(a) /\ pc'[w] = IF c >= rest[w].end THEN "draining" ELSE "feed"
      /\ a = 0 => c = 0 /\ pc'[w] = "feed"
  BY <1>1, <1>3 DEF IInv, TypeOK, Sync, Goto
<1>5. \A s : AtRecord(s)' <=> AtRecord(s)
  BY <1>1 DEF AtRecord
<1>6. /\ c \in 0..Size /\ a <= c /\ AtRecord(c)
      /\ \A s \in Offsets : a < s /\ s < c => ~AtRecord(s)
      /\ pc'[w] \in {"draining", "feed"}
      /\ pc'[w] = "draining" => c >= rest[w].end
  <2>1. CASE a = 0
    BY <1>4, <2>1 DEF AtRecord, Offsets
  <2>2. CASE a > 0
    BY <1>3, <1>4, <2>2, ReadToNext
  <2>. QED
    BY <1>3, <2>1, <2>2
<1>. HIDE DEF c
<1>7. Copied(w)' /\ Fresh(w)' /\ FedWhole(w)'
  BY <1>1, <1>3, <1>6 DEF Copied, Fresh, FedWhole, Running
<1>8. Aligned(w)'
  BY <1>1, <1>3, <1>5, <1>6 DEF Aligned, c
<1>9. \A s \in Offsets : AtRecord(s) /\ Due(w, s) => ~(s < c)
  BY <1>3, <1>4, <1>6 DEF Due, Offsets
<1>10. ReadSoFar(w)' /\ ReadAll(w)'
  <2>1. \A s : Due(w, s)' <=> Due(w, s)
    BY <1>1 DEF Due
  <2>2. ReadSoFar(w)'
    BY <1>5, <1>9, <2>1 DEF ReadSoFar, c
  <2>3. \A s \in Offsets : pc'[w] = "draining" /\ s < tracker[w].end => s < c
    BY <1>3, <1>6 DEF Offsets
  <2>4. ReadAll(w)'
    BY <1>1, <1>5, <1>6, <1>9, <2>1, <2>3 DEF ReadAll
  <2>. QED
    BY <2>2, <2>4
<1>11. LineOK(w)'
  BY <1>7, <1>8, <1>10 DEF LineOK
<1>. QED
  BY <1>1, <1>2, <1>11, LineElsewhere DEF LineInv

(* A refused claim means that the feeder has reached the end of the range. *)
LEMMA LineClaim == ASSUME IInv, LineInv, NEW w \in Workers, Claim(w) PROVE LineInv'
<1>. USE SizeAssumption
<1>. DEFINE t == tracker[w]
            p == currPos[w]
<1>1. pc[w] = "feed" /\ fed' = fed /\ file' = file /\ rest' = rest /\ currPos' = currPos
  BY DEF Claim
<1>2. \A u \in Workers : u # w => pc'[u] = pc[u] /\ tracker'[u] = tracker[u]
  BY DEF IInv, TypeOK, Claim, Goto
<1>3. /\ t \in Trackers /\ InOrder(t) /\ p \in 0..Size
      /\ t.start \in Int /\ t.end \in Int /\ t.claimed \in Int /\ rest[w].end \in Int
  BY DEF IInv, TypeOK, Trackers, TrackersInOrder
<1>4. /\ ~t.stopped /\ p > t.claimed /\ p >= t.start /\ AtRecord(p)
      /\ rest[w].start = t.start /\ t.end <= rest[w].end /\ FedWhole(w)
      /\ \A s \in Offsets : AtRecord(s) /\ Due(w, s) /\ s < p => FedBy(w, s)
  BY <1>1 DEF LineInv, LineOK, Copied, Fresh, Aligned, ReadSoFar, Running
<1>5. \/ /\ pc'[w] = "draining" /\ p >= t.end
         /\ tracker'[w].start = t.start /\ tracker'[w].end = t.end
      \/ /\ pc'[w] = "claimed" /\ ~tracker'[w].stopped
         /\ tracker'[w].start = t.start /\ tracker'[w].end = t.end
  <2>1. CASE p >= rest[w].end
    BY <1>3, <1>4, <2>1 DEF Claim, Goto, IInv, TypeOK
  <2>2. CASE ~(p >= rest[w].end)
    <3>1. /\ tracker'[w] = ClaimOffset(t, p)
          /\ pc'[w] = IF Claimable(t, p) THEN "claimed" ELSE "draining"
      BY <2>2 DEF Claim, Goto, IInv, TypeOK
    <3>2. ClaimOffset(t, p).start = t.start /\ ClaimOffset(t, p).end = t.end
      BY <1>3, ClaimFacts
    <3>3. CASE Claimable(t, p)
      <4>1. ClaimOffset(t, p) = [t EXCEPT !.claimed = p]
        BY <3>3 DEF ClaimOffset
      <4>2. ClaimOffset(t, p).stopped = t.stopped
        BY <1>3, <4>1 DEF Trackers
      <4>. QED
        BY <1>4, <3>1, <3>2, <3>3, <4>2
    <3>4. CASE ~Claimable(t, p)
      <4>1. p >= t.end
        BY <1>3, <1>4, <3>4 DEF Claimable
      <4>. QED
        BY <3>1, <3>2, <3>4, <4>1
    <3>. QED
      BY <3>3, <3>4
  <2>. QED
    BY <2>1, <2>2
<1>6. \A s : (AtRecord(s)' <=> AtRecord(s)) /\ (Due(w, s)' <=> Due(w, s))
  BY <1>1, <1>5 DEF AtRecord, Due
<1>. HIDE DEF p, t
<1>7. Copied(w)' /\ Fresh(w)'
  BY <1>1, <1>4, <1>5 DEF Copied, Fresh, Running
<1>8. FedWhole(w)' /\ Aligned(w)'
  BY <1>1, <1>4, <1>5, <1>6, SameRecords DEF FedWhole, Aligned, p
<1>9. ReadSoFar(w)'
  BY <1>1, <1>4, <1>5, <1>6 DEF ReadSoFar, FedBy, p
<1>10. ReadAll(w)'
  <2>1. \A s \in Offsets : pc'[w] \in {"draining", "done"} /\ s < tracker'[w].end => s < p
    BY <1>3, <1>5 DEF Offsets
  <2>. QED
    BY <1>1, <1>4, <1>6, <2>1 DEF ReadAll, FedBy
<1>11. LineOK(w)'
  BY <1>7, <1>8, <1>9, <1>10 DEF LineOK
<1>. QED
  BY <1>1, <1>2, <1>11, LineElsewhere DEF LineInv

(* Feeding a record moves on to the next one, or ends with the file. *)
LEMMA LineFeed == ASSUME ~Multiline, IInv, LineInv, NEW w \in Workers, Feed(w) PROVE LineInv'
<1>. USE SizeAssumption
<1>. DEFINE p == currPos[w]
            q == readRecordBytes(p)
<1>1. pc[w] = "claimed" /\ tracker' = tracker /\ file' = file /\ rest' = rest
  BY DEF Feed
<1>2. \A u \in Workers : u # w => pc'[u] = pc[u] /\ currPos'[u] = currPos[u] /\ fed'[u] = fed[u]
  BY DEF IInv, TypeOK, Feed, Goto
<1>3. /\ pc'[w] = IF HitsEOF(p) THEN "draining" ELSE "feed"
      /\ currPos'[w] = q /\ fed'[w] = fed[w] \cup {<<p, q>>}
  BY DEF IInv, TypeOK, Feed, Goto
<1>4. /\ tracker[w].start \in 0..Size /\ tracker[w].end \in 0..Size
      /\ p \in 0..Size /\ p = tracker[w].claimed /\ tracker[w].start <= p /\ p < Size
  <2>1. p = tracker[w].claimed /\ tracker[w].start <= p
    BY <1>1 DEF IInv, ClaimCurrent
  <2>2. /\ tracker[w].start \in 0..Size /\ tracker[w].end \in 0..Size
        /\ tracker[w].claimed \in (-1)..(Size - 1) /\ p \in 0..Size
    BY DEF IInv, TypeOK
  <2>. QED
    BY <2>1, <2>2
<1>5. /\ ~tracker[w].stopped /\ AtRecord(p)
      /\ rest[w].start = tracker[w].start /\ tracker[w].end <= rest[w].end /\ FedWhole(w)
      /\ \A s \in Offsets : AtRecord(s) /\ Due(w, s) /\ s < p => FedBy(w, s)
  BY <1>1 DEF LineInv, LineOK, Copied, Fresh, Aligned, ReadSoFar, Running
<1>6. /\ q \in 0..Size /\ p < q /\ AtRecord(q) /\ (HitsEOF(p) => q = Size)
      /\ \A s \in Offsets : p < s /\ s < q => ~AtRecord(s)
  BY <1>4, ReadToNext
<1>7. \A s : (AtRecord(s)' <=> AtRecord(s)) /\ (Due(w, s)' <=> Due(w, s))
  BY <1>1 DEF AtRecord, Due
<1>8. FedWhole(w)'
  <2>. SUFFICES ASSUME NEW r \in fed'[w] PROVE AtRecord(r[1]) /\ r[2] = readRecordBytes(r[1])
    BY <1>1, <1>7, SameRecords DEF FedWhole
  <2>1. CASE r \in fed[w]
    BY <1>5, <2>1 DEF FedWhole
  <2>2. CASE r = <<p, q>>
    BY <1>5, <2>2
  <2>. QED
    BY <1>3, <2>1, <2>2
<1>. HIDE DEF p, q
<1>9. \A s \in Offsets : AtRecord(s) /\ Due(w, s) /\ s < q => FedBy(w, s)'
  <2>. SUFFICES ASSUME NEW s \in Offsets, AtRecord(s), Due(w, s), s < q PROVE FedBy(w, s)'
    OBVIOUS
  <2>1. s < p \/ s = p
    BY <1>4, <1>6 DEF Offsets
  <2>2. CASE s < p
    BY <1>3, <1>5, <2>2 DEF FedBy
  <2>3. CASE s = p
    <3>1. <<p, q>> \in fed'[w] /\ <<p, q>>[1] = p
      BY <1>3
    <3>. QED
      BY <2>3, <3>1 DEF FedBy
  <2>. QED
    BY <2>1, <2>2, <2>3
<1>10. Copied(w)' /\ Fresh(w)'
  BY <1>1, <1>3, <1>5 DEF Copied, Fresh, Running
<1>11. Aligned(w)'
  BY <1>1, <1>3, <1>4, <1>6, <1>7 DEF Aligned
<1>12. ReadSoFar(w)'
  BY <1>3, <1>7, <1>9 DEF ReadSoFar
<1>13. ReadAll(w)'
  <2>1. \A s \in Offsets : pc'[w] \in {"draining", "done"} => s < q
    BY <1>3, <1>6 DEF Offsets
  <2>. QED
    BY <1>1, <1>7, <1>9, <2>1 DEF ReadAll
<1>14. LineOK(w)'
  BY <1>8, <1>10, <1>11, <1>12, <1>13 DEF LineOK
<1>. QED
  BY <1>1, <1>2, <1>14, LineElsewhere DEF LineInv

(* What was read stays read when ProcessElement returns. *)
LEMMA LineReturn == ASSUME IInv, LineInv, NEW w \in Workers, Return(w) PROVE LineInv'
<1>1. /\ pc[w] = "draining" /\ pc'[w] = "done" /\ tracker'[w] = MarkDone(tracker[w])
      /\ fed' = fed /\ file' = file /\ rest' = rest /\ currPos' = currPos
      /\ \A u \in Workers : u # w => pc'[u] = pc[u] /\ tracker'[u] = tracker[u]
  BY DEF IInv, TypeOK, Return, Goto
<1>2. tracker[w] \in Trackers /\ InOrder(tracker[w])
  BY DEF IInv, TypeOK, Trackers, TrackersInOrder
<1>3. tracker'[w].start = tracker[w].start /\ tracker'[w].end = tracker[w].end
  BY <1>1, <1>2, DoneFacts
<1>4. \A s : (AtRecord(s)' <=> AtRecord(s)) /\ (Due(w, s)' <=> Due(w, s))
  BY <1>1, <1>3 DEF AtRecord, Due
<1>5. FedWhole(w)'
  BY <1>1, <1>4, SameRecords DEF LineInv, LineOK, FedWhole
<1>6. (Copied(w) /\ Fresh(w) /\ Aligned(w) /\ ReadSoFar(w))'
  BY <1>1 DEF Copied, Fresh, Aligned, ReadSoFar, Running
<1>7. ReadAll(w)'
  BY <1>1, <1>3, <1>4 DEF LineInv, LineOK, ReadAll, FedBy
<1>8. LineOK(w)'
  BY <1>5, <1>6, <1>7 DEF LineOK
<1>. QED
  BY <1>1, <1>8, LineElsewhere DEF LineInv

(* A failed attempt leaves nothing behind. *)
LEMMA LineFail == ASSUME IInv, LineInv, NEW w \in Workers, Fail(w) PROVE LineInv'
<1>1. /\ pc'[w] = "failed" /\ fed'[w] = {} /\ file' = file /\ rest' = rest /\ currPos' = currPos
      /\ \A u \in Workers : u # w => pc'[u] = pc[u] /\ tracker'[u] = tracker[u] /\ fed'[u] = fed[u]
  BY DEF IInv, TypeOK, Fail, Goto
<1>2. LineOK(w)'
  BY <1>1 DEF LineOK, Copied, Fresh, Aligned, FedWhole, ReadSoFar, ReadAll, Running
<1>. QED
  BY <1>1, <1>2, LineElsewhere DEF LineInv

(* A retry starts from a new tracker. *)
LEMMA LineRetry == ASSUME IInv, LineInv, NEW w \in Workers, Retry(w) PROVE LineInv'
<1>1. /\ pc[w] = "failed" /\ pc'[w] = "queued"
      /\ tracker'[w] = NewByteOffsetTracker(tracker[w].start, tracker[w].end)
      /\ fed' = fed /\ file' = file /\ rest' = rest /\ currPos' = currPos
      /\ \A u \in Workers : u # w => pc'[u] = pc[u] /\ tracker'[u] = tracker[u]
  BY DEF IInv, TypeOK, Retry, Goto
<1>2. fed'[w] = {}
  BY <1>1 DEF IInv, OutputDropped
<1>3. tracker'[w].claimed = tracker'[w].start - 1 /\ ~tracker'[w].stopped
  BY <1>1 DEF NewByteOffsetTracker
<1>4. LineOK(w)'
  BY <1>1, <1>2, <1>3 DEF LineOK, Copied, Fresh, Aligned, FedWhole, ReadSoFar, ReadAll, Running
<1>. QED
  BY <1>1, <1>4, LineElsewhere DEF LineInv

(* A split takes bytes off the end of the range, and gives them to a       *)
(* restriction that has not begun.                                         *)
LEMMA LineSplit ==
  ASSUME IInv, LineInv, NEW w \in Workers, NEW n \in Workers, w # n, TrySplit(w, n)
  PROVE  LineInv'
<1>. USE SizeAssumption
<1>. DEFINE t == tracker[w]
<1>1. PICK k \in 0..Remaining(t) :
        /\ Splittable(t, k)
        /\ tracker' = [tracker EXCEPT ![w] = Primary(t, k), ![n] = Residual(t, k)]
  BY DEF TrySplit
<1>2. /\ tracker'[w] = Primary(t, k) /\ tracker'[n] = Residual(t, k)
      /\ \A u \in Workers : u # w /\ u # n => tracker'[u] = tracker[u]
  BY <1>1 DEF IInv, TypeOK
<1>3. /\ pc'[n] = "queued" /\ pc[n] = "unborn" /\ \A u \in Workers : u # n => pc'[u] = pc[u]
      /\ file' = file /\ rest' = rest /\ currPos' = currPos /\ fed' = fed
  BY DEF IInv, TypeOK, TrySplit, Goto
<1>4. t \in Trackers /\ InOrder(t)
  BY DEF IInv, TypeOK, Trackers, TrackersInOrder
<1>5. /\ tracker'[w].start = t.start /\ tracker'[w].end < t.end
      /\ tracker'[w].claimed = t.claimed
      /\ tracker'[w].end \in Int /\ t.end \in Int
  BY <1>1, <1>2, <1>4, SplitFacts DEF Trackers
<1>6. tracker'[w].stopped = t.stopped
  BY <1>2, <1>4 DEF Primary, Trackers
<1>7. tracker'[n].claimed = tracker'[n].start - 1 /\ ~tracker'[n].stopped
  BY <1>2 DEF Residual, NewByteOffsetTracker
<1>8. fed[n] = {}
  <2>. SUFFICES ASSUME NEW r \in fed[n] PROVE FALSE
    BY DEF IInv, TypeOK
  <2>1. tracker[n].start <= r[1] /\ r[1] <= tracker[n].claimed /\ r[1] \in Int
    BY DEF IInv, FedClaimed, TypeOK, Offsets
  <2>2. tracker[n].start = 0 /\ tracker[n].claimed = 0 - 1
    BY <1>3 DEF IInv, UnbornIdle, Idle, NewByteOffsetTracker
  <2>. QED
    BY <2>1, <2>2
<1>9. LineOK(n)'
  BY <1>3, <1>7, <1>8 DEF LineOK, Copied, Fresh, Aligned, FedWhole, ReadSoFar, ReadAll, Running
<1>10. LineOK(w)'
  <2>1. \A s : (AtRecord(s)' <=> AtRecord(s)) /\ (Due(w, s)' <=> Due(w, s))
    BY <1>3, <1>5 DEF AtRecord, Due
  <2>2. LineOK(w)
    BY DEF LineInv
  <2>. HIDE DEF t
  <2>3. Copied(w)'
    <3>1. rest[w].end \in Int
      BY DEF IInv, TypeOK
    <3>. QED
      BY <1>3, <1>5, <2>2, <3>1 DEF LineOK, Copied, Running, t
  <2>4. Fresh(w)'
    BY <1>3, <1>5, <1>6, <2>2 DEF LineOK, Fresh, t
  <2>5. Aligned(w)' /\ FedWhole(w)'
    BY <1>3, <1>5, <2>1, <2>2, SameRecords DEF LineOK, Aligned, FedWhole, t
  <2>6. ReadSoFar(w)'
    BY <1>3, <2>1, <2>2 DEF LineOK, ReadSoFar, FedBy
  <2>7. ReadAll(w)'
    <3>1. \A s \in Offsets : s < tracker'[w].end => s < tracker[w].end
      BY <1>5 DEF Offsets, t
    <3>. QED
      BY <1>3, <2>1, <2>2, <3>1 DEF LineOK, ReadAll, FedBy
  <2>. QED
    BY <2>3, <2>4, <2>5, <2>6, <2>7 DEF LineOK
<1>. QED
  BY <1>2, <1>3, <1>9, <1>10, LineElsewhere DEF LineInv

(* The invariant of reading is inductive: one step for each action. *)
LEMMA LineInductive == ASSUME ~Multiline PROVE IInv /\ LineInv /\ [Next]_vars => LineInv'
<1>. SUFFICES ASSUME IInv, LineInv, [Next]_vars PROVE LineInv'
  OBVIOUS
<1>1. CASE UNCHANGED vars
  BY <1>1, LineElsewhere DEF vars, LineInv
<1>. QED
  BY <1>1, LineOpen, LineSync, LineClaim, LineFeed, LineReturn, LineFail, LineRetry, LineSplit
     DEF Next, Terminated

LEMMA LineInvariance == ASSUME ~Multiline PROVE Spec => []LineInv
BY LineInitial, LineInductive, Invariance, PTL DEF Spec

(* Only whole records are fed: each fed range starts at a record of the    *)
(* file and ends where that record ends, wherever chunks and splits cut    *)
(* the file (ProcessElement's resynchronisation), when a record is a line. *)
(* With multiline records a worker that starts inside quotes takes the     *)
(* parity the wrong way round and the property does not hold.              *)
THEOREM OnlyWholeRecords == ASSUME ~Multiline PROVE Spec => []RecordsIntact
<1>1. IInv /\ LineInv => RecordsIntact
  <2>. SUFFICES ASSUME IInv, LineInv, NEW w \in Workers, NEW r \in fed[w]
                PROVE  r[1] \in RecordStarts /\ r[2] = readRecordBytes(r[1])
    BY DEF RecordsIntact
  <2>1. r[1] \in Offsets
    BY DEF IInv, TypeOK
  <2>2. AtRecord(r[1]) /\ r[2] = readRecordBytes(r[1])
    BY DEF LineInv, LineOK, FedWhole
  <2>3. r[1] = 0 \/ file[r[1] - 1] = "newline"
    BY <2>1, <2>2, SizeAssumption DEF AtRecord, Offsets
  <2>. QED
    BY <2>1, <2>2, <2>3 DEF RecordStarts, Breaks
<1>. QED
  BY <1>1, Invariance, LineInvariance, PTL

(* Nothing else is left out: when every restriction is done, each line was *)
(* fed unless its first byte is the first byte of a restriction other than *)
(* [0, ...), for every interleaving of chunks, claims, splits, failures    *)
(* and retries (ProcessElement, SplitRestriction, TrySplit).               *)
THEOREM OmissionsAreBoundaries == ASSUME ~Multiline PROVE Spec => []OmittedOnlyAtBoundary
<1>1. IInv /\ LineInv => OmittedOnlyAtBoundary
  <2>. SUFFICES ASSUME IInv, LineInv, AllDone, NEW s \in RecordStarts
                PROVE  Fed(s) \/ (s > 0 /\ \E w \in Workers : pc[w] = "done" /\ tracker[w].start = s)
    BY DEF OmittedOnlyAtBoundary
  <2>1. s \in Offsets /\ AtRecord(s)
    BY DEF RecordStarts, Breaks, AtRecord
  <2>2. PICK w \in Workers : Owns(w, s)
    BY <2>1 DEF IInv, RangesCover
  <2>3. tracker[w].start \in Int /\ tracker[w].end \in Int /\ s \in Nat
    BY <2>1, SizeAssumption DEF IInv, TypeOK, Offsets
  <2>4. pc[w] = "done"
    <3>1. ASSUME pc[w] = "unborn" PROVE FALSE
      BY <2>2, <2>3, <3>1 DEF IInv, UnbornIdle, Idle, NewByteOffsetTracker, Owns
    <3>. QED
      BY <3>1 DEF AllDone
  <2>5. CASE Due(w, s)
    BY <2>1, <2>2, <2>4, <2>5 DEF LineInv, LineOK, ReadAll, Owns, FedBy, Fed
  <2>6. CASE ~Due(w, s)
    <3>1. s = tracker[w].start /\ s > 0
      BY <2>2, <2>3, <2>6 DEF Due, Owns
    <3>. QED
      BY <2>4, <3>1
  <2>. QED
    BY <2>5, <2>6
<1>. QED
  BY <1>1, Invariance, LineInvariance, PTL

-----------------------------------------------------------------------------
(* The chunks are an initial state of WorkRange. *)
LEMMA InitRefines == Init => WR!WorkInit
<1>. SUFFICES ASSUME Init PROVE WR!WorkInit
  OBVIOUS
<1>1. IInv
  BY Initial
<1>2. Owned \in [Workers -> SUBSET Offsets]
  BY DEF Owned
<1>3. WR!Disjoint
  BY <1>1 DEF WR!Disjoint, Owned, IInv, RangesDisjoint, Owns
<1>4. WR!Covered
  BY <1>1 DEF WR!Covered, Owned, IInv, RangesCover, Owns
<1>5. Sealed = [w \in Workers |-> {}]
  <2>1. ASSUME NEW w \in Workers PROVE tracker[w].claimed = tracker[w].start - 1
    BY DEF Init, SplitRestriction, Idle, NewByteOffsetTracker
  <2>2. ASSUME NEW w \in Workers PROVE tracker[w].start \in Int
    BY <1>1 DEF IInv, TypeOK
  <2>. QED
    BY <2>1, <2>2 DEF Sealed, Offsets
<1>. QED
  BY <1>2, <1>3, <1>4, <1>5 DEF WR!WorkInit

(* Steps that leave ranges and claims alone are invisible. *)
LEMMA StutterRefines ==
  ASSUME \A u \in Workers : /\ tracker'[u].start = tracker[u].start
                            /\ tracker'[u].end = tracker[u].end
                            /\ tracker'[u].claimed = tracker[u].claimed
  PROVE  UNCHANGED <<Owned, Sealed>>
BY DEF Owned, Sealed

(* A claim seals positions, or is refused and changes nothing. *)
LEMMA ClaimRefines ==
  ASSUME IInv, NEW w \in Workers, Claim(w)
  PROVE  WR!Seal(w) \/ UNCHANGED <<Owned, Sealed>>
<1>. USE SizeAssumption
<1>. DEFINE p == currPos[w]
           t == tracker[w]
<1>1. p \in 0..Size /\ t \in Trackers /\ InOrder(t)
  BY DEF IInv, TypeOK, Trackers, TrackersInOrder
<1>2. CASE p >= rest[w].end
  BY <1>2, StutterRefines DEF Claim
<1>3. CASE ~(p >= rest[w].end)
  <2>1. tracker' = [tracker EXCEPT ![w] = ClaimOffset(t, p)]
    BY <1>3 DEF Claim
  <2>2. tracker'[w] = ClaimOffset(t, p) /\ \A u \in Workers : u # w => tracker'[u] = tracker[u]
    BY <2>1 DEF IInv, TypeOK
  <2>3. CASE ~Claimable(t, p)
    BY <1>1, <2>2, <2>3, ClaimFacts, StutterRefines
  <2>4. CASE Claimable(t, p)
    <3>1. /\ tracker'[w].start = t.start /\ tracker'[w].end = t.end /\ tracker'[w].claimed = p
          /\ p >= t.start /\ p < t.end /\ p > t.claimed
      BY <1>1, <2>2, <2>4, ClaimFacts
    <3>2. t.start \in 0..Size /\ t.end \in 0..Size /\ t.claimed \in (-1)..(Size - 1)
      BY <1>1 DEF Trackers
    <3>3. p \in Owned[w] \ Sealed[w]
      BY <1>1, <3>1, <3>2 DEF Owned, Sealed, Offsets
    <3>4. Owned' = Owned
      BY <2>2, <3>1 DEF Owned
    <3>5. Sealed'[w] = Sealed[w] \cup WR!UpTo(Owned[w], p)
      <4>. HIDE DEF p
      <4>1. Sealed'[w] = {q \in Offsets : tracker[w].start <= q /\ q <= p}
        BY <3>1 DEF Sealed
      <4>2. Sealed[w] = {q \in Offsets : tracker[w].start <= q /\ q <= tracker[w].claimed}
        BY DEF Sealed
      <4>3. Owned[w] = {q \in Offsets : tracker[w].start <= q /\ q < tracker[w].end}
        BY DEF Owned
      <4>. QED
        BY <1>1, <3>1, <3>2, <4>1, <4>2, <4>3 DEF WR!UpTo, Offsets
    <3>6. \A u \in Workers : u # w => Sealed'[u] = Sealed[u]
      BY <2>2 DEF Sealed
    <3>7. Sealed' = [Sealed EXCEPT ![w] = Sealed[w] \cup WR!UpTo(Owned[w], p)]
      BY <3>5, <3>6 DEF Sealed
    <3>. QED
      BY <3>3, <3>4, <3>7 DEF WR!Seal
  <2>. QED
    BY <2>3, <2>4
<1>. QED
  BY <1>2, <1>3

(* A retry is a restart. *)
LEMMA RetryRefines ==
  ASSUME IInv, NEW w \in Workers, Retry(w)
  PROVE  WR!Restart(w)
<1>1. tracker'[w] = NewByteOffsetTracker(tracker[w].start, tracker[w].end)
      /\ \A u \in Workers : u # w => tracker'[u] = tracker[u]
  BY DEF Retry, IInv, TypeOK
<1>2. /\ tracker'[w].start = tracker[w].start /\ tracker'[w].end = tracker[w].end
      /\ tracker'[w].claimed = tracker[w].start - 1
  BY <1>1 DEF NewByteOffsetTracker
<1>3. tracker[w].start \in Int
  BY DEF IInv, TypeOK
<1>4. Owned' = Owned
  BY <1>1, <1>2 DEF Owned
<1>5. Sealed'[w] = {} /\ \A u \in Workers : u # w => Sealed'[u] = Sealed[u]
  BY <1>1, <1>2, <1>3 DEF Sealed, Offsets
<1>6. Sealed' = [Sealed EXCEPT ![w] = {}]
  BY <1>5 DEF Sealed
<1>. QED
  BY <1>4, <1>6 DEF WR!Restart

(* A split hands positions over, none of them sealed. *)
LEMMA SplitRefines ==
  ASSUME IInv, NEW w \in Workers, NEW n \in Workers, w # n, TrySplit(w, n)
  PROVE  WR!HandOver(w, n)
<1>. USE SizeAssumption
<1>1. PICK sp \in 0..Size :
           /\ tracker[w].start < sp /\ tracker[w].claimed < sp /\ sp < tracker[w].end
           /\ tracker[n].start = 0 /\ tracker[n].end = 0 /\ tracker[n].claimed = -1
           /\ tracker' \in [Workers -> Trackers]
           /\ TrackersInOrder'
           /\ tracker'[w].start = tracker[w].start /\ tracker'[w].end = sp
           /\ tracker'[w].claimed = tracker[w].claimed
           /\ tracker'[n].start = sp /\ tracker'[n].end = tracker[w].end
           /\ tracker'[n].claimed = sp - 1
           /\ \A u \in Workers : u # w /\ u # n => tracker'[u] = tracker[u]
  BY SplitStep
<1>2. /\ tracker[w].start \in 0..Size /\ tracker[w].end \in 0..Size
      /\ tracker[w].claimed \in (-1)..(Size - 1)
  BY DEF IInv, TypeOK
<1>3. Owned[n] = {}
  BY <1>1 DEF Owned, Offsets
<1>4. sp \in Owned[w] \ Sealed[w]
  BY <1>1, <1>2 DEF Owned, Sealed, Offsets
<1>5. WR!From(Owned[w], sp) \cap Sealed[w] = {}
  BY <1>1, <1>2 DEF Sealed, WR!From, Offsets
<1>6. /\ Owned'[w] = Owned[w] \ WR!From(Owned[w], sp)
      /\ Owned'[n] = WR!From(Owned[w], sp)
      /\ \A u \in Workers : u # w /\ u # n => Owned'[u] = Owned[u]
  BY <1>1, <1>2 DEF Owned, WR!From, Offsets
<1>7. Owned' = [Owned EXCEPT ![w] = Owned[w] \ WR!From(Owned[w], sp),
                             ![n] = WR!From(Owned[w], sp)]
  BY <1>6 DEF Owned
<1>8. Sealed' = Sealed
  BY <1>1, <1>2 DEF Sealed, Offsets
<1>. QED
  BY <1>3, <1>4, <1>5, <1>7, <1>8 DEF WR!HandOver

(* Every step of the source is a step of WorkRange or a stutter. *)
LEMMA StepRefines == IInv /\ [Next]_vars => [WR!WorkNext]_<<Owned, Sealed>>
<1>. SUFFICES ASSUME IInv, [Next]_vars PROVE WR!WorkNext \/ UNCHANGED <<Owned, Sealed>>
  OBVIOUS
<1>1. ASSUME NEW w \in Workers, Open(w) \/ Sync(w) \/ Feed(w)
      PROVE  UNCHANGED <<Owned, Sealed>>
  BY <1>1, StutterRefines DEF Open, Sync, Feed
<1>2. ASSUME NEW w \in Workers, Return(w) \/ Fail(w)
      PROVE  UNCHANGED <<Owned, Sealed>>
  <2>1. tracker' = [tracker EXCEPT ![w] = MarkDone(tracker[w])]
    BY <1>2 DEF Return, Fail
  <2>2. tracker[w] \in Trackers /\ InOrder(tracker[w])
    BY DEF IInv, TypeOK, Trackers, TrackersInOrder
  <2>3. tracker'[w] = MarkDone(tracker[w]) /\ \A u \in Workers : u # w => tracker'[u] = tracker[u]
    BY <2>1 DEF IInv, TypeOK
  <2>. QED
    BY <2>2, <2>3, DoneFacts, StutterRefines
<1>3. CASE UNCHANGED vars
  BY <1>3, StutterRefines DEF vars
<1>4. ASSUME NEW w \in Workers, Claim(w) PROVE WR!WorkNext \/ UNCHANGED <<Owned, Sealed>>
  BY <1>4, ClaimRefines DEF WR!WorkNext
<1>5. ASSUME NEW w \in Workers, Retry(w) PROVE WR!WorkNext
  BY <1>5, RetryRefines DEF WR!WorkNext
<1>6. ASSUME NEW w \in Workers, NEW n \in Workers, w # n, TrySplit(w, n) PROVE WR!WorkNext
  BY <1>6, SplitRefines DEF WR!WorkNext
<1>. QED
  BY <1>1, <1>2, <1>3, <1>4, <1>5, <1>6 DEF Next, Terminated

(* The byte-stream source implements the promise of a restriction tracker: *)
(* at all times the restrictions partition the file, and a split only ever *)
(* hands over bytes above the claim (SplitRestriction, ClaimOffset,        *)
(* TrySplit, and the retries of the runner).                               *)
THEOREM Refinement == Spec => ImplementsWorkRange
BY InitRefines, StepRefines, Invariance, PTL DEF Spec, ImplementsWorkRange, WR!WorkSpec, WR!workVars

-----------------------------------------------------------------------------
(* The pipe.  The invariant follows a line from the feeder through pipe,   *)
(* decoder and recChan to the output.                                      *)

Types ==
  /\ format \in Formats /\ lines \in [Line -> LineKinds]
  /\ format # "json_array" => \A i \in Line : lines[i] \notin {"syntax", "close"}
  /\ ctxDone \in BOOLEAN /\ feedErr \in BOOLEAN
  /\ feeder \in {"loop", "write", "ended"}
  /\ next \in 1..(NumLines + 1) /\ pipe \in 0..NumLines /\ got \in 0..NumLines
  /\ decoder \in {"unstarted", "loop", "read", "check", "send", "ended"}
  /\ recChan \in Seq(Line) /\ emitted \in Seq(Line) /\ errs \in 0..ErrCap
  /\ consumer \in {"setup", "records", "decErrs", "feedErrs", "returned"}
  /\ result \in {"none", "error", "nil"}

(* The pipe holds the line the feeder stands at; every line before it was  *)
(* read, the decoder's current line last.                                  *)
FedInv ==
  /\ pipe # 0 => feeder = "write" /\ pipe = next
  /\ feeder = "write" => next <= NumLines /\ lines[next] # "ioerr"
  /\ got = IF feeder = "write" /\ pipe = 0 THEN next ELSE next - 1
  /\ \A i \in Line : i < next => lines[i] # "ioerr"
  /\ feeder = "ended" /\ ~feedErr => next = NumLines + 1

(* The last line the decoder is done with. *)
Past == IF decoder \in {"check", "send"} THEN got - 1 ELSE got

Ok(n) == {i \in Line : i <= n /\ lines[i] = "ok"}

DecodeInv ==
  /\ decoder \in {"check", "send"} => got # 0
  /\ decoder = "send" => lines[got] = "ok"
  /\ decoder = "check" => format # "csv"
  /\ decoder = "read" => format = "csv"
  /\ decoder = "check" /\ format = "json_array" => lines[got] \notin {"close", "skip"}

(* Malformed lines are remembered until ProcessElement reports them. *)
ErrInv ==
  \A i \in Line : i <= Past /\ lines[i] \in {"bad", "syntax"} => errs > 0 \/ result = "error"

(* The JSON decoders drop a record when the context is done. *)
Dropped == format # "csv" /\ ctxDone

(* What a queue and the output before it hold. *)
InLine(e, c) ==
  /\ InFileOrder(e) /\ InFileOrder(c)
  /\ \A x \in Held(e), y \in Held(c) : x < y

SentInv ==
  /\ InLine(emitted, recChan)
  /\ Held(emitted) \cup Held(recChan) \subseteq Ok(Past)
  /\ ~Dropped => Held(emitted) \cup Held(recChan) = Ok(Past)

(* ProcessElement drains the records, the decoder's errors and the feeder's, *)
(* in this order.                                                            *)
DrainInv ==
  /\ result # "none" => consumer = "returned"
  /\ consumer = "setup" => decoder = "unstarted"
  /\ consumer \in {"decErrs", "feedErrs"} \/ result = "nil" => decoder = "ended" /\ recChan = <<>>
  /\ consumer = "feedErrs" \/ result = "nil" => errs = 0
  /\ result = "nil" => feeder = "ended" /\ ~feedErr

PipeInv == Types /\ FedInv /\ DecodeInv /\ ErrInv /\ SentInv /\ DrainInv

-----------------------------------------------------------------------------
(* The steps of the two decoders, as what they do to a line: take the next *)
(* one, decide about it, or send it.                                       *)
TakeStep ==
  /\ decoder \in {"loop", "read"} /\ pipe # 0
  /\ got' = pipe /\ pipe' = 0 /\ recChan' = recChan
  /\ errs' \in errs..ErrCap /\ decoder' \in {"loop", "check", "send", "ended"}
  /\ decoder' = "check" => /\ format # "csv"
                           /\ format = "json_array" => lines[pipe] \notin {"close", "skip"}
  /\ decoder' = "send" => lines[pipe] = "ok"
  /\ decoder' \in {"loop", "ended"} => /\ lines[pipe] # "ok"
                                       /\ lines[pipe] \in {"bad", "syntax"} => errs' > 0

ParseStep ==
  /\ decoder \in {"loop", "read", "check", "send"}
  /\ got' = got /\ pipe' = pipe /\ recChan' = recChan
  /\ errs' \in errs..ErrCap /\ decoder' \in {"loop", "read", "check", "send", "ended"}
  /\ decoder \in {"loop", "read"} => decoder' \in {"loop", "read", "ended"}
  /\ decoder = "check" => decoder' # "read"
  /\ decoder = "check" /\ decoder' = "loop" =>
       lines[got] # "ok" /\ (lines[got] \in {"bad", "syntax"} => errs' > 0)
  /\ decoder = "check" /\ decoder' = "ended" => Dropped /\ errs' > 0
  /\ decoder' = "send" => lines[got] = "ok"
  /\ decoder = "send" => decoder' = "ended" /\ Dropped
  /\ decoder' = "read" => format = "csv"

SendStep ==
  /\ decoder = "send" /\ decoder' = "loop" /\ recChan' = Append(recChan, got)
  /\ got' = got /\ pipe' = pipe /\ errs' = errs

(* An error that is offered, or sent, is remembered: the channel holds one *)
(* even when there was no room for this one.                               *)
LEMMA Offered == ASSUME errs \in 0..ErrCap, OfferErr \/ SendErr PROVE errs' \in errs..ErrCap /\ errs' > 0
BY PipeAssumption DEF OfferErr, SendErr

LEMMA CSVSteps ==
  ASSUME Types, FedInv, DecodeInv, format = "csv", DecodeCSV
  PROVE  TakeStep \/ ParseStep \/ SendStep
<1>1. errs \in 0..ErrCap /\ ErrCap \in Nat /\ errs \in errs..ErrCap
  BY PipeAssumption DEF Types
<1>2. CASE decoder = "loop" /\ ctxDone /\ SendErr /\ DecoderEnd /\ UNCHANGED <<got, pipe, recChan>>
  BY <1>1, <1>2, Offered DEF ParseStep, DecoderEnd
<1>3. CASE /\ decoder = "loop" /\ ~ctxDone /\ decoder' = "read"
           /\ UNCHANGED <<got, pipe, recChan, errs>>
  BY <1>1, <1>3 DEF ParseStep
<1>4. CASE /\ decoder = "read" /\ Take
           /\ CASE lines[pipe] = "bad"  -> SendErr /\ DecoderEnd
                [] lines[pipe] = "skip" -> decoder' = "loop" /\ UNCHANGED errs
                [] OTHER                -> decoder' = "send" /\ UNCHANGED errs
           /\ UNCHANGED recChan
  <2>1. pipe # 0 /\ got' = pipe /\ pipe' = 0 /\ pipe \in Line
    BY <1>4 DEF Take, Types, Line
  <2>2. lines[pipe] \in {"ok", "skip", "bad"}
    BY <2>1, PipeAssumption DEF Types, FedInv
  <2>3. CASE lines[pipe] = "bad"
    BY <1>4, <1>1, <2>1, <2>3, Offered DEF TakeStep, DecoderEnd
  <2>4. CASE lines[pipe] = "skip"
    BY <1>4, <1>1, <2>1, <2>4 DEF TakeStep
  <2>5. CASE lines[pipe] = "ok"
    BY <1>4, <1>1, <2>1, <2>5 DEF TakeStep
  <2>. QED
    BY <2>2, <2>3, <2>4, <2>5
<1>5. CASE decoder = "read" /\ AtEOF /\ DecoderEnd /\ UNCHANGED <<got, pipe, recChan, errs>>
  BY <1>1, <1>5 DEF ParseStep, DecoderEnd
<1>6. CASE /\ decoder = "send" /\ Len(recChan) < RecCap
           /\ recChan' = Append(recChan, got) /\ decoder' = "loop"
           /\ UNCHANGED <<got, pipe, errs>>
  BY <1>6 DEF SendStep
<1>. QED
  BY <1>2, <1>3, <1>4, <1>5, <1>6 DEF DecodeCSV

LEMMA JSONSteps ==
  ASSUME Types, FedInv, DecodeInv, format # "csv", DecodeJSON
  PROVE  TakeStep \/ ParseStep \/ SendStep
<1>1. errs \in 0..ErrCap /\ ErrCap \in Nat /\ errs \in errs..ErrCap
  BY PipeAssumption DEF Types
<1>2. CASE /\ decoder = "loop" /\ Take
           /\ decoder' = IF format = "json_array"
                           THEN CASE lines[pipe] = "close" -> "ended"
                                  [] lines[pipe] = "skip"  -> "loop"
                                  [] OTHER                 -> "check"
                           ELSE "check"
           /\ UNCHANGED <<recChan, errs>>
  <2>1. pipe # 0 /\ got' = pipe /\ pipe' = 0
    BY <1>2 DEF Take
  <2>2. CASE format # "json_array"
    BY <1>1, <1>2, <2>1, <2>2 DEF TakeStep
  <2>3. CASE format = "json_array" /\ lines[pipe] = "close"
    BY <1>1, <1>2, <2>1, <2>3 DEF TakeStep
  <2>4. CASE format = "json_array" /\ lines[pipe] = "skip"
    BY <1>1, <1>2, <2>1, <2>4 DEF TakeStep
  <2>5. CASE format = "json_array" /\ lines[pipe] \notin {"close", "skip"}
    BY <1>1, <1>2, <2>1, <2>5 DEF TakeStep
  <2>. QED
    BY <2>2, <2>3, <2>4, <2>5
<1>3. CASE decoder = "loop" /\ AtEOF /\ DecoderEnd /\ UNCHANGED <<got, pipe, recChan, errs>>
  BY <1>1, <1>3 DEF ParseStep, DecoderEnd
<1>4. CASE decoder = "check" /\ ctxDone /\ OfferErr /\ DecoderEnd /\ UNCHANGED <<got, pipe, recChan>>
  BY <1>1, <1>4, Offered DEF ParseStep, DecoderEnd, Dropped
<1>5. CASE /\ decoder = "check" /\ ~ctxDone
           /\ IF format = "json_array" THEN ParseElement ELSE ParseJSONLine
           /\ UNCHANGED <<got, pipe, recChan>>
  <2>0. got \in Line
    BY <1>5, PipeAssumption DEF Types, DecodeInv, Line
  <2>1. got \in Line /\ lines[got] \in {"ok", "skip", "bad", "syntax", "close", "ioerr"}
    BY <2>0, PipeAssumption DEF Types
  <2>2. lines[got] # "ioerr"
    BY <2>1, PipeAssumption DEF Types, FedInv, Line
  <2>3. CASE format = "json_array"
    <3>1. lines[got] \in {"ok", "bad", "syntax"}
      BY <1>5, <2>1, <2>2, <2>3 DEF DecodeInv
    <3>2. CASE lines[got] = "ok"
      BY <1>5, <1>1, <2>3, <3>2 DEF ParseElement, ParseStep
    <3>3. CASE lines[got] = "bad"
      BY <1>5, <1>1, <2>3, <3>3, Offered DEF ParseElement, ParseStep
    <3>4. CASE lines[got] = "syntax"
      BY <1>5, <1>1, <2>3, <3>4, Offered DEF ParseElement, ParseStep
    <3>. QED
      BY <3>1, <3>2, <3>3, <3>4
  <2>4. CASE format # "json_array"
    <3>1. lines[got] \in {"ok", "skip", "bad"}
      BY <2>1, <2>2, <2>4 DEF Types
    <3>2. CASE lines[got] = "ok"
      BY <1>5, <1>1, <2>4, <3>2 DEF ParseJSONLine, ParseStep
    <3>3. CASE lines[got] = "bad"
      BY <1>5, <1>1, <2>4, <3>3, Offered DEF ParseJSONLine, ParseStep
    <3>4. CASE lines[got] = "skip"
      BY <1>5, <1>1, <2>4, <3>4 DEF ParseJSONLine, ParseStep
    <3>. QED
      BY <3>1, <3>2, <3>3, <3>4
  <2>. QED
    BY <2>3, <2>4
<1>6. CASE /\ decoder = "send" /\ Len(recChan) < RecCap
           /\ recChan' = Append(recChan, got) /\ decoder' = "loop"
           /\ UNCHANGED <<got, pipe, errs>>
  BY <1>6 DEF SendStep
<1>7. CASE decoder = "send" /\ ctxDone /\ DecoderEnd /\ UNCHANGED <<got, pipe, recChan, errs>>
  <2>1. lines[got] = "ok"
    BY <1>7 DEF DecodeInv
  <2>. QED
    BY <1>1, <1>7, <2>1 DEF ParseStep, DecoderEnd, Dropped
<1>. QED
  BY <1>2, <1>3, <1>4, <1>5, <1>6, <1>7 DEF DecodeJSON

(* What the decoder does to a line keeps the feeder's side of the pipe, the  *)
(* types, and what is known of the current line.                             *)
LEMMA DecoderSteps ==
  ASSUME Types, FedInv, DecodeInv, Decoder
  PROVE  /\ TakeStep \/ ParseStep \/ SendStep
         /\ UNCHANGED <<format, lines, ctxDone, feeder, next, feedErr, consumer, emitted, result>>
<1>1. CASE format = "csv"
  BY <1>1, CSVSteps DEF Decoder, inputVars, feedVars, conVars
<1>2. CASE format # "csv"
  BY <1>2, JSONSteps DEF Decoder, inputVars, feedVars, conVars
<1>. QED
  BY <1>1, <1>2

LEMMA DecoderLines ==
  ASSUME Types, FedInv, DecodeInv, Decoder
  PROVE  (Types /\ FedInv /\ DecodeInv)'
<1>. USE PipeAssumption
<1>1. UNCHANGED <<format, lines, ctxDone, feeder, next, feedErr, consumer, emitted, result>>
  BY DecoderSteps
<1>2. errs \in 0..ErrCap /\ pipe \in 0..NumLines /\ got \in 0..NumLines
  BY DEF Types
<1>3. CASE TakeStep
  <2>1. errs' \in 0..ErrCap /\ pipe' \in 0..NumLines /\ got' \in 0..NumLines /\ recChan' = recChan
        /\ decoder' \in {"loop", "check", "send", "ended"} /\ got' # 0
    BY <1>2, <1>3 DEF TakeStep
  <2>2. Types'
    BY <1>1, <2>1 DEF Types
  <2>3. pipe = next /\ feeder = "write" /\ got' = next /\ pipe' = 0
    BY <1>3 DEF TakeStep, FedInv
  <2>4. FedInv'
    BY <1>1, <2>3 DEF FedInv
  <2>5. DecodeInv'
    BY <1>1, <1>3, <2>1 DEF DecodeInv, TakeStep
  <2>. QED
    BY <2>2, <2>4, <2>5
<1>4. CASE ParseStep
  <2>1. errs' \in 0..ErrCap /\ pipe' = pipe /\ got' = got /\ recChan' = recChan
        /\ decoder' \in {"loop", "read", "check", "send", "ended"}
    BY <1>2, <1>4 DEF ParseStep
  <2>2. Types'
    BY <1>1, <2>1 DEF Types
  <2>3. FedInv'
    BY <1>1, <2>1 DEF FedInv
  <2>4. DecodeInv'
    BY <1>1, <1>4, <2>1 DEF DecodeInv, ParseStep
  <2>. QED
    BY <2>2, <2>3, <2>4
<1>5. CASE SendStep
  <2>1. got \in Line
    BY <1>2, <1>5 DEF SendStep, DecodeInv, Line
  <2>2. recChan' \in Seq(Line)
    BY <1>5, <2>1 DEF SendStep, Types
  <2>3. errs' = errs /\ pipe' = pipe /\ got' = got /\ decoder' = "loop"
    BY <1>5 DEF SendStep
  <2>4. Types'
    BY <1>1, <2>2, <2>3 DEF Types
  <2>5. FedInv' /\ DecodeInv'
    BY <1>1, <2>3 DEF FedInv, DecodeInv
  <2>. QED
    BY <2>4, <2>5
<1>. QED
  BY <1>3, <1>4, <1>5, DecoderSteps

-----------------------------------------------------------------------------
(* Queues. *)

LEMMA HeldAppended ==
  ASSUME NEW S, NEW s \in Seq(S), NEW x \in S
  PROVE  Held(Append(s, x)) = Held(s) \cup {x}
<1>1. /\ DOMAIN s = 1..Len(s) /\ Len(s) \in Nat
      /\ DOMAIN Append(s, x) = 1..(Len(s) + 1)
      /\ \A i \in 1..Len(s) : Append(s, x)[i] = s[i]
      /\ Append(s, x)[Len(s) + 1] = x
  OBVIOUS
<1>2. ASSUME NEW y \in Held(Append(s, x)) PROVE y \in Held(s) \cup {x}
  <2>1. PICK i \in 1..(Len(s) + 1) : y = Append(s, x)[i]
    BY <1>1 DEF Held
  <2>2. i \in 1..Len(s) \/ i = Len(s) + 1
    BY <1>1
  <2>. QED
    BY <1>1, <2>1, <2>2 DEF Held
<1>3. ASSUME NEW y \in Held(s) \cup {x} PROVE y \in Held(Append(s, x))
  <2>1. CASE y = x
    <3>1. Len(s) + 1 \in 1..(Len(s) + 1)
      BY <1>1
    <3>. QED
      BY <1>1, <2>1, <3>1 DEF Held
  <2>2. CASE y \in Held(s)
    <3>1. PICK i \in 1..Len(s) : y = s[i]
      BY <1>1, <2>2 DEF Held
    <3>2. i \in 1..(Len(s) + 1)
      BY <1>1
    <3>. QED
      BY <1>1, <3>1, <3>2 DEF Held
  <2>. QED
    BY <2>1, <2>2, <1>3
<1>. QED
  BY <1>2, <1>3

(* Appending a line beyond all lines held keeps the order. *)
LEMMA OrderAppended ==
  ASSUME NEW s \in Seq(Line), NEW x \in Line, InFileOrder(s), \A y \in Held(s) : y < x
  PROVE  InFileOrder(Append(s, x))
<1>1. /\ DOMAIN s = 1..Len(s) /\ Len(s) \in Nat
      /\ DOMAIN Append(s, x) = 1..(Len(s) + 1)
      /\ \A i \in 1..Len(s) : Append(s, x)[i] = s[i]
      /\ Append(s, x)[Len(s) + 1] = x
  OBVIOUS
<1>2. SUFFICES ASSUME NEW i \in 1..(Len(s) + 1), NEW j \in 1..(Len(s) + 1), i < j
               PROVE  Append(s, x)[i] < Append(s, x)[j]
  BY <1>1 DEF InFileOrder
<1>3. i \in 1..Len(s) /\ (j \in 1..Len(s) \/ j = Len(s) + 1)
  BY <1>1, <1>2
<1>4. s[i] < x
  BY <1>1, <1>3 DEF Held
<1>. QED
  BY <1>1, <1>2, <1>3, <1>4 DEF InFileOrder

(* The head of a queue in file order comes before its tail. *)
LEMMA HeadAndTail ==
  ASSUME NEW c \in Seq(Line), c # <<>>, InFileOrder(c)
  PROVE  /\ Head(c) \in Line /\ Tail(c) \in Seq(Line)
         /\ Held(c) = {Head(c)} \cup Held(Tail(c))
         /\ InFileOrder(Tail(c))
         /\ \A y \in Held(Tail(c)) : Head(c) < y
<1>1. /\ Len(c) \in Nat /\ Len(c) # 0 /\ DOMAIN c = 1..Len(c)
      /\ Head(c) = c[1] /\ Tail(c) \in Seq(Line) /\ Head(c) \in Line
      /\ DOMAIN Tail(c) = 1..(Len(c) - 1)
      /\ \A i \in 1..(Len(c) - 1) : Tail(c)[i] = c[i + 1]
  OBVIOUS
<1>2. InFileOrder(Tail(c))
  <2>. SUFFICES ASSUME NEW i \in 1..(Len(c) - 1), NEW j \in 1..(Len(c) - 1), i < j
                PROVE  Tail(c)[i] < Tail(c)[j]
    BY <1>1 DEF InFileOrder
  <2>1. i + 1 \in 1..Len(c) /\ j + 1 \in 1..Len(c) /\ i + 1 < j + 1
    BY <1>1
  <2>. QED
    BY <1>1, <2>1 DEF InFileOrder
<1>3. ASSUME NEW y \in Held(Tail(c)) PROVE Head(c) < y /\ y \in Held(c)
  <2>1. PICK i \in 1..(Len(c) - 1) : y = c[i + 1]
    BY <1>1 DEF Held
  <2>2. i + 1 \in 1..Len(c) /\ 1 < i + 1 /\ 1 \in 1..Len(c)
    BY <1>1
  <2>. QED
    BY <1>1, <2>1, <2>2 DEF Held, InFileOrder
<1>4. ASSUME NEW y \in Held(c) PROVE y = Head(c) \/ y \in Held(Tail(c))
  <2>1. PICK i \in 1..Len(c) : y = c[i]
    BY <1>1 DEF Held
  <2>2. CASE i = 1
    BY <1>1, <2>1, <2>2
  <2>3. CASE i # 1
    <3>1. i - 1 \in 1..(Len(c) - 1) /\ (i - 1) + 1 = i
      BY <1>1, <2>3
    <3>2. Tail(c)[i - 1] = y
      BY <1>1, <2>1, <3>1
    <3>. QED
      BY <1>1, <3>1, <3>2 DEF Held
  <2>. QED
    BY <2>2, <2>3
<1>5. Head(c) \in Held(c)
  <2>1. 1 \in 1..Len(c)
    BY <1>1
  <2>. QED
    BY <1>1, <2>1 DEF Held
<1>. QED
  BY <1>1, <1>2, <1>3, <1>4, <1>5

(* A record joins the queue behind all that were sent before it. *)
LEMMA Sending ==
  ASSUME NEW e \in Seq(Line), NEW c \in Seq(Line), InLine(e, c), NEW x \in Line,
         \A y \in Held(e) \cup Held(c) : y < x
  PROVE  /\ InLine(e, Append(c, x))
         /\ Held(e) \cup Held(Append(c, x)) = (Held(e) \cup Held(c)) \cup {x}
<1>1. Held(Append(c, x)) = Held(c) \cup {x}
  BY HeldAppended
<1>2. InFileOrder(Append(c, x))
  BY OrderAppended DEF InLine
<1>. QED
  BY <1>1, <1>2 DEF InLine

(* The first record of the queue becomes the last of the output. *)
LEMMA Receiving ==
  ASSUME NEW e \in Seq(Line), NEW c \in Seq(Line), InLine(e, c), c # <<>>
  PROVE  /\ Append(e, Head(c)) \in Seq(Line) /\ Tail(c) \in Seq(Line)
         /\ InLine(Append(e, Head(c)), Tail(c))
         /\ Held(Append(e, Head(c))) \cup Held(Tail(c)) = Held(e) \cup Held(c)
<1>1. /\ Head(c) \in Line /\ Tail(c) \in Seq(Line)
      /\ Held(c) = {Head(c)} \cup Held(Tail(c)) /\ InFileOrder(Tail(c))
      /\ \A y \in Held(Tail(c)) : Head(c) < y
  BY HeadAndTail DEF InLine
<1>2. Held(Append(e, Head(c))) = Held(e) \cup {Head(c)}
  BY <1>1, HeldAppended
<1>3. InFileOrder(Append(e, Head(c)))
  BY <1>1, OrderAppended DEF InLine
<1>4. Append(e, Head(c)) \in Seq(Line)
  BY <1>1
<1>5. \A x \in Held(e) \cup {Head(c)}, y \in Held(Tail(c)) : x < y
  BY <1>1 DEF InLine
<1>. QED
  BY <1>1, <1>2, <1>3, <1>4, <1>5 DEF InLine

-----------------------------------------------------------------------------
(* The decoder sends every record and remembers every error. *)
LEMMA DecoderQueue ==
  ASSUME PipeInv, Decoder
  PROVE  (ErrInv /\ SentInv /\ DrainInv)'
<1>. USE PipeAssumption
<1>0. Types /\ FedInv /\ DecodeInv /\ ErrInv /\ SentInv /\ DrainInv
  BY DEF PipeInv
<1>1. UNCHANGED <<format, lines, ctxDone, feeder, next, feedErr, consumer, emitted, result>>
  BY <1>0, DecoderSteps
<1>2. errs \in 0..ErrCap /\ pipe \in 0..NumLines /\ got \in 0..NumLines
      /\ emitted \in Seq(Line) /\ recChan \in Seq(Line)
  BY <1>0 DEF Types
<1>3. (Dropped' <=> Dropped) /\ \A n : Ok(n)' = Ok(n)
  BY <1>1 DEF Dropped, Ok
<1>4. TakeStep \/ ParseStep \/ SendStep
  BY <1>0, DecoderSteps
<1>5. errs' \in errs..ErrCap /\ decoder \in {"loop", "read", "check", "send"}
  BY <1>2, <1>4 DEF TakeStep, ParseStep, SendStep
<1>6. DrainInv'
  BY <1>0, <1>1, <1>5 DEF DrainInv
<1>7. CASE TakeStep
  <2>1. got' = got + 1 /\ got' \in Line /\ Past = got /\ lines[got'] = lines[pipe] /\ got' = pipe
    BY <1>0, <1>2, <1>7 DEF TakeStep, FedInv, Past, Line
  <2>2. CASE decoder' \in {"check", "send"}
    <3>1. Past' = Past
      BY <1>2, <2>1, <2>2 DEF Past
    <3>2. ErrInv'
      BY <1>0, <1>1, <1>2, <1>5, <3>1 DEF ErrInv
    <3>3. SentInv'
      BY <1>0, <1>1, <1>3, <1>7, <3>1 DEF SentInv, TakeStep
    <3>. QED
      BY <1>6, <3>2, <3>3
  <2>3. CASE decoder' \in {"loop", "ended"}
    <3>1. Past' = Past + 1 /\ Past' = got' /\ Past = got
      BY <2>1, <2>3 DEF Past
    <3>2. lines[got'] # "ok" /\ (lines[got'] \in {"bad", "syntax"} => errs' > 0)
      BY <1>7, <2>1, <2>3 DEF TakeStep
    <3>3. \A i \in Line : i <= Past' => i <= Past \/ i = got'
      BY <1>2, <3>1 DEF Line
    <3>4. \A i \in Line : i <= Past => i <= Past'
      BY <1>2, <3>1 DEF Line
    <3>5. Ok(Past') = Ok(Past)
      BY <3>2, <3>3, <3>4 DEF Ok
    <3>6. ErrInv'
      BY <1>0, <1>1, <1>2, <1>5, <3>2, <3>3 DEF ErrInv
    <3>7. SentInv'
      BY <1>0, <1>1, <1>3, <1>7, <3>5 DEF SentInv, TakeStep
    <3>. QED
      BY <1>6, <3>6, <3>7
  <2>. QED
    BY <1>7, <2>2, <2>3 DEF TakeStep
<1>8. CASE ParseStep
  <2>0. got' = got /\ recChan' = recChan
    BY <1>8 DEF ParseStep
  <2>1. CASE Past' = Past
    <3>1. ErrInv'
      BY <1>0, <1>1, <1>2, <1>5, <2>1 DEF ErrInv
    <3>2. SentInv'
      BY <1>0, <1>1, <1>3, <2>0, <2>1 DEF SentInv
    <3>. QED
      BY <1>6, <3>1, <3>2
  <2>2. CASE Past' # Past
    <3>1. decoder \in {"check", "send"} /\ decoder' \in {"loop", "ended"}
      BY <1>8, <2>0, <2>2 DEF Past, ParseStep
    <3>2. got \in Line /\ Past = got - 1 /\ Past' = got
      BY <1>0, <1>2, <2>0, <3>1 DEF Past, DecodeInv, Line
    <3>3. \A i \in Line : i <= Past' => i <= Past \/ i = got
      BY <3>2 DEF Line
    <3>4. \A i \in Line : i <= Past => i <= Past'
      BY <3>2 DEF Line
    <3>5. lines[got] \in {"bad", "syntax"} => errs' > 0
      BY <1>0, <1>8, <3>1 DEF ParseStep, DecodeInv
    <3>6. Dropped \/ lines[got] # "ok"
      BY <1>8, <3>1 DEF ParseStep
    <3>7. ErrInv'
      BY <1>0, <1>1, <1>2, <1>5, <3>3, <3>5 DEF ErrInv
    <3>8. Ok(Past) \subseteq Ok(Past')
      BY <3>4 DEF Ok
    <3>9. lines[got] # "ok" => Ok(Past') = Ok(Past)
      BY <3>3, <3>4 DEF Ok
    <3>10. SentInv'
      BY <1>0, <1>1, <1>3, <2>0, <3>6, <3>8, <3>9 DEF SentInv
    <3>. QED
      BY <1>6, <3>7, <3>10
  <2>. QED
    BY <2>1, <2>2
<1>9. CASE SendStep
  <2>1. got \in Line /\ Past = got - 1 /\ Past' = got /\ lines[got] = "ok" /\ recChan' = Append(recChan, got)
    BY <1>0, <1>2, <1>9 DEF Past, DecodeInv, Line, SendStep
  <2>2. \A i \in Line : i <= Past' <=> (i <= Past \/ i = got)
    BY <2>1 DEF Line
  <2>3. Ok(Past') = Ok(Past) \cup {got}
    BY <2>1, <2>2 DEF Ok
  <2>4. \A y \in Held(emitted) \cup Held(recChan) : y < got
    BY <1>0, <2>1 DEF SentInv, Ok, Line
  <2>5. InLine(emitted, recChan)
    BY <1>0 DEF SentInv
  <2>6. /\ InLine(emitted, recChan')
        /\ Held(emitted) \cup Held(recChan') = (Held(emitted) \cup Held(recChan)) \cup {got}
    BY <1>2, <2>1, <2>4, <2>5, Sending
  <2>7. SentInv'
    BY <1>0, <1>1, <1>3, <2>3, <2>6 DEF SentInv
  <2>8. ErrInv'
    BY <1>0, <1>1, <1>9, <2>1, <2>2 DEF ErrInv, SendStep
  <2>. QED
    BY <1>6, <2>7, <2>8
<1>. QED
  BY <1>4, <1>7, <1>8, <1>9

(* The feeder moves on when its line was taken, and ends without an error  *)
(* only after the last line.                                               *)
LEMMA FeederInv == ASSUME PipeInv, Feeder PROVE PipeInv'
<1>. USE PipeAssumption
<1>0. Types /\ FedInv /\ DecodeInv /\ ErrInv /\ SentInv /\ DrainInv
  BY DEF PipeInv
<1>1. /\ UNCHANGED <<format, lines, ctxDone, decoder, got, errs, recChan, consumer, emitted, result>>
      /\ FeederLoop \/ FeederWritten
  BY DEF Feeder, inputVars, decVars, conVars
<1>2. /\ next \in 1..(NumLines + 1) /\ pipe \in 0..NumLines /\ got \in 0..NumLines
  BY <1>0 DEF Types
<1>3. feeder # "ended" /\ Past' = Past /\ (Dropped' <=> Dropped) /\ \A n : Ok(n)' = Ok(n)
  BY <1>1 DEF FeederLoop, FeederWritten, Past, Dropped, Ok
<1>4. DecodeInv' /\ DrainInv'
  BY <1>0, <1>1, <1>3 DEF DecodeInv, DrainInv
<1>5. ErrInv'
  BY <1>0, <1>1, <1>3 DEF ErrInv
<1>6. SentInv'
  BY <1>0, <1>1, <1>3 DEF SentInv
<1>7. Types' /\ FedInv'
  <2>1. CASE FeederLoop /\ ctxDone
    <3>1. feeder' = "ended" /\ feedErr' = TRUE /\ pipe' = pipe /\ next' = next /\ feeder = "loop"
      BY <2>1 DEF FeederLoop, FeederEnd
    <3>2. Types'
      BY <1>0, <1>1, <3>1 DEF Types
    <3>. QED
      BY <1>0, <1>1, <3>1, <3>2 DEF FedInv
  <2>2. CASE FeederLoop /\ ~ctxDone /\ next > NumLines
    <3>1. feeder' = "ended" /\ feedErr' = FALSE /\ pipe' = pipe /\ next' = next /\ feeder = "loop"
      BY <2>2 DEF FeederLoop, FeederEnd
    <3>2. Types'
      BY <1>0, <1>1, <3>1 DEF Types
    <3>3. next = NumLines + 1
      BY <1>2, <2>2
    <3>. QED
      BY <1>0, <1>1, <3>1, <3>2, <3>3 DEF FedInv
  <2>3. CASE FeederLoop /\ ~ctxDone /\ ~(next > NumLines) /\ lines[next] = "ioerr"
    <3>1. feeder' = "ended" /\ feedErr' = TRUE /\ pipe' = pipe /\ next' = next /\ feeder = "loop"
      BY <2>3 DEF FeederLoop, FeederEnd
    <3>2. Types'
      BY <1>0, <1>1, <3>1 DEF Types
    <3>. QED
      BY <1>0, <1>1, <3>1, <3>2 DEF FedInv
  <2>4. CASE FeederLoop /\ ~ctxDone /\ ~(next > NumLines) /\ lines[next] # "ioerr"
    <3>1. feeder' = "write" /\ feedErr' = feedErr /\ pipe' = next /\ next' = next /\ feeder = "loop"
      BY <2>4 DEF FeederLoop, FeederEnd
    <3>2. next \in 1..NumLines
      BY <1>2, <2>4
    <3>3. Types'
      BY <1>0, <1>1, <3>1, <3>2 DEF Types
    <3>. QED
      BY <1>0, <1>1, <2>4, <3>1, <3>2, <3>3 DEF FedInv
  <2>5. CASE FeederWritten /\ pipe = 0
    <3>1. feeder = "write" /\ feeder' = "loop" /\ feedErr' = feedErr /\ pipe' = 0 /\ next' = next + 1
      BY <2>5 DEF FeederWritten
    <3>2. next \in 1..NumLines /\ lines[next] # "ioerr" /\ got = next
      BY <1>0, <1>2, <2>5, <3>1 DEF FedInv
    <3>3. Types'
      BY <1>0, <1>1, <3>1, <3>2 DEF Types
    <3>4. \A i \in Line : i < next + 1 => i < next \/ i = next
      BY <3>2 DEF Line
    <3>. QED
      BY <1>0, <1>1, <3>1, <3>2, <3>3, <3>4 DEF FedInv
  <2>6. CASE FeederWritten /\ pipe # 0
    <3>1. feeder = "write" /\ feeder' = "ended" /\ feedErr' = TRUE /\ pipe' = 0 /\ next' = next
      BY <2>6 DEF FeederWritten, FeederEnd
    <3>2. Types'
      BY <1>0, <1>1, <3>1 DEF Types
    <3>. QED
      BY <1>0, <1>1, <2>6, <3>1, <3>2 DEF FedInv
  <2>. QED
    BY <1>1, <2>1, <2>2, <2>3, <2>4, <2>5, <2>6
<1>. QED
  BY <1>0, <1>4, <1>5, <1>6, <1>7 DEF PipeInv

(* Records pass from the queue to the output in their order; success is    *)
(* reported when decoder and feeder have ended without error.              *)
LEMMA ConsumerInv == ASSUME PipeInv, Consumer PROVE PipeInv'
<1>. USE PipeAssumption
<1>0. Types /\ FedInv /\ DecodeInv /\ ErrInv /\ SentInv /\ DrainInv
  BY DEF PipeInv
<1>1. /\ UNCHANGED <<format, lines, ctxDone, feeder, next, feedErr, pipe>>
      /\ Setup \/ DrainRecords \/ DrainDecErrs \/ DrainFeedErrs
  BY DEF Consumer, inputVars, feedVars
<1>2. errs \in 0..ErrCap /\ emitted \in Seq(Line) /\ recChan \in Seq(Line)
  BY <1>0 DEF Types
<1>3. (Dropped' <=> Dropped) /\ \A n : Ok(n)' = Ok(n)
  BY <1>1 DEF Dropped, Ok
<1>4. CASE Setup
  <2>1. /\ UNCHANGED <<got, errs, recChan, emitted>> /\ result # "error" /\ decoder = "unstarted"
        /\ \/ consumer' = "returned" /\ result' = "error" /\ decoder' = decoder
           \/ consumer' = "records" /\ decoder' = "loop" /\ result' = result
    BY <1>0, <1>4 DEF Setup, Finish, DrainInv, Types
  <2>2. Past' = Past
    BY <2>1 DEF Past
  <2>3. Types'
    BY <1>0, <1>1, <2>1 DEF Types
  <2>4. FedInv' /\ DecodeInv'
    BY <1>0, <1>1, <2>1 DEF FedInv, DecodeInv
  <2>5. ErrInv'
    BY <1>0, <1>1, <2>1, <2>2 DEF ErrInv
  <2>6. SentInv'
    BY <1>0, <1>1, <1>3, <2>1, <2>2 DEF SentInv
  <2>7. DrainInv'
    BY <1>0, <1>1, <1>4, <2>1 DEF DrainInv, Setup
  <2>. QED
    BY <2>3, <2>4, <2>5, <2>6, <2>7 DEF PipeInv
<1>5. CASE DrainRecords /\ recChan # <<>>
  <2>1. /\ UNCHANGED <<result, decoder, got, errs, consumer>> /\ consumer = "records"
        /\ emitted' = Append(emitted, Head(recChan)) /\ recChan' = Tail(recChan)
    BY <1>5 DEF DrainRecords, decVars
  <2>2. Past' = Past /\ InLine(emitted, recChan)
    BY <1>0, <2>1 DEF Past, SentInv
  <2>3. /\ emitted' \in Seq(Line) /\ recChan' \in Seq(Line) /\ InLine(emitted', recChan')
        /\ Held(emitted') \cup Held(recChan') = Held(emitted) \cup Held(recChan)
    BY <1>2, <1>5, <2>1, <2>2, Receiving
  <2>4. Types'
    BY <1>0, <1>1, <2>1, <2>3 DEF Types
  <2>5. FedInv' /\ DecodeInv'
    BY <1>0, <1>1, <2>1 DEF FedInv, DecodeInv
  <2>6. ErrInv'
    BY <1>0, <1>1, <2>1, <2>2 DEF ErrInv
  <2>7. SentInv'
    BY <1>0, <1>3, <2>2, <2>3 DEF SentInv
  <2>8. DrainInv'
    BY <1>0, <1>1, <2>1 DEF DrainInv
  <2>. QED
    BY <2>4, <2>5, <2>6, <2>7, <2>8 DEF PipeInv
<1>6. CASE DrainRecords /\ recChan = <<>>
  <2>1. /\ UNCHANGED <<result, decoder, got, errs, emitted, recChan>> /\ decoder = "ended"
        /\ consumer = "records" /\ consumer' = "decErrs"
    BY <1>6 DEF DrainRecords, decVars
  <2>2. Past' = Past
    BY <2>1 DEF Past
  <2>3. Types'
    BY <1>0, <1>1, <2>1 DEF Types
  <2>4. FedInv' /\ DecodeInv'
    BY <1>0, <1>1, <2>1 DEF FedInv, DecodeInv
  <2>5. ErrInv' /\ SentInv'
    BY <1>0, <1>1, <1>3, <2>1, <2>2 DEF ErrInv, SentInv
  <2>6. DrainInv'
    BY <1>0, <1>1, <1>6, <2>1 DEF DrainInv
  <2>. QED
    BY <2>3, <2>4, <2>5, <2>6 DEF PipeInv
<1>7. CASE DrainDecErrs
  <2>1. /\ UNCHANGED <<decoder, got, recChan, emitted>> /\ consumer = "decErrs"
        /\ \/ consumer' = "returned" /\ result' = "error" /\ errs > 0 /\ errs' = errs - 1
           \/ consumer' = "feedErrs" /\ result' = result /\ errs = 0 /\ errs' = errs
    BY <1>2, <1>7 DEF DrainDecErrs, Finish
  <2>2. Past' = Past /\ errs' \in 0..ErrCap
    BY <1>2, <2>1 DEF Past
  <2>3. Types'
    BY <1>0, <1>1, <2>1, <2>2 DEF Types
  <2>4. FedInv' /\ DecodeInv'
    BY <1>0, <1>1, <2>1 DEF FedInv, DecodeInv
  <2>5. ErrInv'
    BY <1>0, <1>1, <2>1, <2>2 DEF ErrInv
  <2>6. SentInv'
    BY <1>0, <1>1, <1>3, <2>1, <2>2 DEF SentInv
  <2>7. DrainInv'
    BY <1>0, <1>1, <2>1 DEF DrainInv
  <2>. QED
    BY <2>3, <2>4, <2>5, <2>6, <2>7 DEF PipeInv
<1>8. CASE DrainFeedErrs
  <2>1. /\ UNCHANGED <<decoder, got, errs, recChan, emitted>> /\ consumer = "feedErrs"
        /\ consumer' = "returned" /\ (feedErr \/ feeder = "ended")
        /\ result' = IF feedErr THEN "error" ELSE "nil"
    BY <1>8 DEF DrainFeedErrs, Finish, decVars
  <2>2. Past' = Past /\ result = "none"
    BY <1>0, <2>1 DEF Past, DrainInv
  <2>3. Types'
    BY <1>0, <1>1, <2>1 DEF Types
  <2>4. FedInv' /\ DecodeInv'
    BY <1>0, <1>1, <2>1 DEF FedInv, DecodeInv
  <2>5. ErrInv'
    BY <1>0, <1>1, <2>1, <2>2 DEF ErrInv
  <2>6. SentInv'
    BY <1>0, <1>1, <1>3, <2>1, <2>2 DEF SentInv
  <2>7. DrainInv'
    BY <1>0, <1>1, <2>1 DEF DrainInv
  <2>. QED
    BY <2>3, <2>4, <2>5, <2>6, <2>7 DEF PipeInv
<1>. QED
  BY <1>1, <1>4, <1>5, <1>6, <1>7, <1>8

LEMMA PipeStarts == PipeInit => PipeInv
<1>. SUFFICES ASSUME PipeInit PROVE PipeInv
  OBVIOUS
<1>. USE PipeAssumption
<1>1. lines \in [Line -> LineKinds] /\ (format # "json_array" => \A i \in Line : lines[i] \notin {"syntax", "close"})
  <2>1. KindsOf(format) \subseteq LineKinds
    BY DEF KindsOf
  <2>2. format # "json_array" => KindsOf(format) \subseteq {"ok", "skip", "bad", "ioerr"}
    <3>1. format \in {"csv", "jsonl", "json_array"}
      BY DEF PipeInit
    <3>. QED
      BY <3>1 DEF KindsOf
  <2>3. \A i \in Line : lines[i] \in KindsOf(format)
    BY DEF PipeInit
  <2>4. lines \in [Line -> LineKinds]
    BY <2>1, <2>3 DEF PipeInit
  <2>. QED
    BY <2>2, <2>3, <2>4
<1>2. Types
  <2>1. recChan \in Seq(Line) /\ emitted \in Seq(Line)
    BY DEF PipeInit
  <2>2. next \in 1..(NumLines + 1) /\ pipe \in 0..NumLines /\ got \in 0..NumLines /\ errs \in 0..ErrCap
    BY DEF PipeInit
  <2>3. ctxDone \in BOOLEAN /\ feedErr \in BOOLEAN /\ format \in Formats
    BY DEF PipeInit
  <2>. QED
    BY <1>1, <2>1, <2>2, <2>3 DEF PipeInit, Types
<1>3. FedInv /\ DecodeInv /\ DrainInv
  BY DEF PipeInit, FedInv, DecodeInv, DrainInv, Line
<1>4. Past = 0
  BY DEF PipeInit, Past
<1>5. Ok(Past) = {} /\ ErrInv
  BY <1>4 DEF Ok, ErrInv, Line
<1>6. Held(emitted) = {} /\ Held(recChan) = {}
  BY DEF PipeInit, Held
<1>7. InLine(emitted, recChan)
  <2>1. emitted = <<>> /\ recChan = <<>>
    BY DEF PipeInit
  <2>2. \A s : s = <<>> => InFileOrder(s)
    BY DEF InFileOrder
  <2>. QED
    BY <1>6, <2>1, <2>2 DEF InLine
<1>8. SentInv
  BY <1>5, <1>6, <1>7 DEF SentInv
<1>. QED
  BY <1>2, <1>3, <1>5, <1>8 DEF PipeInv

LEMMA PipeStep == PipeInv /\ [PipeNext]_pipeVars => PipeInv'
<1>. SUFFICES ASSUME PipeInv, [PipeNext]_pipeVars PROVE PipeInv'
  OBVIOUS
<1>1. CASE Decoder
  BY <1>1, DecoderLines, DecoderQueue DEF PipeInv
<1>2. CASE Cancel \/ UNCHANGED pipeVars
  <2>0. Types /\ FedInv /\ DecodeInv /\ ErrInv /\ SentInv /\ DrainInv
    BY DEF PipeInv
  <2>1. /\ UNCHANGED <<format, lines, feeder, next, pipe, feedErr, decoder, got, errs, recChan,
                       consumer, emitted, result>>
        /\ ctxDone' = TRUE \/ ctxDone' = ctxDone
    BY <1>2 DEF Cancel, pipeVars, inputVars, feedVars, decVars, conVars
  <2>2. ctxDone' \in BOOLEAN
    BY <2>0, <2>1 DEF Types
  <2>3. Types' /\ FedInv' /\ DecodeInv' /\ DrainInv'
    BY <2>0, <2>1, <2>2 DEF Types, FedInv, DecodeInv, DrainInv
  <2>4. Past' = Past /\ (Dropped => Dropped') /\ Ok(Past') = Ok(Past) /\ \A n : Ok(n)' = Ok(n)
    <3>1. Past' = Past /\ \A n : Ok(n)' = Ok(n)
      BY <2>1 DEF Past, Ok
    <3>2. Dropped => Dropped'
      BY <2>1 DEF Dropped
    <3>. QED
      BY <3>1, <3>2
  <2>5. ErrInv' /\ SentInv'
    BY <2>0, <2>1, <2>4 DEF ErrInv, SentInv
  <2>. QED
    BY <2>3, <2>5 DEF PipeInv
<1>. QED
  BY <1>1, <1>2, FeederInv, ConsumerInv DEF PipeNext, PipeTerminated

LEMMA PipeInvariance == PipeSpec => []PipeInv
BY PipeStarts, PipeStep, PTL DEF PipeSpec

(* Success means the whole restriction, for any lines, any format, any     *)
(* capacity of the channels and any interleaving of feeder, decoder and    *)
(* ProcessElement: when nil is returned every record was emitted once and  *)
(* in file order, and no line was malformed or unreadable.                 *)
THEOREM SuccessIsWhole == PipeSpec => []NoSilentLoss
<1>1. PipeInv => NoSilentLoss
  <2>. USE PipeAssumption
  <2>. SUFFICES ASSUME PipeInv, result = "nil", format = "csv" \/ ~ctxDone
                PROVE  /\ InFileOrder(emitted)
                       /\ Held(emitted) = {i \in Line : lines[i] = "ok"}
                       /\ \A i \in Line : lines[i] \notin {"bad", "syntax", "ioerr"}
    BY DEF NoSilentLoss
  <2>0. Types /\ FedInv /\ DecodeInv /\ ErrInv /\ SentInv /\ DrainInv
    BY DEF PipeInv
  <2>1. decoder = "ended" /\ recChan = <<>> /\ errs = 0 /\ feeder = "ended" /\ ~feedErr
    BY <2>0 DEF DrainInv
  <2>2. next = NumLines + 1 /\ got = NumLines
    BY <2>0, <2>1 DEF FedInv
  <2>3. Past = NumLines
    BY <2>1, <2>2 DEF Past
  <2>4. \A i \in Line : i <= Past /\ i < next
    BY <2>2, <2>3 DEF Line
  <2>5. Held(recChan) = {}
    BY <2>1 DEF Held
  <2>6. ~Dropped
    BY DEF Dropped
  <2>7. Held(emitted) = Ok(Past) /\ InFileOrder(emitted)
    BY <2>0, <2>5, <2>6 DEF SentInv, InLine
  <2>8. Ok(Past) = {i \in Line : lines[i] = "ok"}
    BY <2>4 DEF Ok
  <2>9. \A i \in Line : lines[i] \notin {"bad", "syntax"}
    BY <2>0, <2>1, <2>4 DEF ErrInv
  <2>10. \A i \in Line : lines[i] # "ioerr"
    BY <2>0, <2>4 DEF FedInv
  <2>. QED
    BY <2>7, <2>8, <2>9, <2>10
<1>. QED
  BY <1>1, PipeInvariance, PTL

(* What the consumer has emitted: records of the restriction, in file      *)
(* order and none of them twice.                                           *)
EmitsRecords == InFileOrder(emitted) /\ Held(emitted) \subseteq {i \in Line : lines[i] = "ok"}

(* At all times, errors and cancellations included, what ProcessElement    *)
(* has emitted are records, in file order and none twice: recChan and the  *)
(* two other goroutines reorder and repeat nothing.                        *)
THEOREM OutputInOrder == PipeSpec => []EmitsRecords
<1>1. PipeInv => EmitsRecords
  BY DEF PipeInv, SentInv, InLine, Ok, EmitsRecords
<1>. QED
  BY <1>1, PipeInvariance, PTL

=============================================================================
