---------------------------- MODULE ByteStreamSDF ----------------------------
(***************************************************************************)
(* The splittable source of files: the initial restriction, its chunks,    *)
(* ProcessElement's feed loop on each restriction, the runner's dynamic    *)
(* splits racing with it, failures and retries.                            *)
(*                                                                         *)
(* A file is the kind of each of its bytes; a record ends with a newline,  *)
(* in multiline mode only with one outside quotes.  The pipe, the decoder  *)
(* and their goroutines are the subject of RecordPipe.                     *)
(***************************************************************************)
EXTENDS Integers, FiniteSets, ByteOffsetTracker

CONSTANTS Size,             \* the file's size in bytes
          ChunkSize,        \* chunk_size_bytes, after its default is applied
          MaxRestrictions,  \* how many restrictions the run may create
          Multiline,        \* records may hold newlines inside quotes
          Compressed        \* compression is neither "" nor "none"

ASSUME SizeAssumption == Size \in Nat
ASSUME ChunkAssumption == ChunkSize \in Nat \ {0}
ASSUME ModeAssumption == Multiline \in BOOLEAN /\ Compressed \in BOOLEAN

NumChunks == IF Compressed \/ Size <= ChunkSize
               THEN 1
               ELSE ((Size - 1) \div ChunkSize) + 1

ASSUME PoolAssumption == MaxRestrictions \in Nat /\ NumChunks <= MaxRestrictions

Workers == 1..MaxRestrictions
Offsets == 0..(Size - 1)

VARIABLES
  file,      \* kind of every byte; never changes
  tracker,   \* the tracker of each restriction
  pc,        \* where ProcessElement stands on each restriction
  rest,      \* the copy of the restriction ProcessElement took on entry
  currPos,   \* the feeder's read position
  fed        \* the byte ranges handed to the decoder by the current attempt

vars == <<file, tracker, pc, rest, currPos, fed>>

-----------------------------------------------------------------------------
(* Reading one record from a position: br.ReadBytes('\n') up to the first  *)
(* newline that leaves the quotes read so far balanced, or to the end of   *)
(* the file.  Escaped quotes do not change the balance and are not told    *)
(* apart from other bytes.                                                 *)

ByteKinds == IF Multiline THEN {"byte", "newline", "quote"} ELSE {"byte", "newline"}

Quotes(p, q) == {i \in p..q : file[i] = "quote"}

Breaks(p, q) ==
  /\ file[q] = "newline"
  /\ Multiline => Cardinality(Quotes(p, q)) % 2 = 0

FirstBreak(p, q) == Breaks(p, q) /\ \A r \in p..(q - 1) : ~Breaks(p, r)

HitsEOF(p) == ~ \E q \in p..(Size - 1) : FirstBreak(p, q)

readRecordBytes(p) ==
  IF HitsEOF(p) THEN Size
                ELSE (CHOOSE q \in p..(Size - 1) : FirstBreak(p, q)) + 1

-----------------------------------------------------------------------------
Minimum(a, b) == IF a <= b THEN a ELSE b

(* Chunks of full length to the last. *)
SplitUnclamped(w) ==
  IF NumChunks = 1
    THEN NewByteOffsetTracker(0, Size)
    ELSE NewByteOffsetTracker((w - 1) * ChunkSize, w * ChunkSize)

(* The chunk that restriction w starts with: SplitRestriction of [0, Size). *)
SplitRestriction(w) ==
  IF NumChunks = 1
    THEN NewByteOffsetTracker(0, Size)
    ELSE NewByteOffsetTracker((w - 1) * ChunkSize, Minimum(w * ChunkSize, Size))

Idle == NewByteOffsetTracker(0, 0)

Init ==
  /\ file \in [Offsets -> ByteKinds]
  /\ tracker = [w \in Workers |-> IF w <= NumChunks THEN SplitRestriction(w) ELSE Idle]
  /\ pc = [w \in Workers |-> IF w <= NumChunks THEN "queued" ELSE "unborn"]
  /\ rest = [w \in Workers |-> [start |-> 0, end |-> 0]]
  /\ currPos = [w \in Workers |-> 0]
  /\ fed = [w \in Workers |-> {}]

Goto(w, label) == pc' = [pc EXCEPT ![w] = label]

(* Entry: the restriction is read once, the file is opened at its start. *)
Open(w) ==
  /\ pc[w] = "queued"
  /\ rest' = [rest EXCEPT ![w] = [start |-> tracker[w].start, end |-> tracker[w].end]]
  /\ currPos' = [currPos EXCEPT ![w] = tracker[w].start]
  /\ Goto(w, "opened")
  /\ UNCHANGED <<file, tracker, fed>>

(* A reader that trusts its start offset to be a record boundary. *)
SyncNothing(w) ==
  /\ pc[w] = "opened"
  /\ Goto(w, "feed")
  /\ UNCHANGED <<file, tracker, rest, currPos, fed>>

(* A worker that does not start at offset 0 first discards a record. *)
Sync(w) ==
  /\ pc[w] = "opened"
  /\ IF rest[w].start > 0
       THEN /\ currPos' = [currPos EXCEPT ![w] = readRecordBytes(currPos[w])]
            /\ Goto(w, IF currPos'[w] >= rest[w].end THEN "draining" ELSE "feed")
       ELSE Goto(w, "feed") /\ UNCHANGED currPos
  /\ UNCHANGED <<file, tracker, rest, fed>>

(* A feed loop that stops one byte short of its range. *)
ClaimStopsShort(w) ==
  /\ pc[w] = "feed"
  /\ IF currPos[w] + 1 >= rest[w].end
       THEN Goto(w, "draining") /\ UNCHANGED tracker
       ELSE /\ tracker' = [tracker EXCEPT ![w] = ClaimOffset(@, currPos[w])]
            /\ Goto(w, IF Claimable(tracker[w], currPos[w]) THEN "claimed" ELSE "draining")
  /\ UNCHANGED <<file, rest, currPos, fed>>

(* One iteration of the feeder up to its claim; a refused claim ends it. *)
Claim(w) ==
  /\ pc[w] = "feed"
  /\ IF currPos[w] >= rest[w].end
       THEN Goto(w, "draining") /\ UNCHANGED tracker
       ELSE /\ tracker' = [tracker EXCEPT ![w] = ClaimOffset(@, currPos[w])]
            /\ Goto(w, IF Claimable(tracker[w], currPos[w]) THEN "claimed" ELSE "draining")
  /\ UNCHANGED <<file, rest, currPos, fed>>

(* The rest of the iteration: read the claimed record, write it to the pipe. *)
Feed(w) ==
  /\ pc[w] = "claimed"
  /\ fed' = [fed EXCEPT ![w] = @ \cup {<<currPos[w], readRecordBytes(currPos[w])>>}]
  /\ currPos' = [currPos EXCEPT ![w] = readRecordBytes(currPos[w])]
  /\ Goto(w, IF HitsEOF(currPos[w]) THEN "draining" ELSE "feed")
  /\ UNCHANGED <<file, tracker, rest>>

(* The decoder has drained and ProcessElement returns nil. *)
Return(w) ==
  /\ pc[w] = "draining"
  /\ tracker' = [tracker EXCEPT ![w] = MarkDone(@)]
  /\ Goto(w, "done")
  /\ UNCHANGED <<file, rest, currPos, fed>>

Running(w) == pc[w] \in {"opened", "feed", "claimed", "draining"}

(* Any error of opening, reading, decoding or feeding: ProcessElement      *)
(* returns it, the deferred MarkDone runs and the runner drops the output. *)
Fail(w) ==
  /\ Running(w)
  /\ tracker' = [tracker EXCEPT ![w] = MarkDone(@)]
  /\ fed' = [fed EXCEPT ![w] = {}]
  /\ Goto(w, "failed")
  /\ UNCHANGED <<file, rest, currPos>>

(* External: the runner schedules the failed restriction again, with a new *)
(* tracker on what the accepted splits have left of it.                    *)
Retry(w) ==
  /\ pc[w] = "failed"
  /\ tracker' = [tracker EXCEPT ![w] = NewByteOffsetTracker(@.start, @.end)]
  /\ Goto(w, "queued")
  /\ UNCHANGED <<file, rest, currPos, fed>>

(* The runner splits a live restriction; the residual becomes a new one. *)
TrySplit(w, n) ==
  /\ pc[w] = "queued" \/ Running(w)
  /\ pc[n] = "unborn"
  /\ \E k \in 0..Remaining(tracker[w]) :
       /\ Splittable(tracker[w], k)
       /\ tracker' = [tracker EXCEPT ![w] = Primary(tracker[w], k),
                                     ![n] = Residual(tracker[w], k)]
  /\ Goto(n, "queued")
  /\ UNCHANGED <<file, rest, currPos, fed>>

AllDone == \A w \in Workers : pc[w] \in {"unborn", "done"}

Terminated == AllDone /\ UNCHANGED vars

Next ==
  \/ \E w \in Workers :
       \/ Open(w) \/ Sync(w) \/ Claim(w) \/ Feed(w) \/ Return(w)
       \/ Fail(w) \/ Retry(w)
  \/ \E w, n \in Workers : w # n /\ TrySplit(w, n)
  \/ Terminated

Spec == Init /\ [][Next]_vars

-----------------------------------------------------------------------------
Labels == {"unborn", "queued", "opened", "feed", "claimed", "draining", "done", "failed"}

(* Every variable keeps its shape: in particular a tracker never reaches *)
(* past the file, whatever was split off it (byte_offset_tracker.go).    *)
TypeOK ==
  /\ file \in [Offsets -> ByteKinds]
  /\ tracker \in [Workers -> [start : 0..Size, end : 0..Size,
                              claimed : (-1)..(Size - 1), stopped : BOOLEAN]]
  /\ pc \in [Workers -> Labels]
  /\ rest \in [Workers -> [start : 0..Size, end : 0..Size]]
  /\ currPos \in [Workers -> 0..Size]
  /\ fed \in [Workers -> SUBSET (Offsets \X (0..Size))]

RecordStarts == {s \in Offsets : s = 0 \/ Breaks(0, s - 1)}

(* No record is read twice: two restrictions never feed a record with the  *)
(* same first byte, however chunks, claims and dynamic splits interleave   *)
(* (ClaimOffset and TrySplit of byte_offset_tracker.go).                   *)
NoDuplicateRecords ==
  \A v, w \in Workers : v # w =>
    \A q \in fed[v], r \in fed[w] : q[1] # r[1]

(* A worker only feeds whole records of a file whose quotes are balanced:  *)
(* a chunk or split that starts in the middle of a record is               *)
(* resynchronised before feeding (ProcessElement, "discard partial line    *)
(* respecting quote parity").                                              *)
RecordsIntact ==
  Cardinality(Quotes(0, Size - 1)) % 2 = 0 => \A w \in Workers : \A r \in fed[w] :
    r[1] \in RecordStarts /\ r[2] = readRecordBytes(r[1])

Fed(s) == \E w \in Workers : \E r \in fed[w] : r[1] = s

(* When every restriction is processed, each record of the file was fed,   *)
(* except the ones whose first byte is the first byte of a restriction     *)
(* other than [0, ...): the left worker stops before that byte and the     *)
(* right one discards the record it starts with.                           *)
OmittedOnlyAtBoundary ==
  AllDone => \A s \in RecordStarts :
    Fed(s) \/ (s > 0 /\ \E w \in Workers : pc[w] = "done" /\ tracker[w].start = s)

(* docs/architecture-adapters-and-sinks.md:123 on the alignment of chunks: *)
(* the file is read without omissions.                                     *)
NoOmission == AllDone => \A s \in RecordStarts : Fed(s)

(* The promise of a restriction tracker, with the byte range of each       *)
(* restriction as what it owns and the bytes up to its claim as sealed.    *)
Owned  == [w \in Workers |-> {p \in Offsets : tracker[w].start <= p /\ p < tracker[w].end}]
Sealed == [w \in Workers |-> {p \in Offsets : tracker[w].start <= p /\ p <= tracker[w].claimed}]

WR == INSTANCE WorkRange WITH
        Items <- Workers, Positions <- Offsets, own <- Owned, sealed <- Sealed

(* Chunks, claims, dynamic splits and retries implement the promise: at    *)
(* all times every byte belongs to exactly one restriction, and a byte at  *)
(* or below a claim is never handed to another worker.                     *)
ImplementsWorkRange == WR!WorkSpec
=============================================================================
