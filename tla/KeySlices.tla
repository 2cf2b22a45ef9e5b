------------------------------ MODULE KeySlices ------------------------------
(***************************************************************************)
(* How the partitioned sources share a table out among workers: the driver *)
(* looks at the keys once and turns them into slices, and each worker      *)
(* later reads the rows its slice's predicate selects.  Rows may be        *)
(* inserted all the while.                                                 *)
(*                                                                         *)
(* A row is its key.  For SQL it is the partition column, which may be     *)
(* NULL; for MongoDB it is _id, whose first part is a time in seconds.     *)
(* A failed reading leaves nothing and is run again, which is a reading    *)
(* at a later moment.                                                      *)
(***************************************************************************)
EXTENDS Integers, Sequences, FiniteSets, FiniteSetsExt

CONSTANTS NumRows, MaxKey,
          Stores,         \* the stores tried, of "sql", "mongo"
          BatchSize,      \* partition_config.batch_size (SQL)
          NumPartitions,  \* partition_config.num_partitions (MongoDB)
          IdsPerSecond,   \* how many _ids share a second
          Granules,       \* SQL: the spacing of float64 around the keys, 1 below 2^53
          Nullable,       \* may the partition column be NULL?
          NullsFirst      \* where the database sorts NULLs

ASSUME SlicesAssumption ==
  /\ NumRows \in Nat /\ MaxKey \in Nat
  /\ Stores \subseteq {"sql", "mongo"}
  /\ BatchSize \in Nat \ {0} /\ NumPartitions \in Nat \ {0, 1} /\ IdsPerSecond \in Nat \ {0}
  /\ Granules \subseteq {1, 2} \* keys below 2^54
  /\ Nullable \in BOOLEAN /\ NullsFirst \in BOOLEAN

Rows == 1..NumRows
Keys == 0..MaxKey
Null == -1

VARIABLES
  store,       \* which store is read; never changes
  partitioned, \* a partition column, or several partitions, are configured
  granule,     \* of Granules; never changes
  key,         \* the key of every row; never changes
  present,     \* the rows committed so far
  phase,       \* the driver: "start", "min" (MongoDB), "sliced" or "failed"
  minID,       \* MongoDB: the smallest _id, once it is fetched
  slices,      \* the slices, once they are calculated
  read, got,   \* the slices already read, and the rows each reading gave
  \* History, which no step reads.
  discovered,  \* the rows present when the slices were calculated
  early        \* the rows present before the first slice was read

config == <<store, partitioned, granule, key>>
driver == <<phase, minID, slices, discovered>>
workers == <<read, got>>
slicesVars == <<config, present, driver, workers, early>>

SlicesInit ==
  /\ store \in Stores
  /\ partitioned \in BOOLEAN
  /\ granule \in Granules
  /\ key \in [Rows -> Keys \cup (IF Nullable /\ store = "sql" THEN {Null} ELSE {})]
  /\ present \in SUBSET Rows
  /\ phase = "start" /\ minID = Null
  /\ slices = <<>> /\ read = {} /\ got = <<>>
  /\ discovered = {} /\ early = present

Slice(lower, upper, first, last) ==
  [lower |-> lower, upper |-> upper, isFirst |-> first, isLast |-> last]

WholeTable == <<Slice(Null, Null, TRUE, TRUE)>>

-----------------------------------------------------------------------------
(* SQL.  The bounds query ranks the rows by key (ROW_NUMBER), cuts the     *)
(* ranking into buckets of BatchSize and returns MIN and MAX of each,      *)
(* which ignore NULLs.  Rows of one key come in any order.                 *)

SortKey(r) == IF key[r] = Null THEN (IF NullsFirst THEN Null ELSE MaxKey + 1) ELSE key[r]
Before(q, r) == SortKey(q) < SortKey(r) \/ (SortKey(q) = SortKey(r) /\ q < r)
Rank(r) == Cardinality({q \in present : Before(q, r)})

NumBuckets == (Cardinality(present) + BatchSize - 1) \div BatchSize
BucketKeys(b) == {key[r] : r \in {q \in present : Rank(q) \div BatchSize = b - 1}} \ {Null}

Lower(b) == IF BucketKeys(b) = {} THEN Null ELSE Min(BucketKeys(b))
Upper(b) == IF BucketKeys(b) = {} THEN Null ELSE Max(BucketKeys(b))

(* Each slice ends at the largest key of its own bucket. *)
SlicesOwnUpper ==
  IF present = {} THEN WholeTable
  ELSE [b \in 1..NumBuckets |-> Slice(Lower(b), Upper(b), b = 1, b = NumBuckets)]

(* No slice at all for a table without rows. *)
SlicesNoneForEmpty ==
  [b \in 1..NumBuckets |->
     Slice(Lower(b), IF b = NumBuckets THEN Upper(b) ELSE Lower(b + 1),
           b = 1, b = NumBuckets)]

ConstructContiguousSlices ==
  IF present = {} THEN WholeTable
  ELSE [b \in 1..NumBuckets |->
          Slice(Lower(b), IF b = NumBuckets THEN Upper(b) ELSE Lower(b + 1),
                b = 1, b = NumBuckets)]

(* Intermediate slices that include both their bounds. *)
SliceQueryClosed(s, r) ==
  \/ (s.isFirst /\ s.isLast) \/ (s.lower = Null /\ s.upper = Null)
  \/ /\ key[r] # Null /\ s.lower # Null /\ key[r] >= s.lower
     /\ s.isLast \/ (s.upper # Null /\ key[r] <= s.upper)

(* The rows of a slice: all of them, an open end for the last slice, or    *)
(* [lower, upper).  A comparison with NULL is never true.                  *)
BuildWorkerSliceQuery(s, r) ==
  \/ (s.isFirst /\ s.isLast) \/ (s.lower = Null /\ s.upper = Null)
  \/ /\ key[r] # Null /\ s.lower # Null /\ key[r] >= s.lower
     /\ s.isLast \/ (s.upper # Null /\ key[r] < s.upper)

-----------------------------------------------------------------------------
(* MongoDB.  The seconds between the smallest and the largest _id are cut  *)
(* into NumPartitions steps; a bound is the first _id of its second.       *)

Second(id) == id \div IdsPerSecond

calculateStep(lo, hi) ==
  LET step == (Second(hi) - Second(lo)) \div NumPartitions
  IN  IF step < 1 THEN 1 ELSE step

calculateNextBound(lo, hi, i) ==
  IF i = NumPartitions THEN hi
                       ELSE (Second(lo) + i * calculateStep(lo, hi)) * IdsPerSecond

BuildObjectIDRanges(lo, hi) ==
  IF Second(hi) <= Second(lo)
    THEN <<Slice(lo, hi, TRUE, TRUE)>>
    ELSE [i \in 1..NumPartitions |->
            Slice(IF i = 1 THEN lo ELSE calculateNextBound(lo, hi, i - 1),
                  calculateNextBound(lo, hi, i), i = 1, i = NumPartitions)]

applySliceBounds(s, r) ==
  IF s.lower = Null \/ s.upper = Null THEN TRUE
  ELSE IF s.isFirst THEN key[r] <= s.upper
  ELSE key[r] >= s.lower /\ (s.isLast \/ key[r] < s.upper)

-----------------------------------------------------------------------------
(* The driver.  Slices travel to the workers as JSON, where a number comes *)
(* back as the nearest float64, ties to even; hexadecimal _ids stay whole. *)

Float64(k) ==
  LET q == k \div granule
      m == k % granule
  IN  IF 2 * m < granule \/ (2 * m = granule /\ q % 2 = 0) THEN q * granule
                                                         ELSE (q + 1) * granule

(* The bound as the worker gets it. *)
Decoded(bound) == IF bound = Null \/ store = "mongo" THEN bound ELSE Float64(bound)

decPartitionSlice(s) == Slice(Decoded(s.lower), Decoded(s.upper), s.isFirst, s.isLast)

Received(s) == [i \in DOMAIN s |-> decPartitionSlice(s[i])]

Sliced(s) ==
  /\ phase' = "sliced"
  /\ slices' = Received(s)
  /\ got' = [i \in DOMAIN s |-> {}]
  /\ discovered' = present

(* One query on SQL; the whole table when there is nothing to cut by. *)
CalculateSlices ==
  /\ store = "sql" /\ phase = "start"
  /\ Sliced(IF partitioned THEN ConstructContiguousSlices ELSE WholeTable)
  /\ UNCHANGED <<config, present, minID, read, early>>

(* Two queries on MongoDB, between which documents may be inserted.  When  *)
(* either finds nothing or fails, there is one slice, the whole collection. *)
FetchMin ==
  /\ store = "mongo" /\ phase = "start" /\ partitioned
  /\ phase' = "min"
  /\ \/ minID' = Null
     \/ present # {} /\ minID' = Min({key[r] : r \in present})
  /\ UNCHANGED <<config, present, slices, discovered, workers, early>>

CalculatePartitions ==
  /\ store = "mongo"
  /\ \/ phase = "start" /\ ~partitioned /\ Sliced(WholeTable)
     \/ phase = "min" /\ Sliced(WholeTable)
     \/ /\ phase = "min" /\ minID # Null
        /\ Sliced(BuildObjectIDRanges(minID, Max({key[r] : r \in present})))
  /\ UNCHANGED <<config, present, minID, read, early>>

(* The bounds query of SQL fails, the circuit is open, or the settings are *)
(* wrong: the job does not start.                                          *)
CalculateFails ==
  /\ phase = "start"
  /\ phase' = "failed"
  /\ UNCHANGED <<config, present, minID, slices, discovered, workers, early>>

Selects(s, r) ==
  IF store = "sql" THEN BuildWorkerSliceQuery(s, r) ELSE applySliceBounds(s, r)

(* A worker reads its slice. *)
ReadPartition(i) ==
  /\ i \notin read
  /\ read' = read \cup {i}
  /\ got' = [got EXCEPT ![i] = {r \in present : Selects(slices[i], r)}]
  /\ UNCHANGED <<config, present, driver, early>>

(* External: another program inserts a row. *)
InsertKey(r) ==
  /\ r \notin present
  /\ present' = present \cup {r}
  /\ early' = IF read = {} THEN early \cup {r} ELSE early
  /\ UNCHANGED <<config, driver, workers>>

AllRead == phase = "sliced" /\ read = DOMAIN slices
Terminated == (AllRead \/ phase = "failed") /\ UNCHANGED slicesVars

SlicesNext ==
  \/ CalculateSlices \/ FetchMin \/ CalculatePartitions \/ CalculateFails
  \/ \E i \in DOMAIN slices : ReadPartition(i)
  \/ \E r \in Rows : InsertKey(r)
  \/ Terminated

SlicesSpec == SlicesInit /\ [][SlicesNext]_slicesVars

-----------------------------------------------------------------------------
SliceSet == [lower : Int, upper : Int, isFirst : BOOLEAN, isLast : BOOLEAN]

(* The driver's and the workers' state stays in shape; a job that started *)
(* has a slice to read, an empty table too (ConstructContiguousSlices).   *)
TypeOK ==
  /\ store \in Stores /\ partitioned \in BOOLEAN /\ granule \in Granules
  /\ key \in [Rows -> Keys \cup {Null}]
  /\ present \subseteq Rows /\ early \subseteq present /\ discovered \subseteq early
  /\ phase \in {"start", "min", "sliced", "failed"}
  /\ minID \in Keys \cup {Null}
  /\ slices \in Seq(SliceSet) /\ (phase = "sliced" <=> slices # <<>>)
  /\ read \subseteq DOMAIN slices
  /\ got \in [DOMAIN slices -> SUBSET present]

Readers(r) == {i \in read : r \in got[i]}

(* No row is read by two workers, whatever is inserted while the slices    *)
(* are read: the predicates of two slices exclude each other.  MongoDB's   *)
(* first slice includes its upper bound, where the second one starts, so   *)
(* the document whose _id is that bound is excepted (applySliceBounds).    *)
NoRowTwice ==
  \A r \in Rows, i, j \in read :
    i # j /\ r \in got[i] /\ r \in got[j] => store = "mongo" /\ key[r] = slices[1].upper

(* A row that no slice was made for: inserted after the discovery (or its  *)
(* key is not a float64), below the first slice of SQL or above the only   *)
(* slice of MongoDB.                                                       *)
Outside(r) ==
  /\ r \notin discovered \/ granule > 1
  /\ IF store = "sql" THEN key[r] < slices[1].lower
                      ELSE Len(slices) = 1 /\ key[r] > slices[1].upper

(* No row is missed: when all slices are read, every row that was there    *)
(* when the slices were calculated has been read, and so has every row     *)
(* inserted before the first reading, unless it lies outside all slices    *)
(* (range_slicer.go:28-30, ConstructContiguousSlices).                     *)
NothingMissed ==
  AllRead => \A r \in early : Readers(r) # {} \/ Outside(r)
=============================================================================
