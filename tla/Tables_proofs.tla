---------------------------- MODULE Tables_proofs ----------------------------
(***************************************************************************)
(* Proofs about the reading of tables that grow: for any table, batch size *)
(* and number of partitions the slices of one run exclude each other and   *)
(* leave no row out (KeySlices), and for any source, configurations and    *)
(* number of runs the watermark passes over no row (Watermark).            *)
(***************************************************************************)
EXTENDS KeySlices, Watermark, FiniteSetTheorems, SequenceTheorems, WellFoundedInduction, TLAPS

-----------------------------------------------------------------------------
(* The slices of one run.                                                  *)

(* Numbers. *)

(* A set of natural numbers has a least element. *)
LEMMA LeastNatural ==
  ASSUME NEW S \in SUBSET Nat, S # {}
  PROVE  \E x \in S : \A y \in S : x <= y
<1>1. PICK x \in S : \A y \in S : ~(<<y, x>> \in OpToRel(<, Nat))
  BY WFMin, NatLessThanWellFounded
<1>2. \A y \in S : ~(y < x)
  BY <1>1 DEF OpToRel
<1> QED  BY <1>2

(* MIN of a set of keys is one of them and the least. *)
LEMMA MinKey ==
  ASSUME NEW S \in SUBSET Keys, S # {}
  PROVE  Min(S) \in S /\ \A y \in S : Min(S) <= y
<1>1. \E x \in S : \A y \in S : x <= y
  BY LeastNatural, SlicesAssumption DEF Keys
<1> QED  BY <1>1 DEF Min

(* MAX of a set of keys is one of them. *)
LEMMA MaxKeyOf ==
  ASSUME NEW S \in SUBSET Keys, S # {}
  PROVE  Max(S) \in S /\ \A y \in S : Max(S) >= y
<1> DEFINE T == {MaxKey - y : y \in S}
<1>0. MaxKey \in Nat /\ Keys = 0..MaxKey  BY SlicesAssumption DEF Keys
<1>1. T \in SUBSET Nat /\ T # {}
  <2>1. \A y \in S : MaxKey - y \in Nat  BY <1>0
  <2>2. PICK y \in S : TRUE  OBVIOUS
  <2>3. MaxKey - y \in T  OBVIOUS
  <2> QED  BY <2>1, <2>3
<1>2. PICK t \in T : \A u \in T : t <= u  BY <1>1, LeastNatural
<1>3. PICK x \in S : t = MaxKey - x  OBVIOUS
<1>4. \A y \in S : x >= y
  <2> SUFFICES ASSUME NEW y \in S PROVE x >= y  OBVIOUS
  <2>1. t <= MaxKey - y  BY <1>2
  <2> QED  BY <2>1, <1>0, <1>3
<1>5. \E z \in S : \A y \in S : z >= y  BY <1>4
<1> QED  BY <1>5 DEF Max

(* Multiplication by a natural number is monotone. *)
LEMMA TimesMonotone ==
  ASSUME NEW a \in Int, NEW b \in Int, NEW c \in Nat, a <= b
  PROVE  a * c <= b * c /\ a * c \in Int /\ b * c \in Int
  OBVIOUS

(* What \div by a positive number means. *)
LEMMA Division ==
  ASSUME NEW x \in Nat, NEW d \in Nat \ {0}
  PROVE  /\ x \div d \in Nat /\ (x \div d) * d \in Nat
         /\ (x \div d) * d <= x /\ x < (x \div d) * d + d
  OBVIOUS

(* Division is monotone. *)
LEMMA DivMonotone ==
  ASSUME NEW x \in Nat, NEW y \in Nat, x <= y, NEW d \in Nat \ {0}
  PROVE  x \div d <= y \div d
<1>1. SUFFICES ASSUME y \div d + 1 <= x \div d PROVE FALSE  BY Division
<1>2. /\ x \div d \in Nat /\ y \div d \in Nat
      /\ (x \div d) * d <= x /\ y < (y \div d) * d + d
      /\ (x \div d) * d \in Nat /\ (y \div d) * d \in Nat
  BY Division
<1>3. (y \div d + 1) * d <= (x \div d) * d  BY <1>1, <1>2, TimesMonotone
<1>4. (y \div d + 1) * d = (y \div d) * d + d  BY <1>2
<1> QED  BY <1>2, <1>3, <1>4

(* A multiple divides evenly. *)
LEMMA DivExact ==
  ASSUME NEW k \in Nat, NEW d \in Nat \ {0}
  PROVE  k * d \in Nat /\ (k * d) \div d = k
<1>1. k * d \in Nat  OBVIOUS
<1> DEFINE q == (k * d) \div d
<1>2. q \in Nat /\ q * d <= k * d /\ k * d < q * d + d /\ q * d \in Nat  BY <1>1, Division
<1>3. CASE q <= k - 1
  <2>1. (q + 1) * d <= k * d  BY <1>2, <1>3, TimesMonotone
  <2> QED  BY <1>1, <1>2, <2>1
<1>4. CASE q >= k + 1
  <2>1. (k + 1) * d <= q * d  BY <1>2, <1>4, TimesMonotone
  <2>2. (k + 1) * d = k * d + d  OBVIOUS
  <2> QED  BY <1>1, <1>2, <2>1, <2>2
<1> QED  BY <1>1, <1>2, <1>3, <1>4

(* A set of indexes has a greatest element. *)
LEMMA GreatestIndex ==
  ASSUME NEW n \in Nat, NEW S \in SUBSET (1..n), S # {}
  PROVE  \E x \in S : \A y \in S : y <= x
<1> DEFINE T == {n - y : y \in S}
<1>1. T \in SUBSET Nat /\ T # {}
  <2>1. \A y \in S : n - y \in Nat  OBVIOUS
  <2>2. PICK y \in S : TRUE  OBVIOUS
  <2>3. n - y \in T  OBVIOUS
  <2> QED  BY <2>1, <2>3
<1>2. PICK t \in T : \A u \in T : t <= u  BY <1>1, LeastNatural
<1>3. PICK x \in S : t = n - x  OBVIOUS
<1>4. \A y \in S : y <= x
  <2> SUFFICES ASSUME NEW y \in S PROVE y <= x  OBVIOUS
  <2>1. t <= n - y  BY <1>2
  <2> QED  BY <2>1, <1>3
<1> QED  BY <1>4

(* Turning a key into a float64 and back keeps the order of keys. *)
LEMMA FloatMonotone ==
  ASSUME NEW a \in Nat, NEW b \in Nat, a <= b, granule \in {1, 2}
  PROVE  /\ Float64(a) \in Nat /\ Float64(b) \in Nat
         /\ Float64(a) <= Float64(b)
<1>1. CASE granule = 1  BY <1>1 DEF Float64
<1>2. CASE granule = 2  BY <1>2 DEF Float64
<1> QED  BY <1>1, <1>2

-----------------------------------------------------------------------------
(* SQL: the ranking of the rows. *)

Typed ==
  /\ key \in [Rows -> Keys \cup {Null}]
  /\ present \in SUBSET Rows

(* The rows are ranked by a strict total order. *)
LEMMA TotalOrder ==
  ASSUME Typed
  PROVE  /\ \A r \in Rows : ~Before(r, r)
         /\ \A q, r \in Rows : q # r => Before(q, r) \/ Before(r, q)
         /\ \A p, q, r \in Rows : Before(p, q) /\ Before(q, r) => Before(p, r)
<1>1. \A r \in Rows : SortKey(r) \in Int /\ r \in Int
  BY SlicesAssumption DEF Typed, SortKey, Rows, Keys, Null
<1> QED  BY <1>1 DEF Before

(* The rows that are present are finitely many. *)
LEMMA PresentFinite ==
  ASSUME Typed
  PROVE  /\ IsFiniteSet(present) /\ Cardinality(present) \in Nat
         /\ (present # {} => Cardinality(present) # 0)
<1>1. IsFiniteSet(Rows)  BY SlicesAssumption, FS_Interval DEF Rows
<1>2. IsFiniteSet(present)  BY <1>1, FS_Subset DEF Typed
<1> QED  BY <1>2, FS_CardinalityType, FS_EmptySet

(* An earlier row has a smaller rank. *)
LEMMA RankMonotone ==
  ASSUME Typed, NEW q \in present, NEW r \in present, Before(q, r)
  PROVE  Rank(q) < Rank(r)
<1> DEFINE Q == {p \in present : Before(p, q)}
           R == {p \in present : Before(p, r)}
<1>0. q \in Rows /\ r \in Rows /\ present \subseteq Rows  BY DEF Typed
<1>1. Q \subseteq R  BY <1>0, TotalOrder
<1>2. q \in R /\ q \notin Q  BY <1>0, TotalOrder
<1>3. IsFiniteSet(R)  BY PresentFinite, FS_Subset
<1>4. IsFiniteSet(Q) /\ Cardinality(Q) <= Cardinality(R) /\ Cardinality(Q) # Cardinality(R)
  <2> HIDE DEF Q, R
  <2> QED  BY <1>1, <1>2, <1>3, FS_Subset
<1>5. Cardinality(Q) \in Nat /\ Cardinality(R) \in Nat
  <2> HIDE DEF Q, R
  <2> QED  BY <1>3, <1>4, FS_CardinalityType
<1>6. Rank(q) = Cardinality(Q) /\ Rank(r) = Cardinality(R)  BY DEF Rank
<1> HIDE DEF Q, R
<1> QED  BY <1>4, <1>5, <1>6

(* The ranks of n rows are in 0..(n - 1). *)
LEMMA RankRange ==
  ASSUME Typed, NEW r \in present
  PROVE  Rank(r) \in 0..(Cardinality(present) - 1)
<1> DEFINE R == {p \in present : Before(p, r)}
<1>0. r \in Rows  BY DEF Typed
<1>1. R \subseteq present /\ r \notin R  BY <1>0, TotalOrder
<1>2. /\ IsFiniteSet(R) /\ Cardinality(R) <= Cardinality(present)
      /\ Cardinality(R) # Cardinality(present)
  <2> HIDE DEF R
  <2> QED  BY <1>1, PresentFinite, FS_Subset
<1>3. Cardinality(R) \in Nat
  <2> HIDE DEF R
  <2> QED  BY <1>2, FS_CardinalityType
<1>4. Rank(r) = Cardinality(R)  BY DEF Rank
<1> HIDE DEF R
<1> QED  BY <1>2, <1>3, <1>4, PresentFinite

(* Every rank below n is some row's: ROW_NUMBER leaves no gap. *)
LEMMA RankOnto ==
  ASSUME Typed, NEW k \in 0..(Cardinality(present) - 1)
  PROVE  \E r \in present : Rank(r) = k
<1> DEFINE n == Cardinality(present)
           f == [r \in present |-> Rank(r)]
<1>0. n \in Nat /\ IsFiniteSet(present)  BY PresentFinite
<1>1. f \in [present -> 0..(n - 1)]  BY RankRange
<1>2. \A q, r \in present : f[q] = f[r] => q = r
  <2> SUFFICES ASSUME NEW q \in present, NEW r \in present, q # r PROVE Rank(q) # Rank(r)
    OBVIOUS
  <2>1. Before(q, r) \/ Before(r, q)  BY TotalOrder DEF Typed
  <2>2. Rank(q) \in Int /\ Rank(r) \in Int  BY RankRange
  <2> QED  BY <2>1, <2>2, RankMonotone
<1>3. f \in Injection(present, 0..(n - 1))  BY <1>1, <1>2 DEF Injection, IsInjective
<1>4. IsFiniteSet(0..(n - 1)) /\ Cardinality(0..(n - 1)) = n
  <2> HIDE DEF n
  <2> QED  BY <1>0, FS_Interval
<1>5. f \in Surjection(present, 0..(n - 1))
  <2> HIDE DEF f
  <2> QED  BY <1>3, <1>4, FS_Injection
<1>6. \E r \in present : f[r] = k  BY <1>5 DEF Surjection
<1> QED  BY <1>6

-----------------------------------------------------------------------------
(* SQL: the buckets of a table without NULLs. *)

NullFree ==
  /\ key \in [Rows -> Keys]
  /\ present \in SUBSET Rows

Bucket(b) == {q \in present : Rank(q) \div BatchSize = b - 1}

(* Without NULLs the order is the order of the keys. *)
LEMMA NullFreeFacts ==
  ASSUME NullFree
  PROVE  /\ Typed
         /\ \A r \in Rows : key[r] \in Nat /\ key[r] # Null /\ SortKey(r) = key[r]
         /\ \A b : BucketKeys(b) = {key[r] : r \in Bucket(b)} /\ BucketKeys(b) \subseteq Keys
<1>1. Typed  BY DEF NullFree, Typed
<1>2. \A r \in Rows : key[r] \in Nat /\ key[r] # Null /\ SortKey(r) = key[r]
  BY SlicesAssumption DEF NullFree, Keys, Null, SortKey
<1>3. ASSUME NEW b
      PROVE  BucketKeys(b) = {key[r] : r \in Bucket(b)} /\ BucketKeys(b) \subseteq Keys
  <2>1. \A r \in Bucket(b) : key[r] \in Keys /\ key[r] # Null
    BY <1>2 DEF NullFree, Bucket
  <2> QED  BY <2>1 DEF BucketKeys, Bucket
<1> QED  BY <1>1, <1>2, <1>3

(* No bucket is empty. *)
LEMMA BucketsFilled ==
  ASSUME Typed, NEW b \in 1..NumBuckets
  PROVE  Bucket(b) # {}
<1> DEFINE n == Cardinality(present)
           k == b - 1
<1>0. n \in Nat /\ BatchSize \in Nat \ {0}  BY PresentFinite, SlicesAssumption
<1>1. /\ n + BatchSize - 1 \in Nat
      /\ NumBuckets \in Nat /\ NumBuckets * BatchSize <= n + BatchSize - 1
  <2>1. n + BatchSize - 1 \in Nat  BY <1>0
  <2> HIDE DEF n
  <2>2. NumBuckets = (n + BatchSize - 1) \div BatchSize  BY DEF NumBuckets, n
  <2> QED  BY <1>0, <2>1, <2>2, Division
<1>2. k \in Nat /\ k + 1 <= NumBuckets  BY <1>1
<1>3. (k + 1) * BatchSize <= NumBuckets * BatchSize
  <2> HIDE DEF k
  <2> QED  BY <1>0, <1>1, <1>2, TimesMonotone
<1>4. (k + 1) * BatchSize = k * BatchSize + BatchSize  BY <1>0, <1>2
<1>5. k * BatchSize \in Nat /\ (k * BatchSize) \div BatchSize = k
  <2> HIDE DEF k
  <2> QED  BY <1>0, <1>2, DivExact
<1>6. k * BatchSize \in 0..(n - 1)
  <2>1. NumBuckets * BatchSize \in Nat  BY <1>0, <1>1
  <2> HIDE DEF n, k
  <2> QED  BY <1>0, <1>1, <1>3, <1>4, <1>5, <2>1
<1>7. PICK r \in present : Rank(r) = k * BatchSize
  <2> HIDE DEF k
  <2> QED  BY <1>6, RankOnto
<1>8. Rank(r) \div BatchSize = b - 1  BY <1>5, <1>7
<1> QED  BY <1>8 DEF Bucket

(* The lower bound of a bucket is its least key. *)
LEMMA LowerOfBucket ==
  ASSUME NullFree, NEW b \in 1..NumBuckets
  PROVE  /\ Lower(b) \in Keys /\ Upper(b) \in Keys
         /\ \E r \in Bucket(b) : key[r] = Lower(b)
         /\ \A r \in Bucket(b) : Lower(b) <= key[r]
<1>1. Bucket(b) # {}  BY BucketsFilled, NullFreeFacts
<1>2. BucketKeys(b) = {key[r] : r \in Bucket(b)} /\ BucketKeys(b) \subseteq Keys
  BY NullFreeFacts
<1>3. BucketKeys(b) # {}  BY <1>1, <1>2
<1>4. /\ Lower(b) \in BucketKeys(b) /\ Upper(b) \in BucketKeys(b)
      /\ \A y \in BucketKeys(b) : Lower(b) <= y
  <2> HIDE DEF BucketKeys
  <2> QED  BY <1>2, <1>3, MinKey, MaxKeyOf DEF Lower, Upper
<1> QED  BY <1>2, <1>4

(* The lower bounds do not decrease. *)
LEMMA LowerMonotone ==
  ASSUME NullFree, NEW b \in 1..NumBuckets, NEW c \in 1..NumBuckets, b <= c
  PROVE  Lower(b) <= Lower(c)
<1>0. Lower(b) \in Nat /\ Lower(c) \in Nat  BY LowerOfBucket, SlicesAssumption DEF Keys
<1>1. CASE b = c  BY <1>0, <1>1
<1>2. CASE b < c
  <2>1. PICK q \in Bucket(b) : key[q] = Lower(b)  BY LowerOfBucket
  <2>2. PICK r \in Bucket(c) : key[r] = Lower(c)  BY LowerOfBucket
  <2>3. /\ q \in present /\ r \in present /\ q \in Rows /\ r \in Rows
        /\ Rank(q) \div BatchSize = b - 1 /\ Rank(r) \div BatchSize = c - 1
    BY DEF Bucket, NullFree
  <2>4. Rank(q) \in Nat /\ Rank(r) \in Nat
    <3>1. Cardinality(present) \in Nat  BY PresentFinite, NullFreeFacts
    <3> QED  BY <2>3, <3>1, RankRange, NullFreeFacts
  <2>5. ~(Rank(r) <= Rank(q))
    <3> SUFFICES ASSUME Rank(r) <= Rank(q) PROVE FALSE  OBVIOUS
    <3>1. Rank(r) \div BatchSize <= Rank(q) \div BatchSize
      BY <2>4, SlicesAssumption, DivMonotone
    <3>2. b \in Int /\ c \in Int  OBVIOUS
    <3> QED  BY <1>2, <2>3, <3>1, <3>2
  <2>6. ~Before(r, q)
    BY <2>3, <2>4, <2>5, RankMonotone, NullFreeFacts
  <2>7. Before(q, r)
    <3>1. q # r  BY <2>4, <2>5
    <3> QED  BY <2>3, <2>6, <3>1, TotalOrder, NullFreeFacts
  <2>8. SortKey(q) <= SortKey(r)
    <3>1. SortKey(q) \in Int /\ SortKey(r) \in Int  BY <2>3, NullFreeFacts
    <3> QED  BY <2>7, <3>1 DEF Before
  <2> QED  BY <2>1, <2>2, <2>3, <2>8, NullFreeFacts
<1> QED  BY <1>1, <1>2

(* Every row is in a bucket, so no key is below the first lower bound. *)
LEMMA FirstLower ==
  ASSUME NullFree, NEW r \in present
  PROVE  1 \in 1..NumBuckets /\ Lower(1) <= key[r]
<1> DEFINE n == Cardinality(present)
           k == Rank(r) \div BatchSize
<1>0. /\ n \in Nat /\ BatchSize \in Nat \ {0} /\ Rank(r) \in 0..(n - 1)
      /\ n + BatchSize - 1 \in Nat
  <2>1. n \in Nat /\ BatchSize \in Nat \ {0}
    BY PresentFinite, SlicesAssumption, NullFreeFacts
  <2>2. Rank(r) \in 0..(n - 1)  BY NullFreeFacts, RankRange
  <2> HIDE DEF n
  <2> QED  BY <2>1, <2>2
<1>1. /\ NumBuckets \in Nat /\ NumBuckets * BatchSize \in Nat
      /\ n + BatchSize - 1 < NumBuckets * BatchSize + BatchSize
  <2>1. NumBuckets = (n + BatchSize - 1) \div BatchSize  BY DEF NumBuckets
  <2> HIDE DEF n
  <2> QED  BY <1>0, <2>1, Division
<1>2. k \in Nat /\ k * BatchSize \in Nat /\ k * BatchSize <= Rank(r)
  <2>1. Rank(r) \in Nat
    <3> HIDE DEF n
    <3> QED  BY <1>0
  <2> QED  BY <1>0, <2>1, Division
<1>3. k + 1 <= NumBuckets
  <2> SUFFICES ASSUME NumBuckets <= k PROVE FALSE  BY <1>1, <1>2
  <2>1. NumBuckets * BatchSize <= k * BatchSize
    <3> HIDE DEF k
    <3> QED  BY <1>0, <1>1, <1>2, TimesMonotone
  <2> HIDE DEF n, k
  <2> QED  BY <1>0, <1>1, <1>2, <2>1
<1>4. k + 1 \in 1..NumBuckets /\ 1 \in 1..NumBuckets /\ r \in Bucket(k + 1)
  BY <1>1, <1>2, <1>3 DEF Bucket
<1>5. Lower(k + 1) <= key[r] /\ Lower(1) <= Lower(k + 1)
  <2> HIDE DEF k
  <2> QED  BY <1>2, <1>4, LowerOfBucket, LowerMonotone
<1>6. Lower(1) \in Nat /\ Lower(k + 1) \in Nat /\ key[r] \in Nat
  <2>1. r \in Rows  BY DEF NullFree
  <2> HIDE DEF k
  <2> QED  BY <1>4, <2>1, LowerOfBucket, NullFreeFacts, SlicesAssumption DEF Keys
<1> QED  BY <1>4, <1>5, <1>6

-----------------------------------------------------------------------------
(* Slices whose bounds are the steps of a staircase, of either store. *)

Stairs(s, n) ==
  /\ n \in Nat \ {0} /\ s \in [1..n -> SliceSet]
  /\ \A i \in 1..n : /\ s[i].lower \in Nat /\ s[i].upper \in Nat
                     /\ (s[i].isFirst <=> i = 1) /\ (s[i].isLast <=> i = n)
  /\ \A i \in 1..(n - 1) : s[i].upper = s[i + 1].lower
  /\ \A i, j \in 2..n : i <= j => s[i].lower <= s[j].lower

(* Two slices of a table do not select the same row. *)
LEMMA ApartSQL ==
  ASSUME NullFree, NEW s, NEW n, Stairs(s, n), NEW r \in Rows,
         NEW i \in 1..n, NEW j \in 1..n, i < j,
         BuildWorkerSliceQuery(s[i], r), BuildWorkerSliceQuery(s[j], r)
  PROVE  FALSE
<1>0. n \in Nat /\ i \in 1..(n - 1) /\ i + 1 \in 2..n /\ j \in 2..n /\ i + 1 <= j
  BY DEF Stairs
<1>1. /\ s[i].lower \in Nat /\ s[i].upper \in Nat /\ s[j].lower \in Nat
      /\ s[i + 1].lower \in Nat
      /\ ~s[i].isLast /\ ~s[j].isFirst
      /\ s[i].upper = s[i + 1].lower /\ s[i + 1].lower <= s[j].lower
  BY <1>0 DEF Stairs
<1>2. key[r] \in Nat  BY NullFreeFacts
<1>3. key[r] < s[i].upper /\ key[r] >= s[j].lower
  BY <1>1 DEF BuildWorkerSliceQuery, Null
<1> QED  BY <1>1, <1>2, <1>3

(* Two slices of a collection share at most the first one's upper bound. *)
LEMMA ApartMongo ==
  ASSUME NullFree, NEW s, NEW n, Stairs(s, n), NEW r \in Rows,
         NEW i \in 1..n, NEW j \in 1..n, i < j,
         applySliceBounds(s[i], r), applySliceBounds(s[j], r)
  PROVE  key[r] = s[1].upper
<1>0. n \in Nat /\ i \in 1..(n - 1) /\ i + 1 \in 2..n /\ j \in 2..n /\ i + 1 <= j
  BY DEF Stairs
<1>1. /\ s[i].lower \in Nat /\ s[i].upper \in Nat
      /\ s[j].lower \in Nat /\ s[j].upper \in Nat /\ s[i + 1].lower \in Nat
      /\ (s[i].isFirst <=> i = 1) /\ ~s[i].isLast /\ ~s[j].isFirst
      /\ s[i].upper = s[i + 1].lower /\ s[i + 1].lower <= s[j].lower
  BY <1>0 DEF Stairs
<1>2. key[r] \in Nat  BY NullFreeFacts
<1>3. key[r] >= s[j].lower  BY <1>1 DEF applySliceBounds, Null
<1>4. CASE i = 1
  <2>1. key[r] <= s[i].upper  BY <1>1, <1>4 DEF applySliceBounds, Null
  <2> QED  BY <1>1, <1>2, <1>3, <1>4, <2>1
<1>5. CASE i # 1
  <2>1. key[r] < s[i].upper  BY <1>1, <1>5 DEF applySliceBounds, Null
  <2> QED  BY <1>1, <1>2, <1>3, <2>1
<1> QED  BY <1>4, <1>5

(* Some slice selects each row that is not below the first one. *)
LEMMA CoverSQL ==
  ASSUME NullFree, NEW s, NEW n, Stairs(s, n), NEW r \in Rows, s[1].lower <= key[r]
  PROVE  \E i \in 1..n : BuildWorkerSliceQuery(s[i], r)
<1> DEFINE D == {i \in 1..n : s[i].lower <= key[r]}
<1>0. n \in Nat /\ 1 \in 1..n /\ key[r] \in Nat /\ key[r] # Null
  BY NullFreeFacts DEF Stairs
<1>1. 1 \in D  BY <1>0
<1>2. PICK i \in D : \A y \in D : y <= i
  <2>1. D \in SUBSET (1..n) /\ D # {}  BY <1>1
  <2> HIDE DEF D
  <2> QED  BY <1>0, <2>1, GreatestIndex
<1>3. i \in 1..n /\ s[i].lower \in Nat /\ s[i].lower <= key[r]  BY DEF Stairs
<1>4. CASE i = n
  BY <1>0, <1>3, <1>4 DEF Stairs, BuildWorkerSliceQuery, Null
<1>5. CASE i # n
  <2>1. i + 1 \in 1..n /\ i \in 1..(n - 1)  BY <1>0, <1>3, <1>5
  <2>2. i + 1 \notin D  BY <1>2, <1>3
  <2>3. s[i].upper = s[i + 1].lower /\ s[i + 1].lower \in Nat  BY <2>1 DEF Stairs
  <2>4. key[r] < s[i].upper  BY <1>0, <2>1, <2>2, <2>3
  <2> QED  BY <1>0, <1>3, <2>3, <2>4 DEF BuildWorkerSliceQuery, Null
<1> QED  BY <1>4, <1>5

(* Some slice of several selects each document. *)
LEMMA CoverMongo ==
  ASSUME NullFree, NEW s, NEW n, Stairs(s, n), n > 1, NEW r \in Rows
  PROVE  \E i \in 1..n : applySliceBounds(s[i], r)
<1> DEFINE D == {i \in 2..n : s[i].lower <= key[r]}
<1>0. n \in Nat /\ 1 \in 1..n /\ 2 \in 1..n /\ 1 \in 1..(n - 1) /\ key[r] \in Nat
  BY NullFreeFacts DEF Stairs
<1>1. CASE D = {}
  <2>1. 2 \notin D /\ 2 \in 2..n  BY <1>0, <1>1
  <2>2. /\ s[1].upper = s[1 + 1].lower /\ s[2].lower \in Nat /\ s[1].upper \in Nat
        /\ s[1].lower \in Nat /\ s[1].isFirst
    BY <1>0 DEF Stairs
  <2>3. key[r] < s[2].lower  BY <1>0, <2>1, <2>2
  <2>4. 1 + 1 = 2  OBVIOUS
  <2> QED  BY <1>0, <2>2, <2>3, <2>4 DEF applySliceBounds, Null
<1>2. CASE D # {}
  <2>1. PICK i \in D : \A y \in D : y <= i
    <3>1. D \in SUBSET (1..n)  OBVIOUS
    <3> HIDE DEF D
    <3> QED  BY <1>0, <1>2, <3>1, GreatestIndex
  <2>2. /\ i \in 2..n /\ i \in 1..n /\ s[i].lower <= key[r]
        /\ s[i].lower \in Nat /\ s[i].upper \in Nat /\ ~s[i].isFirst
    BY DEF Stairs
  <2>3. CASE i = n
    BY <1>0, <2>2, <2>3 DEF Stairs, applySliceBounds, Null
  <2>4. CASE i # n
    <3>1. i + 1 \in 2..n /\ i + 1 \in 1..n /\ i \in 1..(n - 1)  BY <1>0, <2>2, <2>4
    <3>2. i + 1 \notin D  BY <2>1, <2>2
    <3>3. s[i].upper = s[i + 1].lower /\ s[i + 1].lower \in Nat  BY <3>1 DEF Stairs
    <3>4. key[r] < s[i].upper  BY <1>0, <3>1, <3>2, <3>3
    <3> QED  BY <1>0, <2>2, <3>4 DEF applySliceBounds, Null
  <2> QED  BY <2>3, <2>4
<1> QED  BY <1>1, <1>2

-----------------------------------------------------------------------------
(* The slices that the driver calculates are staircases. *)

(* SQL: a table that is not empty; while keys are float64, the staircase   *)
(* starts at or below every row.                                           *)
LEMMA SqlStairs ==
  ASSUME NullFree, store = "sql", granule \in {1, 2}, present # {}
  PROVE  /\ Stairs(Received(ConstructContiguousSlices), NumBuckets)
         /\ granule = 1 => \A r \in present :
                              Received(ConstructContiguousSlices)[1].lower <= key[r]
<1> DEFINE n == NumBuckets
           s == Received(ConstructContiguousSlices)
           Above(b) == IF b = n THEN Upper(b) ELSE Lower(b + 1)
<1>0. n \in Nat \ {0} /\ 1 \in 1..n
  <2>1. PICK r \in present : TRUE  OBVIOUS
  <2>2. 1 \in 1..NumBuckets  BY <2>1, FirstLower
  <2>3. n \in Int
    <3>1. Cardinality(present) \in Nat /\ BatchSize \in Nat \ {0}
      BY PresentFinite, NullFreeFacts, SlicesAssumption
    <3>2. Cardinality(present) + BatchSize - 1 \in Nat  BY <3>1
    <3> QED  BY <3>1, <3>2, Division DEF NumBuckets
  <2> QED  BY <2>2, <2>3
<1>1. \A b \in 1..n : Lower(b) \in Nat /\ Above(b) \in Nat
  <2> SUFFICES ASSUME NEW b \in 1..n PROVE Lower(b) \in Nat /\ Above(b) \in Nat  OBVIOUS
  <2>1. \A c \in 1..n : Lower(c) \in Nat /\ Upper(c) \in Nat
    BY LowerOfBucket, SlicesAssumption DEF Keys
  <2>2. b = n \/ b + 1 \in 1..n  BY <1>0
  <2> QED  BY <2>1, <2>2
<1>2. s = [b \in 1..n |-> [lower |-> Float64(Lower(b)), upper |-> Float64(Above(b)),
                           isFirst |-> b = 1, isLast |-> b = n]]
  <2>1. ConstructContiguousSlices = [b \in 1..n |-> Slice(Lower(b), Above(b), b = 1, b = n)]
    BY DEF ConstructContiguousSlices
  <2>2. \A b \in 1..n : Decoded(Lower(b)) = Float64(Lower(b)) /\ Decoded(Above(b)) = Float64(Above(b))
    <3> HIDE DEF n, Above
    <3> QED  BY <1>1 DEF Decoded, Null
  <2>3. s = [b \in 1..n |-> decPartitionSlice(Slice(Lower(b), Above(b), b = 1, b = n))]
    <3> HIDE DEF n, Above
    <3> QED  BY <2>1 DEF Received, s
  <2>4. \A b \in 1..n :
          decPartitionSlice(Slice(Lower(b), Above(b), b = 1, b = n))
            = [lower |-> Float64(Lower(b)), upper |-> Float64(Above(b)),
               isFirst |-> b = 1, isLast |-> b = n]
    <3>1. \A lo, hi, f, l : decPartitionSlice(Slice(lo, hi, f, l))
                              = Slice(Decoded(lo), Decoded(hi), f, l)
      BY DEF decPartitionSlice, Slice
    <3> HIDE DEF n, Above
    <3> QED  BY <2>2, <3>1 DEF Slice
  <2> HIDE DEF s, n, Above
  <2> QED  BY <2>3, <2>4
<1>3. \A b \in 1..n : Float64(Lower(b)) \in Nat /\ Float64(Above(b)) \in Nat
  <2> HIDE DEF n, Above
  <2> QED  BY <1>1, FloatMonotone
<1>4. \A i \in 1..(n - 1) : s[i].upper = s[i + 1].lower
  <2> SUFFICES ASSUME NEW i \in 1..(n - 1) PROVE s[i].upper = s[i + 1].lower  OBVIOUS
  <2>1. i \in 1..n /\ i + 1 \in 1..n /\ i # n  BY <1>0
  <2>2. Above(i) = Lower(i + 1)  BY <2>1
  <2> HIDE DEF n, Above, s
  <2> QED  BY <1>2, <2>1, <2>2
<1>5. \A i, j \in 2..n : i <= j => s[i].lower <= s[j].lower
  <2> SUFFICES ASSUME NEW i \in 2..n, NEW j \in 2..n, i <= j
               PROVE  s[i].lower <= s[j].lower
    OBVIOUS
  <2>1. i \in 1..n /\ j \in 1..n  BY <1>0
  <2>2. Lower(i) <= Lower(j)  BY <2>1, LowerMonotone
  <2>3. Float64(Lower(i)) <= Float64(Lower(j))  BY <1>1, <2>1, <2>2, FloatMonotone
  <2> HIDE DEF n, s
  <2> QED  BY <1>2, <2>1, <2>3
<1>6. Stairs(s, n)
  <2> HIDE DEF n, s, Above
  <2>1. \A b \in 1..n : /\ s[b] \in SliceSet
                        /\ s[b].lower \in Nat /\ s[b].upper \in Nat
                        /\ (s[b].isFirst <=> b = 1) /\ (s[b].isLast <=> b = n)
    <3> SUFFICES ASSUME NEW b \in 1..n
                 PROVE  /\ s[b] \in SliceSet
                        /\ s[b].lower \in Nat /\ s[b].upper \in Nat
                        /\ (s[b].isFirst <=> b = 1) /\ (s[b].isLast <=> b = n)
      OBVIOUS
    <3>1. \A x, y \in Nat, f, l \in BOOLEAN :
            [lower |-> x, upper |-> y, isFirst |-> f, isLast |-> l] \in SliceSet
      BY DEF SliceSet
    <3>2. s[b] = [lower |-> Float64(Lower(b)), upper |-> Float64(Above(b)),
                  isFirst |-> b = 1, isLast |-> b = n]
      BY <1>2
    <3>3. s[b] \in SliceSet  BY <1>3, <3>1, <3>2
    <3>4. s[b].lower \in Nat /\ s[b].upper \in Nat  BY <1>3, <3>2
    <3>5. (s[b].isFirst <=> b = 1) /\ (s[b].isLast <=> b = n)
      <4> DEFINE t == s[b]
      <4>1. t = [lower |-> Float64(Lower(b)), upper |-> Float64(Above(b)),
                 isFirst |-> b = 1, isLast |-> b = n]
        BY <3>2
      <4> HIDE DEF t
      <4>2. (t.isFirst <=> b = 1) /\ (t.isLast <=> b = n)  BY <4>1
      <4> QED  BY <4>2 DEF t
    <3> QED  BY <3>3, <3>4, <3>5
  <2>2. s \in [1..n -> SliceSet]  BY <1>2, <2>1
  <2> QED  BY <1>0, <1>4, <1>5, <2>1, <2>2 DEF Stairs
<1>7. ASSUME granule = 1, NEW r \in present PROVE s[1].lower <= key[r]
  <2>1. Lower(1) <= key[r]  BY FirstLower
  <2>2. Float64(Lower(1)) = Lower(1)  BY <1>0, <1>1, <1>7 DEF Float64
  <2>3. s[1].lower = Float64(Lower(1))
    <3> HIDE DEF n, s
    <3> QED  BY <1>0, <1>2
  <2> QED  BY <2>1, <2>2, <2>3
<1> QED  BY <1>6, <1>7

(* MongoDB: a collection that spans more than a second. *)
LEMMA MongoStairs ==
  ASSUME store = "mongo", NEW lo \in Keys, NEW hi \in Keys, ~(Second(hi) <= Second(lo))
  PROVE  Stairs(Received(BuildObjectIDRanges(lo, hi)), NumPartitions)
<1> DEFINE n == NumPartitions
           W == IdsPerSecond
           step == calculateStep(lo, hi)
           B(i) == calculateNextBound(lo, hi, i)
           s == Received(BuildObjectIDRanges(lo, hi))
<1>0. n \in Nat /\ n > 1 /\ W \in Nat \ {0} /\ lo \in Nat /\ hi \in Nat
  BY SlicesAssumption DEF Keys
<1>1. Second(lo) \in Nat /\ Second(hi) \in Nat
  BY <1>0, Division DEF Second
<1>2. step \in Nat
  <2>1. Second(hi) - Second(lo) \in Nat  BY <1>1
  <2>2. (Second(hi) - Second(lo)) \div n \in Nat  BY <1>0, <2>1, Division
  <2> QED  BY <2>2 DEF calculateStep
<1>3. \A i \in 1..(n - 1) : B(i) = (Second(lo) + i * step) * W
  BY <1>0 DEF calculateNextBound
<1>4. \A i, j \in 1..(n - 1) : i <= j => B(i) \in Nat /\ B(i) <= B(j)
  <2> SUFFICES ASSUME NEW i \in 1..(n - 1), NEW j \in 1..(n - 1), i <= j
               PROVE  B(i) \in Nat /\ B(i) <= B(j)
    OBVIOUS
  <2> HIDE DEF step
  <2>1. i * step <= j * step /\ i * step \in Nat /\ j * step \in Nat
    BY <1>0, <1>2, TimesMonotone
  <2>2. Second(lo) + i * step \in Nat /\ Second(lo) + j * step \in Nat
        /\ Second(lo) + i * step <= Second(lo) + j * step
    BY <1>1, <2>1
  <2>3. (Second(lo) + i * step) * W \in Nat
        /\ (Second(lo) + i * step) * W <= (Second(lo) + j * step) * W
    BY <1>0, <2>2, TimesMonotone
  <2> QED  BY <1>3, <2>3
<1>5. B(n) = hi  BY DEF calculateNextBound
<1>6. s = [i \in 1..n |-> [lower |-> IF i = 1 THEN lo ELSE B(i - 1), upper |-> B(i),
                           isFirst |-> i = 1, isLast |-> i = n]]
  BY DEF BuildObjectIDRanges, Received, decPartitionSlice, Decoded, Slice
<1> HIDE DEF s, B, n, W, step
<1>7. \A i \in 1..n : B(i) \in Nat
  <2> SUFFICES ASSUME NEW i \in 1..n PROVE B(i) \in Nat  OBVIOUS
  <2>1. i = n \/ i \in 1..(n - 1)  BY <1>0
  <2>2. i <= i  BY <1>0
  <2> QED  BY <1>0, <1>4, <1>5, <2>1, <2>2
<1>8. \A i \in 1..n : /\ s[i].lower \in Nat /\ s[i].upper \in Nat
                      /\ (s[i].isFirst <=> i = 1) /\ (s[i].isLast <=> i = n)
  <2> SUFFICES ASSUME NEW i \in 1..n
               PROVE  /\ s[i].lower \in Nat /\ s[i].upper \in Nat
                      /\ (s[i].isFirst <=> i = 1) /\ (s[i].isLast <=> i = n)
    OBVIOUS
  <2>1. i = 1 \/ i - 1 \in 1..n  BY <1>0
  <2> QED  BY <1>0, <1>6, <1>7, <2>1
<1>9. s \in [1..n -> SliceSet]
  <2>1. \A i \in 1..n : s[i] \in SliceSet
    <3> SUFFICES ASSUME NEW i \in 1..n PROVE s[i] \in SliceSet  OBVIOUS
    <3>1. i = 1 \/ i - 1 \in 1..n  BY <1>0
    <3> QED  BY <1>0, <1>6, <1>7, <3>1 DEF SliceSet
  <2> QED  BY <1>6, <2>1
<1>10. \A i \in 1..(n - 1) : s[i].upper = s[i + 1].lower
  <2> SUFFICES ASSUME NEW i \in 1..(n - 1) PROVE s[i].upper = s[i + 1].lower  OBVIOUS
  <2>1. i \in 1..n /\ i + 1 \in 1..n /\ i + 1 # 1 /\ (i + 1) - 1 = i  BY <1>0
  <2> QED  BY <1>6, <2>1
<1>11. \A i, j \in 2..n : i <= j => s[i].lower <= s[j].lower
  <2> SUFFICES ASSUME NEW i \in 2..n, NEW j \in 2..n, i <= j
               PROVE  s[i].lower <= s[j].lower
    OBVIOUS
  <2>1. /\ i \in 1..n /\ j \in 1..n /\ i # 1 /\ j # 1
        /\ i - 1 \in 1..(n - 1) /\ j - 1 \in 1..(n - 1) /\ i - 1 <= j - 1
    BY <1>0
  <2>2. B(i - 1) <= B(j - 1)  BY <1>4, <2>1
  <2> QED  BY <1>6, <2>1, <2>2
<1>12. n \in Nat \ {0}  BY <1>0
<1> QED
  <2>1. Stairs(s, n)  BY <1>8, <1>9, <1>10, <1>11, <1>12 DEF Stairs
  <2> QED  BY <2>1 DEF s, n

-----------------------------------------------------------------------------
(* Type correctness, with NULLs or without. *)

(* What a job that starts has: slices, at least one of them. *)
Usable(s) == Received(s) \in Seq(SliceSet) /\ Received(s) # <<>> /\ DOMAIN Received(s) = DOMAIN s

(* A function on 1..n is a sequence. *)
LEMMA UsableSlices ==
  ASSUME NEW n \in Nat \ {0}, NEW s, DOMAIN s = 1..n,
         \A i \in 1..n : decPartitionSlice(s[i]) \in SliceSet
  PROVE  Usable(s)
<1>1. Received(s) \in [1..n -> SliceSet] /\ DOMAIN Received(s) = 1..n  BY DEF Received
<1>2. Received(s) \in Seq(SliceSet)  BY <1>1, SeqDef
<1>3. Received(s) # <<>>
  <2>1. 1 \in DOMAIN Received(s) /\ DOMAIN <<>> = {}  BY <1>1
  <2> QED  BY <2>1
<1> QED  BY <1>1, <1>2, <1>3 DEF Usable

(* A bound arrives as a number. *)
LEMMA DecodedInt ==
  ASSUME granule \in {1, 2}, NEW k \in Keys \cup {Null}
  PROVE  Decoded(k) \in Int
<1>1. k \in Int /\ (k # Null => k \in Nat)  BY SlicesAssumption DEF Keys, Null
<1>2. CASE k = Null \/ store = "mongo"  BY <1>1, <1>2 DEF Decoded
<1>3. CASE ~(k = Null \/ store = "mongo")
  <2>1. k \in Nat /\ k <= k  BY <1>1, <1>3
  <2>2. Float64(k) \in Nat  BY <2>1, FloatMonotone
  <2> QED  BY <1>3, <2>2 DEF Decoded
<1> QED  BY <1>2, <1>3

(* So does a slice. *)
LEMMA DecodedSlice ==
  ASSUME granule \in {1, 2}, NEW lo \in Keys \cup {Null}, NEW hi \in Keys \cup {Null},
         NEW f \in BOOLEAN, NEW l \in BOOLEAN
  PROVE  decPartitionSlice(Slice(lo, hi, f, l)) \in SliceSet
<1>1. Decoded(lo) \in Int /\ Decoded(hi) \in Int  BY DecodedInt
<1> QED  BY <1>1 DEF decPartitionSlice, Slice, SliceSet

(* The slice of the whole table. *)
LEMMA UsableWhole ==
  ASSUME granule \in {1, 2}
  PROVE  Usable(WholeTable)
<1>1. DOMAIN WholeTable = 1..1 /\ WholeTable[1] = Slice(Null, Null, TRUE, TRUE)
  BY DEF WholeTable
<1>2. decPartitionSlice(WholeTable[1]) \in SliceSet  BY <1>1, DecodedSlice
<1>3. \A i \in 1..1 : decPartitionSlice(WholeTable[i]) \in SliceSet
  <2>1. \A i \in 1..1 : i = 1  OBVIOUS
  <2> QED  BY <1>2, <2>1
<1>4. 1 \in Nat \ {0}  OBVIOUS
<1> QED  BY <1>1, <1>3, <1>4, UsableSlices

(* The slices of a table. *)
LEMMA UsableSql ==
  ASSUME Typed, granule \in {1, 2}
  PROVE  Usable(ConstructContiguousSlices)
<1>1. CASE present = {}  BY <1>1, UsableWhole DEF ConstructContiguousSlices
<1>2. CASE present # {}
  <2> DEFINE n == NumBuckets
             Above(b) == IF b = n THEN Upper(b) ELSE Lower(b + 1)
             s == ConstructContiguousSlices
  <2>1. n \in Nat \ {0}
    <3> DEFINE c == Cardinality(present)
    <3>1. c \in Nat \ {0} /\ BatchSize \in Nat \ {0}
      BY <1>2, PresentFinite, SlicesAssumption
    <3> HIDE DEF c
    <3>2. c + BatchSize - 1 \in Nat /\ BatchSize <= c + BatchSize - 1 /\ BatchSize \in Nat
      BY <3>1
    <3>3. (1 * BatchSize) \div BatchSize = 1 /\ 1 * BatchSize = BatchSize  BY <3>1, DivExact
    <3>4. 1 <= (c + BatchSize - 1) \div BatchSize  BY <3>1, <3>2, <3>3, DivMonotone
    <3>5. (c + BatchSize - 1) \div BatchSize \in Nat  BY <3>1, <3>2, Division
    <3> QED  BY <3>4, <3>5 DEF NumBuckets, c
  <2>2. \A b : Lower(b) \in Keys \cup {Null} /\ Upper(b) \in Keys \cup {Null}
    <3> SUFFICES ASSUME NEW b
                 PROVE  Lower(b) \in Keys \cup {Null} /\ Upper(b) \in Keys \cup {Null}
      OBVIOUS
    <3>1. BucketKeys(b) \in SUBSET Keys  BY DEF BucketKeys, Typed
    <3> QED  BY <3>1, MinKey, MaxKeyOf DEF Lower, Upper
  <2>3. s = [b \in 1..n |-> Slice(Lower(b), Above(b), b = 1, b = n)]
    BY <1>2 DEF ConstructContiguousSlices
  <2>4. \A b : Above(b) \in Keys \cup {Null}  BY <2>2
  <2>5. \A b \in 1..n : decPartitionSlice(s[b]) \in SliceSet
    <3> HIDE DEF s, n, Above
    <3> SUFFICES ASSUME NEW b \in 1..n PROVE decPartitionSlice(s[b]) \in SliceSet  OBVIOUS
    <3> DEFINE f == b = 1
               l == b = n
    <3>1. f \in BOOLEAN /\ l \in BOOLEAN  OBVIOUS
    <3>2. s[b] = Slice(Lower(b), Above(b), f, l)  BY <2>3, Zenon
    <3> HIDE DEF f, l
    <3> QED  BY <2>2, <2>4, <3>1, <3>2, DecodedSlice
  <2>6. DOMAIN s = 1..n  BY <2>3
  <2> HIDE DEF s, n, Above
  <2>7. Usable(s)  BY <2>1, <2>5, <2>6, UsableSlices
  <2> QED  BY <2>7 DEF s
<1> QED  BY <1>1, <1>2

(* The slices of a collection. *)
LEMMA UsableMongo ==
  ASSUME store = "mongo", granule \in {1, 2}, NEW lo \in Keys, NEW hi \in Keys
  PROVE  Usable(BuildObjectIDRanges(lo, hi))
<1>1. CASE Second(hi) <= Second(lo)
  <2> DEFINE s == <<Slice(lo, hi, TRUE, TRUE)>>
  <2>1. BuildObjectIDRanges(lo, hi) = s  BY <1>1 DEF BuildObjectIDRanges
  <2>2. DOMAIN s = 1..1 /\ s[1] = Slice(lo, hi, TRUE, TRUE)  OBVIOUS
  <2>3. decPartitionSlice(s[1]) \in SliceSet  BY <2>2, DecodedSlice
  <2> HIDE DEF s
  <2>4. \A i \in 1..1 : decPartitionSlice(s[i]) \in SliceSet
    <3>1. \A i \in 1..1 : i = 1  OBVIOUS
    <3> QED  BY <2>3, <3>1
  <2>5. 1 \in Nat \ {0}  OBVIOUS
  <2>6. Usable(s)  BY <2>2, <2>4, <2>5, UsableSlices
  <2> QED  BY <2>1, <2>6
<1>2. CASE ~(Second(hi) <= Second(lo))
  <2> DEFINE s == BuildObjectIDRanges(lo, hi)
  <2>1. DOMAIN s = 1..NumPartitions  BY <1>2 DEF BuildObjectIDRanges
  <2>2. Stairs(Received(s), NumPartitions)  BY <1>2, MongoStairs
  <2> HIDE DEF s
  <2>3. NumPartitions \in Nat \ {0} /\ Received(s) \in [1..NumPartitions -> SliceSet]
    BY <2>2 DEF Stairs
  <2>4. \A i \in 1..NumPartitions : decPartitionSlice(s[i]) \in SliceSet
    <3> SUFFICES ASSUME NEW i \in 1..NumPartitions PROVE decPartitionSlice(s[i]) \in SliceSet
      OBVIOUS
    <3>1. Received(s)[i] = decPartitionSlice(s[i])  BY <2>1 DEF Received
    <3> QED  BY <2>3, <3>1
  <2>5. Usable(s)  BY <2>1, <2>3, <2>4, UsableSlices
  <2> QED  BY <2>5 DEF s
<1> QED  BY <1>1, <1>2

(* The inductive invariant of the types.  Before the first reading all     *)
(* rows are early, and a smallest _id was some document's, which stays.    *)
TInv ==
  /\ TypeOK
  /\ store = "mongo" \/ ~Nullable => key \in [Rows -> Keys]
  /\ read = {} => early = present
  /\ phase = "min" /\ minID # Null => present # {}

(* Calculating usable slices keeps it. *)
LEMMA SlicedTypes ==
  ASSUME TInv, phase \in {"start", "min"}, NEW s, Usable(s), Sliced(s),
         UNCHANGED <<config, present, minID, read, early>>
  PROVE  TInv'
<1>1. slices = <<>> /\ read = {} /\ early = present
  BY DEF TInv, TypeOK
<1>2. /\ slices' \in Seq(SliceSet) /\ slices' # <<>> /\ DOMAIN slices' = DOMAIN s
      /\ got' = [i \in DOMAIN s |-> {}] /\ phase' = "sliced" /\ discovered' = present
  BY DEF Sliced, Usable
<1>3. got' \in [DOMAIN slices' -> SUBSET present']  BY <1>2
<1>4. TypeOK'
  BY <1>1, <1>2, <1>3 DEF TInv, TypeOK, config
<1> QED  BY <1>1, <1>2, <1>4 DEF TInv, config

(* The initial states have the invariant. *)
LEMMA InitTypes ==
  SlicesInit => TInv
<1> SUFFICES ASSUME SlicesInit PROVE TInv  OBVIOUS
<1>1. key \in [Rows -> Keys \cup {Null}] /\ (store = "mongo" \/ ~Nullable => key \in [Rows -> Keys])
  <2>1. CASE Nullable /\ store = "sql"  BY <2>1 DEF SlicesInit
  <2>2. CASE ~(Nullable /\ store = "sql")  BY <2>2 DEF SlicesInit
  <2> QED  BY <2>1, <2>2
<1>2. <<>> \in Seq(SliceSet) /\ DOMAIN <<>> = {} /\ <<>> \in [{} -> SUBSET present]
  OBVIOUS
<1> QED  BY <1>1, <1>2 DEF SlicesInit, TInv, TypeOK

(* Every step keeps it. *)
LEMMA NextTypes ==
  TInv /\ [SlicesNext]_slicesVars => TInv'
<1> SUFFICES ASSUME TInv, [SlicesNext]_slicesVars PROVE TInv'  OBVIOUS
<1>0. /\ granule \in {1, 2} /\ Typed /\ store \in {"sql", "mongo"}
      /\ (store = "mongo" => key \in [Rows -> Keys])
      /\ {key[r] : r \in present} \subseteq Keys \cup {Null}
  BY SlicesAssumption DEF TInv, TypeOK, Typed
<1>1. CASE CalculateSlices
  <2> DEFINE s == IF partitioned THEN ConstructContiguousSlices ELSE WholeTable
  <2>1. Usable(s)  BY <1>0, UsableSql, UsableWhole
  <2>2. Sliced(s) /\ phase \in {"start", "min"}  BY <1>1 DEF CalculateSlices
  <2>3. UNCHANGED <<config, present, minID, read, early>>  BY <1>1 DEF CalculateSlices
  <2> HIDE DEF s
  <2> QED  BY <2>1, <2>2, <2>3, SlicedTypes
<1>2. CASE FetchMin
  <2> DEFINE K == {key[r] : r \in present}
  <2>1. store = "mongo" /\ K \in SUBSET Keys  BY <1>0, <1>2 DEF FetchMin, Typed
  <2>2. present # {} => K # {}  OBVIOUS
  <2>3. minID' = Null \/ (present # {} /\ minID' = Min(K))  BY <1>2 DEF FetchMin
  <2> HIDE DEF K
  <2>4. minID' \in Keys \cup {Null}  BY <2>1, <2>2, <2>3, MinKey
  <2>5. minID' # Null => present # {}  BY <2>3
  <2> QED  BY <1>2, <2>4, <2>5 DEF FetchMin, TInv, TypeOK, config, workers
<1>3. CASE CalculatePartitions
  <2>1. UNCHANGED <<config, present, minID, read, early>> /\ store = "mongo"
    BY <1>3 DEF CalculatePartitions
  <2>2. CASE phase \in {"start", "min"} /\ Sliced(WholeTable)
    BY <1>0, <2>1, <2>2, UsableWhole, SlicedTypes
  <2>3. CASE /\ phase = "min" /\ minID # Null
             /\ Sliced(BuildObjectIDRanges(minID, Max({key[r] : r \in present})))
    <3> DEFINE K == {key[r] : r \in present}
    <3>1. K \in SUBSET Keys /\ K # {} /\ minID \in Keys
      BY <1>0, <2>1, <2>3 DEF TInv, TypeOK, Typed
    <3>2. Sliced(BuildObjectIDRanges(minID, Max(K)))  BY <2>3
    <3> HIDE DEF K
    <3>3. Max(K) \in Keys  BY <3>1, MaxKeyOf
    <3>4. Usable(BuildObjectIDRanges(minID, Max(K)))  BY <1>0, <2>1, <3>1, <3>3, UsableMongo
    <3> QED  BY <2>1, <2>3, <3>2, <3>4, SlicedTypes
  <2> QED  BY <1>3, <2>2, <2>3 DEF CalculatePartitions
<1>4. CASE CalculateFails
  BY <1>4 DEF CalculateFails, TInv, TypeOK, config, workers
<1>5. ASSUME NEW i \in DOMAIN slices, ReadPartition(i) PROVE TInv'
  <2>1. got' \in [DOMAIN slices -> SUBSET present]  BY <1>5 DEF ReadPartition, TInv, TypeOK
  <2>2. read' \subseteq DOMAIN slices /\ read' # {}  BY <1>5 DEF ReadPartition, TInv, TypeOK
  <2>3. UNCHANGED <<config, present, driver, early>>  BY <1>5 DEF ReadPartition
  <2> QED  BY <2>1, <2>2, <2>3 DEF TInv, TypeOK, config, driver
<1>6. ASSUME NEW r \in Rows, InsertKey(r) PROVE TInv'
  <2>1. UNCHANGED <<config, driver, workers>> /\ present' = present \cup {r}
    BY <1>6 DEF InsertKey
  <2>2. /\ early' \subseteq present' /\ early \subseteq early'
        /\ (read = {} => early' = present')
    BY <1>6 DEF InsertKey, TInv, TypeOK
  <2>3. got' \in [DOMAIN slices' -> SUBSET present']
    BY <2>1 DEF TInv, TypeOK, driver, workers
  <2> QED  BY <2>1, <2>2, <2>3 DEF TInv, TypeOK, config, driver, workers
<1>7. CASE Terminated \/ UNCHANGED slicesVars
  BY <1>7 DEF Terminated, slicesVars, config, driver, workers, TInv, TypeOK
<1> QED  BY <1>1, <1>2, <1>3, <1>4, <1>5, <1>6, <1>7 DEF SlicesNext

(* The driver's and the workers' state stays in shape, and whatever the    *)
(* table holds, NULLs or nothing, a job that starts has a slice to read.   *)
THEOREM TypeCorrect == SlicesSpec => []TypeOK
<1>1. TInv => TypeOK  BY DEF TInv
<1> QED  BY <1>1, InitTypes, NextTypes, PTL DEF SlicesSpec

-----------------------------------------------------------------------------
(* Without NULLs the slices exclude each other and leave nothing out. *)

Separate(s) ==
  \A r \in Rows, i, j \in DOMAIN s :
    i # j /\ Selects(s[i], r) /\ Selects(s[j], r) => store = "mongo" /\ key[r] = s[1].upper

(* Outside(r), of slices that are about to be handed out. *)
Beyond(s, d, r) ==
  /\ r \notin d \/ granule > 1
  /\ IF store = "sql" THEN key[r] < s[1].lower ELSE Len(s) = 1 /\ key[r] > s[1].upper

Covering(s, d) ==
  \A r \in Rows : (\E i \in DOMAIN s : Selects(s[i], r)) \/ Beyond(s, d, r)

Exact(s) == Separate(Received(s)) /\ Covering(Received(s), present)

(* The whole table, as one slice. *)
LEMMA ExactWhole ==
  ASSUME store \in {"sql", "mongo"}
  PROVE  Exact(WholeTable)
<1> DEFINE s == Received(WholeTable)
<1>1. /\ DOMAIN s = {1} /\ s[1].lower = Null /\ s[1].upper = Null
  <2>1. DOMAIN WholeTable = 1..1 /\ WholeTable[1] = Slice(Null, Null, TRUE, TRUE)
    BY DEF WholeTable
  <2>2. 1..1 = {1}  OBVIOUS
  <2> QED  BY <2>1, <2>2 DEF Received, decPartitionSlice, Decoded, Slice
<1> HIDE DEF s
<1>2. \A r \in Rows : Selects(s[1], r)
  BY <1>1 DEF Selects, BuildWorkerSliceQuery, applySliceBounds
<1>3. Separate(s)  BY <1>1 DEF Separate
<1>4. Covering(s, present)  BY <1>1, <1>2 DEF Covering
<1> QED  BY <1>3, <1>4 DEF Exact, s

(* The slices of a table. *)
LEMMA ExactSql ==
  ASSUME NullFree, store = "sql", granule \in {1, 2}
  PROVE  Exact(ConstructContiguousSlices)
<1>1. CASE present = {}  BY <1>1, ExactWhole DEF ConstructContiguousSlices
<1>2. CASE present # {}
  <2> DEFINE n == NumBuckets
             s == Received(ConstructContiguousSlices)
  <2>1. Stairs(s, n) /\ (granule = 1 => \A r \in present : s[1].lower <= key[r])
    BY <1>2, SqlStairs
  <2> HIDE DEF s, n
  <2>2. n \in Nat /\ 1 \in 1..n /\ DOMAIN s = 1..n /\ s[1].lower \in Nat  BY <2>1 DEF Stairs
  <2>3. Separate(s)
    <3> SUFFICES ASSUME NEW r \in Rows, NEW i \in 1..n, NEW j \in 1..n, i # j,
                        Selects(s[i], r), Selects(s[j], r)
                 PROVE  FALSE
      BY <2>2 DEF Separate
    <3>1. BuildWorkerSliceQuery(s[i], r) /\ BuildWorkerSliceQuery(s[j], r)  BY DEF Selects
    <3>2. i < j \/ j < i  BY <2>2
    <3> QED  BY <2>1, <3>1, <3>2, ApartSQL
  <2>4. Covering(s, present)
    <3> SUFFICES ASSUME NEW r \in Rows
                 PROVE  (\E i \in 1..n : Selects(s[i], r)) \/ Beyond(s, present, r)
      BY <2>2 DEF Covering
    <3>1. key[r] \in Nat  BY NullFreeFacts
    <3>2. CASE s[1].lower <= key[r]
      <4>1. \E i \in 1..n : BuildWorkerSliceQuery(s[i], r)  BY <2>1, <3>2, CoverSQL
      <4> QED  BY <4>1 DEF Selects
    <3>3. CASE ~(s[1].lower <= key[r])
      <4>1. key[r] < s[1].lower  BY <2>2, <3>1, <3>3
      <4>2. r \notin present \/ granule > 1  BY <2>1, <3>3
      <4> QED  BY <4>1, <4>2 DEF Beyond
    <3> QED  BY <3>2, <3>3
  <2> QED  BY <2>3, <2>4 DEF Exact, s
<1> QED  BY <1>1, <1>2

(* The slices of a collection, cut by the largest _id that is present. *)
LEMMA ExactMongo ==
  ASSUME NullFree, store = "mongo", granule \in {1, 2},
         NEW lo \in Keys, NEW hi \in Keys, \A r \in present : key[r] <= hi
  PROVE  Exact(BuildObjectIDRanges(lo, hi))
<1>1. CASE Second(hi) <= Second(lo)
  <2> DEFINE s == Received(<<Slice(lo, hi, TRUE, TRUE)>>)
             t == <<Slice(lo, hi, TRUE, TRUE)>>
  <2>1. BuildObjectIDRanges(lo, hi) = t  BY <1>1 DEF BuildObjectIDRanges
  <2>2. lo \in Nat /\ hi \in Nat /\ lo # Null /\ hi # Null
    BY SlicesAssumption DEF Keys, Null
  <2>3. /\ DOMAIN s = {1} /\ s[1].lower = lo /\ s[1].upper = hi /\ s[1].isFirst /\ Len(s) = 1
    <3>1. DOMAIN t = 1..1 /\ t[1] = Slice(lo, hi, TRUE, TRUE)  OBVIOUS
    <3> HIDE DEF t
    <3>2. Received(t) = [i \in 1..1 |-> decPartitionSlice(t[i])]  BY <3>1 DEF Received
    <3>3. DOMAIN Received(t) = 1..1 /\ Received(t)[1] = decPartitionSlice(t[1])
      BY <3>2
    <3>4. Len(Received(t)) = 1
      <4>1. Usable(t)  BY <2>1, UsableMongo
      <4> QED  BY <3>3, <4>1, LenProperties DEF Usable
    <3>5. decPartitionSlice(t[1]) = Slice(lo, hi, TRUE, TRUE)
      BY <3>1 DEF decPartitionSlice, Decoded, Slice
    <3>6. 1..1 = {1}  OBVIOUS
    <3>7. s = Received(t)  BY DEF t
    <3> HIDE DEF s
    <3> QED  BY <3>3, <3>4, <3>5, <3>6, <3>7 DEF Slice
  <2> HIDE DEF s
  <2>4. Separate(s)  BY <2>3 DEF Separate
  <2>5. Covering(s, present)
    <3> SUFFICES ASSUME NEW r \in Rows
                 PROVE  Selects(s[1], r) \/ Beyond(s, present, r)
      BY <2>3 DEF Covering
    <3>1. key[r] \in Nat  BY NullFreeFacts
    <3>2. CASE key[r] <= hi
      BY <2>2, <2>3, <3>2 DEF Selects, applySliceBounds
    <3>3. CASE ~(key[r] <= hi)
      <4>1. key[r] > hi /\ r \notin present  BY <2>2, <3>1, <3>3
      <4> QED  BY <2>3, <4>1 DEF Beyond
    <3> QED  BY <3>2, <3>3
  <2> QED  BY <2>1, <2>4, <2>5 DEF Exact, s
<1>2. CASE ~(Second(hi) <= Second(lo))
  <2> DEFINE n == NumPartitions
             s == Received(BuildObjectIDRanges(lo, hi))
  <2>1. Stairs(s, n) /\ n > 1
    <3>1. Stairs(s, n)  BY <1>2, MongoStairs
    <3> QED  BY <3>1, SlicesAssumption
  <2> HIDE DEF s, n
  <2>2. n \in Nat /\ DOMAIN s = 1..n  BY <2>1 DEF Stairs
  <2>3. Separate(s)
    <3> SUFFICES ASSUME NEW r \in Rows, NEW i \in 1..n, NEW j \in 1..n, i # j,
                        Selects(s[i], r), Selects(s[j], r)
                 PROVE  key[r] = s[1].upper
      BY <2>2 DEF Separate
    <3>1. applySliceBounds(s[i], r) /\ applySliceBounds(s[j], r)  BY DEF Selects
    <3>2. i < j \/ j < i  BY <2>2
    <3> QED  BY <2>1, <3>1, <3>2, ApartMongo
  <2>4. Covering(s, present)
    <3> SUFFICES ASSUME NEW r \in Rows PROVE \E i \in 1..n : Selects(s[i], r)
      BY <2>2 DEF Covering
    <3>1. \E i \in 1..n : applySliceBounds(s[i], r)  BY <2>1, CoverMongo
    <3> QED  BY <3>1 DEF Selects
  <2> QED  BY <2>3, <2>4 DEF Exact, s
<1> QED  BY <1>1, <1>2

(* The inductive invariant: the slices are exact, and a reading gave rows  *)
(* of its slice only, all the early ones among them.                       *)
IInv ==
  /\ TInv
  /\ phase = "sliced" => Separate(slices) /\ Covering(slices, discovered)
  /\ \A i \in read : /\ \A r \in got[i] : Selects(slices[i], r)
                     /\ \A r \in early : Selects(slices[i], r) => r \in got[i]

(* Calculating exact slices keeps it. *)
LEMMA SlicedExact ==
  ASSUME IInv, TInv', phase \in {"start", "min"}, NEW s, Exact(s), Sliced(s),
         UNCHANGED <<config, present, minID, read, early>>
  PROVE  IInv'
<1>1. read' = {}  BY DEF IInv, TInv, TypeOK
<1>2. slices' = Received(s) /\ discovered' = present  BY DEF Sliced
<1>3. UNCHANGED <<store, key, granule>>  BY DEF config
<1>4. Separate(slices)'
  BY <1>2, <1>3 DEF Exact, Separate, Selects, BuildWorkerSliceQuery, applySliceBounds
<1>5. Covering(slices, discovered)'
  BY <1>2, <1>3
     DEF Exact, Covering, Beyond, Selects, BuildWorkerSliceQuery, applySliceBounds
<1> QED  BY <1>1, <1>4, <1>5 DEF IInv

(* Every step keeps it. *)
LEMMA NextExact ==
  ASSUME ~Nullable
  PROVE  IInv /\ [SlicesNext]_slicesVars => IInv'
<1> SUFFICES ASSUME IInv, [SlicesNext]_slicesVars PROVE IInv'  OBVIOUS
<1>0. TInv /\ TInv'  BY NextTypes DEF IInv
<1>1. NullFree /\ granule \in {1, 2} /\ store \in {"sql", "mongo"}
  BY <1>0, SlicesAssumption DEF TInv, TypeOK, NullFree
<1>2. CASE CalculateSlices
  <2> DEFINE s == IF partitioned THEN ConstructContiguousSlices ELSE WholeTable
  <2>1. Exact(s)  BY <1>1, <1>2, ExactSql, ExactWhole DEF CalculateSlices
  <2>2. /\ Sliced(s) /\ phase \in {"start", "min"}
        /\ UNCHANGED <<config, present, minID, read, early>>
    BY <1>2 DEF CalculateSlices
  <2> HIDE DEF s
  <2> QED  BY <1>0, <2>1, <2>2, SlicedExact
<1>3. CASE CalculatePartitions
  <2>1. UNCHANGED <<config, present, minID, read, early>> /\ store = "mongo"
    BY <1>3 DEF CalculatePartitions
  <2>2. CASE phase \in {"start", "min"} /\ Sliced(WholeTable)
    BY <1>0, <1>1, <2>1, <2>2, ExactWhole, SlicedExact
  <2>3. CASE /\ phase = "min" /\ minID # Null
             /\ Sliced(BuildObjectIDRanges(minID, Max({key[r] : r \in present})))
    <3> DEFINE K == {key[r] : r \in present}
    <3>1. K \in SUBSET Keys /\ K # {} /\ minID \in Keys
      BY <1>0, <1>1, <2>3 DEF TInv, TypeOK, NullFree
    <3>2. Sliced(BuildObjectIDRanges(minID, Max(K)))  BY <2>3
    <3>3. \A r \in present : key[r] \in K  OBVIOUS
    <3> HIDE DEF K
    <3>4. Max(K) \in Keys /\ \A k \in K : Max(K) >= k  BY <3>1, MaxKeyOf
    <3>5. \A r \in present : key[r] <= Max(K)
      <4>1. \A k \in K : k \in Int /\ Max(K) \in Int
        BY <3>1, <3>4, SlicesAssumption DEF Keys
      <4> QED  BY <3>3, <3>4, <4>1
    <3>6. Exact(BuildObjectIDRanges(minID, Max(K)))
      BY <1>1, <2>1, <3>1, <3>4, <3>5, ExactMongo
    <3> QED  BY <1>0, <2>1, <2>3, <3>2, <3>6, SlicedExact
  <2> QED  BY <1>3, <2>2, <2>3 DEF CalculatePartitions
<1>4. CASE UNCHANGED <<config, slices, discovered, early, workers>> /\ phase' # "sliced"
  BY <1>0, <1>4
     DEF IInv, config, workers, Selects, BuildWorkerSliceQuery, applySliceBounds
<1>5. CASE FetchMin \/ CalculateFails
  BY <1>4, <1>5 DEF FetchMin, CalculateFails
<1>6. ASSUME UNCHANGED <<config, driver>>
      PROVE  /\ phase' = "sliced" => Separate(slices)' /\ Covering(slices, discovered)'
             /\ \A i \in DOMAIN slices, r \in Rows :
                  Selects(slices[i], r)' <=> Selects(slices[i], r)
  <2>1. UNCHANGED <<store, granule, key, phase, slices, discovered>>
    BY <1>6 DEF config, driver
  <2>2. \A i \in DOMAIN slices, r \in Rows : Selects(slices[i], r)' <=> Selects(slices[i], r)
    BY <2>1 DEF Selects, BuildWorkerSliceQuery, applySliceBounds
  <2>3. Separate(slices) => Separate(slices)'  BY <2>1, <2>2 DEF Separate
  <2>4. Covering(slices, discovered) => Covering(slices, discovered)'
    BY <2>1, <2>2 DEF Covering, Beyond
  <2> QED  BY <2>1, <2>2, <2>3, <2>4 DEF IInv
<1>7. ASSUME NEW i \in DOMAIN slices, ReadPartition(i) PROVE IInv'
  <2>1. /\ read' = read \cup {i} /\ early' = early /\ slices' = slices
        /\ UNCHANGED <<config, driver>>
    BY <1>7 DEF ReadPartition, driver
  <2>2. got' = [got EXCEPT ![i] = {r \in present : Selects(slices[i], r)}]
    BY <1>7 DEF ReadPartition
  <2>3. /\ got \in [DOMAIN slices -> SUBSET present] /\ present \subseteq Rows
        /\ early \subseteq present /\ read \subseteq DOMAIN slices
    BY <1>0 DEF TInv, TypeOK
  <2>4. ASSUME NEW j \in read'
        PROVE  /\ \A r \in got'[j] : Selects(slices[j], r)'
               /\ \A r \in early' : Selects(slices[j], r)' => r \in got'[j]
    <3>0. j \in DOMAIN slices  BY <2>1, <2>3
    <3>1. \A r \in Rows : Selects(slices[j], r)' <=> Selects(slices[j], r)
      BY <1>6, <2>1, <3>0
    <3>2. CASE j = i
      <4>1. got'[j] = {r \in present : Selects(slices[j], r)}  BY <2>2, <2>3, <3>2
      <4> QED  BY <2>1, <2>3, <3>1, <4>1
    <3>3. CASE j # i
      <4>1. got'[j] = got[j] /\ j \in read /\ got[j] \subseteq Rows
        BY <2>1, <2>2, <2>3, <3>0, <3>3
      <4> QED  BY <2>1, <2>3, <3>1, <4>1 DEF IInv
    <3> QED  BY <3>2, <3>3
  <2> QED  BY <1>0, <1>6, <2>1, <2>4 DEF IInv
<1>8. ASSUME NEW q \in Rows, InsertKey(q) PROVE IInv'
  <2>1. UNCHANGED <<config, driver, read, got, slices>>
    BY <1>8 DEF InsertKey, workers, driver
  <2>2. read # {} => early' = early  BY <1>8 DEF InsertKey
  <2>3. /\ got \in [DOMAIN slices -> SUBSET present] /\ present \subseteq Rows
        /\ early \subseteq present /\ read \subseteq DOMAIN slices
    BY <1>0 DEF TInv, TypeOK
  <2>4. ASSUME NEW j \in read'
        PROVE  /\ \A r \in got'[j] : Selects(slices[j], r)'
               /\ \A r \in early' : Selects(slices[j], r)' => r \in got'[j]
    <3>1. j \in DOMAIN slices /\ j \in read /\ got[j] \subseteq Rows /\ early' = early
      BY <2>1, <2>2, <2>3
    <3>2. \A r \in Rows : Selects(slices[j], r)' <=> Selects(slices[j], r)
      BY <1>6, <2>1, <3>1
    <3> QED  BY <2>1, <2>3, <3>1, <3>2 DEF IInv
  <2> QED  BY <1>0, <1>6, <2>1, <2>4 DEF IInv
<1>9. CASE Terminated \/ UNCHANGED slicesVars
  <2>1. UNCHANGED <<config, driver, read, got, early, slices>>
    BY <1>9 DEF Terminated, slicesVars, workers, driver
  <2>2. /\ got \in [DOMAIN slices -> SUBSET present] /\ present \subseteq Rows
        /\ early \subseteq present /\ read \subseteq DOMAIN slices
    BY <1>0 DEF TInv, TypeOK
  <2>3. ASSUME NEW j \in read'
        PROVE  /\ \A r \in got'[j] : Selects(slices[j], r)'
               /\ \A r \in early' : Selects(slices[j], r)' => r \in got'[j]
    <3>1. j \in DOMAIN slices /\ j \in read /\ got[j] \subseteq Rows
      BY <2>1, <2>2
    <3>2. \A r \in Rows : Selects(slices[j], r)' <=> Selects(slices[j], r)
      BY <1>6, <2>1, <3>1
    <3> QED  BY <2>1, <2>2, <3>1, <3>2 DEF IInv
  <2> QED  BY <1>0, <1>6, <2>1, <2>3 DEF IInv
<1> QED  BY <1>2, <1>3, <1>5, <1>7, <1>8, <1>9 DEF SlicesNext

(* The invariant always holds, when the column has no NULLs. *)
THEOREM AlwaysExact ==
  ASSUME ~Nullable
  PROVE  SlicesSpec => []IInv
<1>1. SlicesInit => IInv
  <2>1. SlicesInit => TInv  BY InitTypes
  <2>2. SlicesInit => read = {} /\ phase # "sliced"  BY DEF SlicesInit
  <2> QED  BY <2>1, <2>2 DEF IInv
<1> QED  BY <1>1, NextExact, PTL DEF SlicesSpec

(* No row is read by two workers, whatever is inserted meanwhile: for any  *)
(* table without NULLs, any batch size and any number of partitions.  The  *)
(* document at MongoDB's first inner bound is the exception.               *)
THEOREM ReadOnce ==
  ASSUME ~Nullable
  PROVE  SlicesSpec => []NoRowTwice
<1>1. IInv => NoRowTwice
  <2> SUFFICES ASSUME IInv, NEW r \in Rows, NEW i \in read, NEW j \in read,
                      i # j, r \in got[i], r \in got[j]
               PROVE  store = "mongo" /\ key[r] = slices[1].upper
    BY DEF NoRowTwice
  <2>1. i \in DOMAIN slices /\ j \in DOMAIN slices /\ slices # <<>>
    BY DEF IInv, TInv, TypeOK
  <2>2. Separate(slices)  BY <2>1 DEF IInv, TInv, TypeOK
  <2>3. Selects(slices[i], r) /\ Selects(slices[j], r)  BY DEF IInv
  <2> QED  BY <2>1, <2>2, <2>3 DEF Separate
<1> QED  BY <1>1, AlwaysExact, PTL

(* No row is missed: when all slices are read, the rows that were there    *)
(* before the first reading have been read, unless they came late and lie  *)
(* outside what the slices were made for.                                  *)
THEOREM AllFound ==
  ASSUME ~Nullable
  PROVE  SlicesSpec => []NothingMissed
<1>1. IInv => NothingMissed
  <2> SUFFICES ASSUME IInv, phase = "sliced", read = DOMAIN slices, NEW r \in early, ~Outside(r)
               PROVE  Readers(r) # {}
    BY DEF NothingMissed, AllRead
  <2>1. r \in Rows  BY DEF IInv, TInv, TypeOK
  <2>2. ~Beyond(slices, discovered, r)  BY DEF Outside, Beyond
  <2>3. PICK i \in DOMAIN slices : Selects(slices[i], r)  BY <2>1, <2>2 DEF IInv, Covering
  <2>4. i \in read /\ r \in got[i]  BY <2>3 DEF IInv
  <2> QED  BY <2>4 DEF Readers
<1> QED  BY <1>1, AlwaysExact, PTL

-----------------------------------------------------------------------------
(* The watermark between the runs.                                         *)

(* A set of integers with 0 and an upper bound has a largest element. *)
LEMMA Largest ==
  ASSUME NEW S, S \subseteq Int, 0 \in S, NEW B \in Nat, \A y \in S : y <= B
  PROVE  Max(S) \in S /\ Max(S) \in Nat
<1> DEFINE T == {n \in Nat : \A y \in S : y <= n}
           R == {ss \in Nat \X Nat : ss[1] < ss[2]}
<1>1. IsWellFoundedOn(R, Nat)  BY NatLessThanWellFounded DEF OpToRel
<1>2. T \subseteq Nat /\ B \in T  OBVIOUS
<1>3. \E m \in T : \A y \in T : <<y, m>> \notin R
  <2> HIDE DEF T, R
  <2> QED  BY <1>1, <1>2, WFMin
<1>4. PICK m \in T : \A y \in T : ~(y < m)  BY <1>2, <1>3
<1>5. m \in S
  <2> SUFFICES ASSUME m \notin S PROVE FALSE  OBVIOUS
  <2>1. m \in Nat /\ m # 0 /\ \A y \in S : y <= m /\ y # m  BY <1>2, <1>4
  <2>2. m - 1 \in Nat /\ m - 1 < m /\ \A y \in S : y <= m - 1  BY <2>1
  <2>3. m - 1 \in T  BY <2>2
  <2> QED  BY <1>4, <2>2, <2>3
<1>6. \A y \in S : m >= y  BY <1>2, <1>4
<1>7. Max(S) \in S /\ \A y \in S : Max(S) >= y  BY <1>5, <1>6 DEF Max
<1>8. Max(S) \in Int /\ Max(S) >= 0  BY <1>7
<1>9. \A x \in Int : x >= 0 => x \in Nat  OBVIOUS
<1> QED  BY <1>7, <1>8, <1>9, Zenon

LEMMA LargerOfTwo == ASSUME NEW a \in Nat, NEW b \in Nat PROVE Max({a, b}) \in Nat
<1>1. \E x \in {a, b} : \A y \in {a, b} : x >= y
  <2>1. CASE a >= b  BY <2>1
  <2>2. CASE ~(a >= b)  BY <2>2
  <2> QED  BY <2>1, <2>2
<1>2. Max({a, b}) \in {a, b}  BY <1>1 DEF Max
<1> QED  BY <1>2

-----------------------------------------------------------------------------
(* Types.  An offset never exceeds the bound that stands for all offsets   *)
(* past the end.                                                           *)
Types ==
  /\ cfg \in Configs
  /\ rows \in Seq(RowKinds(cfg.mode))
  /\ wm \in Nat /\ (cfg.mode = "offset" => wm <= MaxRows + 1)
  /\ dir \in [n : Nat, top : Nat] /\ dead \in Nat

LEMMA Configured ==
  ASSUME cfg \in Configs
  PROVE  /\ cfg.mode \in {"column", "offset"} /\ cfg.gran \in Nat \ {0}
         /\ \A r \in RowKinds(cfg.mode) : r.w \in Nat /\ r.w <= MaxMark
         /\ MaxMark \in Nat /\ MaxRows \in Nat /\ PageSize \in Nat \ {0} /\ HintPages \in Nat \ {0}
<1>1. /\ cfg.mode \in {"column", "offset"} /\ cfg.gran \in Nat \ {0}
      /\ MaxMark \in Nat /\ MaxRows \in Nat /\ PageSize \in Nat \ {0} /\ HintPages \in Nat \ {0}
  BY WatermarkAssumption
<1>2. \A r \in RowKinds(cfg.mode) : r.w \in {0} \cup cfg.gran .. MaxMark
  BY WatermarkAssumption
<1>3. {0} \cup cfg.gran .. MaxMark \subseteq 0..MaxMark  BY <1>1
<1>4. \A r \in RowKinds(cfg.mode) : r.w \in 0..MaxMark  BY <1>2, <1>3
<1> QED  BY <1>1, <1>4

LEMMA CountedRows ==
  ASSUME Types, NEW S \in SUBSET DOMAIN rows
  PROVE  /\ IsFiniteSet(S) /\ Cardinality(S) \in Nat
         /\ \A r \in S : rows[r].w \in Nat /\ rows[r].w <= MaxMark
<1>1. Len(rows) \in Nat /\ DOMAIN rows = 1..Len(rows) /\ \A r \in DOMAIN rows : rows[r] \in RowKinds(cfg.mode)
  BY DEF Types
<1>2. IsFiniteSet(1..Len(rows))  BY <1>1, FS_Interval
<1>3. IsFiniteSet(S)  BY <1>1, <1>2, FS_Subset
<1>4. Cardinality(S) \in Nat  BY <1>3, FS_CardinalityType
<1> QED  BY <1>1, <1>3, <1>4, Configured DEF Types

LEMMA TopType == ASSUME Types, NEW S \in SUBSET DOMAIN rows PROVE Top(S) \in Nat
<1>0. cfg.gran \in Nat \ {0} /\ MaxMark \in Nat  BY Configured DEF Types
<1>1. \A w \in Nat : Stored(w) \in Int /\ Stored(w) <= w
  <2> SUFFICES ASSUME NEW w \in Nat PROVE Stored(w) \in Int /\ Stored(w) <= w  OBVIOUS
  <2>1. w % cfg.gran \in Nat  BY <1>0
  <2> DEFINE x == w % cfg.gran
  <2> HIDE DEF x
  <2>2. w - x \in Int /\ w - x <= w  BY <2>1 DEF x
  <2> QED  BY <2>2 DEF Stored, x
<1> DEFINE M == {0} \cup {Stored(rows[r].w) : r \in S}
<1>2. M \subseteq Int /\ 0 \in M  BY <1>1, CountedRows
<1>3. \A y \in M : y <= MaxMark
  <2> SUFFICES ASSUME NEW r \in S PROVE Stored(rows[r].w) <= MaxMark  BY <1>0
  <2>1. rows[r].w \in Nat /\ rows[r].w <= MaxMark  BY CountedRows
  <2>2. Stored(rows[r].w) \in Int /\ Stored(rows[r].w) <= rows[r].w  BY <1>1, <2>1
  <2> QED  BY <1>0, <2>1, <2>2
<1> HIDE DEF M
<1>4. Max(M) \in Nat  BY <1>0, <1>2, <1>3, Largest
<1> QED  BY <1>4 DEF Top, M

(* Each row is given finitely many warnings. *)
LEMMA WarningsType == ASSUME Types, NEW S \in SUBSET DOMAIN rows PROVE Warnings(S) \in Nat
<1> DEFINE W(r) == {r} \X (1 .. rows[r].nulls)
           U == {W(r) : r \in Good(S)}
<1>1. IsFiniteSet(Good(S))
  <2>1. Good(S) \in SUBSET DOMAIN rows  BY DEF Good
  <2> QED  BY <2>1, CountedRows
<1>2. IsFiniteSet(U)
  <2>1. \A r \in Good(S) : W(r) \in U  OBVIOUS
  <2>2. [r \in Good(S) |-> W(r)] \in Surjection(Good(S), U)  BY <2>1 DEF Surjection
  <2> HIDE DEF U
  <2> QED  BY <1>1, <2>2, FS_Surjection
<1>3. ASSUME NEW T \in U PROVE IsFiniteSet(T)
  <2>1. PICK r \in Good(S) : T = W(r)  OBVIOUS
  <2>2. rows[r] \in RowKinds(cfg.mode) /\ cfg \in Configs  BY <2>1 DEF Good, Types
  <2>3. rows[r].nulls \in Nat  BY <2>2, WatermarkAssumption
  <2>4. IsFiniteSet(1 .. rows[r].nulls)  BY <2>3, FS_Interval
  <2>5. IsFiniteSet({r})  BY FS_Singleton
  <2> QED  BY <2>1, <2>4, <2>5, FS_Product
<1> HIDE DEF U
<1>4. IsFiniteSet(UNION U)  BY <1>2, <1>3, FS_UNION
<1>5. Cardinality(UNION U) \in Nat  BY <1>4, FS_CardinalityType
<1> QED  BY <1>5 DEF Warnings, U

LEMMA PublishedType ==
  ASSUME Types, NEW S \in SUBSET DOMAIN rows
  PROVE  Published(S) \in [n : Nat, top : Nat] /\ Quarantined(S) \subseteq Nat
<1>1. Good(S) \in SUBSET DOMAIN rows /\ S \ Good(S) \in SUBSET DOMAIN rows  BY DEF Good
<1>2. /\ Cardinality(Good(S)) \in Nat /\ Cardinality(S \ Good(S)) \in Nat /\ Top(Good(S)) \in Nat
  BY <1>1, CountedRows, TopType
<1>3. MaxRows \in Nat /\ dir \in [n : Nat, top : Nat] /\ dead \in Nat  BY Configured DEF Types
<1>4. Quarantined(S) \subseteq Nat
  <2>1. Letters(S) \in Nat /\ Warnings(S) \in Nat  BY <1>2, WarningsType DEF Letters
  <2>2. Letters(S) + Warnings(S) \in Nat  BY <2>1
  <2> QED  BY <1>3, <2>1, <2>2 DEF Quarantined, Commits
<1>5. dir.n \in Nat /\ dir.top \in Nat  BY <1>3
<1>6. Cap(dir.n + Cardinality(Good(S))) \in Nat  BY <1>2, <1>3, <1>5 DEF Cap
<1>7. Max({dir.top, Top(Good(S))}) \in Nat  BY <1>2, <1>5, LargerOfTwo
<1>8. cfg.layout \in {"file", "slash", "dir"}  BY WatermarkAssumption DEF Types
<1>9. CASE Good(S) = {} \/ cfg.layout = "dir"
  <2>1. Published(S) = dir  BY <1>9 DEF Published
  <2> QED  BY <1>3, <1>4, <2>1
<1>10. CASE Good(S) # {} /\ cfg.layout = "file"
  <2>1. Published(S) = [n |-> Cardinality(Good(S)), top |-> Top(Good(S))]  BY <1>10 DEF Published
  <2> QED  BY <1>2, <1>4, <2>1
<1>11. CASE Good(S) # {} /\ cfg.layout = "slash"
  <2>1. Published(S) = [n |-> Cap(dir.n + Cardinality(Good(S))), top |-> Max({dir.top, Top(Good(S))})]
    BY <1>11 DEF Published
  <2> QED  BY <1>4, <1>6, <1>7, <2>1
<1> QED  BY <1>8, <1>9, <1>10, <1>11

LEMMA ReadsRows == ASSUME NEW s PROVE Reads(s) \in SUBSET DOMAIN rows
BY DEF Reads, EffectiveQuery, buildRequestURL

LEMMA ResolvedType ==
  ASSUME Types
  PROVE  /\ resolveWatermarkOutput \in Nat /\ resolveWatermarkOutput >= wm
         /\ cfg.mode = "offset" => resolveWatermarkOutput <= MaxRows + 1
<1>1. /\ wm \in Nat /\ dir.n \in Nat /\ dir.top \in Nat /\ dead \in Nat /\ MaxRows \in Nat
      /\ cfg.mode = "offset" => wm <= MaxRows + 1
  BY Configured DEF Types
<1>2. CASE cfg.mode = "offset"
  <2>1. resolveWatermarkOutput = Cap(wm + (dir.n + dead))
    BY <1>2 DEF resolveWatermarkOutput, ResolveOffset, totalRead
  <2> QED  BY <1>1, <1>2, <2>1 DEF Cap
<1>3. CASE cfg.mode # "offset"
  <2>1. resolveWatermarkOutput \in {wm, dir.top} /\ (wm > dir.top => resolveWatermarkOutput = wm)
    BY <1>3 DEF resolveWatermarkOutput, ResolveColumn
  <2> QED  BY <1>1, <1>3, <2>1
<1> QED  BY <1>2, <1>3

LEMMA TypesInit == Init => Types
<1> SUFFICES ASSUME Init PROVE Types  OBVIOUS
<1>1. cfg \in Configs /\ rows = <<>> /\ dir = [n |-> 0, top |-> 0] /\ dead = 0  BY DEF Init, Empty
<1>2. wm \in Nat /\ (cfg.mode = "offset" => wm = 0)  BY WatermarkAssumption DEF Init
<1>3. rows \in Seq(RowKinds(cfg.mode))  BY <1>1
<1>4. dir \in [n : Nat, top : Nat]  BY <1>1
<1>5. MaxRows \in Nat  BY WatermarkAssumption
<1> QED  BY <1>1, <1>2, <1>3, <1>4, <1>5 DEF Types

LEMMA TypesStep == Types /\ [Next]_vars => Types'
<1> SUFFICES ASSUME Types, [Next]_vars PROVE Types'  OBVIOUS
<1>0. cfg' = cfg
  BY DEF Next, Insert, StartRun, ReadSlice, RepeatSlice, FailRun, FinishRun, vars
<1>1. CASE Insert
  <2>1. PICK r \in RowKinds(cfg.mode) : rows' = Append(rows, r)  BY <1>1 DEF Insert
  <2>2. rows' \in Seq(RowKinds(cfg.mode))  BY <2>1 DEF Types
  <2>3. UNCHANGED <<wm, dir, dead>>  BY <1>1 DEF Insert
  <2> QED  BY <1>0, <2>2, <2>3 DEF Types
<1>2. ASSUME NEW total, StartRun(total) PROVE Types'
  <2>1. /\ UNCHANGED <<rows, wm>>
        /\ dir' = [n |-> 0, top |-> 0] \/ dir' = dir
        /\ dead' = 0 \/ dead' = dead
    BY <1>2 DEF StartRun, Empty
  <2>2. dir' \in [n : Nat, top : Nat] /\ dead' \in Nat  BY <2>1 DEF Types
  <2> QED  BY <1>0, <2>1, <2>2 DEF Types
<1>3. ASSUME NEW s, Bundle(s), UNCHANGED <<rows, wm>> PROVE Types'
  <2>1. dir' \in [n : Nat, top : Nat] /\ dead' \in Nat
    BY <1>3, ReadsRows, PublishedType DEF Bundle
  <2> QED  BY <1>0, <1>3, <2>1 DEF Types
<1>4. CASE FailRun  BY <1>0, <1>4 DEF FailRun, Types
<1>5. CASE FinishRun
  <2>1. wm' = resolveWatermarkOutput /\ UNCHANGED <<rows, dir, dead>>  BY <1>5 DEF FinishRun
  <2>2. wm' \in Nat /\ (cfg.mode = "offset" => wm' <= MaxRows + 1)  BY <2>1, ResolvedType
  <2> QED  BY <1>0, <2>1, <2>2 DEF Types
<1>6. CASE UNCHANGED vars  BY <1>6 DEF vars, Types
<1> QED  BY <1>1, <1>2, <1>3, <1>4, <1>5, <1>6 DEF Next, ReadSlice, RepeatSlice

(* The watermark never moves backwards: not when the files of other runs   *)
(* lie in the directory, not when parquet stores a coarser value, not when *)
(* the offset meets its bound (resolveWatermarkOutput).                    *)
THEOREM Monotone == Spec => NonRegression
<1>1. Types /\ [Next]_vars => [wm' >= wm]_vars
  <2> SUFFICES ASSUME Types, Next PROVE wm' >= wm  BY DEF vars
  <2>1. wm \in Nat /\ wm >= wm  BY DEF Types
  <2>2. wm' = wm \/ wm' = resolveWatermarkOutput
    BY DEF Next, Insert, StartRun, ReadSlice, RepeatSlice, FailRun, FinishRun
  <2> QED  BY <2>1, <2>2, ResolvedType
<1> QED  BY <1>1, TypesInit, TypesStep, PTL DEF Spec, NonRegression

-----------------------------------------------------------------------------
(* Column watermarks.  What makes the next watermark safe is kept by two   *)
(* invariants: a row at or below the watermark was read or came late, and  *)
(* a row of a slice this run has read was read, or came after the reading, *)
(* or is no business of this run.                                          *)
Below(r) == wm # 0 /\ rows[r].w <= wm
Kept(r) == Below(r) => r \in delivered \cup late
SliceRead(r) == run.on /\ rows[r].lane \notin run.todo => r \in delivered \cup run.missed \/ Below(r)
ColumnInv == cfg.mode = "column" => \A r \in DOMAIN rows : Kept(r) /\ SliceRead(r)

LEMMA RowType ==
  ASSUME Types, NEW r \in DOMAIN rows
  PROVE  rows[r].w \in Nat /\ (cfg.mode = "column" => rows[r].lane \in Lanes)
<1>1. rows[r] \in RowKinds(cfg.mode)  BY DEF Types
<1>2. rows[r].w \in Nat  BY <1>1, Configured DEF Types
<1> QED  BY <1>1, <1>2 DEF Lanes

LEMMA ColumnInsert == ASSUME Types, ColumnInv, cfg.mode = "column", Insert PROVE ColumnInv'
<1>0. PICK id \in Nat : id = Len(rows) + 1  BY DEF Types
<1>1. PICK v \in RowKinds(cfg.mode) :
        /\ rows' = Append(rows, v)
        /\ late' = IF Behind(v) THEN late \cup {id} ELSE late
        /\ run' = IF AlreadyRead(id, v) THEN Running(run.todo, run.missed \cup {id}) ELSE run
  BY <1>0 DEF Insert
<1>2. UNCHANGED <<cfg, wm, delivered>>  BY DEF Insert
<1>3. /\ DOMAIN rows' = DOMAIN rows \cup {id} /\ rows'[id] = v
      /\ \A r \in DOMAIN rows : rows'[r] = rows[r] /\ r # id
  BY <1>0, <1>1 DEF Types
<1>4. (run'.on => run.on) /\ run'.todo = run.todo /\ run.missed \subseteq run'.missed
  <2>1. CASE AlreadyRead(id, v)
    <3>1. run' = [on |-> TRUE, todo |-> run.todo, missed |-> run.missed \cup {id}]  BY <1>1, <2>1 DEF Running
    <3>2. run.on  BY <2>1 DEF AlreadyRead
    <3>3. run'.todo = run.todo /\ run.missed \subseteq run'.missed  BY <3>1
    <3> QED  BY <3>2, <3>3
  <2>2. CASE ~AlreadyRead(id, v)
    <3>1. run' = run  BY <1>1, <2>2
    <3> QED  BY <3>1, Zenon
  <2> QED  BY <2>1, <2>2
<1>5. ASSUME NEW r \in DOMAIN rows PROVE Kept(r)' /\ SliceRead(r)'
  <2>1. Kept(r) /\ SliceRead(r)  BY DEF ColumnInv
  <2>2. Below(r)' = Below(r)  BY <1>2, <1>3 DEF Below
  <2>3. late \subseteq late'  BY <1>1
  <2> QED  BY <1>2, <1>3, <1>4, <2>1, <2>2, <2>3 DEF Kept, SliceRead
<1>6. Kept(id)'
  <2> SUFFICES ASSUME Below(id)' PROVE id \in late'  BY DEF Kept
  <2>1. Behind(v)  BY <1>2, <1>3 DEF Below, Behind
  <2> QED  BY <1>1, <2>1
<1>7. SliceRead(id)'
  <2> SUFFICES ASSUME run'.on, rows'[id].lane \notin run'.todo PROVE id \in run'.missed  BY DEF SliceRead
  <2>1. AlreadyRead(id, v)  BY <1>3, <1>4 DEF AlreadyRead
  <2>2. run' = [on |-> TRUE, todo |-> run.todo, missed |-> run.missed \cup {id}]
    BY <1>1, <2>1 DEF Running
  <2> QED  BY <2>2
<1> QED  BY <1>3, <1>5, <1>6, <1>7 DEF ColumnInv

LEMMA ColumnRead ==
  ASSUME Types, ColumnInv, cfg.mode = "column", NEW s, Bundle(s),
         UNCHANGED <<cfg, rows, wm, late>>,
         run' = run \/ run' = Running(run.todo \ {s}, run.missed)
  PROVE  ColumnInv'
<1> SUFFICES ASSUME NEW r \in DOMAIN rows PROVE Kept(r)' /\ SliceRead(r)'  BY DEF ColumnInv
<1>1. Kept(r) /\ SliceRead(r)  BY DEF ColumnInv
<1>2. Below(r)' = Below(r)  BY DEF Below
<1>3. delivered' = delivered \cup EffectiveQuery(s) /\ run.on  BY DEF Bundle, Reads
<1>4. Kept(r)'  BY <1>1, <1>2, <1>3 DEF Kept
<1>5. run'.missed = run.missed /\ run'.todo \in {run.todo, run.todo \ {s}}  BY DEF Running
<1>6. CASE rows[r].lane \notin run.todo
  <2>1. r \in delivered \cup run.missed \/ Below(r)  BY <1>1, <1>3, <1>6 DEF SliceRead
  <2> QED  BY <1>2, <1>3, <1>4, <1>5, <2>1 DEF SliceRead
<1>7. CASE rows[r].lane = s
  <2>1. rows[r].w \in Nat /\ wm \in Nat  BY RowType DEF Types
  <2>2. Below(r) \/ r \in EffectiveQuery(s)  BY <1>7, <2>1 DEF Below, EffectiveQuery
  <2> QED  BY <1>2, <1>3, <1>4, <2>2 DEF SliceRead
<1>8. CASE rows[r].lane \in run.todo /\ rows[r].lane # s  BY <1>4, <1>5, <1>8 DEF SliceRead
<1> QED  BY <1>6, <1>7, <1>8

LEMMA ColumnFinish ==
  ASSUME Types, ColumnInv, cfg.mode = "column", FinishRun
  PROVE  /\ ColumnInv'
         /\ wm' # wm => \A r \in DOMAIN rows : rows[r].w <= wm' => r \in delivered \cup late'
<1>1. /\ run.on /\ run.todo = {} /\ run' = NoRun /\ UNCHANGED <<cfg, rows, delivered>>
      /\ late' = late \cup {r \in run.missed : rows[r].w <= wm'}
  BY DEF FinishRun
<1>2. ASSUME NEW r \in DOMAIN rows, wm' # wm, rows[r].w <= wm' PROVE r \in delivered \cup late'
  <2>1. Kept(r) /\ SliceRead(r)  BY DEF ColumnInv
  <2> QED  BY <1>1, <1>2, <2>1 DEF Kept, SliceRead
<1>3. ASSUME NEW r \in DOMAIN rows PROVE Kept(r)' /\ SliceRead(r)'
  <2>1. Kept(r)  BY DEF ColumnInv
  <2>2. Kept(r)'  BY <1>1, <1>2, <2>1 DEF Kept, Below
  <2>3. ~run'.on  BY <1>1 DEF NoRun
  <2> QED  BY <2>2, <2>3 DEF SliceRead
<1> QED  BY <1>1, <1>2, <1>3 DEF ColumnInv

LEMMA ColumnStep ==
  ASSUME Types, ColumnInv, [Next]_vars, cfg.mode = "column"
  PROVE  /\ ColumnInv'
         /\ wm' # wm => \A r \in DOMAIN rows : rows[r].w <= wm' => r \in delivered \cup late'
<1>1. CASE Insert  BY <1>1, ColumnInsert DEF Insert
<1>2. ASSUME NEW total, StartRun(total) PROVE ColumnInv' /\ wm' = wm
  <2>1. /\ UNCHANGED <<cfg, rows, wm, delivered, late>>
        /\ run' = [on |-> TRUE, todo |-> Lanes, missed |-> {}]
    BY <1>2 DEF StartRun, Running, Slices
  <2>2. ASSUME NEW r \in DOMAIN rows PROVE Kept(r)' /\ SliceRead(r)'
    <3>1. Kept(r) /\ rows[r].lane \in Lanes  BY RowType DEF ColumnInv
    <3> QED  BY <2>1, <3>1 DEF Kept, SliceRead, Below
  <2> QED  BY <2>1, <2>2 DEF ColumnInv
<1>3. ASSUME NEW s, ReadSlice(s) \/ RepeatSlice(s) PROVE ColumnInv' /\ wm' = wm
  <2>1. /\ Bundle(s) /\ UNCHANGED <<cfg, rows, wm, late>>
        /\ run' = run \/ run' = Running(run.todo \ {s}, run.missed)
    BY <1>3 DEF ReadSlice, RepeatSlice
  <2> QED  BY <2>1, ColumnRead
<1>4. CASE FailRun
  <2>1. UNCHANGED <<cfg, rows, wm, delivered, late>> /\ ~run'.on  BY <1>4 DEF FailRun, NoRun
  <2> QED  BY <2>1 DEF ColumnInv, Kept, SliceRead, Below
<1>5. CASE FinishRun  BY <1>5, ColumnFinish
<1>6. CASE UNCHANGED vars  BY <1>6 DEF vars, ColumnInv, Kept, SliceRead, Below
<1> QED  BY <1>1, <1>2, <1>3, <1>4, <1>5, <1>6 DEF Next

(* The column half of NothingPassedOver: when the watermark of a column    *)
(* moves, every row at or below it was written, quarantined or came late,  *)
(* whatever runs failed, whatever bundles were repeated and whatever the   *)
(* directory held (EffectiveQuery, resolveWatermarkOutput).                *)
ColumnComplete ==
  [][cfg.mode = "column" /\ wm' # wm =>
       \A r \in DOMAIN rows : rows[r].w <= wm' => r \in delivered \cup late']_vars

THEOREM NoneBehindColumn == Spec => ColumnComplete
<1>1. Init => ColumnInv  BY DEF Init, ColumnInv
<1>2. Types /\ ColumnInv /\ [Next]_vars => ColumnInv'
  <2> SUFFICES ASSUME Types, ColumnInv, [Next]_vars PROVE ColumnInv'  OBVIOUS
  <2>1. cfg' = cfg
    BY DEF Next, Insert, StartRun, ReadSlice, RepeatSlice, FailRun, FinishRun, vars
  <2>2. CASE cfg.mode = "column"  BY <2>2, ColumnStep
  <2>3. CASE cfg.mode # "column"  BY <2>1, <2>3 DEF ColumnInv
  <2> QED  BY <2>2, <2>3
<1>3. Types /\ ColumnInv /\ [Next]_vars =>
        [cfg.mode = "column" /\ wm' # wm =>
           \A r \in DOMAIN rows : rows[r].w <= wm' => r \in delivered \cup late']_vars
  BY ColumnStep
<1> QED  BY <1>1, <1>2, <1>3, TypesInit, TypesStep, PTL DEF Spec, ColumnComplete

-----------------------------------------------------------------------------
(* Offset watermarks.  A run in a directory of its own counts rows it has  *)
(* read, and the rows of the pages it has read are read from the first on: *)
(* what is missing in them came after the reading, and lies behind all     *)
(* that was read when the number of pages is not a hint.                   *)
Missed(r, k, D) ==
  \/ r \in run.missed
  \/ cfg.pages # "hint" /\ r > wm + (k - 1) * PageSize /\ \A q \in D : q < r

(* D are rows the run has read, k is the number of its pages. *)
Tally(k, D) ==
  /\ run.todo \subseteq Starts(wm, k)
  /\ cfg.pages = "hint" => k = HintPages
  /\ cfg.pages # "hint" => k = 1 \/ wm + (k - 1) * PageSize <= Len(rows)
  /\ D \subseteq DOMAIN rows /\ D \subseteq delivered
  /\ \A r \in D : \E s \in Starts(wm, k) : r \in PageOf(s)
  /\ ~repeated => \A s \in run.todo : D \cap PageOf(s) = {}
  /\ \A s \in Starts(wm, k) \ run.todo : \A r \in DOMAIN rows :
       r \in PageOf(s) => r \in D \/ Missed(r, k, D)
  /\ dir.n <= Cardinality(Good(D)) /\ dead <= Cardinality(D \ Good(D))

OffsetInv ==
  cfg.mode = "offset" /\ run.on /\ OwnCount =>
    \E k \in Nat \ {0} : \E D \in SUBSET (DOMAIN rows) : Tally(k, D)

(* The pages of a run follow each other from the watermark on. *)
LEMMA PageFacts ==
  ASSUME Types, NEW k \in Nat \ {0}, NEW s \in Starts(wm, k)
  PROVE  /\ s \in Nat /\ wm <= s /\ s <= wm + (k - 1) * PageSize
         /\ \A t \in Starts(wm, k) : s = t \/ s + PageSize <= t \/ t + PageSize <= s
         /\ s + PageSize <= wm + k * PageSize
<1>0. wm \in Nat /\ PageSize \in Nat \ {0}  BY Configured DEF Types
<1>1. PICK i \in 0 .. (k - 1) : s = wm + i * PageSize  BY DEF Starts
<1>2. i * PageSize \in Nat /\ i * PageSize <= (k - 1) * PageSize /\ (k - 1) * PageSize \in Nat
  BY <1>0, <1>1, Z3
<1>3. k * PageSize = (k - 1) * PageSize + PageSize /\ k * PageSize \in Nat  BY <1>0
<1>4. ASSUME NEW t \in Starts(wm, k) PROVE s = t \/ s + PageSize <= t \/ t + PageSize <= s
  <2>1. PICK j \in 0 .. (k - 1) : t = wm + j * PageSize  BY DEF Starts
  <2>2. CASE i = j  BY <1>1, <2>1, <2>2
  <2>3. CASE i < j
    <3>1. (i + 1) * PageSize <= j * PageSize /\ (i + 1) * PageSize = i * PageSize + PageSize
      BY <1>0, <2>3, Z3
    <3> QED  BY <1>0, <1>1, <1>2, <2>1, <3>1
  <2>4. CASE j < i
    <3>1. (j + 1) * PageSize <= i * PageSize /\ (j + 1) * PageSize = j * PageSize + PageSize
      BY <1>0, <2>4, Z3
    <3> QED  BY <1>0, <1>1, <1>2, <2>1, <3>1
  <2> QED  BY <2>2, <2>3, <2>4
<1>5. s \in Nat /\ wm <= s /\ s <= wm + (k - 1) * PageSize  BY <1>0, <1>1, <1>2
<1> QED  BY <1>0, <1>2, <1>3, <1>4, <1>5

(* They leave no gap. *)
LEMMA PagesCover ==
  ASSUME Types, NEW k \in Nat \ {0}, NEW r \in (wm + 1) .. (wm + k * PageSize)
  PROVE  \E s \in Starts(wm, k) : r \in PageOf(s)
<1>0. wm \in Nat /\ PageSize \in Nat \ {0}  BY Configured DEF Types
<1> DEFINE x == r - wm - 1
           i == x \div PageSize
<1>1. x \in Nat /\ x < k * PageSize /\ r = wm + x + 1  BY <1>0
<1> HIDE DEF x
<1>2. i \in Nat /\ i * PageSize <= x /\ x < (i + 1) * PageSize  BY <1>0, <1>1
<1> HIDE DEF i
<1>3. i < k
  <2> SUFFICES ASSUME i >= k PROVE FALSE  BY <1>2
  <2>1. k * PageSize <= i * PageSize  BY <1>0, <1>2, Z3
  <2>2. k * PageSize \in Nat /\ i * PageSize \in Nat  BY <1>0, <1>2
  <2> QED  BY <1>1, <1>2, <2>1, <2>2
<1>4. i \in 0 .. (k - 1)  BY <1>2, <1>3
<1>5. wm + i * PageSize \in Starts(wm, k)  BY <1>4 DEF Starts
<1>6. (i + 1) * PageSize = i * PageSize + PageSize /\ i * PageSize \in Nat  BY <1>0, <1>2
<1>7. r \in PageOf(wm + i * PageSize)  BY <1>0, <1>1, <1>2, <1>6 DEF PageOf
<1> QED  BY <1>5, <1>7

(* Rows in a range of offsets are no more than the range is long. *)
LEMMA CountInRange ==
  ASSUME NEW a \in Nat, NEW b \in Nat, a <= b, NEW D, D \subseteq (a + 1) .. b
  PROVE  IsFiniteSet(D) /\ Cardinality(D) \in Nat /\ Cardinality(D) <= b - a
<1>1. IsFiniteSet((a + 1) .. b) /\ Cardinality((a + 1) .. b) = b - a
  <2>1. /\ IsFiniteSet((a + 1) .. b)
        /\ Cardinality((a + 1) .. b) = IF a + 1 > b THEN 0 ELSE b - (a + 1) + 1
    BY FS_Interval
  <2> QED  BY <2>1
<1>2. IsFiniteSet(D) /\ Cardinality(D) <= Cardinality((a + 1) .. b)  BY <1>1, FS_Subset
<1>3. Cardinality(D) \in Nat  BY <1>2, FS_CardinalityType
<1> QED  BY <1>1, <1>2, <1>3

(* What a run has counted grows with what it has read. *)
LEMMA CountsGrow ==
  ASSUME Types, NEW D \in SUBSET DOMAIN rows, NEW S \in SUBSET DOMAIN rows
  PROVE  /\ Cardinality(Good(D)) \in Nat /\ Cardinality(D \ Good(D)) \in Nat
         /\ Cardinality(Good(S)) \in Nat /\ Cardinality(S \ Good(S)) \in Nat
         /\ Cardinality(Good(D \cup S)) \in Nat
         /\ Cardinality((D \cup S) \ Good(D \cup S)) \in Nat
         /\ Cardinality(Good(D)) <= Cardinality(Good(D \cup S))
         /\ Cardinality(Good(S)) <= Cardinality(Good(D \cup S))
         /\ Cardinality(D \ Good(D)) <= Cardinality((D \cup S) \ Good(D \cup S))
         /\ Cardinality(S \ Good(S)) <= Cardinality((D \cup S) \ Good(D \cup S))
         /\ D \cap S = {} => Cardinality(Good(D \cup S)) = Cardinality(Good(D)) + Cardinality(Good(S))
<1>1. /\ Good(D) \in SUBSET DOMAIN rows /\ D \ Good(D) \in SUBSET DOMAIN rows
      /\ Good(S) \in SUBSET DOMAIN rows /\ S \ Good(S) \in SUBSET DOMAIN rows
      /\ Good(D \cup S) \in SUBSET DOMAIN rows /\ (D \cup S) \ Good(D \cup S) \in SUBSET DOMAIN rows
      /\ Good(D \cup S) = Good(D) \cup Good(S)
      /\ (D \cup S) \ Good(D \cup S) = (D \ Good(D)) \cup (S \ Good(S))
      /\ D \cap S = {} => Good(D) \cap Good(S) = {}
  BY DEF Good
<1>2. \A T \in SUBSET DOMAIN rows : IsFiniteSet(T) /\ Cardinality(T) \in Nat  BY CountedRows
<1>3. \A T, U \in SUBSET DOMAIN rows :
        Cardinality(T) <= Cardinality(T \cup U) /\ Cardinality(U) <= Cardinality(T \cup U)
  <2> SUFFICES ASSUME NEW T \in SUBSET DOMAIN rows, NEW U \in SUBSET DOMAIN rows
               PROVE  Cardinality(T) <= Cardinality(T \cup U) /\ Cardinality(U) <= Cardinality(T \cup U)
    OBVIOUS
  <2>1. IsFiniteSet(T \cup U) /\ T \subseteq T \cup U /\ U \subseteq T \cup U  BY <1>2
  <2> QED  BY <2>1, FS_Subset
<1>4. ASSUME D \cap S = {}
      PROVE  Cardinality(Good(D) \cup Good(S)) = Cardinality(Good(D)) + Cardinality(Good(S))
  <2>1. IsFiniteSet(Good(D)) /\ IsFiniteSet(Good(S)) /\ Good(D) \cap Good(S) = {}  BY <1>1, <1>2, <1>4
  <2>2. Cardinality(Good(D) \cup Good(S)) = Cardinality(Good(D)) + Cardinality(Good(S)) - Cardinality({})
    BY <2>1, FS_Union
  <2>3. Cardinality({}) = 0  BY FS_EmptySet
  <2> QED  BY <1>1, <1>2, <2>2, <2>3
<1> QED  BY <1>1, <1>2, <1>3, <1>4

LEMMA OffsetInsert == ASSUME Types, OffsetInv, cfg.mode = "offset", Insert PROVE OffsetInv'
<1>0. PICK id \in Nat : id = Len(rows) + 1  BY DEF Types
<1>1. PICK v \in RowKinds(cfg.mode) :
        /\ rows' = Append(rows, v)
        /\ run' = IF AlreadyRead(id, v) THEN Running(run.todo, run.missed \cup {id}) ELSE run
  BY <1>0 DEF Insert
<1>2. UNCHANGED <<cfg, wm, dir, dead, delivered, repeated>>  BY DEF Insert
<1>3. /\ DOMAIN rows' = DOMAIN rows \cup {id} /\ Len(rows') = id /\ DOMAIN rows = 1..Len(rows)
      /\ \A r \in DOMAIN rows : rows'[r] = rows[r] /\ r < id
  BY <1>0, <1>1 DEF Types
<1>4. (run'.on => run.on) /\ run'.todo = run.todo /\ run.missed \subseteq run'.missed
      /\ (AlreadyRead(id, v) => id \in run'.missed)
  <2>1. CASE AlreadyRead(id, v)
    <3>1. run' = [on |-> TRUE, todo |-> run.todo, missed |-> run.missed \cup {id}]  BY <1>1, <2>1 DEF Running
    <3>2. run.on  BY <2>1 DEF AlreadyRead
    <3>3. run'.todo = run.todo /\ run.missed \subseteq run'.missed /\ id \in run'.missed  BY <3>1
    <3> QED  BY <3>2, <3>3
  <2>2. CASE ~AlreadyRead(id, v)
    <3>1. run' = run  BY <1>1, <2>2
    <3> QED  BY <2>2, <3>1, Zenon
  <2> QED  BY <2>1, <2>2
<1>5. SUFFICES ASSUME run'.on, OwnCount'
               PROVE  \E k \in Nat \ {0} : \E D \in SUBSET (DOMAIN rows') : Tally(k, D)'
  BY DEF OffsetInv
<1>6. run.on /\ OwnCount  BY <1>2, <1>4, <1>5 DEF OwnCount, NoWarnings, FromOffset
<1>7. PICK k \in Nat \ {0}, D \in SUBSET DOMAIN rows : Tally(k, D)  BY <1>6 DEF OffsetInv
<1>8. Good(D)' = Good(D)  BY <1>3 DEF Good
<1>9. /\ \A s, n : Starts(s, n)' = Starts(s, n) /\ PageOf(s)' = PageOf(s)
      /\ Starts(wm, k) = Starts(wm', k)
  BY <1>2 DEF Starts, PageOf
<1>10. ASSUME NEW s \in Starts(wm, k) \ run.todo, NEW r \in DOMAIN rows', r \in PageOf(s)
       PROVE  r \in D \/ Missed(r, k, D)'
  <2>1. CASE r \in DOMAIN rows
    <3>1. r \in D \/ Missed(r, k, D)  BY <1>7, <1>10, <2>1 DEF Tally
    <3> QED  BY <1>2, <1>4, <3>1 DEF Missed
  <2>2. CASE r = id
    <3>1. CASE cfg.pages = "hint"
      <4>1. AlreadyRead(id, v)  BY <1>6, <1>7, <1>10, <2>2, <3>1 DEF AlreadyRead, Tally
      <4> QED  BY <1>4, <2>2, <4>1 DEF Missed
    <3>2. CASE cfg.pages # "hint"
      <4>1. \A q \in D : q < id  BY <1>3
      <4>2. wm \in Nat /\ PageSize \in Nat \ {0} /\ Len(rows) \in Nat  BY Configured DEF Types
      <4>3. s \in Nat /\ wm <= s  BY <1>10, PageFacts
      <4>4. wm < id  BY <1>0, <1>10, <2>2, <4>2, <4>3 DEF PageOf
      <4>5. (k - 1) * PageSize \in Nat  BY <4>2
      <4>6. wm + (k - 1) * PageSize < id
        <5>1. CASE k = 1
          <6>1. (k - 1) * PageSize = 0  BY <4>2, <5>1
          <6> QED  BY <4>2, <4>4, <6>1
        <5>2. CASE k # 1
          <6>1. wm + (k - 1) * PageSize <= Len(rows)  BY <1>7, <3>2, <5>2 DEF Tally
          <6> QED  BY <1>0, <4>2, <4>5, <6>1
        <5> QED  BY <5>1, <5>2
      <4>7. id > wm + (k - 1) * PageSize  BY <4>2, <4>5, <4>6
      <4> QED  BY <1>2, <2>2, <3>2, <4>1, <4>7 DEF Missed
    <3> QED  BY <3>1, <3>2
  <2> QED  BY <1>3, <1>10, <2>1, <2>2
<1>11. cfg.pages # "hint" => k = 1 \/ wm + (k - 1) * PageSize <= Len(rows')
  <2>1. wm \in Nat /\ PageSize \in Nat \ {0} /\ Len(rows) \in Nat  BY Configured DEF Types
  <2>2. (k - 1) * PageSize \in Nat  BY <2>1
  <2>3. cfg.pages # "hint" => k = 1 \/ wm + (k - 1) * PageSize <= Len(rows)  BY <1>7 DEF Tally
  <2> QED  BY <1>0, <1>3, <2>1, <2>2, <2>3
<1>12. Tally(k, D)'
  <2>1. /\ run'.todo \subseteq Starts(wm', k) /\ (cfg'.pages = "hint" => k = HintPages)
        /\ D \subseteq DOMAIN rows' /\ D \subseteq delivered'
        /\ \A r \in D : \E s \in Starts(wm', k) : r \in PageOf(s)
        /\ ~repeated' => \A s \in run'.todo : D \cap PageOf(s) = {}
        /\ dir'.n <= Cardinality(Good(D)) /\ dead' <= Cardinality(D \ Good(D))
    BY <1>2, <1>3, <1>4, <1>7, <1>9 DEF Tally
  <2>2. cfg'.pages # "hint" => k = 1 \/ wm' + (k - 1) * PageSize <= Len(rows')  BY <1>2, <1>11
  <2>3. \A s \in Starts(wm', k) \ run'.todo : \A r \in DOMAIN rows' :
          r \in PageOf(s) => r \in D \/ Missed(r, k, D)'
    BY <1>4, <1>9, <1>10
  <2> QED  BY <1>8, <1>9, <2>1, <2>2, <2>3 DEF Tally
<1>13. D \in SUBSET (DOMAIN rows')  BY <1>3
<1> QED  BY <1>12, <1>13

(* The pages EstimatePages finds. *)
LEMMA PagesFound ==
  ASSUME Types, cfg.mode = "offset", FromOffset, NEW total \in Totals
  PROVE  \E k \in Nat \ {0} :
           /\ Slices(total) = Starts(wm, k)
           /\ cfg.pages = "hint" => k = HintPages
           /\ cfg.pages # "hint" => k = 1 \/ wm + (k - 1) * PageSize <= Len(rows)
<1>0. /\ wm \in Nat /\ PageSize \in Nat \ {0} /\ Len(rows) \in Nat /\ HintPages \in Nat \ {0}
      /\ cfg.pages \in {"hint", "probe", "none"}
  BY Configured, WatermarkAssumption DEF Types
<1>1. total \in {0, Len(rows)}  BY DEF Totals
<1>2. Slices(total) = Pages(total)  BY DEF Slices
<1>3. CASE cfg.pages = "hint"
  <2>1. Slices(total) = Starts(wm, HintPages)  BY <1>2, <1>3 DEF Pages
  <2> QED  BY <1>0, <1>3, <2>1
<1>4. CASE cfg.pages # "hint" /\ total > wm
  <2> DEFINE n == total - wm + PageSize - 1
             k == n \div PageSize
  <2>1. n \in Nat /\ n >= PageSize /\ total = Len(rows)  BY <1>0, <1>1, <1>4
  <2>2. Slices(total) = Starts(wm, k)  BY <1>2, <1>4 DEF Pages
  <2>h. n = total - wm + PageSize - 1  OBVIOUS
  <2> HIDE DEF n
  <2>3. k \in Nat /\ k * PageSize <= n /\ n < (k + 1) * PageSize  BY <1>0, <2>1
  <2> HIDE DEF k
  <2>4. k # 0
    <3> SUFFICES ASSUME k = 0 PROVE FALSE  OBVIOUS
    <3>1. (k + 1) * PageSize = PageSize  BY <1>0
    <3> QED  BY <1>0, <2>1, <2>3, <3>1
  <2>5. (k - 1) * PageSize = k * PageSize - PageSize /\ k * PageSize \in Nat  BY <1>0, <2>3
  <2>6. wm + (k - 1) * PageSize <= Len(rows)  BY <1>0, <2>1, <2>h, <2>3, <2>5
  <2> QED  BY <1>4, <2>2, <2>3, <2>4, <2>6
<1>5. CASE cfg.pages # "hint" /\ ~(total > wm)
  <2>0. OnlyPage = wm  BY <1>5 DEF OnlyPage, FromOffset
  <2>1. Slices(total) = {wm}  BY <1>2, <1>5, <2>0 DEF Pages
  <2>2. 0 .. (1 - 1) = {0}  OBVIOUS
  <2>3. wm + 0 * PageSize = wm  BY <1>0
  <2>4. Starts(wm, 1) = {wm}  BY <2>2, <2>3 DEF Starts
  <2> QED  BY <1>5, <2>1, <2>4
<1> QED  BY <1>3, <1>4, <1>5

LEMMA OffsetStart ==
  ASSUME Types, OffsetInv, cfg.mode = "offset", NEW total \in Totals, StartRun(total)
  PROVE  OffsetInv'
<1>1. /\ UNCHANGED <<cfg, rows, wm, delivered>>
      /\ run' = [on |-> TRUE, todo |-> Slices(total), missed |-> {}]
      /\ cfg.fresh => dir' = [n |-> 0, top |-> 0] /\ dead' = 0
  BY DEF StartRun, Running, Empty
<1>2. SUFFICES ASSUME OwnCount'
               PROVE  \E k \in Nat \ {0} : \E D \in SUBSET (DOMAIN rows') : Tally(k, D)'
  BY DEF OffsetInv
<1>3. dir'.n = 0 /\ dead' = 0  BY <1>1, <1>2 DEF OwnCount
<1>f. FromOffset  BY <1>1, <1>2 DEF OwnCount, FromOffset
<1>4. PICK k \in Nat \ {0} :
           /\ Slices(total) = Starts(wm, k)
           /\ cfg.pages = "hint" => k = HintPages
           /\ cfg.pages # "hint" => k = 1 \/ wm + (k - 1) * PageSize <= Len(rows)
  BY <1>f, PagesFound
<1>5. run'.todo = Starts(wm', k)  BY <1>1, <1>4
<1>6. Good({})' = {} /\ Cardinality({}) = 0  BY FS_EmptySet DEF Good
<1>7. Tally(k, {})'
  <2>1. 0 <= Cardinality({}) /\ {} \ {} = {}  BY <1>6
  <2>2. dir'.n <= Cardinality(Good({})') /\ dead' <= Cardinality({} \ Good({})')
    BY <1>3, <1>6, <2>1
  <2> QED  BY <1>1, <1>4, <1>5, <2>2 DEF Tally
<1> QED  BY <1>7

(* What a bundle publishes and quarantines is covered by the rows read. *)
LEMMA BundleCounts ==
  ASSUME Types, NEW k \in Nat \ {0}, NEW D \in SUBSET DOMAIN rows, Tally(k, D),
         NEW S \in SUBSET DOMAIN rows,
         cfg.layout = "file" \/ D \cap S = {},
         NoWarnings, NEW q \in Quarantined(S)
  PROVE  /\ Published(S).n <= Cardinality(Good(D \cup S))
         /\ q <= Cardinality((D \cup S) \ Good(D \cup S))
<1>0. /\ dir.n \in Nat /\ dead \in Nat /\ MaxRows \in Nat /\ cfg.layout \in {"file", "slash", "dir"}
      /\ dir.n <= Cardinality(Good(D)) /\ dead <= Cardinality(D \ Good(D))
  BY Configured, WatermarkAssumption DEF Types, Tally
<1>1. /\ Cardinality(Good(D)) \in Nat /\ Cardinality(D \ Good(D)) \in Nat
      /\ Cardinality(Good(S)) \in Nat /\ Cardinality(S \ Good(S)) \in Nat
      /\ Cardinality(Good(D \cup S)) \in Nat
      /\ Cardinality((D \cup S) \ Good(D \cup S)) \in Nat
      /\ Cardinality(Good(D)) <= Cardinality(Good(D \cup S))
      /\ Cardinality(Good(S)) <= Cardinality(Good(D \cup S))
      /\ Cardinality(D \ Good(D)) <= Cardinality((D \cup S) \ Good(D \cup S))
      /\ Cardinality(S \ Good(S)) <= Cardinality((D \cup S) \ Good(D \cup S))
      /\ D \cap S = {} => Cardinality(Good(D \cup S)) = Cardinality(Good(D)) + Cardinality(Good(S))
  BY CountsGrow
<1>2. q \in {dead, Cardinality(S \ Good(S))}
  <2>1. CASE cfg.dlqFile /\ Commits(S) # {}
    <3>1. Warnings(S) = 0  BY <2>1 DEF NoWarnings, Warnings
    <3>2. Letters(S) + 0 = Letters(S)  BY <1>1 DEF Letters
    <3>3. q \in {Letters(S), Letters(S) + 0}  BY <2>1, <3>1 DEF Quarantined, Commits
    <3> QED  BY <3>2, <3>3 DEF Letters
  <2>2. CASE ~(cfg.dlqFile /\ Commits(S) # {})  BY <2>2 DEF Quarantined
  <2> QED  BY <2>1, <2>2
<1>3. CASE Good(S) = {} \/ cfg.layout = "dir"
  <2>1. Published(S) = dir  BY <1>3 DEF Published
  <2> QED  BY <1>0, <1>1, <1>2, <2>1
<1>4. CASE Good(S) # {} /\ cfg.layout = "file"
  <2>1. Published(S) = [n |-> Cardinality(Good(S)), top |-> Top(Good(S))]  BY <1>4 DEF Published
  <2> QED  BY <1>0, <1>1, <1>2, <2>1
<1>5. CASE Good(S) # {} /\ cfg.layout = "slash"
  <2>1. Published(S) = [n |-> Cap(dir.n + Cardinality(Good(S))), top |-> Max({dir.top, Top(Good(S))})]
    BY <1>5 DEF Published
  <2>2. Published(S).n = Cap(dir.n + Cardinality(Good(S)))  BY <2>1
  <2>3. Cap(dir.n + Cardinality(Good(S))) <= dir.n + Cardinality(Good(S))
    BY <1>0, <1>1 DEF Cap
  <2>4. Cap(dir.n + Cardinality(Good(S))) \in Nat  BY <1>0, <1>1 DEF Cap
  <2>5. Cardinality(Good(D \cup S)) = Cardinality(Good(D)) + Cardinality(Good(S))  BY <1>1, <1>5
  <2> QED  BY <1>0, <1>1, <1>2, <2>2, <2>3, <2>4, <2>5
<1> QED  BY <1>0, <1>3, <1>4, <1>5

(* Reading a page, once or again: its rows join the rows read. *)
LEMMA OffsetRead ==
  ASSUME Types, OffsetInv, cfg.mode = "offset", NEW s, Bundle(s),
         UNCHANGED <<cfg, rows, wm>>,
         \/ run' = run /\ repeated'
         \/ run' = Running(run.todo \ {s}, run.missed) /\ repeated' = repeated
  PROVE  OffsetInv'
<1>1. SUFFICES ASSUME OwnCount'
               PROVE  \E k \in Nat \ {0} : \E D \in SUBSET (DOMAIN rows') : Tally(k, D)'
  BY DEF OffsetInv
<1>2. run.on /\ s \in run.todo  BY DEF Bundle
<1>3. OwnCount /\ (repeated' => cfg.layout = "file") /\ (~repeated' => ~repeated)
  BY <1>1 DEF OwnCount, NoWarnings, FromOffset
<1>4. PICK k \in Nat \ {0}, D \in SUBSET DOMAIN rows : Tally(k, D)  BY <1>2, <1>3 DEF OffsetInv
<1>5. PICK S \in SUBSET DOMAIN rows : S = {r \in DOMAIN rows : r \in PageOf(s)}  OBVIOUS
<1>6. dir' = Published(S) /\ dead' \in Quarantined(S) /\ delivered' = delivered \cup S
  BY <1>5 DEF Bundle, Reads, buildRequestURL
<1>7. /\ run'.missed = run.missed /\ run'.todo \subseteq run.todo /\ run.todo \subseteq run'.todo \cup {s}
      /\ (~repeated' => s \notin run'.todo)
  <2>1. CASE run' = run /\ repeated'  BY <2>1
  <2>2. CASE run' = Running(run.todo \ {s}, run.missed) /\ repeated' = repeated
    <3>1. run'.todo = run.todo \ {s} /\ run'.missed = run.missed  BY <2>2 DEF Running
    <3> QED  BY <3>1
  <2> QED  BY <2>1, <2>2
<1>8. s \in Starts(wm, k)  BY <1>2, <1>4 DEF Tally
<1>9. cfg.layout = "file" \/ D \cap S = {}
  <2>1. CASE repeated'  BY <1>3, <2>1
  <2>2. CASE ~repeated'
    <3>1. D \cap PageOf(s) = {}  BY <1>2, <1>3, <1>4, <2>2 DEF Tally
    <3> QED  BY <1>5, <3>1
  <2> QED  BY <2>1, <2>2
<1>10. /\ dir'.n <= Cardinality(Good(D \cup S))
       /\ dead' <= Cardinality((D \cup S) \ Good(D \cup S))
  <2>1. NoWarnings  BY <1>3 DEF OwnCount
  <2> QED  BY <1>4, <1>6, <1>9, <2>1, BundleCounts
<1>11. Good(D \cup S)' = Good(D \cup S)  BY DEF Good
<1>12. wm \in Nat /\ PageSize \in Nat \ {0} /\ DOMAIN rows \subseteq Nat /\ (k - 1) * PageSize \in Nat
  <2>1. wm \in Nat /\ PageSize \in Nat \ {0} /\ DOMAIN rows \subseteq Nat  BY Configured DEF Types
  <2> QED  BY <2>1
<1>13. \A t \in Starts(wm, k) : t # s => PageOf(t) \cap PageOf(s) = {}
  <2> SUFFICES ASSUME NEW t \in Starts(wm, k), t # s PROVE PageOf(t) \cap PageOf(s) = {}  OBVIOUS
  <2>1. s \in Nat /\ t \in Nat /\ (s + PageSize <= t \/ t + PageSize <= s)  BY <1>8, PageFacts
  <2> QED  BY <1>12, <2>1 DEF PageOf
<1>14. ASSUME NEW t \in Starts(wm, k) \ run'.todo, NEW r \in DOMAIN rows, r \in PageOf(t)
       PROVE  r \in D \cup S \/ Missed(r, k, D \cup S)'
  <2>1. CASE t = s  BY <1>5, <1>14, <2>1
  <2>2. CASE t # s
    <3>1. r \in D \/ Missed(r, k, D)
      <4>1. t \in Starts(wm, k) \ run.todo  BY <1>7, <1>14, <2>2
      <4> QED  BY <1>4, <1>14, <4>1 DEF Tally
    <3>2. CASE r \in D \/ r \in run.missed  BY <1>7, <3>2 DEF Missed
    <3>3. CASE /\ cfg.pages # "hint" /\ r > wm + (k - 1) * PageSize
               /\ \A q \in D : q < r
      <4>1. s \in Nat /\ t \in Nat /\ s <= wm + (k - 1) * PageSize /\ t <= wm + (k - 1) * PageSize
            /\ (s + PageSize <= t \/ t + PageSize <= s)
        BY <1>8, <1>14, <2>2, PageFacts
      <4>2. r \in Nat /\ r <= t + PageSize /\ r >= t + 1  BY <1>12, <1>14, <4>1 DEF PageOf
      <4>3. s + PageSize <= t  BY <1>12, <3>3, <4>1, <4>2
      <4>4. \A q \in S : q < r
        <5> SUFFICES ASSUME NEW q \in S PROVE q < r  OBVIOUS
        <5>1. q \in Nat /\ q <= s + PageSize  BY <1>5, <1>12, <4>1 DEF PageOf
        <5> QED  BY <1>12, <4>1, <4>2, <4>3, <5>1
      <4> QED  BY <3>3, <4>4 DEF Missed
    <3> QED  BY <3>1, <3>2, <3>3 DEF Missed
  <2> QED  BY <2>1, <2>2
<1>15. \A t, n : Starts(t, n)' = Starts(t, n) /\ PageOf(t)' = PageOf(t)  BY DEF Starts, PageOf
<1>16. Tally(k, D \cup S)'
  <2>1. /\ run'.todo \subseteq Starts(wm, k)
        /\ cfg.pages = "hint" => k = HintPages
        /\ cfg.pages # "hint" => k = 1 \/ wm + (k - 1) * PageSize <= Len(rows)
        /\ D \cup S \subseteq DOMAIN rows /\ D \cup S \subseteq delivered'
    BY <1>4, <1>6, <1>7 DEF Tally
  <2>2. \A r \in D \cup S : \E t \in Starts(wm, k) : r \in PageOf(t)
    BY <1>4, <1>5, <1>8 DEF Tally
  <2>3. ~repeated' => \A t \in run'.todo : (D \cup S) \cap PageOf(t) = {}
    <3> SUFFICES ASSUME ~repeated', NEW t \in run'.todo PROVE (D \cup S) \cap PageOf(t) = {}  OBVIOUS
    <3>1. t # s /\ t \in run.todo /\ t \in Starts(wm, k)  BY <1>7, <2>1
    <3>2. D \cap PageOf(t) = {}  BY <1>3, <1>4, <3>1 DEF Tally
    <3>3. S \cap PageOf(t) = {}  BY <1>5, <1>13, <3>1
    <3> QED  BY <3>2, <3>3
  <2>4. \A t \in Starts(wm, k) \ run'.todo : \A r \in DOMAIN rows :
          r \in PageOf(t) => r \in D \cup S \/ Missed(r, k, D \cup S)'
    BY <1>14
  <2> QED  BY <1>10, <1>11, <1>15, <2>1, <2>2, <2>3, <2>4 DEF Tally
<1>17. D \cup S \in SUBSET (DOMAIN rows')  OBVIOUS
<1> QED  BY <1>16, <1>17

(* The offset moves by no more rows than were read, so it passes only rows *)
(* of the pages, all of them read or late.                                 *)
LEMMA OffsetFinish ==
  ASSUME Types, OffsetInv, cfg.mode = "offset", OwnCount, FinishRun, NEW r \in DOMAIN rows,
         r \in (wm + 1) .. wm'
  PROVE  r \in delivered \cup late'
<1>1. /\ run.on /\ run.todo = {} /\ wm' = Cap(wm + (dir.n + dead))
      /\ late' = late \cup {q \in run.missed : q <= wm'}
  BY DEF FinishRun, resolveWatermarkOutput, ResolveOffset, totalRead
<1>2. PICK k \in Nat \ {0}, D \in SUBSET DOMAIN rows : Tally(k, D)  BY <1>1 DEF OffsetInv
<1>3. /\ wm \in Nat /\ PageSize \in Nat \ {0} /\ MaxRows \in Nat /\ dir.n \in Nat /\ dead \in Nat
      /\ DOMAIN rows \subseteq Nat
  BY Configured DEF Types
<1>4. wm' <= wm + (dir.n + dead) /\ wm' \in Nat  BY <1>1, <1>3 DEF Cap
<1>5. r \in Nat /\ wm < r /\ r <= wm'  BY <1>3, <1>4
<1>6. IsFiniteSet(D) /\ Cardinality(D) \in Nat  BY CountedRows
<1>7. dir.n + dead <= Cardinality(D)
  <2>1. /\ Cardinality(Good(D)) \in Nat /\ Cardinality(D \ Good(D)) \in Nat
        /\ IsFiniteSet(Good(D)) /\ IsFiniteSet(D \ Good(D))
    <3>1. Good(D) \in SUBSET DOMAIN rows /\ D \ Good(D) \in SUBSET DOMAIN rows  BY DEF Good
    <3> QED  BY <3>1, CountedRows
  <2>2. Good(D) \cup (D \ Good(D)) = D /\ Good(D) \cap (D \ Good(D)) = {}  BY DEF Good
  <2>3. Cardinality(D) = Cardinality(Good(D)) + Cardinality(D \ Good(D)) - Cardinality({})
    BY <2>1, <2>2, FS_Union
  <2>4. Cardinality({}) = 0  BY FS_EmptySet
  <2>5. dir.n <= Cardinality(Good(D)) /\ dead <= Cardinality(D \ Good(D))  BY <1>2 DEF Tally
  <2> QED  BY <1>3, <2>1, <2>3, <2>4, <2>5
<1>8. k * PageSize \in Nat  BY <1>3
<1>9. ASSUME NEW q \in D PROVE q \in Nat /\ q > wm /\ q <= wm + k * PageSize
  <2>1. PICK s \in Starts(wm, k) : q \in PageOf(s)  BY <1>2 DEF Tally
  <2>2. s \in Nat /\ wm <= s /\ s + PageSize <= wm + k * PageSize  BY <2>1, PageFacts
  <2> QED  BY <1>3, <1>8, <2>1, <2>2 DEF PageOf
<1>10. Cardinality(D) <= k * PageSize
  <2>1. D \subseteq (wm + 1) .. (wm + k * PageSize)  BY <1>3, <1>8, <1>9
  <2>2. wm + k * PageSize \in Nat /\ wm <= wm + k * PageSize  BY <1>3, <1>8
  <2>3. Cardinality(D) <= (wm + k * PageSize) - wm  BY <1>3, <2>1, <2>2, CountInRange
  <2> QED  BY <1>3, <1>6, <1>8, <2>3
<1>11. r \in (wm + 1) .. (wm + k * PageSize)  BY <1>3, <1>4, <1>5, <1>6, <1>7, <1>8, <1>10
<1>12. PICK s \in Starts(wm, k) : r \in PageOf(s)  BY <1>11, PagesCover
<1>13. r \in D \/ Missed(r, k, D)  BY <1>1, <1>2, <1>12 DEF Tally
<1>14. CASE r \in D  BY <1>2, <1>14 DEF Tally
<1>15. CASE r \in run.missed  BY <1>1, <1>5, <1>15
<1>16. CASE \A q \in D : q < r
  <2>1. D \subseteq (wm + 1) .. (r - 1)  BY <1>3, <1>5, <1>9, <1>16
  <2>2. r - 1 \in Nat /\ wm <= r - 1  BY <1>3, <1>5
  <2>3. Cardinality(D) <= (r - 1) - wm  BY <1>3, <2>1, <2>2, CountInRange
  <2> QED  BY <1>3, <1>4, <1>5, <1>6, <1>7, <2>3
<1> QED  BY <1>13, <1>14, <1>15, <1>16 DEF Missed

LEMMA OffsetStep == Types /\ OffsetInv /\ [Next]_vars => OffsetInv'
<1> SUFFICES ASSUME Types, OffsetInv, [Next]_vars PROVE OffsetInv'  OBVIOUS
<1>0. cfg' = cfg
  BY DEF Next, Insert, StartRun, ReadSlice, RepeatSlice, FailRun, FinishRun, vars
<1>1. CASE cfg.mode # "offset"  BY <1>0, <1>1 DEF OffsetInv
<1>2. CASE cfg.mode = "offset"
  <2>1. CASE Insert  BY <1>2, <2>1, OffsetInsert
  <2>2. ASSUME NEW total \in Totals, StartRun(total) PROVE OffsetInv'  BY <1>2, <2>2, OffsetStart
  <2>3. ASSUME NEW s, ReadSlice(s) \/ RepeatSlice(s) PROVE OffsetInv'
    <3>1. /\ Bundle(s) /\ UNCHANGED <<cfg, rows, wm>>
          /\ \/ run' = run /\ repeated'
             \/ run' = Running(run.todo \ {s}, run.missed) /\ repeated' = repeated
      BY <2>3 DEF ReadSlice, RepeatSlice
    <3> QED  BY <1>2, <3>1, OffsetRead
  <2>4. CASE FailRun \/ FinishRun
    <3>1. run' = [on |-> FALSE, todo |-> {}, missed |-> {}]  BY <2>4 DEF FailRun, FinishRun, NoRun
    <3>2. ~run'.on  BY <3>1
    <3> QED  BY <3>2 DEF OffsetInv
  <2>5. CASE UNCHANGED vars
    <3>1. UNCHANGED <<cfg, rows, wm, run, dir, dead, delivered, repeated>>  BY <2>5 DEF vars
    <3>2. ASSUME run.on, OwnCount PROVE \E k \in Nat \ {0}, D \in SUBSET DOMAIN rows : Tally(k, D)'
      <4>1. PICK k \in Nat \ {0}, D \in SUBSET DOMAIN rows : Tally(k, D)  BY <1>2, <3>2 DEF OffsetInv
      <4>2. Good(D)' = Good(D)  BY <3>1 DEF Good
      <4>3. \A r : Missed(r, k, D)' <=> Missed(r, k, D)  BY <3>1 DEF Missed
      <4>4. Tally(k, D)'  BY <3>1, <4>1, <4>2, <4>3 DEF Tally
      <4> QED  BY <4>4
    <3>3. OwnCount' <=> OwnCount  BY <3>1 DEF OwnCount, NoWarnings, FromOffset
    <3> QED  BY <3>1, <3>2, <3>3 DEF OffsetInv
  <2> QED  BY <2>1, <2>2, <2>3, <2>4, <2>5 DEF Next
<1> QED  BY <1>1, <1>2

(* No row is passed over, for any source, any configurations and page      *)
(* sizes and any number of runs, faults and repeated bundles: when the     *)
(* watermark moves, every row it has moved past was written, quarantined,  *)
(* or came late; for an offset in the runs that begin at it and count only *)
(* what they read, not warnings (OwnCount; EstimatePages, EffectiveQuery,  *)
(* buildAuditSink, resolveWatermarkOutput).                                *)
THEOREM NonePassedOver == Spec => NothingPassedOver
<1>1. Init => OffsetInv
  <2> SUFFICES ASSUME Init PROVE ~run.on  BY DEF OffsetInv
  <2>1. run = [on |-> FALSE, todo |-> {}, missed |-> {}]  BY DEF Init, NoRun
  <2> QED  BY <2>1
<1> DEFINE A == wm' # wm /\ (cfg.mode = "column" \/ OwnCount) =>
                  \A r \in DOMAIN rows :
                    IF cfg.mode = "column"
                    THEN rows[r].w <= wm' => r \in delivered \cup late'
                    ELSE r \in (wm + 1) .. wm' => r \in delivered \cup late'
<1>2. Types /\ OffsetInv /\ [Next]_vars /\
      [cfg.mode = "column" /\ wm' # wm =>
           \A r \in DOMAIN rows : rows[r].w <= wm' => r \in delivered \cup late']_vars => [A]_vars
  <2> SUFFICES ASSUME Types, OffsetInv, Next, cfg.mode # "column", wm' # wm, OwnCount,
                      NEW r \in DOMAIN rows, r \in (wm + 1) .. wm'
               PROVE  r \in delivered \cup late'
    <3>1. SUFFICES ASSUME Types, OffsetInv, Next, ~UNCHANGED vars,
                          cfg.mode = "column" /\ wm' # wm =>
                            \A r \in DOMAIN rows : rows[r].w <= wm' => r \in delivered \cup late'
                   PROVE  A
      OBVIOUS
    <3>2. CASE cfg.mode = "column"  BY <3>1, <3>2
    <3>3. CASE cfg.mode # "column"  BY <3>1, <3>3
    <3> QED  BY <3>2, <3>3
  <2>1. FinishRun  BY DEF Next, Insert, StartRun, ReadSlice, RepeatSlice, FailRun
  <2>2. cfg.mode = "offset"  BY Configured DEF Types
  <2> QED  BY <2>1, <2>2, OffsetFinish
<1> QED
  BY <1>1, <1>2, OffsetStep, NoneBehindColumn, TypesInit, TypesStep, PTL
     DEF Spec, NothingPassedOver, ColumnComplete

=============================================================================
