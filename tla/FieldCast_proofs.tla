-------------------------- MODULE FieldCast_proofs --------------------------
(***************************************************************************)
(* What the parsers, the formatters, the mappers of the sources and the    *)
(* casting plans (FieldCast) make of a cell, for any text, any width of    *)
(* the integers and any precision of the floats: a validated field holds   *)
(* what its cell said, and a dead letter names a field that cannot be      *)
(* read.                                                                   *)
(***************************************************************************)
EXTENDS Records_proofs

(* What a text stands for.  Magnitude adds up digits by their weights; the *)
(* parsers multiply by ten and add the next digit.  Both are the same.     *)
Term(s, i, m) == IF IsDigit(s[i]) THEN DigitVal(s[i]) * Pow10[Cardinality(DigitsIn(s, i + 1, m))] ELSE 0
SumRun(s, m, f) == f[0] = 0 /\ \A i \in 1 .. m : f[i] \in Int /\ f[i] = f[i - 1] + Term(s, i, m)

(* The value of the first k characters.                                    *)
Horner(s, v) ==
  /\ v \in [0 .. Len(s) -> Nat] /\ v[0] = 0
  /\ \A k \in 1 .. Len(s) : v[k] = IF IsDigit(s[k]) THEN 10 * v[k - 1] + DigitVal(s[k]) ELSE v[k - 1]

LEMMA DigitSets ==
  ASSUME NEW s, NEW a \in Nat, NEW m \in Nat
  PROVE  IsFiniteSet(DigitsIn(s, a, m)) /\ Cardinality(DigitsIn(s, a, m)) \in Nat
<1>1. IsFiniteSet(a .. m)  BY FS_Interval
<1>2. DigitsIn(s, a, m) \subseteq a .. m  BY DEF DigitsIn
<1>3. IsFiniteSet(DigitsIn(s, a, m))  BY <1>1, <1>2, FS_Subset
<1> QED  BY <1>3, FS_CardinalityType

LEMMA TermStep ==
  ASSUME NEW s, NEW m \in Nat, NEW i \in 1 .. m
  PROVE  /\ Term(s, i, m) \in Nat
         /\ IsDigit(s[m + 1]) => Term(s, i, m + 1) = 10 * Term(s, i, m)
         /\ ~IsDigit(s[m + 1]) => Term(s, i, m + 1) = 1 * Term(s, i, m)
<1>1. PICK S : S = DigitsIn(s, i + 1, m)  OBVIOUS
<1>2. PICK T : T = DigitsIn(s, i + 1, m + 1)  OBVIOUS
<1>3. PICK n \in Nat : n = Cardinality(S) /\ IsFiniteSet(S)
  <2>1. i + 1 \in Nat  OBVIOUS
  <2> QED  BY <1>1, <2>1, DigitSets
<1>4. PICK p \in Nat : p = Pow10[n]  BY Powers
<1>5. IsDigit(s[i]) => DigitVal(s[i]) \in Nat
  <2>1. 0 .. 9 \subseteq Nat  OBVIOUS
  <2> QED  BY <2>1, Numerals
<1>6. Term(s, i, m) = IF IsDigit(s[i]) THEN DigitVal(s[i]) * p ELSE 0  BY <1>1, <1>3, <1>4 DEF Term
<1>7. Term(s, i, m) \in Nat
  <2>1. CASE IsDigit(s[i])
    <3>1. PICK d \in Nat : d = DigitVal(s[i])  BY <1>5, <2>1
    <3>2. d * p \in Nat  OBVIOUS
    <3> QED  BY <1>6, <2>1, <3>1, <3>2
  <2>2. CASE ~IsDigit(s[i])  BY <1>6, <2>2
  <2> QED  BY <2>1, <2>2
<1>8. ASSUME IsDigit(s[m + 1]) PROVE Term(s, i, m + 1) = 10 * Term(s, i, m)
  <2>1. T = S \cup {m + 1} /\ m + 1 \notin S
    <3>1. \A j : j \in (i + 1) .. (m + 1) <=> j \in (i + 1) .. m \/ j = m + 1  OBVIOUS
    <3>2. m + 1 \notin (i + 1) .. m  OBVIOUS
    <3> QED  BY <1>1, <1>2, <1>8, <3>1, <3>2 DEF DigitsIn
  <2>2. Cardinality(T) = n + 1  BY <1>3, <2>1, FS_AddElement
  <2>3. Pow10[Cardinality(T)] = 10 * p  BY <1>4, <2>2, Powers
  <2>4. CASE IsDigit(s[i])
    <3>1. PICK d \in Nat : d = DigitVal(s[i])  BY <1>5, <2>4
    <3>2. Term(s, i, m + 1) = d * (10 * p)  BY <1>2, <2>3, <2>4, <3>1 DEF Term
    <3>3. Term(s, i, m) = d * p  BY <1>6, <2>4, <3>1
    <3> QED  BY <3>2, <3>3
  <2>5. CASE ~IsDigit(s[i])
    <3>1. Term(s, i, m + 1) = 0  BY <2>5 DEF Term
    <3>2. Term(s, i, m) = 0  BY <1>6, <2>5
    <3> QED  BY <3>1, <3>2
  <2> QED  BY <2>4, <2>5
<1>9. ASSUME ~IsDigit(s[m + 1]) PROVE Term(s, i, m + 1) = 1 * Term(s, i, m)
  <2>1. T = S
    <3>1. \A j : j \in (i + 1) .. (m + 1) <=> j \in (i + 1) .. m \/ (j = m + 1 /\ m + 1 >= i + 1)  OBVIOUS
    <3> QED  BY <1>1, <1>2, <1>9, <3>1 DEF DigitsIn
  <2>2. Term(s, i, m + 1) = Term(s, i, m)  BY <1>1, <1>2, <2>1 DEF Term
  <2> QED  BY <1>7, <2>2
<1> QED  BY <1>7, <1>8, <1>9

LEMMA LastTerm ==
  ASSUME NEW s, NEW m \in Nat
  PROVE  Term(s, m, m) = IF IsDigit(s[m]) THEN DigitVal(s[m]) ELSE 0
<1>1. DigitsIn(s, m + 1, m) = {}
  <2>1. (m + 1) .. m = {}  OBVIOUS
  <2> QED  BY <2>1 DEF DigitsIn
<1>2. Cardinality({}) = 0  BY FS_EmptySet
<1>3. CASE IsDigit(s[m])
  <2>1. PICK d \in Int : d = DigitVal(s[m])
    <3>1. 0 .. 9 \subseteq Int  OBVIOUS
    <3> QED  BY <1>3, <3>1, Numerals
  <2>2. Term(s, m, m) = d * 1  BY <1>1, <1>2, <1>3, <2>1, Powers DEF Term
  <2> QED  BY <1>3, <2>1, <2>2
<1>4. CASE ~IsDigit(s[m])  BY <1>4 DEF Term
<1> QED  BY <1>3, <1>4

LEMMA SumScaled ==
  ASSUME NEW s, NEW m \in Nat, NEW q \in Nat, NEW f, NEW h, SumRun(s, m, f), SumRun(s, q, h),
         NEW k \in Nat, k <= m, k <= q, NEW c \in Nat,
         \A i \in 1 .. k : Term(s, i, m) \in Int /\ Term(s, i, q) = c * Term(s, i, m)
  PROVE  h[k] = c * f[k]
<1> DEFINE P == {n \in Nat : n <= k => f[n] \in Int /\ h[n] = c * f[n]}
<1>1. 0 \in P
  <2>1. f[0] = 0 /\ h[0] = 0  BY DEF SumRun
  <2> QED  BY <2>1
<1>2. ASSUME NEW n \in Nat, n \in P PROVE n + 1 \in P
  <2>1. ASSUME n + 1 <= k PROVE f[n + 1] \in Int /\ h[n + 1] = c * f[n + 1]
    <3>1. n + 1 \in 1 .. m /\ n + 1 \in 1 .. q /\ n + 1 \in 1 .. k /\ (n + 1) - 1 = n /\ n <= k  BY <2>1
    <3>2. f[n + 1] = f[n] + Term(s, n + 1, m) /\ f[n + 1] \in Int  BY <3>1 DEF SumRun
    <3>3. h[n + 1] = h[n] + Term(s, n + 1, q)  BY <3>1 DEF SumRun
    <3>4. PICK t \in Int : t = Term(s, n + 1, m) /\ Term(s, n + 1, q) = c * t  BY <3>1
    <3>5. PICK y \in Int : y = f[n] /\ h[n] = c * y  BY <1>2, <3>1
    <3>6. c * (y + t) = c * y + c * t  OBVIOUS
    <3> QED  BY <3>2, <3>3, <3>4, <3>5, <3>6
  <2> QED  BY <2>1
<1>3. \A n \in Nat : n \in P
  <2> HIDE DEF P
  <2> QED  BY <1>1, <1>2, Induction
<1> QED  BY <1>3

LEMMA SumExists == ASSUME NEW s, NEW m \in Nat PROVE \E f : f \in [Nat -> Int] /\ SumRun(s, m, f)
<1>1. PICK g : g = [i \in Nat |-> IF i \in 1 .. m THEN Term(s, i, m) ELSE 0]  OBVIOUS
<1>2. g \in [Nat -> Int]
  <2>1. \A i \in 1 .. m : Term(s, i, m) \in Int
    <3>1. \A i \in 1 .. m : Term(s, i, m) \in Nat  BY TermStep
    <3> QED  BY <3>1
  <2> QED  BY <1>1, <2>1
<1>3. PICK a, b \in Int : a = 1 /\ b = 0  OBVIOUS
<1>4. PICK f \in [Nat -> Int] : f[0] = b /\ \A n \in Nat : f[n + 1] = a * f[n] + g[n + 1]
  BY <1>2, Recurrence
<1>5. ASSUME NEW i \in 1 .. m PROVE f[i] \in Int /\ f[i] = f[i - 1] + Term(s, i, m)
  <2>1. PICK n \in Nat : n = i - 1 /\ n + 1 = i  OBVIOUS
  <2>2. f[n] \in Int /\ f[n + 1] \in Int /\ g[n + 1] = Term(s, i, m)  BY <1>1, <2>1
  <2>3. g[n + 1] \in Int  BY <1>2
  <2> QED  BY <1>3, <1>4, <2>1, <2>2, <2>3
<1> QED  BY <1>3, <1>4, <1>5 DEF SumRun

LEMMA MagnitudeHorner ==
  ASSUME NEW s, IsSeq(s)
  PROVE  \E v : Horner(s, v) /\ Magnitude(s) = v[Len(s)]
<1>1. PICK n \in Nat : n = Len(s)  BY SeqShape
<1> DEFINE Sol(m) == CHOOSE f : f \in [Nat -> Int] /\ SumRun(s, m, f)
<1>2. \A m \in Nat : Sol(m) \in [Nat -> Int] /\ SumRun(s, m, Sol(m))  BY SumExists
<1> HIDE DEF Sol
<1>3. PICK v : v = [m \in 0 .. n |-> Sol(m)[m]]  OBVIOUS
<1>4. v[0] = 0  BY <1>2, <1>3 DEF SumRun
<1>5. \A m \in 0 .. n : v[m] \in Int
  <2>1. \A m \in 0 .. n : m \in Nat  OBVIOUS
  <2> QED  BY <1>2, <1>3, <2>1
<1>6. ASSUME NEW k \in 1 .. n
      PROVE  v[k] = IF IsDigit(s[k]) THEN 10 * v[k - 1] + DigitVal(s[k]) ELSE v[k - 1]
  <2>1. PICK m \in Nat : m = k - 1 /\ m + 1 = k /\ m \in 0 .. n /\ k \in 0 .. n /\ k \in Nat  OBVIOUS
  <2>2. PICK f, h : f = Sol(m) /\ h = Sol(k)  OBVIOUS
  <2>3. SumRun(s, m, f) /\ SumRun(s, k, h) /\ v[m] = f[m] /\ v[k] = h[k] /\ f[m] \in Int
    BY <1>2, <1>3, <2>1, <2>2
  <2>4. h[k] = h[m] + Term(s, k, k)
    <3>1. k \in 1 .. k  OBVIOUS
    <3> QED  BY <2>1, <2>3, <3>1 DEF SumRun
  <2>5. m <= m /\ m <= k /\ \A i \in 1 .. m : Term(s, i, m) \in Int
    <3>1. \A i \in 1 .. m : Term(s, i, m) \in Nat  BY TermStep
    <3> QED  BY <2>1, <3>1
  <2>6. CASE IsDigit(s[k])
    <3>1. \A i \in 1 .. m : Term(s, i, k) = 10 * Term(s, i, m)  BY <2>1, <2>6, TermStep
    <3>2. PICK c \in Nat : c = 10  OBVIOUS
    <3>3. \A i \in 1 .. m : Term(s, i, m) \in Int /\ Term(s, i, k) = c * Term(s, i, m)
      BY <2>5, <3>1, <3>2
    <3>4. h[m] = c * f[m]  BY <2>1, <2>3, <2>5, <3>3, SumScaled
    <3>5. Term(s, k, k) = DigitVal(s[k])  BY <2>1, <2>6, LastTerm
    <3> QED  BY <2>1, <2>3, <2>4, <2>6, <3>2, <3>4, <3>5
  <2>7. CASE ~IsDigit(s[k])
    <3>1. \A i \in 1 .. m : Term(s, i, k) = 1 * Term(s, i, m)  BY <2>1, <2>7, TermStep
    <3>2. PICK c \in Nat : c = 1  OBVIOUS
    <3>3. \A i \in 1 .. m : Term(s, i, m) \in Int /\ Term(s, i, k) = c * Term(s, i, m)
      BY <2>5, <3>1, <3>2
    <3>4. h[m] = c * f[m]  BY <2>1, <2>3, <2>5, <3>3, SumScaled
    <3>5. Term(s, k, k) = 0  BY <2>1, <2>7, LastTerm
    <3> QED  BY <2>1, <2>3, <2>4, <2>7, <3>2, <3>4, <3>5
  <2> QED  BY <2>6, <2>7
<1>7. \A m \in 0 .. n : v[m] \in Nat
  <2> DEFINE P == {m \in Nat : m <= n => v[m] \in Nat}
  <2>1. 0 \in P  BY <1>4
  <2>2. ASSUME NEW m \in Nat, m \in P PROVE m + 1 \in P
    <3>1. ASSUME m + 1 <= n PROVE v[m + 1] \in Nat
      <4>1. m + 1 \in 1 .. n /\ (m + 1) - 1 = m /\ m <= n  BY <3>1
      <4>2. v[m] \in Nat  BY <2>2, <4>1
      <4>3. v[m + 1] = IF IsDigit(s[m + 1]) THEN 10 * v[m] + DigitVal(s[m + 1]) ELSE v[m]
        BY <1>6, <4>1
      <4>4. IsDigit(s[m + 1]) => DigitVal(s[m + 1]) \in 0 .. 9  BY Numerals
      <4> QED  BY <4>2, <4>3, <4>4
    <3> QED  BY <3>1
  <2>3. \A m \in Nat : m \in P
    <3> HIDE DEF P
    <3> QED  BY <2>1, <2>2, Induction
  <2>4. \A m \in 0 .. n : m \in Nat /\ m <= n  OBVIOUS
  <2> QED  BY <2>3, <2>4
<1>8. v \in [0 .. n -> Nat]  BY <1>3, <1>7
<1>9. Horner(s, v)  BY <1>1, <1>4, <1>6, <1>8 DEF Horner
<1> DEFINE Eq(f) == f = [i \in 0 .. n |-> IF i = 0 THEN 0 ELSE f[i - 1] +
                            (IF IsDigit(s[i])
                             THEN DigitVal(s[i]) * Pow10[Cardinality(DigitsIn(s, i + 1, n))] ELSE 0)]
<1>10. \E f : Eq(f)
  <2>1. PICK g : g = Sol(n) /\ SumRun(s, n, g)  BY <1>2
  <2>2. PICK f : f = [i \in 0 .. n |-> g[i]]  OBVIOUS
  <2>3. ASSUME NEW i \in 0 .. n
        PROVE  f[i] = IF i = 0 THEN 0 ELSE f[i - 1] + Term(s, i, n)
    <3>1. CASE i = 0  BY <2>1, <2>2, <3>1 DEF SumRun
    <3>2. CASE i # 0
      <4>1. i \in 1 .. n /\ i - 1 \in 0 .. n  BY <3>2
      <4>2. g[i] = g[i - 1] + Term(s, i, n)  BY <2>1, <4>1 DEF SumRun
      <4> QED  BY <2>2, <3>2, <4>1, <4>2
    <3> QED  BY <3>1, <3>2
  <2>4. Eq(f)  BY <2>2, <2>3 DEF Term
  <2> QED  BY <2>4
<1>11. PICK f : f = (CHOOSE g : Eq(g)) /\ Eq(f)  BY <1>10
<1>12. Magnitude(s) = f[n]  BY <1>1, <1>11 DEF Magnitude
<1>13. SumRun(s, n, f)
  <2>1. f[0] = 0
    <3>1. 0 \in 0 .. n  OBVIOUS
    <3> QED  BY <1>11, <3>1
  <2>2. ASSUME NEW i \in 1 .. n PROVE f[i] = f[i - 1] + Term(s, i, n)
    <3>1. i \in 0 .. n /\ i # 0  OBVIOUS
    <3> QED  BY <1>11, <3>1 DEF Term
  <2> HIDE DEF Eq
  <2> DEFINE P == {m \in Nat : m <= n => f[m] \in Int}
  <2>3. 0 \in P  BY <2>1
  <2>4. ASSUME NEW m \in Nat, m \in P PROVE m + 1 \in P
    <3>1. ASSUME m + 1 <= n PROVE f[m + 1] \in Int
      <4>1. m + 1 \in 1 .. n /\ (m + 1) - 1 = m /\ m <= n  BY <3>1
      <4>2. Term(s, m + 1, n) \in Nat  BY <4>1, TermStep
      <4> QED  BY <2>2, <2>4, <4>1, <4>2
    <3> QED  BY <3>1
  <2>5. \A m \in Nat : m \in P
    <3> HIDE DEF P
    <3> QED  BY <2>3, <2>4, Induction
  <2>6. \A i \in 1 .. n : f[i] \in Int
    <3>1. \A i \in 1 .. n : i \in Nat /\ i <= n  OBVIOUS
    <3> QED  BY <2>5, <3>1
  <2> QED  BY <2>1, <2>2, <2>6 DEF SumRun
<1>14. f[n] = v[n]
  <2>1. PICK g : g = Sol(n) /\ SumRun(s, n, g) /\ v[n] = g[n] /\ g[n] \in Int  BY <1>2, <1>3
  <2>2. \A i \in 1 .. n : Term(s, i, n) \in Int /\ Term(s, i, n) = 1 * Term(s, i, n)
    <3>1. \A i \in 1 .. n : Term(s, i, n) \in Nat  BY TermStep
    <3> QED  BY <3>1
  <2>3. PICK c \in Nat : c = 1  OBVIOUS
  <2>4. f[n] = c * g[n]  BY <1>13, <2>1, <2>2, <2>3, SumScaled
  <2> QED  BY <2>1, <2>3, <2>4
<1> QED  BY <1>1, <1>9, <1>12, <1>14

(* The shape of a numeral: digits, and a point at position p, past the     *)
(* end when there is none.                                                 *)
Shaped(q, k, p) == \A i \in 1 .. k : IF i = p THEN q[i] = "." ELSE IsDigit(q[i])
Point(q, k) == IF \E p \in 1 .. (k + 1) : Shaped(q, k, p)
               THEN CHOOSE p \in 1 .. (k + 1) : Shaped(q, k, p) ELSE 0

LEMMA NoDigits == \A c \in {".", "-", "+", " ", "e", "t", "f"} : ~IsDigit(c)
<1>1. \A i \in DOMAIN Digits : Digits[i] \in {"0", "1", "2", "3", "4", "5", "6", "7", "8", "9"}
  <2>1. \A i \in 1 .. 10 : i \in {1, 2, 3, 4, 5, 6, 7, 8, 9, 10}  OBVIOUS
  <2>2. \A i \in {1, 2, 3, 4, 5, 6, 7, 8, 9, 10} :
          Digits[i] \in {"0", "1", "2", "3", "4", "5", "6", "7", "8", "9"}
    BY DEF Digits
  <2> QED  BY <2>1, <2>2, Numerals
<1> QED  BY <1>1 DEF IsDigit

LEMMA PointOf ==
  ASSUME NEW q, NEW k \in Nat
  PROVE  /\ \A p \in 1 .. (k + 1) : Shaped(q, k, p) => Point(q, k) = p
         /\ Point(q, k) # 0 => Point(q, k) \in 1 .. (k + 1) /\ Shaped(q, k, Point(q, k))
         /\ Point(q, k) \in 0 .. (k + 1)
<1>1. ASSUME NEW p \in 1 .. (k + 1), NEW r \in 1 .. (k + 1), Shaped(q, k, p), Shaped(q, k, r) PROVE p = r
  <2>1. SUFFICES ASSUME p # r PROVE FALSE  OBVIOUS
  <2>2. PICK i \in 1 .. k : i = p \/ i = r  BY <2>1
  <2>3. q[i] = "." /\ IsDigit(q[i])  BY <1>1, <2>1, <2>2 DEF Shaped
  <2> QED  BY <2>3, NoDigits
<1>2. ASSUME NEW p \in 1 .. (k + 1), Shaped(q, k, p) PROVE Point(q, k) = p
  <2>1. PICK r : r = CHOOSE x \in 1 .. (k + 1) : Shaped(q, k, x)  OBVIOUS
  <2>2. r \in 1 .. (k + 1) /\ Shaped(q, k, r)  BY <1>2, <2>1
  <2>3. Point(q, k) = r  BY <1>2, <2>1 DEF Point
  <2> QED  BY <1>1, <1>2, <2>2, <2>3
<1>3. ASSUME Point(q, k) # 0 PROVE Point(q, k) \in 1 .. (k + 1) /\ Shaped(q, k, Point(q, k))
  <2>1. PICK p \in 1 .. (k + 1) : Shaped(q, k, p)  BY <1>3 DEF Point
  <2> QED  BY <1>2, <2>1
<1>4. Point(q, k) \in 0 .. (k + 1)  BY <1>3
<1> QED  BY <1>2, <1>3, <1>4

LEMMA PointStep ==
  ASSUME NEW q, NEW k \in Nat
  PROVE  /\ Point(q, 0) = 1
         /\ Point(q, k + 1) = IF Point(q, k) = 0 THEN 0
                              ELSE IF IsDigit(q[k + 1])
                              THEN IF Point(q, k) = k + 1 THEN k + 2 ELSE Point(q, k)
                              ELSE IF q[k + 1] = "." /\ Point(q, k) = k + 1 THEN k + 1 ELSE 0
<1>1. Point(q, 0) = 1
  <2>1. 1 \in 1 .. (0 + 1) /\ 0 \in Nat /\ \A i \in 1 .. 0 : FALSE  OBVIOUS
  <2>2. Shaped(q, 0, 1)  BY <2>1 DEF Shaped
  <2> QED  BY <2>1, <2>2, PointOf
<1>2. \A i : i \in 1 .. (k + 1) <=> i \in 1 .. k \/ i = k + 1  OBVIOUS
<1>3. PICK p : p = Point(q, k) /\ p \in 0 .. (k + 1)  BY PointOf
<1>4. k + 1 \in Nat /\ (k + 1) + 1 = k + 2  OBVIOUS
<1>5. ASSUME Point(q, k + 1) # 0
      PROVE  \/ p # 0 /\ IsDigit(q[k + 1])
             \/ p = k + 1 /\ q[k + 1] = "."
  <2>1. PICK r : r = Point(q, k + 1) /\ r \in 1 .. (k + 2) /\ Shaped(q, k + 1, r)
    BY <1>4, <1>5, PointOf
  <2>2. Shaped(q, k, r)  BY <1>2, <2>1 DEF Shaped
  <2>3. CASE r = k + 2
    <3>1. Shaped(q, k, k + 1)
      <4>1. \A i \in 1 .. k : i # k + 1 /\ i # k + 2  OBVIOUS
      <4> QED  BY <2>2, <2>3, <4>1 DEF Shaped
    <3>2. k + 1 \in 1 .. (k + 1)  OBVIOUS
    <3>3. p = k + 1  BY <1>3, <3>1, <3>2, PointOf
    <3>4. k + 1 \in 1 .. (k + 1) /\ k + 1 # k + 2 /\ k + 1 # 0  OBVIOUS
    <3> QED  BY <2>1, <2>3, <3>3, <3>4 DEF Shaped
  <2>4. CASE r # k + 2
    <3>1. r \in 1 .. (k + 1) /\ k + 1 \in 1 .. (k + 1)  BY <2>1, <2>4
    <3>2. p = r /\ p # 0  BY <1>3, <2>2, <3>1, PointOf
    <3> QED  BY <2>1, <3>1, <3>2 DEF Shaped
  <2> QED  BY <2>3, <2>4
<1>6. ASSUME p # 0, IsDigit(q[k + 1])
      PROVE  Point(q, k + 1) = IF p = k + 1 THEN k + 2 ELSE p
  <2>1. Shaped(q, k, p)  BY <1>3, <1>6, PointOf
  <2>2. PICK r : r = IF p = k + 1 THEN k + 2 ELSE p  OBVIOUS
  <2>3. r \in 1 .. ((k + 1) + 1) /\ r # k + 1  BY <1>3, <1>6, <2>2
  <2>4. ASSUME NEW i \in 1 .. (k + 1) PROVE IF i = r THEN q[i] = "." ELSE IsDigit(q[i])
    <3>1. CASE i = k + 1  BY <1>6, <2>3, <3>1
    <3>2. CASE i # k + 1
      <4>1. i \in 1 .. k /\ (i = r <=> i = p)  BY <1>3, <2>2, <3>2
      <4> QED  BY <2>1, <4>1 DEF Shaped
    <3> QED  BY <3>1, <3>2
  <2>5. Shaped(q, k + 1, r)  BY <2>4 DEF Shaped
  <2> QED  BY <1>4, <2>2, <2>3, <2>5, PointOf
<1>7. ASSUME p = k + 1, q[k + 1] = "." PROVE Point(q, k + 1) = k + 1
  <2>1. p # 0  BY <1>7
  <2>2. Shaped(q, k, p)  BY <1>3, <2>1, PointOf
  <2>3. k + 1 \in 1 .. ((k + 1) + 1)  OBVIOUS
  <2>4. Shaped(q, k + 1, k + 1)  BY <1>2, <1>7, <2>2 DEF Shaped
  <2> QED  BY <1>4, <2>3, <2>4, PointOf
<1>8. Point(q, k + 1) = IF p = 0 THEN 0
                        ELSE IF IsDigit(q[k + 1]) THEN IF p = k + 1 THEN k + 2 ELSE p
                        ELSE IF q[k + 1] = "." /\ p = k + 1 THEN k + 1 ELSE 0
  <2>1. CASE p = 0
    <3>1. p # k + 1  BY <2>1
    <3> QED  BY <1>5, <2>1, <3>1
  <2>2. CASE p # 0 /\ IsDigit(q[k + 1])  BY <1>6, <2>2
  <2>3. CASE p # 0 /\ ~IsDigit(q[k + 1]) /\ q[k + 1] = "." /\ p = k + 1  BY <1>7, <2>3
  <2>4. CASE p # 0 /\ ~IsDigit(q[k + 1]) /\ ~(q[k + 1] = "." /\ p = k + 1)  BY <1>5, <2>4
  <2> QED  BY <2>1, <2>2, <2>3, <2>4
<1> QED  BY <1>1, <1>3, <1>8

(* The text behind the sign.                                               *)
LEMMA Unsign ==
  ASSUME NEW s, IsSeq(s), s # <<>>
  PROVE  \E off \in {0, 1} :
           /\ off = extractSign(s)[2] /\ Unsigned(s) = Rest(s) /\ IsSeq(Rest(s))
           /\ Len(s) \in Nat \ {0} /\ Len(Rest(s)) \in Nat /\ Len(s) = Len(Rest(s)) + off
           /\ \A i \in 1 .. Len(Rest(s)) : Rest(s)[i] = s[i + off]
           /\ off = 1 => ~IsDigit(s[1]) /\ s[1] # "."
           /\ Negative(s) <=> extractSign(s)[1]
           /\ off = 0 => s[1] \notin {"-", "+"}
<1>1. Len(s) \in Nat /\ DOMAIN s = 1 .. Len(s)  BY SeqShape
<1>2. Len(s) # 0
  <2>1. s \in Seq(Range(s))  BY DEF IsSeq
  <2> QED  BY <1>1, <2>1
<1>3. PICK n \in Nat \ {0} : n = Len(s)  BY <1>1, <1>2
<1>4. PICK off : off = extractSign(s)[2]  OBVIOUS
<1>5. /\ off \in {0, 1} /\ (off = 1 <=> s[1] \in {"-", "+"}) /\ (Negative(s) <=> extractSign(s)[1])
  <2>1. CASE s[1] = "-"  BY <1>4, <2>1 DEF extractSign, Negative
  <2>2. CASE s[1] # "-" /\ s[1] = "+"  BY <1>4, <2>2 DEF extractSign, Negative
  <2>3. CASE s[1] # "-" /\ s[1] # "+"  BY <1>4, <2>3 DEF extractSign, Negative
  <2> QED  BY <2>1, <2>2, <2>3
<1>6. PICK q : q = Rest(s)  OBVIOUS
<1>7. q = SubSeq(s, off + 1, n)  BY <1>3, <1>4, <1>6 DEF Rest
<1>8. IsSeq(q)  BY <1>6, RestSeq
<1>9. q = [i \in 1 .. (n - off) |-> s[i + off]]
  <2>1. SubSeq(s, off + 1, n) = [i \in 1 .. (1 + n - (off + 1)) |-> s[i + (off + 1) - 1]]  BY <1>5
  <2>2. 1 + n - (off + 1) = n - off /\ \A i \in 1 .. (n - off) : i + (off + 1) - 1 = i + off  BY <1>5
  <2> QED  BY <1>7, <2>1, <2>2
<1>10. Len(q) = n - off
  <2>1. n - off \in Nat  BY <1>5
  <2>2. Len(q) \in Nat /\ DOMAIN q = 1 .. Len(q) /\ DOMAIN q = 1 .. (n - off)  BY <1>8, <1>9, SeqShape
  <2>3. \A a, b \in Nat : 1 .. a = 1 .. b => a = b
    <3> SUFFICES ASSUME NEW a \in Nat, NEW b \in Nat, 1 .. a = 1 .. b PROVE a = b  OBVIOUS
    <3>1. \A i \in Nat \ {0} : i <= a <=> i <= b
      <4>1. \A i \in Nat \ {0} : (i \in 1 .. a <=> i <= a) /\ (i \in 1 .. b <=> i <= b)  OBVIOUS
      <4> QED  BY <4>1
    <3>2. a > b => a \in Nat \ {0} /\ a <= a  OBVIOUS
    <3>3. b > a => b \in Nat \ {0} /\ b <= b  OBVIOUS
    <3> QED  BY <3>1, <3>2, <3>3
  <2> QED  BY <2>1, <2>2, <2>3
<1>11. Unsigned(s) = q
  <2>1. CASE off = 1
    <3>1. Unsigned(s) = Tail(s)  BY <1>5, <2>1 DEF Unsigned
    <3>2. s \in Seq(Range(s)) /\ s # <<>>  BY DEF IsSeq
    <3>3. Tail(s) = SubSeq(s, 2, n)  BY <1>3, <3>2, TailIsSubSeq
    <3>4. off + 1 = 2  BY <2>1
    <3> QED  BY <1>7, <3>1, <3>3, <3>4
  <2>2. CASE off = 0
    <3>1. Unsigned(s) = s  BY <1>5, <2>2 DEF Unsigned
    <3>2. n - 0 = n /\ \A i \in 1 .. n : i + 0 = i  OBVIOUS
    <3>3. s = [i \in 1 .. n |-> s[i]]  BY <1>3, SeqShape
    <3> QED  BY <1>9, <2>2, <3>1, <3>2, <3>3
  <2> QED  BY <1>5, <2>1, <2>2
<1>12. \A i \in 1 .. Len(q) : q[i] = s[i + off]  BY <1>9, <1>10
<1>13. off = 1 => ~IsDigit(s[1]) /\ s[1] # "."  BY <1>5, NoDigits
<1>14. n = Len(q) + off  BY <1>5, <1>10
<1>15. Len(q) \in Nat  BY <1>8, SeqShape
<1> QED  BY <1>3, <1>4, <1>5, <1>6, <1>8, <1>11, <1>12, <1>13, <1>14, <1>15

(* Arithmetic on powers of ten.                                            *)
LEMMA PowerSum == ASSUME NEW a \in Nat, NEW b \in Nat PROVE Pow10[a + b] = Pow10[a] * Pow10[b]
<1> DEFINE P == {n \in Nat : Pow10[a + n] = Pow10[a] * Pow10[n]}
<1>1. PICK A \in Nat : A = Pow10[a]  BY Powers
<1>2. 0 \in P
  <2>1. a + 0 = a /\ A * 1 = A  OBVIOUS
  <2> QED  BY <1>1, <2>1, Powers
<1>3. ASSUME NEW n \in Nat, n \in P PROVE n + 1 \in P
  <2>1. PICK B \in Nat : B = Pow10[n]  BY Powers
  <2>2. a + (n + 1) = (a + n) + 1 /\ a + n \in Nat /\ n + 1 \in Nat  OBVIOUS
  <2>3. Pow10[a + n] = A * B  BY <1>1, <1>3, <2>1
  <2>4. Pow10[a + (n + 1)] = 10 * (A * B)  BY <2>2, <2>3, Powers
  <2>5. Pow10[n + 1] = 10 * B  BY <2>1, Powers
  <2>6. 10 * (A * B) = A * (10 * B)  OBVIOUS
  <2> QED  BY <1>1, <2>2, <2>4, <2>5, <2>6
<1>4. \A n \in Nat : n \in P
  <2> HIDE DEF P
  <2> QED  BY <1>2, <1>3, Induction
<1> QED  BY <1>4

LEMMA HornerGrows ==
  ASSUME NEW q, NEW v, Horner(q, v), Len(q) \in Nat, NEW k \in Nat, k + 1 <= Len(q)
  PROVE  /\ v[k] \in Nat /\ v[k + 1] \in Nat /\ v[k] <= v[k + 1]
         /\ IsDigit(q[k + 1]) => DigitVal(q[k + 1]) \in 0 .. 9 /\ v[k + 1] = 10 * v[k] + DigitVal(q[k + 1])
         /\ ~IsDigit(q[k + 1]) => v[k + 1] = v[k]
<1>1. k + 1 \in 1 .. Len(q) /\ (k + 1) - 1 = k /\ k \in 0 .. Len(q) /\ k + 1 \in 0 .. Len(q)  OBVIOUS
<1>2. v[k] \in Nat /\ v[k + 1] \in Nat  BY <1>1 DEF Horner
<1>3. v[k + 1] = IF IsDigit(q[k + 1]) THEN 10 * v[k] + DigitVal(q[k + 1]) ELSE v[k]
  BY <1>1 DEF Horner
<1>4. IsDigit(q[k + 1]) => DigitVal(q[k + 1]) \in 0 .. 9  BY Numerals
<1> QED  BY <1>2, <1>3, <1>4

(* Digits behind the first a characters append to their value.             *)
DigitsOnly(q, a, b) == \A i \in (a + 1) .. b : IsDigit(q[i])
Appended(x, y, b) == \E rest \in Nat : y = x * Pow10[b] + rest /\ rest < Pow10[b]

LEMMA HornerTail ==
  ASSUME NEW q, NEW v, Horner(q, v), Len(q) \in Nat, NEW a \in Nat, NEW b \in Nat, NEW n \in Nat, n = a + b,
         n <= Len(q), DigitsOnly(q, a, n)
  PROVE  Appended(v[a], v[n], b)
<1> DEFINE P == {k \in Nat : k <= b => Appended(v[a], v[a + k], k)}
<1>1. PICK A \in Nat : A = v[a]
  <2>1. a \in 0 .. Len(q)  OBVIOUS
  <2> QED  BY <2>1 DEF Horner
<1>2. 0 \in P
  <2>1. a + 0 = a /\ A = A * 1 + 0 /\ 0 < 1 /\ 0 \in Nat  OBVIOUS
  <2> QED  BY <1>1, <2>1, Powers DEF Appended
<1>3. ASSUME NEW m \in Nat, m \in P PROVE m + 1 \in P
  <2>1. SUFFICES ASSUME m + 1 <= b PROVE Appended(v[a], v[a + (m + 1)], m + 1)
    OBVIOUS
  <2>2. PICK k \in Nat : k = a + m  OBVIOUS
  <2>3. k + 1 = a + (m + 1) /\ k + 1 <= Len(q) /\ k + 1 \in (a + 1) .. n /\ m <= b  BY <2>1, <2>2
  <2>4. PICK d \in 0 .. 9 : v[k + 1] = 10 * v[k] + d
    <3>1. IsDigit(q[k + 1])  BY <2>3 DEF DigitsOnly
    <3>2. DigitVal(q[k + 1]) \in 0 .. 9 /\ v[k + 1] = 10 * v[k] + DigitVal(q[k + 1])
      BY <2>3, <3>1, HornerGrows
    <3> QED  BY <3>2
  <2>5. PICK B \in Nat : B = Pow10[m] /\ Pow10[m + 1] = 10 * B  BY Powers
  <2>6. PICK rest \in Nat : v[k] = A * B + rest /\ rest < B
    BY <1>1, <1>3, <2>2, <2>3, <2>5 DEF Appended
  <2>7. v[k + 1] = A * (10 * B) + (10 * rest + d)  BY <2>4, <2>6
  <2>8. 10 * rest + d \in Nat /\ 10 * rest + d < 10 * B  BY <2>6
  <2> QED  BY <1>1, <2>3, <2>5, <2>7, <2>8 DEF Appended
<1>4. \A m \in Nat : m \in P
  <2> HIDE DEF P
  <2> QED  BY <1>2, <1>3, Induction
<1> QED  BY <1>4

(* The loop of parseDigitsUint64 computes the value of the text.           *)
LEMMA DigitMeaning ==
  ASSUME NEW q, IsSeq(q), NEW v, Horner(q, v), NEW n \in Nat, n = Len(q)
  PROVE  /\ parseDigitsUint64(q).ok <=> Point(q, n) = n + 1 /\ v[n] <= MaxUint64
         /\ parseDigitsUint64(q).ok => parseDigitsUint64(q) = Parsed(v[n])
<1>1. DOMAIN q = 1 .. n  BY SeqShape
<1>2. PICK base : base = Parsed(0)  OBVIOUS
<1>3. PICK r : DigitRun(base, q, n, r)  BY <1>1, DigitLoop
<1>4. parseDigitsUint64(q) = r[n]  BY <1>2, <1>3 DEF DigitRun, DigitRounds, parseDigitsUint64
<1>5. PICK M \in Nat : M = MaxUint64  BY Widths
<1> DEFINE Runs(k) == /\ r[k] = Refused \/ r[k] = Parsed(v[k])
                      /\ r[k].ok <=> Point(q, k) = k + 1 /\ v[k] <= M
           P == {k \in Nat : k <= n => Runs(k)}
<1>6. 0 \in P
  <2>1. r[0] = Parsed(0) /\ v[0] = 0 /\ Parsed(0).ok  BY <1>2, <1>3 DEF DigitRun, Horner, Parsed
  <2>2. Point(q, 0) = 0 + 1  BY PointStep
  <2>3. v[0] <= M  BY <2>1
  <2> QED  BY <2>1, <2>2, <2>3
<1>7. ASSUME NEW k \in Nat, k \in P PROVE k + 1 \in P
  <2>1. SUFFICES ASSUME k + 1 <= n PROVE Runs(k + 1)  OBVIOUS
  <2>2. k <= n /\ k + 1 \in 1 .. n /\ (k + 1) - 1 = k  BY <2>1
  <2>3. Runs(k)  BY <1>7, <2>2
  <2>4. r[k + 1] = DigitStep(r[k], q[k + 1])  BY <1>3, <2>2 DEF DigitRun
  <2>5. PICK x, y \in Nat : x = v[k] /\ y = v[k + 1]  BY <2>1, HornerGrows
  <2>6. Refused.ok = FALSE /\ \A z : Parsed(z).ok = TRUE /\ Parsed(z).val = z  BY DEF Refused, Parsed
  <2>7. CASE IsDigit(q[k + 1])
    <3>1. PICK d \in 0 .. 9 : d = DigitVal(q[k + 1])  BY <2>7, Numerals
    <3>2. y = 10 * x + d  BY <2>1, <2>5, <2>7, <3>1, HornerGrows
    <3>3. Point(q, k + 1) = (k + 1) + 1 <=> Point(q, k) = k + 1
      <4>1. Point(q, k) \in 0 .. (k + 1)  BY PointOf
      <4>2. Point(q, k + 1) = IF Point(q, k) = 0 THEN 0
                              ELSE IF Point(q, k) = k + 1 THEN k + 2 ELSE Point(q, k)
        BY <2>7, PointStep
      <4> QED  BY <4>1, <4>2
    <3>4. y <= M <=> x <= M /\ x <= (M - d) \div 10  BY <3>2
    <3>5. x * 10 + d = y  BY <3>2
    <3>6. CASE r[k].ok
      <4>1. r[k].val = x  BY <2>3, <2>5, <2>6, <3>6
      <4>2. r[k + 1] = IF x <= (M - d) \div 10 THEN Parsed(y) ELSE Refused
        BY <1>5, <2>4, <2>7, <3>1, <3>5, <3>6, <4>1 DEF DigitStep
      <4> QED  BY <2>3, <2>5, <2>6, <3>3, <3>4, <3>6, <4>2
    <3>7. CASE ~r[k].ok
      <4>1. r[k + 1] = Refused  BY <2>4, <3>7 DEF DigitStep
      <4> QED  BY <2>3, <2>5, <2>6, <3>3, <3>4, <3>7, <4>1
    <3> QED  BY <3>6, <3>7
  <2>8. CASE ~IsDigit(q[k + 1])
    <3>1. r[k + 1] = Refused  BY <2>4, <2>8 DEF DigitStep
    <3>2. Point(q, k + 1) # (k + 1) + 1
      <4>1. Point(q, k + 1) = 0 \/ Point(q, k + 1) = k + 1  BY <2>8, PointStep
      <4> QED  BY <4>1
    <3> QED  BY <2>6, <3>1, <3>2
  <2> QED  BY <2>7, <2>8
<1>8. \A k \in Nat : k \in P
  <2> HIDE DEF P
  <2> QED  BY <1>6, <1>7, Induction
<1>9. Runs(n)  BY <1>8
<1>10. Refused.ok = FALSE  BY DEF Refused
<1> QED  BY <1>4, <1>5, <1>9, <1>10

(* The loop of ParseFloat64.  The factor of the digit after j decimals.    *)
Tenths(j) == IF j < FloatDigits THEN Pow10[FloatDigits - j - 1] ELSE 0
(* The digits of k characters with the point at p.                         *)
Counted(p, k) == IF p = k + 1 THEN k ELSE k - 1

LEMMA TenthsStep ==
  ASSUME NEW j \in Nat
  PROVE  /\ Tenths(0) = FloatUnit \div 10
         /\ Tenths(j) \in Nat /\ Tenths(j + 1) = Tenths(j) \div 10
         /\ j < FloatDigits => /\ Pow10[FloatDigits - j] = 10 * Tenths(j)
                               /\ Pow10[FloatDigits - (j + 1)] = Tenths(j)
<1>1. PICK fd \in Nat : fd = FloatDigits  BY FloatUnits
<1>2. ASSUME NEW i \in Nat, i < fd
      PROVE  /\ Pow10[fd - i] = 10 * Tenths(i) /\ Pow10[fd - (i + 1)] = Tenths(i) /\ Tenths(i) \in Nat
  <2>1. PICK e \in Nat : e = fd - i - 1 /\ e + 1 = fd - i /\ e = fd - (i + 1)  BY <1>2
  <2>2. Tenths(i) = Pow10[e]  BY <1>1, <1>2, <2>1 DEF Tenths
  <2> QED  BY <2>1, <2>2, Powers
<1>3. ASSUME NEW i \in Nat, ~(i < fd) PROVE Tenths(i) = 0  BY <1>1, <1>3 DEF Tenths
<1>4. Tenths(j) \in Nat  BY <1>2, <1>3
<1>5. Tenths(j + 1) = Tenths(j) \div 10
  <2>1. CASE j + 1 < fd
    <3>1. j < fd /\ j + 1 \in Nat  BY <2>1
    <3>2. PICK a, b \in Nat : a = Tenths(j) /\ b = Tenths(j + 1)  BY <1>2, <2>1, <3>1
    <3>3. a = 10 * b  BY <1>2, <2>1, <3>1, <3>2
    <3>4. (10 * b) \div 10 = b  OBVIOUS
    <3> QED  BY <3>2, <3>3, <3>4
  <2>2. CASE j + 1 = fd
    <3>1. Tenths(j + 1) = 0  BY <1>3, <2>2
    <3>2. j < fd /\ fd - (j + 1) = 0  BY <2>2
    <3>3. Tenths(j) = 1  BY <1>2, <3>2, Powers
    <3> QED  BY <3>1, <3>3
  <2>3. CASE j + 1 > fd
    <3>1. ~(j < fd) /\ ~(j + 1 < fd) /\ j + 1 \in Nat  BY <2>3
    <3>2. Tenths(j) = 0 /\ Tenths(j + 1) = 0  BY <1>3, <3>1
    <3> QED  BY <3>2
  <2> QED  BY <2>1, <2>2, <2>3
<1>6. Tenths(0) = FloatUnit \div 10
  <2>1. CASE 0 < fd
    <3>1. fd - 0 = fd /\ 0 \in Nat  OBVIOUS
    <3>2. PICK a \in Nat : a = Tenths(0) /\ FloatUnit = 10 * a  BY <1>1, <1>2, <2>1, <3>1, FloatUnits
    <3>3. (10 * a) \div 10 = a  OBVIOUS
    <3> QED  BY <3>2, <3>3
  <2>2. CASE fd = 0
    <3>1. Tenths(0) = 0 /\ FloatUnit = 1  BY <1>1, <1>3, <2>2, FloatUnits, Powers
    <3> QED  BY <3>1
  <2> QED  BY <2>1, <2>2
<1> QED  BY <1>1, <1>2, <1>4, <1>5, <1>6

(* A number that a float64 holds is its own nearest float64.               *)
LEMMA CoarseSame ==
  ASSUME NEW n \in Int, NEW max \in Nat \ {0}, Abs(n) <= max
  PROVE  Coarse(n, max) = n
<1>1. {k \in 0 .. (Bits - 1) : Abs(n) > max * 2 ^ k} = {}
  <2> SUFFICES ASSUME NEW k \in 0 .. (Bits - 1) PROVE ~(Abs(n) > max * 2 ^ k)  OBVIOUS
  <2>1. PICK a \in Int : a = Abs(n)  BY DEF Abs
  <2>2. Bits \in Int  BY CastAssumption
  <2>3. k \in Nat  BY <2>2
  <2>4. PICK p \in Nat \ {0} : p = 2 ^ k  BY <2>3, TwoPowers
  <2>5. max <= max * p  OBVIOUS
  <2> QED  BY <2>1, <2>4, <2>5
<1>2. Cardinality({}) = 0  BY FS_EmptySet
<1>3. 2 ^ 0 = 1  OBVIOUS
<1>4. PICK p \in Nat : p = 1  OBVIOUS
<1>5. 2 ^ Cardinality({k \in 0 .. (Bits - 1) : Abs(n) > max * 2 ^ k}) = p  BY <1>1, <1>2, <1>3, <1>4
<1>6. n \div p = n /\ n % p = 0 /\ n * p = n  BY <1>4
<1>7. ~(2 * 0 > p) /\ 2 * 0 # p  BY <1>4
<1> QED  BY <1>5, <1>6, <1>7 DEF Coarse

LEMMA NearestSame == ASSUME NEW x \in Int, Exactly(x) PROVE Nearest(x) = x
<1>1. PICK u \in Nat \ {0} : u = FloatUnit  BY FloatUnits
<1>2. PICK W, U \in Nat \ {0} : W = MaxWhole /\ U = MaxUnits  BY CastAssumption
<1>3. CASE x % u = 0
  <2>1. Abs(x) <= W * u  BY <1>1, <1>2, <1>3 DEF Exactly
  <2>2. PICK n \in Int : n = x \div u  OBVIOUS
  <2>3. x = n * u  BY <1>3, <2>2
  <2>4. Abs(n) <= W
    <3>1. CASE n < 0
      <4>1. n * u < 0  BY <3>1
      <4>2. - (n * u) <= W * u  BY <2>1, <2>3, <4>1 DEF Abs
      <4>3. PICK m \in Nat : m = - n  BY <3>1
      <4>4. m * u <= W * u  BY <4>2, <4>3
      <4>5. m <= W  BY <4>4
      <4> QED  BY <3>1, <4>3, <4>5 DEF Abs
    <3>2. CASE ~(n < 0)
      <4>1. n * u >= 0  BY <3>2
      <4>2. n * u <= W * u  BY <2>1, <2>3, <4>1 DEF Abs
      <4>3. n <= W  BY <4>2
      <4> QED  BY <3>2, <4>3 DEF Abs
    <3> QED  BY <3>1, <3>2
  <2>5. Coarse(n, W) = n  BY <2>4, CoarseSame
  <2> QED  BY <1>1, <1>2, <1>3, <2>2, <2>3, <2>5 DEF Nearest
<1>4. CASE x % u # 0
  <2>1. Abs(x) <= U  BY <1>1, <1>2, <1>4 DEF Exactly
  <2>2. Coarse(x, U) = x  BY <2>1, CoarseSame
  <2> QED  BY <1>1, <1>2, <1>4, <2>2 DEF Nearest
<1> QED  BY <1>3, <1>4

(* No digit from the point at p to position k is lost.                     *)
ExactFrom(v, p, k) == \A i \in p .. k : Exactly(v[i] * Pow10[FloatDigits - (i - p)])

FloatAt(a, q, v, k) ==
  /\ FloatMade(a)
  /\ a.ok <=> Point(q, k) # 0
  /\ Point(q, k) # 0 => (a.dot <=> Point(q, k) <= k) /\ (a.digits <=> Counted(Point(q, k), k) > 0)
  /\ Point(q, k) = k + 1 => a.factor = Tenths(0) /\ (v[k] <= MaxUint64 => a.val = v[k] * FloatUnit)
  /\ Point(q, k) \in 1 .. k =>
       /\ a.factor = Tenths(k - Point(q, k))
       /\ v[Point(q, k)] <= MaxUint64 /\ k - Point(q, k) <= FloatDigits /\ ExactFrom(v, Point(q, k), k)
            => a.val = v[k] * Pow10[FloatDigits - (k - Point(q, k))]

LEMMA FloatStepAt ==
  ASSUME NEW q, NEW v, Horner(q, v), Len(q) \in Nat, NEW k \in Nat, k + 1 <= Len(q), NEW a, FloatAt(a, q, v, k)
  PROVE  FloatAt(FloatStep(a, q[k + 1]), q, v, k + 1)
<1>1. PICK p : p = Point(q, k) /\ p \in 0 .. (k + 1)  BY PointOf
<1>2. PICK c : c = q[k + 1]  OBVIOUS
<1>3. PICK b : b = FloatStep(a, c)  OBVIOUS
<1>4. PICK r : r = Point(q, k + 1) /\ r \in 0 .. (k + 2)
  <2>1. k + 1 \in Nat /\ (k + 1) + 1 = k + 2  OBVIOUS
  <2> QED  BY <2>1, PointOf
<1>5. r = IF p = 0 THEN 0
          ELSE IF IsDigit(c) THEN IF p = k + 1 THEN k + 2 ELSE p
          ELSE IF c = "." /\ p = k + 1 THEN k + 1 ELSE 0
  BY <1>1, <1>2, <1>4, PointStep
<1>6. FloatMade(a)  BY DEF FloatAt
<1>7. FloatMade(b)  BY <1>3, <1>6, FloatStepMade
<1>8. /\ a.ok <=> p # 0
      /\ p # 0 => (a.dot <=> p <= k) /\ (a.digits <=> Counted(p, k) > 0)
      /\ p = k + 1 => a.factor = Tenths(0) /\ (v[k] <= MaxUint64 => a.val = v[k] * FloatUnit)
      /\ p \in 1 .. k => /\ a.factor = Tenths(k - p)
                         /\ v[p] <= MaxUint64 /\ k - p <= FloatDigits /\ ExactFrom(v, p, k)
                              => a.val = v[k] * Pow10[FloatDigits - (k - p)]
  BY <1>1 DEF FloatAt
<1>9. PICK x, y \in Nat : x = v[k] /\ y = v[k + 1]  BY HornerGrows
<1>10. SUFFICES
         /\ b.ok <=> r # 0
         /\ r # 0 => (b.dot <=> r <= k + 1) /\ (b.digits <=> Counted(r, k + 1) > 0)
         /\ r = k + 2 => b.factor = Tenths(0) /\ (y <= MaxUint64 => b.val = y * FloatUnit)
         /\ r \in 1 .. (k + 1) =>
              /\ b.factor = Tenths((k + 1) - r)
              /\ v[r] <= MaxUint64 /\ (k + 1) - r <= FloatDigits /\ ExactFrom(v, r, k + 1)
                   => b.val = y * Pow10[FloatDigits - ((k + 1) - r)]
  <2>1. (k + 1) + 1 = k + 2  OBVIOUS
  <2> QED  BY <1>2, <1>3, <1>4, <1>7, <1>9, <2>1 DEF FloatAt
<1>11. CASE p = 0
  <2>1. b = a  BY <1>3, <1>8, <1>11 DEF FloatStep
  <2>2. r = 0 /\ r # k + 2 /\ r \notin 1 .. (k + 1)  BY <1>5, <1>11
  <2> QED  BY <1>8, <1>11, <2>1, <2>2
<1>12. CASE p = k + 1 /\ c = "."
  <2>1. ~IsDigit(c)  BY <1>12, NoDigits
  <2>2. r = k + 1 /\ r # 0 /\ r # k + 2 /\ r <= k + 1 /\ (k + 1) - r = 0 /\ p # 0 /\ ~(p <= k)
    BY <1>5, <1>12, <2>1
  <2>3. b = FloatAcc(TRUE, Nearest(a.val), TRUE, a.digits, a.factor)
    BY <1>3, <1>8, <1>12, <2>2 DEF FloatStep
  <2>4. b.ok = TRUE /\ b.val = Nearest(a.val) /\ b.dot = TRUE /\ b.digits = a.digits /\ b.factor = a.factor
    BY <2>3 DEF FloatAcc
  <2>5. y = x  BY <1>2, <1>9, <2>1, HornerGrows
  <2>6. v[r] = y  BY <1>9, <2>2
  <2>7. Counted(r, k + 1) = k /\ Counted(p, k) = k  BY <1>12, <2>2 DEF Counted
  <2>8. FloatDigits - 0 = FloatDigits  BY FloatUnits
  <2>9. Pow10[FloatDigits] = FloatUnit  BY FloatUnits
  <2>10. ASSUME v[r] <= MaxUint64, ExactFrom(v, r, k + 1)
         PROVE  b.val = y * Pow10[FloatDigits - ((k + 1) - r)]
    <3>1. PICK u \in Nat \ {0} : u = FloatUnit  BY FloatUnits
    <3>2. r \in r .. (k + 1) /\ r - r = 0  BY <2>2
    <3>3. Exactly(v[r] * Pow10[FloatDigits - (r - r)])  BY <2>10, <3>2 DEF ExactFrom
    <3>4. Exactly(y * u)  BY <2>6, <2>8, <2>9, <3>1, <3>2, <3>3
    <3>5. y * u \in Int  OBVIOUS
    <3>6. Nearest(y * u) = y * u  BY <3>4, <3>5, NearestSame
    <3>7. a.val = y * u  BY <1>8, <1>9, <1>12, <2>5, <2>6, <2>10, <3>1
    <3> QED  BY <2>2, <2>4, <2>8, <2>9, <3>1, <3>6, <3>7
  <2> QED  BY <1>8, <1>9, <1>12, <2>2, <2>4, <2>7, <2>10
<1>13. CASE p # 0 /\ ~(p = k + 1 /\ c = ".") /\ ~IsDigit(c)
  <2>1. r = 0 /\ r # k + 2 /\ r \notin 1 .. (k + 1)  BY <1>5, <1>13
  <2>2. ~(c = "." /\ ~a.dot)
    <3>1. ~a.dot => p = k + 1  BY <1>1, <1>8, <1>13
    <3> QED  BY <1>13, <3>1
  <2>3. b = FloatAcc(FALSE, a.val, a.dot, a.digits, a.factor)  BY <1>3, <1>8, <1>13, <2>2 DEF FloatStep
  <2>4. b.ok = FALSE  BY <2>3 DEF FloatAcc
  <2> QED  BY <2>1, <2>4
<1>14. CASE p # 0 /\ IsDigit(c)
  <2>1. c # "."  BY <1>14, NoDigits
  <2>2. PICK d \in 0 .. 9 : d = DigitVal(c)  BY <1>14, Numerals
  <2>3. y = 10 * x + d  BY <1>2, <1>9, <1>14, <2>2, HornerGrows
  <2>4. CASE p <= k
    <3>1. PICK j \in Nat : j = k - p  BY <1>1, <2>4
    <3>2. r = p /\ p # k + 2 /\ p \in 1 .. k /\ p \in 1 .. (k + 1) /\ p <= k + 1 /\ (k + 1) - p = j + 1
      BY <1>1, <1>5, <1>14, <2>4, <3>1
    <3>3. b = FloatAcc(TRUE, Nearest(a.val + d * a.factor), TRUE, TRUE, a.factor \div 10)
      BY <1>3, <1>8, <1>14, <2>1, <2>2, <2>4 DEF FloatStep
    <3>4. b.ok = TRUE /\ b.val = Nearest(a.val + d * a.factor) /\ b.dot = TRUE /\ b.digits = TRUE
          /\ b.factor = a.factor \div 10
      BY <3>3 DEF FloatAcc
    <3>5. a.factor = Tenths(j)  BY <1>8, <3>1, <3>2
    <3>6. b.factor = Tenths(j + 1)  BY <3>4, <3>5, TenthsStep
    <3>7. Counted(r, k + 1) > 0  BY <1>14, <3>2 DEF Counted
    <3>8. ASSUME v[r] <= MaxUint64, j + 1 <= FloatDigits, ExactFrom(v, r, k + 1)
          PROVE  b.val = y * Pow10[FloatDigits - (j + 1)]
      <4>1. PICK fd \in Nat : fd = FloatDigits  BY FloatUnits
      <4>2. j <= fd /\ j < fd  BY <3>8, <4>1
      <4>3. PICK t \in Nat : t = Tenths(j)  BY TenthsStep
      <4>4. Pow10[fd - j] = 10 * t /\ Pow10[fd - (j + 1)] = t  BY <4>1, <4>2, <4>3, TenthsStep
      <4>5. a.val = x * (10 * t)
        <5>1. \A i \in p .. k : i \in r .. (k + 1)  BY <3>2
        <5>2. ExactFrom(v, p, k)  BY <3>2, <3>8, <5>1 DEF ExactFrom
        <5> QED  BY <1>8, <1>9, <3>1, <3>2, <3>8, <4>1, <4>2, <4>4, <5>2
      <4>6. x * (10 * t) + d * t = (10 * x + d) * t  OBVIOUS
      <4>7. Exactly(y * t)
        <5>1. k + 1 \in r .. (k + 1)  BY <3>2
        <5>2. Exactly(v[k + 1] * Pow10[FloatDigits - ((k + 1) - r)])  BY <3>8, <5>1 DEF ExactFrom
        <5> QED  BY <1>9, <3>2, <4>1, <4>4, <5>2
      <4>8. y * t \in Int  OBVIOUS
      <4>9. Nearest(y * t) = y * t  BY <4>7, <4>8, NearestSame
      <4>10. a.val + d * a.factor = y * t  BY <2>3, <3>5, <4>3, <4>5, <4>6
      <4> QED  BY <3>4, <4>1, <4>4, <4>9, <4>10
    <3> QED  BY <3>2, <3>4, <3>6, <3>7, <3>8
  <2>5. CASE p = k + 1
    <3>1. r = k + 2 /\ r # 0 /\ ~(r <= k + 1) /\ r \notin 1 .. (k + 1) /\ ~(p <= k)  BY <1>5, <1>14, <2>5
    <3>2. b = FloatAcc(TRUE, (((a.val \div FloatUnit) * 10 + d) % (MaxUint64 + 1)) * FloatUnit, FALSE, TRUE,
                       a.factor)
      BY <1>3, <1>8, <1>14, <2>1, <2>2, <3>1 DEF FloatStep
    <3>3. /\ b.ok = TRUE /\ b.val = (((a.val \div FloatUnit) * 10 + d) % (MaxUint64 + 1)) * FloatUnit
          /\ b.dot = FALSE /\ b.digits = TRUE /\ b.factor = a.factor
      BY <3>2 DEF FloatAcc
    <3>4. Counted(r, k + 1) > 0  BY <3>1 DEF Counted
    <3>5. ASSUME y <= MaxUint64 PROVE b.val = y * FloatUnit
      <4>1. PICK u \in Nat \ {0} : u = FloatUnit  BY FloatUnits
      <4>2. PICK M \in Nat : M = MaxUint64  BY Widths
      <4>3. x <= M  BY <2>3, <3>5, <4>2
      <4>4. a.val = x * u  BY <1>8, <1>9, <2>5, <4>1, <4>2, <4>3
      <4>5. (x * u) \div u = x  OBVIOUS
      <4>6. x * 10 + d = y  BY <2>3
      <4>7. y % (M + 1) = y  BY <3>5, <4>2
      <4> QED  BY <3>3, <4>1, <4>2, <4>4, <4>5, <4>6, <4>7
    <3> QED  BY <1>8, <2>5, <3>1, <3>3, <3>4, <3>5
  <2> QED  BY <1>1, <2>4, <2>5
<1> QED  BY <1>11, <1>12, <1>13, <1>14

LEMMA FloatMeaning ==
  ASSUME NEW q, IsSeq(q), NEW v, Horner(q, v), NEW n \in Nat, n = Len(q)
  PROVE  \E a : /\ FloatAt(a, q, v, n)
                /\ a = FoldLeft(LAMBDA b, c : FloatStep(b, c),
                                FloatAcc(TRUE, 0, FALSE, FALSE, FloatUnit \div 10), q)
<1>1. DOMAIN q = 1 .. n  BY SeqShape
<1>2. PICK base : base = FloatAcc(TRUE, 0, FALSE, FALSE, FloatUnit \div 10)  OBVIOUS
<1>3. PICK r : FloatRun(base, q, n, r)  BY <1>1, FloatLoop
<1> DEFINE P == {k \in Nat : k <= n => FloatAt(r[k], q, v, k)}
<1>4. 0 \in P
  <2>1. r[0] = base  BY <1>3 DEF FloatRun
  <2>2. PICK u \in Nat \ {0} : u = FloatUnit  BY FloatUnits
  <2>3. u \div 10 \in Int  OBVIOUS
  <2>4. PICK f \in Int : f = FloatUnit \div 10  BY <2>2, <2>3
  <2>5. TRUE \in BOOLEAN /\ FALSE \in BOOLEAN /\ 0 \in Int  OBVIOUS
  <2>6. FloatMade(base)  BY <1>2, <2>4, <2>5, AccsMade
  <2>7. Point(q, 0) = 1 /\ v[0] = 0  BY PointStep DEF Horner
  <2>8. 1 # 0 /\ 1 = 0 + 1 /\ ~(1 <= 0) /\ 1 \notin 1 .. 0 /\ 0 * u = 0  OBVIOUS
  <2>9. ~(Counted(1, 0) > 0)  BY DEF Counted
  <2>10. base.ok = TRUE /\ base.val = 0 /\ base.dot = FALSE /\ base.digits = FALSE
         /\ base.factor = FloatUnit \div 10
    BY <1>2 DEF FloatAcc
  <2>11. base.factor = Tenths(0)  BY <2>10, TenthsStep
  <2>12. FloatAt(base, q, v, 0)  BY <2>2, <2>6, <2>7, <2>8, <2>9, <2>10, <2>11 DEF FloatAt
  <2> QED  BY <2>1, <2>12
<1>5. ASSUME NEW k \in Nat, k \in P PROVE k + 1 \in P
  <2>1. SUFFICES ASSUME k + 1 <= n PROVE FloatAt(r[k + 1], q, v, k + 1)  OBVIOUS
  <2>2. k <= n /\ k + 1 \in 1 .. n /\ (k + 1) - 1 = k  BY <2>1
  <2>3. r[k + 1] = FloatStep(r[k], q[k + 1])  BY <1>3, <2>2 DEF FloatRun
  <2>4. FloatAt(r[k], q, v, k)  BY <1>5, <2>2
  <2> QED  BY <2>1, <2>3, <2>4, FloatStepAt
<1>6. \A k \in Nat : k \in P
  <2> HIDE DEF P
  <2> QED  BY <1>4, <1>5, Induction
<1>7. FloatAt(r[n], q, v, n)  BY <1>6
<1>8. r[n] = FloatRounds(base, q)  BY <1>3 DEF FloatRun
<1> QED  BY <1>2, <1>7, <1>8 DEF FloatRounds

(* The loop of CoerceDecimalFast.  The decimals among k characters with    *)
(* the point at p.                                                         *)
Decimals(p, k) == IF p = k + 1 THEN 0 ELSE k - p

DecimalAt(a, q, v, k, sc, ov) ==
  \E p \in {Point(q, k)} : \E j \in {Decimals(p, k)} :
    /\ DecimalMade(a)
    /\ a.ok <=> p # 0 /\ ~(ov = "fail" /\ sc >= 0 /\ j > sc)
    /\ a.ok => (a.dot <=> p <= k)
    /\ a.ok /\ sc < 0 => a.dec = 0
    /\ a.ok /\ sc >= 0 /\ j <= sc => a.dec = j /\ ~a.up /\ (v[k] <= MaxUint64 => a.m = v[k])
    /\ a.ok /\ sc >= 0 /\ j > sc => /\ a.dec = sc + 1
                                    /\ a.up <=> DigitVal(q[p + sc + 1]) >= 5
                                    /\ v[p + sc] <= MaxUint64 => a.m = v[p + sc]

LEMMA DecimalStepAt ==
  ASSUME NEW q, NEW v, Horner(q, v), Len(q) \in Nat, NEW k \in Nat, k + 1 <= Len(q), NEW sc \in Int, NEW ov,
         NEW a, DecimalAt(a, q, v, k, sc, ov)
  PROVE  DecimalAt(DecimalStep(sc, ov, a, q[k + 1]), q, v, k + 1, sc, ov)
<1>1. PICK p : p = Point(q, k) /\ p \in 0 .. (k + 1)  BY PointOf
<1>2. PICK c : c = q[k + 1]  OBVIOUS
<1>3. PICK b : b = DecimalStep(sc, ov, a, c)  OBVIOUS
<1>4. PICK r : r = Point(q, k + 1) /\ r \in 0 .. (k + 2)
  <2>1. k + 1 \in Nat /\ (k + 1) + 1 = k + 2  OBVIOUS
  <2> QED  BY <2>1, PointOf
<1>5. r = IF p = 0 THEN 0
          ELSE IF IsDigit(c) THEN IF p = k + 1 THEN k + 2 ELSE p
          ELSE IF c = "." /\ p = k + 1 THEN k + 1 ELSE 0
  BY <1>1, <1>2, <1>4, PointStep
<1>6. PICK j \in Int : j = Decimals(p, k) /\ j = IF p = k + 1 THEN 0 ELSE k - p  BY <1>1 DEF Decimals
<1>7. PICK i \in Int : i = Decimals(r, k + 1) /\ i = IF r = k + 2 THEN 0 ELSE (k + 1) - r
  <2>1. (k + 1) + 1 = k + 2  OBVIOUS
  <2> QED  BY <1>4, <2>1 DEF Decimals
<1>8. DecimalMade(a) /\ DecimalMade(b)
  <2>1. DecimalMade(a)  BY DEF DecimalAt
  <2> QED  BY <1>3, <2>1, DecimalStepMade
<1>9. /\ a.ok <=> p # 0 /\ ~(ov = "fail" /\ sc >= 0 /\ j > sc)
      /\ a.ok => (a.dot <=> p <= k)
      /\ a.ok /\ sc < 0 => a.dec = 0
      /\ a.ok /\ sc >= 0 /\ j <= sc => a.dec = j /\ ~a.up /\ (v[k] <= MaxUint64 => a.m = v[k])
      /\ a.ok /\ sc >= 0 /\ j > sc => /\ a.dec = sc + 1
                                      /\ a.up <=> DigitVal(q[p + sc + 1]) >= 5
                                      /\ v[p + sc] <= MaxUint64 => a.m = v[p + sc]
  BY <1>1, <1>6 DEF DecimalAt
<1>10. PICK x, y \in Nat : x = v[k] /\ y = v[k + 1]  BY HornerGrows
<1>11. SUFFICES
         /\ b.ok <=> r # 0 /\ ~(ov = "fail" /\ sc >= 0 /\ i > sc)
         /\ b.ok => (b.dot <=> r <= k + 1)
         /\ b.ok /\ sc < 0 => b.dec = 0
         /\ b.ok /\ sc >= 0 /\ i <= sc => b.dec = i /\ ~b.up /\ (y <= MaxUint64 => b.m = y)
         /\ b.ok /\ sc >= 0 /\ i > sc => /\ b.dec = sc + 1
                                         /\ b.up <=> DigitVal(q[r + sc + 1]) >= 5
                                         /\ v[r + sc] <= MaxUint64 => b.m = v[r + sc]
  BY <1>2, <1>3, <1>4, <1>7, <1>8, <1>10 DEF DecimalAt
<1>12. CASE ~a.ok
  <2>1. b = a  BY <1>3, <1>12 DEF DecimalStep
  <2>2. CASE p = 0
    <3>1. r = 0  BY <1>5, <2>2
    <3> QED  BY <1>12, <2>1, <3>1
  <2>3. CASE p # 0
    <3>1. ov = "fail" /\ sc >= 0 /\ j > sc  BY <1>9, <1>12, <2>3
    <3>2. p # k + 1  BY <1>6, <3>1
    <3>3. r = 0 \/ (r = p /\ i = j + 1)  BY <1>1, <1>5, <1>6, <1>7, <2>3, <3>2
    <3>4. r = 0 \/ i > sc  BY <3>1, <3>3
    <3> QED  BY <1>12, <2>1, <3>1, <3>4
  <2> QED  BY <2>2, <2>3
<1>13. CASE a.ok /\ c = "."
  <2>1. ~IsDigit(c)  BY <1>13, NoDigits
  <2>2. b = DecimalAcc(~a.dot, a.m, TRUE, a.dec, a.up)  BY <1>3, <1>13 DEF DecimalStep
  <2>3. (b.ok <=> ~a.dot) /\ b.m = a.m /\ b.dot = TRUE /\ b.dec = a.dec /\ b.up = a.up
    BY <2>2 DEF DecimalAcc
  <2>4. CASE p = k + 1
    <3>1. r = k + 1 /\ r # 0 /\ r <= k + 1 /\ i = 0 /\ j = 0 /\ ~(p <= k) /\ (sc >= 0 => ~(i > sc) /\ j <= sc)
      BY <1>5, <1>6, <1>7, <1>13, <2>1, <2>4
    <3>2. y = x  BY <1>2, <1>10, <2>1, HornerGrows
    <3> QED  BY <1>9, <1>10, <1>13, <2>3, <3>1, <3>2
  <2>5. CASE p # k + 1
    <3>1. p <= k /\ r = 0  BY <1>1, <1>5, <2>1, <2>5
    <3> QED  BY <1>9, <1>13, <2>3, <3>1
  <2> QED  BY <2>4, <2>5
<1>14. CASE a.ok /\ c # "." /\ ~IsDigit(c)
  <2>1. b = DecimalAcc(FALSE, a.m, a.dot, a.dec, a.up)  BY <1>3, <1>14 DEF DecimalStep
  <2>2. b.ok = FALSE  BY <2>1 DEF DecimalAcc
  <2>3. r = 0  BY <1>5, <1>14
  <2> QED  BY <2>2, <2>3
<1>15. CASE a.ok /\ IsDigit(c)
  <2>1. c # "." /\ p # 0  BY <1>9, <1>15, NoDigits
  <2>2. PICK d \in 0 .. 9 : d = DigitVal(c)  BY <1>15, Numerals
  <2>3. y = 10 * x + d  BY <1>2, <1>10, <1>15, <2>2, HornerGrows
  <2>4. PICK M \in Nat : M = MaxUint64  BY Widths
  <2>5. ASSUME y <= M, a.m = x PROVE (a.m * 10 + d) % (M + 1) = y
    <3>1. x * 10 + d = y /\ y % (M + 1) = y  BY <2>3, <2>5
    <3> QED  BY <2>5, <3>1
  <2>6. y <= M => x <= M  BY <2>3
  <2>7. CASE p = k + 1
    <3>1. r = k + 2 /\ r # 0 /\ ~(r <= k + 1) /\ i = 0 /\ j = 0 /\ ~(p <= k) /\ (sc >= 0 => ~(i > sc) /\ j <= sc)
      BY <1>5, <1>6, <1>7, <1>15, <2>1, <2>7
    <3>2. ~a.dot  BY <1>9, <1>15, <3>1
    <3>3. b = DecimalAcc(TRUE, (a.m * 10 + d) % (M + 1), a.dot, a.dec, a.up)
      BY <1>3, <1>15, <2>1, <2>2, <2>4, <3>2 DEF DecimalStep
    <3>4. b.ok = TRUE /\ b.m = (a.m * 10 + d) % (M + 1) /\ b.dot = a.dot /\ b.dec = a.dec /\ b.up = a.up
      BY <3>3 DEF DecimalAcc
    <3> QED  BY <1>9, <1>10, <1>15, <2>4, <2>5, <2>6, <3>1, <3>2, <3>4
  <2>8. CASE p # k + 1
    <3>1. p <= k /\ r = p /\ r # 0 /\ r <= k + 1 /\ i = j + 1 /\ j = k - p /\ j >= 0
      BY <1>1, <1>5, <1>6, <1>7, <1>15, <2>1, <2>8
    <3>2. a.dot  BY <1>9, <1>15, <3>1
    <3>3. CASE sc < 0
      <4>1. ~(a.dec < sc) /\ a.dec # sc  BY <1>9, <1>15, <3>3
      <4>2. b = a  BY <1>3, <1>15, <2>1, <3>2, <4>1 DEF DecimalStep
      <4>3. ~(sc >= 0)  BY <3>3
      <4> QED  BY <1>9, <1>15, <3>1, <3>2, <3>3, <4>2, <4>3
    <3>4. CASE sc >= 0 /\ j < sc
      <4>1. a.dec = j /\ j <= sc  BY <1>9, <1>15, <3>4
      <4>2. a.dec < sc /\ i <= sc /\ ~(i > sc) /\ ~(sc < 0)  BY <3>1, <3>4, <4>1
      <4>3. b = DecimalAcc(TRUE, (a.m * 10 + d) % (M + 1), a.dot, a.dec + 1, a.up)
        BY <1>3, <1>15, <2>1, <2>2, <2>4, <3>2, <4>2 DEF DecimalStep
      <4>4. b.ok = TRUE /\ b.m = (a.m * 10 + d) % (M + 1) /\ b.dot = a.dot /\ b.dec = a.dec + 1 /\ b.up = a.up
        BY <4>3 DEF DecimalAcc
      <4>5. b.dec = i  BY <3>1, <4>1, <4>4
      <4> QED  BY <1>9, <1>10, <1>15, <2>4, <2>5, <2>6, <3>1, <3>2, <3>4, <4>1, <4>2, <4>4, <4>5
    <3>5. CASE sc >= 0 /\ j = sc
      <4>1. a.dec = sc /\ j <= sc  BY <1>9, <1>15, <3>5
      <4>2. ~(a.dec < sc) /\ ~(i <= sc) /\ i > sc /\ ~(sc < 0) /\ r + sc = k /\ r + sc + 1 = k + 1
        BY <1>1, <3>1, <3>5, <4>1
      <4>3. b = DecimalAcc(ov # "fail", a.m, a.dot, a.dec + 1, d >= 5)
        BY <1>3, <1>15, <2>1, <2>2, <3>2, <4>1, <4>2 DEF DecimalStep
      <4>4. (b.ok <=> ov # "fail") /\ b.m = a.m /\ b.dot = a.dot /\ b.dec = a.dec + 1 /\ (b.up <=> d >= 5)
        BY <4>3 DEF DecimalAcc
      <4>5. DigitVal(q[r + sc + 1]) = d /\ v[r + sc] = x  BY <1>2, <1>10, <2>2, <4>2
      <4>6. b.dec = sc + 1  BY <4>1, <4>4
      <4> QED  BY <1>9, <1>10, <1>15, <2>4, <3>1, <3>2, <3>5, <4>1, <4>2, <4>4, <4>5, <4>6
    <3>6. CASE sc >= 0 /\ j > sc
      <4>1. a.dec = sc + 1  BY <1>9, <1>15, <3>6
      <4>2. ~(a.dec < sc) /\ a.dec # sc /\ ~(i <= sc) /\ i > sc /\ ~(sc < 0)  BY <3>1, <3>6, <4>1
      <4>3. b = a  BY <1>3, <1>15, <2>1, <3>2, <4>2 DEF DecimalStep
      <4> QED  BY <1>9, <1>15, <3>1, <3>2, <3>6, <4>2, <4>3
    <3> QED  BY <3>3, <3>4, <3>5, <3>6
  <2> QED  BY <2>7, <2>8
<1> QED  BY <1>12, <1>13, <1>14, <1>15

LEMMA DecimalMeaning ==
  ASSUME NEW q, IsSeq(q), NEW v, Horner(q, v), NEW n \in Nat, n = Len(q), NEW sc \in Int, NEW ov
  PROVE  \E a : /\ DecimalAt(a, q, v, n, sc, ov)
                /\ a = FoldLeft(LAMBDA b, c : DecimalStep(sc, ov, b, c),
                                DecimalAcc(TRUE, 0, FALSE, 0, FALSE), q)
                /\ q = <<".">> => a.m = 0 /\ ~a.up
<1>1. DOMAIN q = 1 .. n  BY SeqShape
<1>2. PICK base : base = DecimalAcc(TRUE, 0, FALSE, 0, FALSE)  OBVIOUS
<1>3. PICK r : DecimalRun(sc, ov, base, q, n, r)  BY <1>1, DecimalLoop
<1> DEFINE P == {k \in Nat : k <= n => DecimalAt(r[k], q, v, k, sc, ov)}
<1>4. r[0] = base  BY <1>3 DEF DecimalRun
<1>5. base.ok = TRUE /\ base.m = 0 /\ base.dot = FALSE /\ base.dec = 0 /\ base.up = FALSE
  BY <1>2 DEF DecimalAcc
<1>6. 0 \in P
  <2>1. TRUE \in BOOLEAN /\ FALSE \in BOOLEAN /\ 0 \in Int  OBVIOUS
  <2>2. DecimalMade(base)  BY <1>2, <2>1, AccsMade
  <2>3. Point(q, 0) = 1 /\ v[0] = 0  BY PointStep DEF Horner
  <2>4. Decimals(1, 0) = 0  BY DEF Decimals
  <2>5. 1 # 0 /\ ~(1 <= 0) /\ (sc >= 0 => ~(0 > sc))  OBVIOUS
  <2>6. DecimalAt(base, q, v, 0, sc, ov)  BY <1>5, <2>2, <2>3, <2>4, <2>5 DEF DecimalAt
  <2> QED  BY <1>4, <2>6
<1>7. ASSUME NEW k \in Nat, k \in P PROVE k + 1 \in P
  <2>1. SUFFICES ASSUME k + 1 <= n PROVE DecimalAt(r[k + 1], q, v, k + 1, sc, ov)  OBVIOUS
  <2>2. k <= n /\ k + 1 \in 1 .. n /\ (k + 1) - 1 = k  BY <2>1
  <2>3. r[k + 1] = DecimalStep(sc, ov, r[k], q[k + 1])  BY <1>3, <2>2 DEF DecimalRun
  <2>4. DecimalAt(r[k], q, v, k, sc, ov)  BY <1>7, <2>2
  <2> QED  BY <2>1, <2>3, <2>4, DecimalStepAt
<1>8. \A k \in Nat : k \in P
  <2> HIDE DEF P
  <2> QED  BY <1>6, <1>7, Induction
<1>9. DecimalAt(r[n], q, v, n, sc, ov)  BY <1>8
<1>10. r[n] = DecimalRounds(sc, ov, base, q)  BY <1>3 DEF DecimalRun
<1>11. ASSUME q = <<".">> PROVE r[n].m = 0 /\ ~r[n].up
  <2>1. n = 1 /\ q[1] = "."  BY <1>11, Tuples
  <2>2. r[1] = DecimalStep(sc, ov, r[0], q[1])
    <3>1. 1 \in 1 .. n /\ 1 - 1 = 0  BY <2>1
    <3> QED  BY <1>3, <3>1 DEF DecimalRun
  <2>3. r[1] = DecimalAcc(~base.dot, base.m, TRUE, base.dec, base.up)
    BY <1>4, <1>5, <2>1, <2>2 DEF DecimalStep
  <2> QED  BY <1>5, <2>1, <2>3 DEF DecimalAcc
<1> QED  BY <1>2, <1>9, <1>10, <1>11 DEF DecimalRounds

(* A numeral, as Point and Horner see it.                                  *)
LEMMA AtMostOne ==
  ASSUME NEW S, IsFiniteSet(S), Cardinality(S) <= 1, NEW x \in S, NEW y \in S
  PROVE  x = y
<1> SUFFICES ASSUME x # y PROVE FALSE  OBVIOUS
<1>1. IsFiniteSet({x}) /\ Cardinality({x}) = 1  BY FS_Singleton
<1>2. Cardinality({x} \cup {y}) = 1 + 1 /\ IsFiniteSet({x} \cup {y})  BY <1>1, FS_AddElement
<1>3. {x} \cup {y} \subseteq S  OBVIOUS
<1>4. Cardinality({x} \cup {y}) <= Cardinality(S)  BY <1>3, FS_Subset
<1>5. Cardinality(S) \in Nat  BY FS_CardinalityType
<1> QED  BY <1>2, <1>4, <1>5

LEMMA DotsOf ==
  ASSUME NEW q, IsSeq(q), NEW n \in Nat, n = Len(q)
  PROVE  /\ IsFiniteSet(Dots(q))
         /\ \A p \in 1 .. (n + 1) : Shaped(q, n, p) => Dots(q) = IF p = n + 1 THEN {} ELSE {p}
<1>1. DOMAIN q = 1 .. n  BY SeqShape
<1>2. Dots(q) \subseteq 1 .. n  BY <1>1 DEF Dots
<1>3. IsFiniteSet(1 .. n)  BY FS_Interval
<1>4. IsFiniteSet(Dots(q))  BY <1>2, <1>3, FS_Subset
<1>5. ASSUME NEW p \in 1 .. (n + 1), Shaped(q, n, p) PROVE Dots(q) = IF p = n + 1 THEN {} ELSE {p}
  <2>1. \A i \in 1 .. n : q[i] = "." <=> i = p
    <3>1. ASSUME NEW i \in 1 .. n PROVE q[i] = "." <=> i = p
      <4>1. IF i = p THEN q[i] = "." ELSE IsDigit(q[i])  BY <1>5 DEF Shaped
      <4> QED  BY <4>1, NoDigits
    <3> QED  BY <3>1
  <2>2. Dots(q) = {i \in 1 .. n : i = p}  BY <1>1, <2>1 DEF Dots
  <2> QED  BY <2>2
<1> QED  BY <1>4, <1>5

LEMMA NumeralShaped ==
  ASSUME NEW s, IsSeq(s), s # <<>>, NEW q, q = Rest(s), NEW n \in Nat, n = Len(q)
  PROVE  IsNumeral(s) <=> Point(q, n) # 0 /\ Counted(Point(q, n), n) > 0
<1>1. Unsigned(s) = q /\ IsSeq(q)  BY Unsign
<1>2. DOMAIN q = 1 .. n  BY <1>1, SeqShape
<1>3. IsNumeral(s) <=> /\ \E i \in 1 .. n : IsDigit(q[i])
                       /\ \A i \in 1 .. n : IsDigit(q[i]) \/ q[i] = "."
                       /\ Cardinality(Dots(q)) <= 1
  BY <1>1, <1>2 DEF IsNumeral
<1>4. ASSUME IsNumeral(s) PROVE Point(q, n) # 0 /\ Counted(Point(q, n), n) > 0
  <2>1. PICK i \in 1 .. n : IsDigit(q[i])  BY <1>3, <1>4
  <2>2. \A j \in 1 .. n : IsDigit(q[j]) \/ q[j] = "."  BY <1>3, <1>4
  <2>3. \A j : j \in Dots(q) <=> j \in 1 .. n /\ q[j] = "."  BY <1>2 DEF Dots
  <2>4. CASE Dots(q) = {}
    <3>1. \A j \in 1 .. n : IsDigit(q[j])  BY <2>2, <2>3, <2>4
    <3>2. \A j \in 1 .. n : j # n + 1  OBVIOUS
    <3>3. Shaped(q, n, n + 1)  BY <3>1, <3>2 DEF Shaped
    <3>4. n + 1 \in 1 .. (n + 1)  OBVIOUS
    <3>5. Point(q, n) = n + 1  BY <3>3, <3>4, PointOf
    <3> QED  BY <3>5 DEF Counted
  <2>5. CASE Dots(q) # {}
    <3>1. PICK p \in Dots(q) : TRUE  BY <2>5
    <3>2. p \in 1 .. n /\ q[p] = "."  BY <2>3, <3>1
    <3>3. IsFiniteSet(Dots(q)) /\ Cardinality(Dots(q)) <= 1  BY <1>1, <1>3, <1>4, DotsOf
    <3>4. \A j \in Dots(q) : j = p  BY <3>1, <3>3, AtMostOne
    <3>5. Shaped(q, n, p)  BY <2>2, <2>3, <3>2, <3>4 DEF Shaped
    <3>6. p \in 1 .. (n + 1)  BY <3>2
    <3>7. Point(q, n) = p  BY <3>5, <3>6, PointOf
    <3>8. i # p  BY <2>1, <3>2, NoDigits
    <3> QED  BY <3>2, <3>7, <3>8 DEF Counted
  <2> QED  BY <2>4, <2>5
<1>5. ASSUME Point(q, n) # 0, Counted(Point(q, n), n) > 0 PROVE IsNumeral(s)
  <2>1. PICK p \in 1 .. (n + 1) : p = Point(q, n) /\ Shaped(q, n, p)  BY <1>5, PointOf
  <2>2. PICK i \in 1 .. n : i # p
    <3>1. CASE p = n + 1
      <4>1. n > 0  BY <1>5, <2>1, <3>1 DEF Counted
      <4>2. 1 \in 1 .. n /\ 1 # p  BY <3>1, <4>1
      <4> QED  BY <4>2
    <3>2. CASE p # n + 1
      <4>1. n > 1  BY <1>5, <2>1, <3>2 DEF Counted
      <4>2. 1 \in 1 .. n /\ 2 \in 1 .. n /\ (1 # p \/ 2 # p)  BY <4>1
      <4> QED  BY <4>2
    <3> QED  BY <3>1, <3>2
  <2>3. IsDigit(q[i])  BY <2>1, <2>2 DEF Shaped
  <2>4. \A j \in 1 .. n : IsDigit(q[j]) \/ q[j] = "."  BY <2>1 DEF Shaped
  <2>5. Dots(q) = {} \/ Dots(q) = {p}  BY <1>1, <2>1, DotsOf
  <2>6. Cardinality(Dots(q)) <= 1
    <3>1. Cardinality({}) = 0 /\ Cardinality({p}) = 1  BY FS_EmptySet, FS_Singleton
    <3>2. 0 <= 1 /\ 1 <= 1  OBVIOUS
    <3>3. CASE Dots(q) = {}  BY <3>1, <3>2, <3>3
    <3>4. CASE Dots(q) = {p}  BY <3>1, <3>2, <3>4
    <3> QED  BY <2>5, <3>3, <3>4
  <2> QED  BY <1>3, <2>3, <2>4, <2>6
<1> QED  BY <1>4, <1>5

LEMMA PlacesShaped ==
  ASSUME NEW s, IsSeq(s), s # <<>>, NEW q, q = Rest(s), NEW n \in Nat, n = Len(q), Point(q, n) # 0
  PROVE  /\ Places(s) = Decimals(Point(q, n), n)
         /\ Dots(s) = {} <=> Point(q, n) = n + 1
<1>1. PICK off \in {0, 1} : /\ IsSeq(q) /\ Len(s) = n + off /\ \A i \in 1 .. n : q[i] = s[i + off]
                            /\ off = 1 => s[1] # "."
  BY Unsign
<1>2. DOMAIN s = 1 .. (n + off)  BY <1>1, SeqShape
<1>3. DOMAIN q = 1 .. n  BY <1>1, SeqShape
<1>4. PICK p \in 1 .. (n + 1) : p = Point(q, n) /\ Shaped(q, n, p)  BY PointOf
<1>5. Dots(q) = IF p = n + 1 THEN {} ELSE {p}  BY <1>1, <1>4, DotsOf
<1>6. ASSUME NEW i \in 1 .. (n + off) PROVE s[i] = "." <=> i - off \in Dots(q)
  <2>1. CASE i - off \in 1 .. n
    <3>1. (i - off) + off = i  BY <1>1
    <3>2. q[i - off] = s[i]  BY <1>1, <2>1, <3>1
    <3> QED  BY <1>3, <2>1, <3>2 DEF Dots
  <2>2. CASE i - off \notin 1 .. n
    <3>1. off = 1 /\ i = 1  BY <1>1, <2>2
    <3> QED  BY <1>1, <1>3, <2>2, <3>1 DEF Dots
  <2> QED  BY <2>1, <2>2
<1>7. CASE p = n + 1
  <2>1. Dots(s) = {}  BY <1>2, <1>5, <1>6, <1>7 DEF Dots
  <2> QED  BY <1>4, <1>7, <2>1 DEF Places, Decimals
<1>8. CASE p # n + 1
  <2>1. p + off \in 1 .. (n + off) /\ (p + off) - off = p  BY <1>1, <1>8
  <2>2. \A i \in 1 .. (n + off) : i - off = p <=> i = p + off  BY <1>1
  <2>3. \A i \in 1 .. (n + off) : s[i] = "." <=> i = p + off  BY <1>5, <1>6, <1>8, <2>2
  <2>4. PICK m \in Int : m = p + off  BY <1>1
  <2>5. Dots(s) = {m}  BY <1>2, <2>1, <2>3, <2>4 DEF Dots
  <2>6. Max({m}) = m
    <3>1. \A x \in {m} : (\A y \in {m} : x >= y) <=> x = m  OBVIOUS
    <3> QED  BY <3>1 DEF Max
  <2>7. Places(s) = Len(s) - m  BY <2>5, <2>6 DEF Places
  <2>8. Len(s) - m = n - p  BY <1>1, <2>4
  <2> QED  BY <1>4, <1>8, <2>5, <2>7, <2>8 DEF Decimals
<1> QED  BY <1>7, <1>8

LEMMA MagnitudeShaped ==
  ASSUME NEW s, IsSeq(s), s # <<>>, NEW q, q = Rest(s), NEW n \in Nat, n = Len(q)
  PROVE  \E v : Horner(q, v) /\ Magnitude(s) = v[n]
<1>1. PICK off \in {0, 1} : /\ Len(s) = n + off /\ \A i \in 1 .. n : q[i] = s[i + off]
                            /\ off = 1 => ~IsDigit(s[1])
  BY Unsign
<1>2. PICK w : Horner(s, w) /\ Magnitude(s) = w[n + off]  BY <1>1, MagnitudeHorner
<1>3. PICK v : v = [k \in 0 .. n |-> w[k + off]]  OBVIOUS
<1>4. Len(s) \in Nat /\ n + off \in Nat  BY <1>1
<1>5. v \in [0 .. n -> Nat]
  <2>1. ASSUME NEW k \in 0 .. n PROVE w[k + off] \in Nat
    <3>1. k + off \in 0 .. (n + off)  BY <1>1
    <3> QED  BY <1>1, <1>2, <3>1 DEF Horner
  <2> QED  BY <1>3, <2>1
<1>6. v[0] = 0
  <2>1. v[0] = w[0 + off] /\ w[0] = 0  BY <1>2, <1>3 DEF Horner
  <2>2. CASE off = 0
    <3>1. 0 + off = 0  BY <2>2
    <3> QED  BY <2>1, <3>1
  <2>3. CASE off = 1
    <3>1. 0 + 1 <= Len(s) /\ 0 + off = 0 + 1 /\ 0 + 1 = 1  BY <1>1, <2>3
    <3>2. w[0 + 1] = w[0]  BY <1>1, <1>2, <1>4, <2>3, <3>1, HornerGrows
    <3> QED  BY <2>1, <3>1, <3>2
  <2> QED  BY <1>1, <2>2, <2>3
<1>7. ASSUME NEW k \in 1 .. n
      PROVE  v[k] = IF IsDigit(q[k]) THEN 10 * v[k - 1] + DigitVal(q[k]) ELSE v[k - 1]
  <2>1. k + off \in 1 .. Len(s) /\ (k + off) - 1 = (k - 1) + off /\ k \in 0 .. n /\ k - 1 \in 0 .. n
    BY <1>1
  <2>2. w[k + off] = IF IsDigit(s[k + off]) THEN 10 * w[(k - 1) + off] + DigitVal(s[k + off])
                     ELSE w[(k - 1) + off]
    BY <1>2, <2>1 DEF Horner
  <2>3. v[k] = w[k + off] /\ v[k - 1] = w[(k - 1) + off]  BY <1>3, <2>1
  <2> QED  BY <1>1, <2>2, <2>3
<1>8. Horner(q, v)  BY <1>5, <1>6, <1>7 DEF Horner
<1>9. v[n] = w[n + off]  BY <1>3
<1> QED  BY <1>2, <1>8, <1>9

(* What the coercions make of a text, in terms of what it stands for.      *)
WithSign(s, n) == IF Negative(s) THEN - n ELSE n

LEMMA EmptyNumeral == ~IsNumeral(<<>>)
<1>1. Unsigned(<<>>) = <<>>  BY DEF Unsigned
<1>2. DOMAIN <<>> = {}  OBVIOUS
<1> QED  BY <1>1, <1>2 DEF IsNumeral

LEMMA ParseFields == Refused.ok = FALSE /\ \A x : Parsed(x).ok = TRUE /\ Parsed(x).val = x
BY DEF Refused, Parsed

LEMMA NoLength == ASSUME NEW q, IsSeq(q) PROVE q = <<>> <=> Len(q) = 0
<1>1. q \in Seq(Range(q))  BY DEF IsSeq
<1> QED  BY <1>1

LEMMA IntCoerced ==
  ASSUME NEW str, IsSeq(str), NEW s, s = TrimSpace(str)
  PROVE  /\ CoerceInt64Fast(str).ok <=>
              /\ IsNumeral(s) /\ Dots(s) = {}
              /\ WithSign(s, Magnitude(s)) \in (- MaxInt64 - 1) .. MaxInt64
         /\ CoerceInt64Fast(str).ok => CoerceInt64Fast(str) = Parsed(WithSign(s, Magnitude(s)))
<1>1. IsSeq(s)  BY TrimmedSeq
<1>2. CASE s = <<>>
  <2>1. CoerceInt64Fast(str) = Refused  BY <1>2 DEF CoerceInt64Fast
  <2> QED  BY <1>2, <2>1, EmptyNumeral, ParseFields
<1>3. CASE s # <<>>
  <2>1. PICK q : q = Rest(s) /\ IsSeq(q)  BY <1>1, RestSeq
  <2>2. PICK n \in Nat : n = Len(q)  BY <2>1, SeqShape
  <2>3. PICK v : Horner(q, v) /\ Magnitude(s) = v[n]  BY <1>1, <1>3, <2>1, <2>2, MagnitudeShaped
  <2>4. PICK x \in Nat : x = v[n]
    <3>1. n \in 0 .. n  OBVIOUS
    <3> QED  BY <2>2, <2>3, <3>1 DEF Horner
  <2>5. PICK p : p = Point(q, n) /\ p \in 0 .. (n + 1)  BY PointOf
  <2>6. PICK d : d = parseDigitsUint64(q)  OBVIOUS
  <2>7. PICK L, M \in Nat : L = MaxInt64 /\ M = MaxUint64 /\ M = 2 * L + 1  BY Widths DEF MaxUint64
  <2>8. d.ok <=> p = n + 1 /\ x <= M  BY <2>1, <2>2, <2>3, <2>4, <2>5, <2>6, <2>7, DigitMeaning
  <2>9. d.ok => d.val = x
    <3>1. d.ok => d = Parsed(x)  BY <2>1, <2>2, <2>3, <2>4, <2>6, DigitMeaning
    <3> QED  BY <3>1, ParseFields
  <2>10. q = <<>> <=> n = 0  BY <2>1, <2>2, NoLength
  <2>11. Negative(s) <=> extractSign(s)[1]  BY <1>1, <1>3, Unsign
  <2>12. CoerceInt64Fast(str) =
           IF q = <<>> \/ ~d.ok THEN Refused
           ELSE IF Negative(s) THEN IF d.val > L + 1 THEN Refused ELSE Parsed(- d.val)
                ELSE IF d.val > L THEN Refused ELSE Parsed(d.val)
    BY <1>3, <2>1, <2>6, <2>7, <2>11 DEF CoerceInt64Fast
  <2>13. (IsNumeral(s) /\ Dots(s) = {}) <=> n # 0 /\ p = n + 1
    <3>1. IsNumeral(s) <=> p # 0 /\ Counted(p, n) > 0  BY <1>1, <1>3, <2>1, <2>2, <2>5, NumeralShaped
    <3>2. p # 0 => (Dots(s) = {} <=> p = n + 1)  BY <1>1, <1>3, <2>1, <2>2, <2>5, PlacesShaped
    <3>3. p = n + 1 => p # 0 /\ (Counted(p, n) > 0 <=> n # 0)  BY DEF Counted
    <3> QED  BY <3>1, <3>2, <3>3
  <2>14. CASE Negative(s)
    <3>1. WithSign(s, Magnitude(s)) = - x  BY <2>3, <2>4, <2>14 DEF WithSign
    <3>2. - x \in (- L - 1) .. L <=> ~(x > L + 1)  OBVIOUS
    <3>3. ~(x > L + 1) => x <= M  BY <2>7
    <3> QED  BY <2>7, <2>8, <2>9, <2>10, <2>12, <2>13, <2>14, <3>1, <3>2, <3>3, ParseFields
  <2>15. CASE ~Negative(s)
    <3>1. WithSign(s, Magnitude(s)) = x  BY <2>3, <2>4, <2>15 DEF WithSign
    <3>2. x \in (- L - 1) .. L <=> ~(x > L)  OBVIOUS
    <3>3. ~(x > L) => x <= M  BY <2>7
    <3> QED  BY <2>7, <2>8, <2>9, <2>10, <2>12, <2>13, <2>15, <3>1, <3>2, <3>3, ParseFields
  <2> QED  BY <2>14, <2>15
<1> QED  BY <1>2, <1>3

(* The digits behind the point append to the value in front of it.         *)
LEMMA SplitAtPoint ==
  ASSUME NEW q, NEW v, Horner(q, v), NEW n \in Nat, n = Len(q), NEW p \in 1 .. n, Shaped(q, n, p),
         NEW i \in Nat, NEW b \in Nat, p <= i, n = i + b
  PROVE  v[i] \in Nat /\ Appended(v[i], v[n], b)
<1>1. DigitsOnly(q, i, n)
  <2>1. \A k \in (i + 1) .. n : k \in 1 .. n /\ k # p  OBVIOUS
  <2> QED  BY <2>1 DEF Shaped, DigitsOnly
<1>2. Len(q) \in Nat /\ n <= Len(q)  OBVIOUS
<1>3. Appended(v[i], v[n], b)  BY <1>1, <1>2, HornerTail
<1>4. v[i] \in Nat
  <2>1. i \in 0 .. n  OBVIOUS
  <2> QED  BY <2>1 DEF Horner
<1> QED  BY <1>3, <1>4

(* Units of the k-th digit in units of the j-th one behind it.             *)
Aligned(fd, e, b, x, y, X, Y) ==
  /\ Appended(x, y, b) /\ e + b <= fd
  /\ X = x * Pow10[fd - e] /\ Y = y * Pow10[fd - (e + b)]

LEMMA AlignedBounds ==
  ASSUME NEW fd \in Nat, NEW e \in Nat, NEW b \in Nat, NEW x \in Nat, NEW y \in Nat, NEW X, NEW Y,
         Aligned(fd, e, b, x, y, X, Y)
  PROVE  X \in Nat /\ Y \in Nat /\ X <= Y /\ Y < X + Pow10[fd - e]
<1>1. PICK h \in Nat : h = fd - (e + b) /\ h + b = fd - e  BY DEF Aligned
<1>2. PICK H, B \in Nat \ {0} : H = Pow10[h] /\ B = Pow10[b]  BY Powers
<1>3. Pow10[fd - e] = H * B  BY <1>1, <1>2, PowerSum
<1>4. PICK rest \in Nat : y = x * B + rest /\ rest < B  BY <1>2 DEF Aligned, Appended
<1>5. X = x * (H * B) /\ Y = y * H  BY <1>1, <1>2, <1>3 DEF Aligned
<1>6. Y = x * (H * B) + rest * H
  <2>1. (x * B + rest) * H = x * (H * B) + rest * H  OBVIOUS
  <2> QED  BY <1>4, <1>5, <2>1
<1>7. rest * H < B * H
  <2>1. rest + 1 <= B  BY <1>4
  <2>2. (rest + 1) * H <= B * H  BY <2>1
  <2>3. (rest + 1) * H = rest * H + H  OBVIOUS
  <2> QED  BY <2>2, <2>3
<1>8. rest * H \in Nat /\ x * (H * B) \in Nat /\ B * H = H * B  OBVIOUS
<1>9. PICK R, X0, D \in Nat : R = rest * H /\ X0 = x * (H * B) /\ D = H * B  BY <1>8
<1>10. Y = X0 + R /\ R < D /\ X = X0  BY <1>5, <1>6, <1>7, <1>8, <1>9
<1> QED  BY <1>3, <1>9, <1>10

(* A number without a fraction that lies less than one above a whole one   *)
(* is that one.                                                            *)
LEMMA NoFraction ==
  ASSUME NEW u \in Nat \ {0}, NEW y \in Nat, NEW x \in Nat, x % u = 0, y * u <= x, x < y * u + u
  PROVE  x = y * u
<1>1. PICK m \in Int : m = x \div u  OBVIOUS
<1>2. x = m * u  BY <1>1
<1>3. m * u < (y + 1) * u  BY <1>2
<1>4. m < y + 1  BY <1>3
<1>5. y <= m  BY <1>2
<1> QED  BY <1>2, <1>4, <1>5

(* If the whole number is exact, so is every sum on the way to it.         *)
LEMMA ExactPrefix ==
  ASSUME NEW q, NEW v, Horner(q, v), NEW n \in Nat, n = Len(q), NEW p \in 1 .. n, Shaped(q, n, p),
         n - p <= FloatDigits, Exactly(v[n] * Pow10[FloatDigits - (n - p)])
  PROVE  ExactFrom(v, p, n)
<1> SUFFICES ASSUME NEW i \in p .. n PROVE Exactly(v[i] * Pow10[FloatDigits - (i - p)])
  BY DEF ExactFrom
<1>1. PICK fd \in Nat : fd = FloatDigits  BY FloatUnits
<1>2. PICK e, b, j \in Nat : e = i - p /\ b = n - i /\ j = n - p
  <2>1. i - p \in Nat /\ n - i \in Nat /\ n - p \in Nat  OBVIOUS
  <2> QED  BY <2>1
<1>3. e + b = j /\ j <= fd /\ n = i + b /\ i = p + e /\ n = p + j /\ e <= fd  BY <1>1, <1>2
<1>4. PICK x, y, z \in Nat : x = v[p] /\ y = v[i] /\ z = v[n]
  <2>1. p \in 0 .. n /\ i \in 0 .. n /\ n \in 0 .. n  OBVIOUS
  <2> QED  BY <2>1 DEF Horner
<1>5. Appended(y, z, b)
  <2>1. i \in Nat /\ p <= i  OBVIOUS
  <2> QED  BY <1>3, <1>4, <2>1, SplitAtPoint
<1>6. Appended(x, z, j)
  <2>1. p \in Nat /\ p <= p  OBVIOUS
  <2> QED  BY <1>3, <1>4, <2>1, SplitAtPoint
<1>7. Appended(x, y, e)
  <2>1. \A k \in (p + 1) .. i : k \in 1 .. n /\ k # p  OBVIOUS
  <2>2. DigitsOnly(q, p, i)  BY <2>1 DEF Shaped, DigitsOnly
  <2>3. Len(q) \in Nat /\ i <= Len(q) /\ p \in Nat /\ i \in Nat  OBVIOUS
  <2>4. Appended(v[p], v[i], e)  BY <1>3, <2>2, <2>3, HornerTail
  <2> QED  BY <1>4, <2>4
<1>8. PICK X : X = x * Pow10[fd - 0]  OBVIOUS
<1>9. PICK Y : Y = y * Pow10[fd - e]  OBVIOUS
<1>10. PICK Z : Z = z * Pow10[fd - j]  OBVIOUS
<1>11. Aligned(fd, e, b, y, z, Y, Z)  BY <1>3, <1>5, <1>9, <1>10 DEF Aligned
<1>12. PICK o \in Nat : o = 0  OBVIOUS
<1>13. Aligned(fd, o, j, x, z, X, Z)
  <2>1. o + j = j  BY <1>12
  <2> QED  BY <1>3, <1>6, <1>8, <1>10, <1>12, <2>1 DEF Aligned
<1>14. Aligned(fd, o, e, x, y, X, Y)
  <2>1. o + e = e  BY <1>12
  <2> QED  BY <1>3, <1>7, <1>8, <1>9, <1>12, <2>1 DEF Aligned
<1>15. Y \in Nat /\ Z \in Nat /\ Y <= Z  BY <1>11, AlignedBounds
<1>16. PICK u \in Nat \ {0} : u = FloatUnit /\ u = Pow10[fd - 0]
  <2>1. fd - 0 = fd  OBVIOUS
  <2> QED  BY <1>1, <2>1, FloatUnits
<1>17. X \in Nat /\ Z < X + u  BY <1>12, <1>13, <1>16, AlignedBounds
<1>18. X <= Y  BY <1>14, AlignedBounds
<1>19. Exactly(Z)  BY <1>1, <1>2, <1>4, <1>10
<1>20. Abs(Z) = Z /\ Abs(Y) = Y  BY <1>15 DEF Abs
<1>21. PICK W, U \in Nat \ {0} : W = MaxWhole /\ U = MaxUnits  BY CastAssumption
<1>22. CASE Z % u = 0
  <2>1. X = x * u  BY <1>8, <1>16
  <2>2. x * u <= Z /\ Z < x * u + u  BY <1>15, <1>17, <1>18, <2>1
  <2>3. Z = x * u  BY <1>15, <1>22, <2>2, NoFraction
  <2>4. Y = Z  BY <1>15, <1>17, <1>18, <2>1, <2>3
  <2> QED  BY <1>1, <1>2, <1>4, <1>9, <1>19, <2>4
<1>23. CASE Z % u # 0
  <2>1. Z <= U  BY <1>16, <1>19, <1>20, <1>21, <1>23 DEF Exactly
  <2>2. U <= W * u  BY <1>16, <1>21, CastAssumption
  <2>3. Y <= U /\ Y <= W * u
    <3>1. W * u \in Nat  OBVIOUS
    <3> QED  BY <1>15, <2>1, <2>2, <3>1
  <2>4. Exactly(Y)  BY <1>16, <1>20, <1>21, <2>3 DEF Exactly
  <2> QED  BY <1>1, <1>2, <1>4, <1>9, <2>4
<1> QED  BY <1>22, <1>23

LEMMA FloatCoerced ==
  ASSUME NEW str, IsSeq(str), NEW s, s = TrimSpace(str)
  PROVE  /\ CoerceFloat64Fast(str).ok <=> IsNumeral(s)
         /\ /\ IsNumeral(s) /\ Places(s) <= FloatDigits
            /\ Magnitude(s) \div Pow10[Places(s)] <= MaxUint64
            /\ Exactly(Magnitude(s) * Pow10[FloatDigits - Places(s)])
            => CoerceFloat64Fast(str) = Parsed(WithSign(s, Magnitude(s) * Pow10[FloatDigits - Places(s)]))
<1>1. IsSeq(s)  BY TrimmedSeq
<1>2. CASE s = <<>>
  <2>1. CoerceFloat64Fast(str) = Refused  BY <1>2 DEF CoerceFloat64Fast
  <2> QED  BY <1>2, <2>1, EmptyNumeral, ParseFields
<1>3. CASE s # <<>>
  <2>1. PICK q : q = Rest(s) /\ IsSeq(q)  BY <1>1, RestSeq
  <2>2. PICK n \in Nat : n = Len(q)  BY <2>1, SeqShape
  <2>3. PICK v : Horner(q, v) /\ Magnitude(s) = v[n]  BY <1>1, <1>3, <2>1, <2>2, MagnitudeShaped
  <2>4. PICK x \in Nat : x = v[n]
    <3>1. n \in 0 .. n  OBVIOUS
    <3> QED  BY <2>2, <2>3, <3>1 DEF Horner
  <2>5. PICK p : p = Point(q, n) /\ p \in 0 .. (n + 1)  BY PointOf
  <2>6. PICK a : /\ FloatAt(a, q, v, n)
                 /\ a = FoldLeft(LAMBDA b, c : FloatStep(b, c),
                                 FloatAcc(TRUE, 0, FALSE, FALSE, FloatUnit \div 10), q)
    BY <2>1, <2>2, <2>3, FloatMeaning
  <2>7. Negative(s) <=> extractSign(s)[1]  BY <1>1, <1>3, Unsign
  <2>14. PICK w : w = IF a.dot THEN a.val ELSE Nearest(a.val)  OBVIOUS
  <2>8. CoerceFloat64Fast(str) = IF ~a.ok \/ ~a.digits THEN Refused
                                 ELSE Parsed(IF Negative(s) THEN - w ELSE w)
    BY <1>3, <2>1, <2>6, <2>7, <2>14 DEF CoerceFloat64Fast
  <2>9. IsNumeral(s) <=> p # 0 /\ Counted(p, n) > 0  BY <1>1, <1>3, <2>1, <2>2, <2>5, NumeralShaped
  <2>10. IsNumeral(s) <=> a.ok /\ a.digits  BY <2>5, <2>6, <2>9 DEF FloatAt
  <2>11. ASSUME IsNumeral(s), Places(s) <= FloatDigits, Magnitude(s) \div Pow10[Places(s)] <= MaxUint64,
                Exactly(Magnitude(s) * Pow10[FloatDigits - Places(s)])
         PROVE  w = x * Pow10[FloatDigits - Places(s)]
    <3>1. Places(s) = Decimals(p, n)  BY <1>1, <1>3, <2>1, <2>2, <2>5, <2>9, <2>11, PlacesShaped
    <3>2. PICK fd \in Nat : fd = FloatDigits  BY FloatUnits
    <3>3. CASE p = n + 1
      <4>1. Places(s) = 0  BY <3>1, <3>3 DEF Decimals
      <4>2. x \div 1 = x /\ fd - 0 = fd  OBVIOUS
      <4>3. x <= MaxUint64  BY <2>3, <2>4, <2>11, <4>1, <4>2, Powers
      <4>4. a.val = x * FloatUnit  BY <2>4, <2>5, <2>6, <3>3, <4>3 DEF FloatAt
      <4>5. ~a.dot
        <5>1. p # 0 /\ ~(p <= n)  BY <3>3
        <5> QED  BY <2>5, <2>6, <5>1 DEF FloatAt
      <4>6. PICK u \in Nat : u = FloatUnit /\ u = Pow10[FloatDigits - Places(s)]
        BY <3>2, <4>1, <4>2, FloatUnits
      <4>7. Exactly(x * u)  BY <2>3, <2>4, <2>11, <4>6
      <4>8. x * u \in Int  OBVIOUS
      <4>9. Nearest(x * u) = x * u  BY <4>7, <4>8, NearestSame
      <4> QED  BY <2>14, <4>4, <4>5, <4>6, <4>9
    <3>4. CASE p # n + 1
      <4>1. p \in 1 .. n /\ p \in p .. n  BY <2>5, <2>9, <2>11, <3>4
      <4>2. PICK j \in Nat : j = n - p  BY <4>1
      <4>3. Places(s) = j  BY <3>1, <3>4, <4>2 DEF Decimals
      <4>4. Shaped(q, n, p)  BY <2>5, <4>1, PointOf
      <4>5. PICK y \in Nat : y = v[p] /\ Appended(y, x, j)
        <5>1. p \in Nat /\ p <= p /\ n = p + j  BY <4>1, <4>2
        <5> QED  BY <2>2, <2>3, <2>4, <4>1, <4>4, <5>1, SplitAtPoint
      <4>6. PICK rest \in Nat : x = y * Pow10[j] + rest /\ rest < Pow10[j]  BY <4>5 DEF Appended
      <4>7. PICK D \in Nat \ {0} : D = Pow10[j]  BY Powers
      <4>8. (y * D + rest) \div D = y
        <5>1. rest < D  BY <4>6, <4>7
        <5> HIDE <4>5, <4>6
        <5> QED  BY <5>1
      <4>9. y <= MaxUint64  BY <2>3, <2>4, <2>11, <4>3, <4>6, <4>7, <4>8
      <4>10. ExactFrom(v, p, n)
        <5>1. n - p <= FloatDigits  BY <2>11, <4>2, <4>3
        <5>2. Exactly(v[n] * Pow10[FloatDigits - (n - p)])  BY <2>3, <2>11, <4>2, <4>3
        <5> QED  BY <2>2, <2>3, <4>1, <4>4, <5>1, <5>2, ExactPrefix
      <4>11. a.dot
        <5>1. p # 0 /\ p <= n  BY <4>1
        <5> QED  BY <2>5, <2>6, <5>1 DEF FloatAt
      <4>12. a.val = x * Pow10[FloatDigits - Places(s)]
        BY <2>4, <2>5, <2>6, <2>11, <4>1, <4>2, <4>3, <4>5, <4>9, <4>10 DEF FloatAt
      <4> QED  BY <2>14, <4>11, <4>12
    <3> QED  BY <3>3, <3>4
  <2>12. CASE Negative(s)
    BY <2>3, <2>4, <2>8, <2>10, <2>11, <2>12, ParseFields DEF WithSign
  <2>13. CASE ~Negative(s)
    BY <2>3, <2>4, <2>8, <2>10, <2>11, <2>13, ParseFields DEF WithSign
  <2> QED  BY <2>12, <2>13
<1> QED  BY <1>2, <1>3

(* Dropping the digits behind the first excess one rounds half away.       *)
Longer(u, m, d) == u = 10 * m + d
Beyond(places, sc, e) == places = sc + e + 1

LEMMA RoundedTail ==
  ASSUME NEW m \in Nat, NEW d \in 0 .. 9, NEW e \in Nat, NEW x \in Nat, NEW u, Longer(u, m, d),
         Appended(u, x, e),
         NEW sc \in Nat, NEW places \in Nat, Beyond(places, sc, e)
  PROVE  /\ d >= 5 => Rounded(x, places, sc) = m + 1
         /\ ~(d >= 5) => Rounded(x, places, sc) = m
<1>1. PICK D \in Nat \ {0} : D = Pow10[e]  BY Powers
<1>2. PICK rest \in Nat : x = (10 * m + d) * D + rest /\ rest < D  BY <1>1 DEF Appended, Longer
<1>3. ~(places <= sc) /\ places - sc - 1 = e /\ places - sc = e + 1  BY DEF Beyond
<1>4. Pow10[places - sc] = 10 * D /\ Pow10[places - sc - 1] = D  BY <1>1, <1>3, Powers
<1>5. Rounded(x, places, sc) = (x + 5 * D) \div (10 * D)  BY <1>3, <1>4 DEF Rounded
<1>6. CASE d >= 5
  <2>1. PICK r \in Nat : r = (d - 5) * D + rest
    <3>1. PICK f \in Nat : f = d - 5  BY <1>6
    <3>2. f * D + rest \in Nat  OBVIOUS
    <3> QED  BY <3>1, <3>2
  <2>2. r < 10 * D
    <3>1. PICK f \in 0 .. 4 : f = d - 5  BY <1>6
    <3>2. f * D <= 4 * D  OBVIOUS
    <3> QED  BY <1>2, <2>1, <3>1, <3>2
  <2>3. x + 5 * D = (m + 1) * (10 * D) + r  BY <1>2, <2>1
  <2>4. PICK E \in Nat \ {0} : E = 10 * D  OBVIOUS
  <2>5. PICK k \in Nat : k = m + 1  OBVIOUS
  <2>6. (k * E + r) \div E = k
    <3>1. r < E  BY <2>2, <2>4
    <3> QED  BY <3>1
  <2> QED  BY <1>5, <1>6, <2>3, <2>4, <2>5, <2>6
<1>7. CASE ~(d >= 5)
  <2>1. PICK f \in 5 .. 9 : f = d + 5  BY <1>7
  <2>2. PICK r \in Nat : r = f * D + rest
    <3>1. f * D + rest \in Nat  OBVIOUS
    <3> QED  BY <3>1
  <2>3. r < 10 * D
    <3>1. f * D <= 9 * D  OBVIOUS
    <3> QED  BY <1>2, <2>2, <3>1
  <2>4. x + 5 * D = m * (10 * D) + r  BY <1>2, <2>1, <2>2
  <2>5. PICK E \in Nat \ {0} : E = 10 * D  OBVIOUS
  <2>6. (m * E + r) \div E = m
    <3>1. r < E  BY <2>3, <2>5
    <3> QED  BY <3>1
  <2> QED  BY <1>5, <1>7, <2>4, <2>5, <2>6
<1> QED  BY <1>6, <1>7

LEMMA DecimalCoerced ==
  ASSUME NEW str, IsSeq(str), NEW s, s = TrimSpace(str), NEW sc \in Int, NEW ov,
         NEW D, D = CoerceDecimalFast(str, sc, ov)
  PROVE  /\ s = <<>> => D = Parsed(0)
         /\ IsNumeral(s) /\ ~(ov = "fail" /\ Places(s) > sc) => D.ok
         /\ D.ok /\ ~IsNumeral(s) => D = Parsed(0) /\ (s = <<>> \/ Rest(s) = <<".">>)
         /\ D.ok /\ IsNumeral(s) /\ sc >= 0 /\ Rounded(Magnitude(s), Places(s), sc) <= MaxInt64
              => D = Parsed(WithSign(s, Rounded(Magnitude(s), Places(s), sc)))
<1>1. IsSeq(s)  BY TrimmedSeq
<1>2. CASE s = <<>>
  <2>1. D = Parsed(0)  BY <1>2 DEF CoerceDecimalFast
  <2> QED  BY <1>2, <2>1, EmptyNumeral, ParseFields
<1>3. CASE s # <<>>
  <2>1. PICK q : q = Rest(s) /\ IsSeq(q)  BY <1>1, RestSeq
  <2>2. PICK n \in Nat : n = Len(q)  BY <2>1, SeqShape
  <2>3. PICK v : Horner(q, v) /\ Magnitude(s) = v[n]  BY <1>1, <1>3, <2>1, <2>2, MagnitudeShaped
  <2>4. PICK x \in Nat : x = v[n]
    <3>1. n \in 0 .. n  OBVIOUS
    <3> QED  BY <2>2, <2>3, <3>1 DEF Horner
  <2>5. PICK p : p = Point(q, n) /\ p \in 0 .. (n + 1)  BY PointOf
  <2>6. PICK a : /\ DecimalAt(a, q, v, n, sc, ov)
                 /\ a = FoldLeft(LAMBDA b, c : DecimalStep(sc, ov, b, c),
                                 DecimalAcc(TRUE, 0, FALSE, 0, FALSE), q)
                 /\ q = <<".">> => a.m = 0 /\ ~a.up
    BY <2>1, <2>2, <2>3, DecimalMeaning
  <2>7. Negative(s) <=> extractSign(s)[1]  BY <1>1, <1>3, Unsign
  <2>8. PICK w : w = MaxUint64 + 1  OBVIOUS
  <2>9. PICK m : m = ToInt64((((a.m * Pow10[Max({0, sc - a.dec})]) % w) + (IF a.up THEN 1 ELSE 0)) % w)  OBVIOUS
  <2>10. D = IF q = <<>> \/ ~a.ok THEN Refused ELSE Parsed(IF Negative(s) THEN - m ELSE m)
    BY <1>3, <2>1, <2>6, <2>7, <2>8, <2>9 DEF CoerceDecimalFast
  <2>11. PICK j \in Int : j = Decimals(p, n) /\ j = IF p = n + 1 THEN 0 ELSE n - p  BY <2>5 DEF Decimals
  <2>12. /\ a.ok <=> p # 0 /\ ~(ov = "fail" /\ sc >= 0 /\ j > sc)
         /\ a.ok /\ sc >= 0 /\ j <= sc => a.dec = j /\ ~a.up /\ (x <= MaxUint64 => a.m = x)
         /\ a.ok /\ sc >= 0 /\ j > sc => /\ a.dec = sc + 1
                                         /\ a.up <=> DigitVal(q[p + sc + 1]) >= 5
                                         /\ v[p + sc] <= MaxUint64 => a.m = v[p + sc]
    BY <2>4, <2>5, <2>6, <2>11 DEF DecimalAt
  <2>13. a.m \in Int /\ a.dec \in Int
    <3>1. DecimalMade(a)  BY <2>6 DEF DecimalAt
    <3> QED  BY <3>1 DEF DecimalMade, DecimalAcc
  <2>14. IsNumeral(s) <=> p # 0 /\ Counted(p, n) > 0  BY <1>1, <1>3, <2>1, <2>2, <2>5, NumeralShaped
  <2>15. p # 0 => Places(s) = j  BY <1>1, <1>3, <2>1, <2>2, <2>5, <2>11, PlacesShaped
  <2>16. q = <<>> <=> n = 0  BY <2>1, <2>2, NoLength
  <2>17. PICK L, M \in Nat : L = MaxInt64 /\ M = MaxUint64 /\ M = 2 * L + 1 /\ w = M + 1
    BY <2>8, Widths DEF MaxUint64
  <2>18. \A t \in Int : (t <= 0 => Max({0, t}) = 0) /\ (t >= 0 => Max({0, t}) = t)
    <3>1. ASSUME NEW t \in Int, t <= 0 PROVE Max({0, t}) = 0
      <4>1. \A z \in {0, t} : (\A y \in {0, t} : z >= y) <=> z = 0  BY <3>1
      <4> QED  BY <4>1 DEF Max
    <3>2. ASSUME NEW t \in Int, t >= 0 PROVE Max({0, t}) = t
      <4>1. \A z \in {0, t} : (\A y \in {0, t} : z >= y) <=> z = t  BY <3>2
      <4> QED  BY <4>1 DEF Max
    <3> QED  BY <3>1, <3>2
  <2>19. \A t \in Nat : t <= L => t % w = t /\ ToInt64(t) = t  BY <2>17 DEF ToInt64
  <2>20. ASSUME IsNumeral(s), ~(ov = "fail" /\ Places(s) > sc) PROVE D.ok
    <3>1. p # 0 /\ j = Places(s) /\ n # 0  BY <2>5, <2>14, <2>15, <2>20 DEF Counted
    <3> QED  BY <2>10, <2>12, <2>16, <2>20, <3>1, ParseFields
  <2>21. ASSUME D.ok, ~IsNumeral(s) PROVE D = Parsed(0) /\ q = <<".">>
    <3>1. a.ok /\ n # 0  BY <2>10, <2>16, <2>21, ParseFields
    <3>2. p # 0 /\ ~(Counted(p, n) > 0)  BY <2>12, <2>14, <2>21, <3>1
    <3>3. n = 1 /\ p = 1  BY <2>5, <3>1, <3>2 DEF Counted
    <3>4. q[1] = "."
      <4>1. Shaped(q, n, p) /\ 1 \in 1 .. n  BY <2>5, <3>2, <3>3, PointOf
      <4> QED  BY <3>3, <4>1 DEF Shaped
    <3>5. q = <<".">>
      <4>1. IsSeq(<<".">>) /\ Len(<<".">>) = 1 /\ <<".">>[1] = "."  BY Tuples
      <4>2. \A i \in 1 .. 1 : i = 1  OBVIOUS
      <4> QED  BY <2>1, <2>2, <3>3, <3>4, <4>1, <4>2, SameSeq
    <3>6. PICK e \in Int : e = Pow10[Max({0, sc - a.dec})]
      <4>1. PICK t \in Int : t = sc - a.dec  BY <2>13
      <4>2. t <= 0 \/ t >= 0  OBVIOUS
      <4>3. Max({0, t}) \in Nat  BY <2>18, <4>2
      <4>4. \A i \in Nat : Pow10[i] \in Int  BY Powers
      <4> QED  BY <4>1, <4>3, <4>4
    <3>7. a.m * e = 0
      <4>1. 0 * e = 0  OBVIOUS
      <4> QED  BY <2>6, <3>5, <4>1
    <3>8. 0 % w = 0 /\ ToInt64(0) = 0 /\ 0 + 0 = 0  BY <2>17, <2>19
    <3>9. m = 0  BY <2>6, <2>9, <3>5, <3>6, <3>7, <3>8
    <3>10. - m = 0
      <4>1. \A z \in Int : z <= 0 /\ z >= 0 => - z = 0  OBVIOUS
      <4>2. m \in Int /\ m <= 0 /\ m >= 0  BY <3>9
      <4> QED  BY <4>1, <4>2
    <3> QED  BY <2>10, <2>16, <3>1, <3>5, <3>9, <3>10
  <2>22. ASSUME D.ok, IsNumeral(s), sc >= 0, Rounded(x, j, sc) <= L
         PROVE  m = Rounded(x, j, sc)
    <3>1. a.ok /\ p # 0 /\ sc \in Nat  BY <2>10, <2>14, <2>22, ParseFields
    <3>2. CASE j <= sc
      <4>1. PICK t \in Nat : t = sc - j  BY <2>11, <3>2
      <4>2. PICK T \in Nat \ {0} : T = Pow10[t]  BY Powers
      <4>3. Rounded(x, j, sc) = x * T  BY <3>2, <4>1, <4>2 DEF Rounded
      <4>4. x * T >= x /\ x * T \in Nat
        <5>1. PICK U \in Nat : T = U + 1  BY <4>2
        <5>2. x * (U + 1) = x * U + x /\ x * U \in Nat  OBVIOUS
        <5> QED  BY <5>1, <5>2
      <4>5. x <= M  BY <2>17, <2>22, <4>3, <4>4
      <4>6. a.dec = j /\ ~a.up /\ a.m = x  BY <2>12, <2>17, <2>22, <3>1, <3>2, <4>5
      <4>7. Max({0, sc - a.dec}) = t  BY <2>18, <4>1, <4>6
      <4>8. PICK y \in Nat : y = x * T /\ y <= L  BY <2>22, <4>3, <4>4
      <4>9. y % w = y /\ y + 0 = y /\ ToInt64(y) = y  BY <2>19, <4>8
      <4> QED  BY <2>9, <4>2, <4>3, <4>6, <4>7, <4>8, <4>9
    <3>3. CASE j > sc
      <4>1. p # n + 1 /\ p \in 1 .. n /\ j = n - p  BY <2>5, <2>11, <3>1, <3>3
      <4>2. PICK i, e \in Nat : i = p + sc /\ e = j - sc - 1  BY <2>11, <3>1, <3>3, <4>1
      <4>3. i + 1 \in Nat /\ p <= i + 1 /\ n = (i + 1) + e /\ i + 1 <= Len(q) /\ j = sc + e + 1 /\ j \in Nat
            /\ Len(q) \in Nat /\ p <= i
        BY <2>2, <3>1, <4>1, <4>2
      <4>4. Shaped(q, n, p)  BY <2>5, <4>1, PointOf
      <4>5. v[i + 1] \in Nat /\ Appended(v[i + 1], x, e)
        BY <2>2, <2>3, <2>4, <4>1, <4>3, <4>4, SplitAtPoint
      <4>6. IsDigit(q[i + 1])
        <5>1. i + 1 \in 1 .. n /\ i + 1 # p  BY <4>2, <4>3
        <5> QED  BY <4>4, <5>1 DEF Shaped
      <4>7. PICK d \in 0 .. 9 : d = DigitVal(q[i + 1])  BY <4>6, Numerals
      <4>8. PICK y \in Nat : y = v[i] /\ v[i + 1] = 10 * y + d  BY <2>3, <4>3, <4>6, <4>7, HornerGrows
      <4>9. PICK o \in {0, 1} : o = IF d >= 5 THEN 1 ELSE 0  OBVIOUS
      <4>10. Rounded(x, j, sc) = y + o
        <5>1. PICK u : u = v[i + 1] /\ u = 10 * y + d /\ Appended(u, x, e)  BY <4>5, <4>8
        <5>2. PICK scale, places \in Nat : scale = sc /\ places = j /\ places = scale + e + 1  BY <3>1, <4>3
        <5>3. /\ d >= 5 => Rounded(x, places, scale) = y + 1
              /\ ~(d >= 5) => Rounded(x, places, scale) = y
          <6>1. Longer(u, y, d) /\ Appended(u, x, e)  BY <5>1 DEF Longer
          <6>2. Beyond(places, scale, e)  BY <5>2 DEF Beyond
          <6> QED  BY <6>1, <6>2, RoundedTail
        <5> QED  BY <4>9, <5>2, <5>3
      <4>11. y <= M /\ y <= L /\ y + o <= L /\ y + o \in Nat  BY <2>17, <2>22, <4>10
      <4>12. a.dec = sc + 1 /\ (a.up <=> d >= 5) /\ a.m = y
        <5>1. p + sc + 1 = i + 1 /\ p + sc = i  BY <4>2
        <5> QED  BY <2>12, <2>17, <2>22, <3>1, <3>3, <4>7, <4>8, <4>11, <5>1
      <4>13. Max({0, sc - a.dec}) = 0
        <5>1. sc - a.dec = - 1  BY <4>12
        <5>2. - 1 \in Int /\ - 1 <= 0  OBVIOUS
        <5> QED  BY <2>18, <5>1, <5>2
      <4>14. y * 1 = y /\ y % w = y /\ (y + o) % w = y + o /\ ToInt64(y + o) = y + o  BY <2>19, <4>11
      <4>15. (IF a.up THEN 1 ELSE 0) = o  BY <4>9, <4>12
      <4> QED  BY <2>9, <4>10, <4>12, <4>13, <4>14, <4>15, Powers
    <3> QED  BY <2>11, <3>2, <3>3
  <2>23. ASSUME D.ok, IsNumeral(s), sc >= 0, Rounded(x, j, sc) <= L
         PROVE  D = Parsed(WithSign(s, Rounded(x, j, sc)))
    <3>1. D = Parsed(IF Negative(s) THEN - m ELSE m)  BY <2>10, <2>23, ParseFields
    <3>2. m = Rounded(x, j, sc)  BY <2>22, <2>23
    <3> QED  BY <3>1, <3>2 DEF WithSign
  <2>24. IsNumeral(s) => Places(s) = j  BY <2>14, <2>15
  <2> QED  BY <1>3, <2>1, <2>3, <2>4, <2>17, <2>20, <2>21, <2>23, <2>24
<1> QED  BY <1>2, <1>3

(* What is written for a number reads as that number.                      *)
LEMMA DigitChars == \A d \in 0 .. 9 : IsDigit(Digits[d + 1]) /\ DigitVal(Digits[d + 1]) = d
<1> SUFFICES ASSUME NEW d \in 0 .. 9 PROVE IsDigit(Digits[d + 1]) /\ DigitVal(Digits[d + 1]) = d
  OBVIOUS
<1>1. DOMAIN Digits = 1 .. 10  BY Numerals
<1>2. d + 1 \in 1 .. 10  OBVIOUS
<1>3. \A i, j \in 1 .. 10 : Digits[i] = Digits[j] => i = j  BY DEF Digits
<1>4. IsDigit(Digits[d + 1])  BY <1>1, <1>2 DEF IsDigit
<1>5. PICK c : c = CHOOSE i \in DOMAIN Digits : Digits[i] = Digits[d + 1]  OBVIOUS
<1>6. c \in 1 .. 10 /\ Digits[c] = Digits[d + 1]  BY <1>1, <1>2, <1>5
<1>7. c = d + 1  BY <1>2, <1>3, <1>6
<1>8. DigitVal(Digits[d + 1]) = c - 1  BY <1>5 DEF DigitVal
<1> QED  BY <1>4, <1>7, <1>8

(* The k characters of s behind the first a, up to c, are those of t       *)
(* behind b, up to d.                                                      *)
Agree(s, a, c, t, b, d, k) ==
  /\ a \in Nat /\ b \in Nat /\ k \in Nat /\ c = a + k /\ d = b + k
  /\ Len(s) \in Nat /\ Len(t) \in Nat /\ c <= Len(s) /\ d <= Len(t)
  /\ \A i \in 1 .. k : s[a + i] = t[b + i]

LEMMA HornerSame ==
  ASSUME NEW s, NEW v, Horner(s, v), NEW t, NEW w, Horner(t, w),
         NEW a, NEW b, NEW c, NEW d, NEW k, Agree(s, a, c, t, b, d, k), v[a] = w[b]
  PROVE  v[c] = w[d]
<1> USE DEF Agree
<1> a \in Nat /\ b \in Nat /\ k \in Nat /\ Len(s) \in Nat /\ Len(t) \in Nat  OBVIOUS
<1> c = a + k /\ d = b + k /\ c <= Len(s) /\ d <= Len(t)  OBVIOUS
<1> HIDE DEF Agree
<1> DEFINE P == {j \in Nat : j <= k => v[a + j] = w[b + j]}
<1>1. 0 \in P  BY a + 0 = a, b + 0 = b
<1>2. ASSUME NEW j \in Nat, j \in P PROVE j + 1 \in P
  <2> SUFFICES ASSUME j + 1 <= k PROVE v[a + (j + 1)] = w[b + (j + 1)]
    OBVIOUS
  <2>1. PICK x \in Nat : x = a + j  OBVIOUS
  <2>2. PICK y \in Nat : y = b + j  OBVIOUS
  <2>3. x + 1 <= Len(s) /\ y + 1 <= Len(t)  BY <2>1, <2>2
  <2>4. v[x] = w[y]  BY <1>2, <2>1, <2>2
  <2>5. s[x + 1] = t[y + 1]
    <3>1. j + 1 \in 1 .. k  OBVIOUS
    <3>2. s[a + (j + 1)] = t[b + (j + 1)]  BY <3>1 DEF Agree
    <3>3. a + (j + 1) = x + 1 /\ b + (j + 1) = y + 1  BY <2>1, <2>2
    <3> QED  BY <3>2, <3>3
  <2>6. /\ IsDigit(s[x + 1]) => DigitVal(s[x + 1]) \in 0 .. 9 /\ v[x + 1] = 10 * v[x] + DigitVal(s[x + 1])
        /\ ~IsDigit(s[x + 1]) => v[x + 1] = v[x]
    BY <2>3, HornerGrows
  <2>7. /\ IsDigit(t[y + 1]) => DigitVal(t[y + 1]) \in 0 .. 9 /\ w[y + 1] = 10 * w[y] + DigitVal(t[y + 1])
        /\ ~IsDigit(t[y + 1]) => w[y + 1] = w[y]
    BY <2>3, HornerGrows
  <2>8. v[x + 1] = w[y + 1]  BY <2>4, <2>5, <2>6, <2>7
  <2>9. a + (j + 1) = x + 1 /\ b + (j + 1) = y + 1  BY <2>1, <2>2
  <2> QED  BY <2>8, <2>9
<1>3. \A j \in Nat : j \in P
  <2> HIDE DEF P
  <2> QED  BY <1>1, <1>2, Induction
<1>4. k \in P  BY <1>3
<1> QED  BY <1>4

(* Leading zeros are worth nothing.                                        *)
Zeros(s, k) == \A i \in 1 .. k : s[i] = "0"

LEMMA HornerZeros ==
  ASSUME NEW s, NEW v, Horner(s, v), Len(s) \in Nat, NEW k \in Nat, k <= Len(s), Zeros(s, k)
  PROVE  v[k] = 0
<1> DEFINE P == {j \in Nat : j <= k => v[j] = 0}
<1>1. 0 \in P  BY DEF Horner
<1>2. ASSUME NEW j \in Nat, j \in P PROVE j + 1 \in P
  <2> SUFFICES ASSUME j + 1 <= k PROVE v[j + 1] = 0
    OBVIOUS
  <2>1. s[j + 1] = "0"  BY j + 1 \in 1 .. k DEF Zeros
  <2>2. Digits[0 + 1] = "0"  BY DEF Digits
  <2>3. 0 \in 0 .. 9  OBVIOUS
  <2>4. IsDigit(s[j + 1]) /\ DigitVal(s[j + 1]) = 0  BY <2>1, <2>2, <2>3, DigitChars
  <2>5. j + 1 <= Len(s)  OBVIOUS
  <2>6. v[j + 1] = 10 * v[j] + DigitVal(s[j + 1])  BY <2>4, <2>5, HornerGrows
  <2>7. v[j] = 0  BY <1>2
  <2> QED  BY <2>4, <2>6, <2>7
<1>3. \A j \in Nat : j \in P
  <2> HIDE DEF P
  <2> QED  BY <1>1, <1>2, Induction
<1>4. k \in P  BY <1>3
<1> QED  BY <1>4

(* A text of digits that stands for n.                                     *)
Spells(u, n) ==
  /\ IsSeq(u) /\ Len(u) \in Nat \ {0} /\ DigitsOnly(u, 0, Len(u))
  /\ \A v : Horner(u, v) => v[Len(u)] = n

LEMMA SpellsOne == ASSUME NEW d \in 0 .. 9 PROVE Spells(<<Digits[d + 1]>>, d)
<1>1. PICK u : u = <<Digits[d + 1]>>  OBVIOUS
<1>2. IsSeq(u) /\ Len(u) = 1 /\ u[1] = Digits[d + 1]  BY <1>1, Tuples
<1>3. IsDigit(u[1]) /\ DigitVal(u[1]) = d  BY <1>2, DigitChars
<1>4. DigitsOnly(u, 0, Len(u))  BY <1>2, <1>3 DEF DigitsOnly
<1>5. ASSUME NEW v, Horner(u, v) PROVE v[Len(u)] = d
  <2>1. v[0] = 0  BY <1>5 DEF Horner
  <2>2. PICK z \in Nat : z = 0  OBVIOUS
  <2>3. z + 1 <= Len(u) /\ z + 1 = 1 /\ Len(u) \in Nat  BY <1>2, <2>2
  <2>4. v[z + 1] = 10 * v[z] + DigitVal(u[z + 1])  BY <1>3, <1>5, <2>3, HornerGrows
  <2> QED  BY <1>2, <1>3, <2>1, <2>2, <2>3, <2>4
<1> QED  BY <1>1, <1>2, <1>4, <1>5 DEF Spells

LEMMA SpellsMore ==
  ASSUME NEW u, NEW m \in Nat, Spells(u, m), NEW d \in 0 .. 9, NEW n, Longer(n, m, d)
  PROVE  Spells(Append(u, Digits[d + 1]), n)
<1>1. PICK w : w = Append(u, Digits[d + 1])  OBVIOUS
<1>2. IsSeq(u)  BY DEF Spells
<1>3. PICK k \in Nat : k = Len(u)  BY DEF Spells
<1>4. IsSeq(w) /\ Len(w) = k + 1 /\ (\A i \in 1 .. k : w[i] = u[i]) /\ w[k + 1] = Digits[d + 1]
  BY <1>1, <1>2, <1>3, SeqAppend
<1>5. IsDigit(w[k + 1]) /\ DigitVal(w[k + 1]) = d  BY <1>4, DigitChars
<1>6. DigitsOnly(w, 0, Len(w))
  <2> SUFFICES ASSUME NEW i \in 1 .. (k + 1) PROVE IsDigit(w[i])
    BY <1>4 DEF DigitsOnly
  <2>1. CASE i = k + 1  BY <1>5, <2>1
  <2>2. CASE i # k + 1
    <3>1. i \in 1 .. k  BY <2>2
    <3>2. w[i] = u[i]  BY <1>4, <3>1
    <3>3. i \in (0 + 1) .. Len(u)  BY <1>3, <3>1
    <3>4. DigitsOnly(u, 0, Len(u))  BY DEF Spells
    <3> QED  BY <3>2, <3>3, <3>4 DEF DigitsOnly
  <2> QED  BY <2>1, <2>2
<1>7. ASSUME NEW v, Horner(w, v) PROVE v[Len(w)] = n
  <2>1. PICK x : Horner(u, x)  BY <1>2, MagnitudeHorner
  <2>2. x[k] = m  BY <1>3, <2>1 DEF Spells
  <2>3. v[0] = 0 /\ x[0] = 0  BY <1>7, <2>1 DEF Horner
  <2>4. Agree(w, 0, k, u, 0, k, k)
    <3>1. k = 0 + k /\ \A i \in 1 .. k : 0 + i = i  OBVIOUS
    <3>2. k <= Len(w) /\ k <= Len(u) /\ Len(w) \in Nat /\ Len(u) \in Nat  BY <1>3, <1>4
    <3> QED  BY <1>4, <3>1, <3>2 DEF Agree
  <2>5. v[k] = x[k]
    <3>1. PICK z \in Nat : z = 0  OBVIOUS
    <3>3. v[z] = x[z] /\ Agree(w, z, k, u, z, k, k)  BY <2>3, <2>4, <3>1
    <3> QED  BY <1>7, <2>1, <3>3, HornerSame
  <2>6. k + 1 <= Len(w) /\ Len(w) \in Nat  BY <1>4
  <2>7. v[k + 1] = 10 * v[k] + DigitVal(w[k + 1])  BY <1>5, <1>7, <2>6, HornerGrows
  <2> QED  BY <1>4, <1>5, <2>2, <2>5, <2>7 DEF Longer
<1>8. Len(w) \in Nat \ {0}  BY <1>4
<1> QED  BY <1>1, <1>4, <1>6, <1>7, <1>8 DEF Spells

LEMMA FormatUintSpells == ASSUME NEW n \in Nat PROVE Spells(FormatUint[n], n)
<1> DEFINE P == {m \in Nat : \A k \in 0 .. m : Spells(FormatUint[k], k)}
<1>1. ASSUME NEW k \in Nat, \A i \in 0 .. (k - 1) : Spells(FormatUint[i], i) PROVE Spells(FormatUint[k], k)
  <2>1. FormatUint[k] = Written10(FormatUint, k)  BY FormatUintDef
  <2>2. CASE k < 10
    <3>1. FormatUint[k] = <<Digits[k + 1]>>  BY <2>1, <2>2 DEF Written10
    <3>2. k \in 0 .. 9  BY <2>2
    <3> QED  BY <3>1, <3>2, SpellsOne
  <2>3. CASE ~(k < 10)
    <3>1. FormatUint[k] = Append(FormatUint[k \div 10], Digits[(k % 10) + 1])
      BY <2>1, <2>3 DEF Written10
    <3>2. PICK m \in Nat : m = k \div 10  OBVIOUS
    <3>3. PICK d \in 0 .. 9 : d = k % 10  OBVIOUS
    <3>4. m \in 0 .. (k - 1)  BY <2>3, <3>2
    <3>5. Longer(k, m, d)  BY <3>2, <3>3 DEF Longer
    <3>6. Spells(FormatUint[m], m)  BY <1>1, <3>4
    <3>7. Spells(Append(FormatUint[m], Digits[d + 1]), k)  BY <3>5, <3>6, SpellsMore
    <3> QED  BY <3>1, <3>2, <3>3, <3>7
  <2> QED  BY <2>2, <2>3
<1>2. 0 \in P
  <2>1. \A i \in 0 .. (0 - 1) : Spells(FormatUint[i], i)  OBVIOUS
  <2>2. Spells(FormatUint[0], 0)  BY <1>1, <2>1
  <2>3. \A k \in 0 .. 0 : k = 0  OBVIOUS
  <2> QED  BY <2>2, <2>3
<1>3. ASSUME NEW m \in Nat, m \in P PROVE m + 1 \in P
  <2>1. \A i \in 0 .. ((m + 1) - 1) : Spells(FormatUint[i], i)
    <3>1. (m + 1) - 1 = m  OBVIOUS
    <3> QED  BY <1>3, <3>1
  <2>2. m + 1 \in Nat  OBVIOUS
  <2>3. Spells(FormatUint[m + 1], m + 1)  BY <1>1, <2>1, <2>2
  <2>4. \A k \in 0 .. (m + 1) : k \in 0 .. m \/ k = m + 1  OBVIOUS
  <2> QED  BY <1>3, <2>2, <2>3, <2>4
<1>4. \A m \in Nat : m \in P
  <2> HIDE DEF P
  <2> QED  BY <1>2, <1>3, Induction
<1>5. n \in P /\ n \in 0 .. n  BY <1>4
<1> QED  BY <1>5

(* t is the k characters of s behind the first a.                          *)
Cut(t, s, a, k) == t = SubSeq(s, a + 1, a + k)

Copies(t, s, a, k) == IsSeq(t) /\ Len(t) = k /\ \A i \in 1 .. k : t[i] = s[a + i]

LEMMA CutAt ==
  ASSUME NEW s, NEW a \in Nat, NEW k \in Nat, NEW t, Cut(t, s, a, k)
  PROVE  Copies(t, s, a, k)
<1>1. SubSeq(s, a + 1, a + k) = [i \in 1 .. (1 + (a + k) - (a + 1)) |-> s[i + (a + 1) - 1]]  OBVIOUS
<1>2. 1 + (a + k) - (a + 1) = k /\ \A i \in 1 .. k : i + (a + 1) - 1 = a + i  OBVIOUS
<1>3. t = [i \in 1 .. k |-> s[a + i]]  BY <1>1, <1>2 DEF Cut
<1>5. t \in [1 .. k -> {s[a + i] : i \in 1 .. k}]  BY <1>3
<1>6. IsSeq(t) /\ Len(t) = k  BY <1>5, FunctionsAreSeqs
<1> QED  BY <1>3, <1>6 DEF Copies

(* s is u, of length a, and then v, of length b.                           *)
Joint(s, u, a, v, b) == IsSeq(u) /\ IsSeq(v) /\ s = u \o v /\ a = Len(u) /\ b = Len(v)

Laid(s, u, a, v, b) ==
  /\ IsSeq(s) /\ Len(s) = a + b
  /\ \A i \in 1 .. a : s[i] = u[i]
  /\ \A i \in 1 .. b : s[a + i] = v[i]

LEMMA JointAt ==
  ASSUME NEW s, NEW u, NEW v, NEW a, NEW b, Joint(s, u, a, v, b)
  PROVE  Laid(s, u, a, v, b)
<1>1. /\ IsSeq(u \o v) /\ Len(u \o v) = Len(u) + Len(v)
      /\ \A i \in 1 .. Len(u) : (u \o v)[i] = u[i]
      /\ \A i \in 1 .. Len(v) : (u \o v)[Len(u) + i] = v[i]
  <2> IsSeq(u) /\ IsSeq(v)  BY DEF Joint
  <2> QED  BY SeqConcat
<1> QED  BY <1>1 DEF Joint, Laid

LEMMA PaddedSpells ==
  ASSUME NEW n \in Nat, NEW width \in Nat
  PROVE  Spells(Padded(n, width), n) /\ Len(Padded(n, width)) >= width
<1>1. PICK w : w = FormatUint[n]  OBVIOUS
<1>2. Spells(w, n)  BY <1>1, FormatUintSpells
<1>3. PICK m \in Nat \ {0} : m = Len(w)  BY <1>2 DEF Spells
<1>4. PICK k \in Int : k = width - m
  <2>1. width - m \in Int  BY <1>3
  <2> QED  BY <2>1
<1>5. PICK j \in Nat : 1 .. j = 1 .. k /\ j >= k
  <2>1. CASE k \in Nat  BY <2>1
  <2>2. CASE k \notin Nat
    <3>1. 1 .. 0 = 1 .. k /\ 0 >= k  BY <2>2
    <3> QED  BY <3>1
  <2> QED  BY <2>1, <2>2
<1>6. PICK z : z = [i \in 1 .. j |-> "0"]  OBVIOUS
<1>7. IsSeq(z) /\ Len(z) = j
  <2>1. z \in [1 .. j -> {"0"}]  BY <1>6
  <2> QED  BY <2>1, FunctionsAreSeqs
<1>8. PICK s : s = z \o w  OBVIOUS
<1>9. Padded(n, width) = s  BY <1>1, <1>3, <1>4, <1>5, <1>6, <1>8 DEF Padded
<1>10. IsSeq(w)  BY <1>2 DEF Spells
<1>11. /\ IsSeq(s) /\ Len(s) = j + m
       /\ \A i \in 1 .. j : s[i] = z[i]
       /\ \A i \in 1 .. m : s[j + i] = w[i]
  <2>1. Joint(s, z, j, w, m)  BY <1>3, <1>7, <1>8, <1>10 DEF Joint
  <2>2. Laid(s, z, j, w, m)  BY <2>1, JointAt
  <2> QED  BY <2>2 DEF Laid
<1>12. Len(s) \in Nat \ {0} /\ Len(s) >= width  BY <1>3, <1>4, <1>5, <1>11
<1>13. Zeros(s, j)  BY <1>6, <1>11 DEF Zeros
<1>14. DigitsOnly(s, 0, Len(s))
  <2> SUFFICES ASSUME NEW i \in 1 .. (j + m) PROVE IsDigit(s[i])
    BY <1>11 DEF DigitsOnly
  <2>1. CASE i <= j
    <3>1. i \in 1 .. j  BY <2>1
    <3>2. s[i] = "0"  BY <1>13, <3>1 DEF Zeros
    <3>3. Digits[0 + 1] = "0" /\ 0 \in 0 .. 9  BY DEF Digits
    <3> QED  BY <3>2, <3>3, DigitChars
  <2>2. CASE ~(i <= j)
    <3>1. PICK h \in 1 .. m : i = j + h
      <4>1. i - j \in 1 .. m /\ i = j + (i - j)  BY <2>2
      <4> QED  BY <4>1
    <3>2. s[i] = w[h]  BY <1>11, <3>1
    <3>3. h \in (0 + 1) .. Len(w)  BY <1>3, <3>1
    <3>4. DigitsOnly(w, 0, Len(w))  BY <1>2 DEF Spells
    <3> QED  BY <3>2, <3>3, <3>4 DEF DigitsOnly
  <2> QED  BY <2>1, <2>2
<1>15. ASSUME NEW v, Horner(s, v) PROVE v[Len(s)] = n
  <2>1. PICK x : Horner(w, x)  BY <1>10, MagnitudeHorner
  <2>2. x[m] = n  BY <1>2, <1>3, <2>1 DEF Spells
  <2>3. j <= Len(s) /\ Len(s) \in Nat  BY <1>11
  <2>4. v[j] = 0  BY <1>13, <1>15, <2>3, HornerZeros
  <2>5. PICK o \in Nat : o = 0  OBVIOUS
  <2>6. x[o] = 0  BY <2>1, <2>5 DEF Horner
  <2>8. PICK c \in Nat : c = Len(s)  BY <2>3
  <2>7. Agree(s, j, c, w, o, m, m)
    <3>1. c = j + m /\ m = o + m /\ \A i \in 1 .. m : o + i = i  BY <1>11, <2>5, <2>8
    <3>2. m <= Len(w) /\ c <= Len(s) /\ Len(w) \in Nat  BY <1>3, <1>11, <2>5, <2>8
    <3> QED  BY <1>11, <2>3, <3>1, <3>2 DEF Agree
  <2>10. v[c] = x[m]  BY <1>15, <2>1, <2>4, <2>6, <2>7, HornerSame
  <2> QED  BY <2>2, <2>8, <2>10
<1> QED  BY <1>9, <1>11, <1>12, <1>14, <1>15 DEF Spells

(* A text of digits with the given number of decimals.                     *)
Renders(w, x, places) ==
  /\ IsSeq(w) /\ Len(w) \in Nat \ {0} /\ IsDigit(w[1]) /\ IsDigit(w[Len(w)])
  /\ \E p \in 1 .. (Len(w) + 1) :
       Shaped(w, Len(w), p) /\ Counted(p, Len(w)) > 0 /\ Decimals(p, Len(w)) = places
  /\ \A v : Horner(w, v) => v[Len(w)] = x

LEMMA SpellsRenders == ASSUME NEW w, NEW x, Spells(w, x) PROVE Renders(w, x, 0)
<1>1. PICK n \in Nat \ {0} : n = Len(w)  BY DEF Spells
<1>2. \A i \in 1 .. n : IsDigit(w[i])
  <2>1. DigitsOnly(w, 0, Len(w))  BY DEF Spells
  <2> QED  BY <1>1, <2>1 DEF DigitsOnly
<1>3. IsDigit(w[1]) /\ IsDigit(w[n])  BY <1>2, 1 \in 1 .. n, n \in 1 .. n
<1>4. PICK p \in 1 .. (n + 1) : p = n + 1  OBVIOUS
<1>5. Shaped(w, n, p)  BY <1>2, <1>4 DEF Shaped
<1>6. Counted(p, n) > 0 /\ Decimals(p, n) = 0  BY <1>4 DEF Counted, Decimals
<1>7. IsSeq(w) /\ \A v : Horner(w, v) => v[Len(w)] = x  BY DEF Spells
<1> QED  BY <1>1, <1>3, <1>5, <1>6, <1>7 DEF Renders

(* A point behind the first dot of the m characters of s, sc in front of   *)
(* the end.                                                                *)
Split(s, m, dot, sc) == m = Len(s) /\ m = dot + sc /\ dot > 0 /\ sc > 0

LEMMA PointRenders ==
  ASSUME NEW s, NEW x, Spells(s, x), NEW sc \in Nat, NEW dot \in Nat, NEW m \in Nat, Split(s, m, dot, sc)
  PROVE  Renders(SubSeq(s, 1, dot) \o <<".">> \o SubSeq(s, dot + 1, Len(s)), x, sc)
<1>1. m = Len(s)  BY DEF Split
<1>2. m = dot + sc /\ dot > 0 /\ sc > 0  BY DEF Split
<1>3. PICK a, b, c : a = SubSeq(s, 1, dot) /\ b = <<".">> /\ c = SubSeq(s, dot + 1, Len(s))  OBVIOUS
<1>4. IsSeq(a) /\ Len(a) = dot /\ \A i \in 1 .. dot : a[i] = s[i]
  <2>1. PICK z \in Nat : z = 0  OBVIOUS
  <2>2. z + 1 = 1 /\ z + dot = dot  BY <2>1
  <2>3. Cut(a, s, z, dot)  BY <1>3, <2>2 DEF Cut
  <2>4. Copies(a, s, z, dot)  BY <2>3, CutAt
  <2>5. \A i \in 1 .. dot : z + i = i  BY <2>1
  <2> QED  BY <2>4, <2>5 DEF Copies
<1>5. IsSeq(c) /\ Len(c) = sc /\ \A i \in 1 .. sc : c[i] = s[dot + i]
  <2>1. Cut(c, s, dot, sc)
    <3>1. c = SubSeq(s, dot + 1, m)  BY <1>1, <1>3
    <3> QED  BY <1>2, <3>1 DEF Cut
  <2>2. Copies(c, s, dot, sc)  BY <2>1, CutAt
  <2> QED  BY <2>2 DEF Copies
<1>6. IsSeq(b) /\ Len(b) = 1 /\ b[1] = "."  BY <1>3, Tuples
<1>7. PICK h : h = a \o b  OBVIOUS
<1>8. IsSeq(h) /\ Len(h) = dot + 1 /\ (\A i \in 1 .. dot : h[i] = a[i]) /\ \A i \in 1 .. 1 : h[dot + i] = b[i]
  <2>1. PICK o \in Nat : o = 1  OBVIOUS
  <2>3. Joint(h, a, dot, b, o)  BY <1>4, <1>6, <1>7, <2>1 DEF Joint
  <2>2. Laid(h, a, dot, b, o)  BY <2>3, JointAt
  <2> QED  BY <2>1, <2>2 DEF Laid
<1>9. PICK w : w = h \o c  OBVIOUS
<1>10. /\ IsSeq(w) /\ Len(w) = (dot + 1) + sc
       /\ (\A i \in 1 .. (dot + 1) : w[i] = h[i]) /\ \A i \in 1 .. sc : w[(dot + 1) + i] = c[i]
  <2>1. PICK o \in Nat : o = dot + 1  BY <1>2
  <2>3. Joint(w, h, o, c, sc)  BY <1>5, <1>8, <1>9, <2>1 DEF Joint
  <2>2. Laid(w, h, o, c, sc)  BY <2>3, JointAt
  <2> QED  BY <2>1, <2>2 DEF Laid
<1>11. PICK p \in Nat : p = dot + 1  BY <1>2
<1>12. PICK n \in Nat : n = p + sc  OBVIOUS
<1>13. Len(w) = n  BY <1>10, <1>11, <1>12
<1>14. \A i \in 1 .. dot : w[i] = s[i]
  <2>1. \A i \in 1 .. dot : i \in 1 .. (dot + 1)  BY <1>2
  <2> QED  BY <1>4, <1>8, <1>10, <2>1
<1>15. w[p] = "."
  <2>1. p \in 1 .. (dot + 1) /\ 1 \in 1 .. 1  BY <1>2, <1>11
  <2>2. h[p] = b[1]  BY <1>8, <1>11, <2>1
  <2> QED  BY <1>6, <1>10, <2>1, <2>2
<1>16. \A i \in 1 .. sc : w[p + i] = s[dot + i]  BY <1>5, <1>10, <1>11
<1>17. \A i \in 1 .. m : IsDigit(s[i])
  <2>1. DigitsOnly(s, 0, Len(s))  BY DEF Spells
  <2> QED  BY <1>1, <2>1 DEF DigitsOnly
<1>18. ASSUME NEW i \in 1 .. n, i # p PROVE IsDigit(w[i])
  <2>1. CASE i < p
    <3>1. i \in 1 .. dot /\ i \in 1 .. m  BY <1>2, <1>11, <2>1
    <3> QED  BY <1>14, <1>17, <3>1
  <2>2. CASE ~(i < p)
    <3>1. PICK k \in 1 .. sc : i = p + k
      <4>1. i - p \in 1 .. sc /\ i = p + (i - p)  BY <1>12, <1>18, <2>2
      <4> QED  BY <4>1
    <3>2. dot + k \in 1 .. m  BY <1>2
    <3> QED  BY <1>16, <1>17, <3>1, <3>2
  <2> QED  BY <2>1, <2>2
<1>19. Shaped(w, n, p)  BY <1>15, <1>18 DEF Shaped
<1>20. Counted(p, n) > 0 /\ Decimals(p, n) = sc
  BY <1>2, <1>11, <1>12 DEF Counted, Decimals
<1>21. IsDigit(w[1]) /\ IsDigit(w[n])
  <2>1. 1 \in 1 .. n /\ n \in 1 .. n /\ 1 # p /\ n # p  BY <1>2, <1>11, <1>12
  <2> QED  BY <1>18, <2>1
<1>22. ASSUME NEW v, Horner(w, v) PROVE v[n] = x
  <2>1. IsSeq(s)  BY DEF Spells
  <2>2. PICK y : Horner(s, y)  BY <2>1, MagnitudeHorner
  <2>3. y[m] = x  BY <1>1, <2>2 DEF Spells
  <2>4. PICK z \in Nat : z = 0  OBVIOUS
  <2>5. v[z] = y[z]  BY <1>22, <2>2, <2>4 DEF Horner
  <2>6. Len(w) \in Nat /\ Len(s) \in Nat /\ dot \in Nat /\ dot <= Len(w) /\ dot <= Len(s)
    BY <1>1, <1>2, <1>11, <1>12, <1>13, <2>4
  <2>7. Agree(w, z, dot, s, z, dot, dot)
    <3>1. dot = z + dot /\ \A i \in 1 .. dot : z + i = i  BY <1>2, <2>4
    <3> QED  BY <1>14, <2>6, <3>1 DEF Agree
  <2>8. v[dot] = y[dot]  BY <1>22, <2>2, <2>5, <2>7, HornerSame
  <2>9. dot + 1 <= Len(w) /\ ~IsDigit(w[dot + 1])
    <3>1. ~IsDigit(".")  BY NoDigits
    <3> QED  BY <1>11, <1>12, <1>13, <1>15, <3>1
  <2>10. v[dot + 1] = v[dot]  BY <1>22, <2>6, <2>9, HornerGrows
  <2>11. v[p] = y[dot]  BY <1>11, <2>8, <2>10
  <2>12. Agree(w, p, n, s, dot, m, sc)
    <3>1. n <= Len(w) /\ m <= Len(s)  BY <1>1, <1>13
    <3> QED  BY <1>2, <1>12, <1>16, <2>6, <3>1 DEF Agree
  <2>14. v[n] = y[m]  BY <1>22, <2>2, <2>11, <2>12, HornerSame
  <2> QED  BY <2>3, <2>14
<1>23. n \in Nat \ {0} /\ p \in 1 .. (n + 1)  BY <1>2, <1>11, <1>12
<1>24. w = SubSeq(s, 1, dot) \o <<".">> \o SubSeq(s, dot + 1, Len(s))  BY <1>3, <1>7, <1>9
<1> QED  BY <1>10, <1>13, <1>19, <1>20, <1>21, <1>22, <1>23, <1>24 DEF Renders

(* FormatDecimal writes the mantissa with the scale's decimals.            *)
LEMMA DecimalRenders ==
  ASSUME NEW m \in Int, NEW sc \in Nat
  PROVE  \E w : FormatDecimal(m, sc) = Signed(m, w) /\ Renders(w, Abs(m), sc)
<1>1. Abs(m) \in Nat  BY DEF Abs
<1>2. CASE sc = 0
  <2>1. FormatDecimal(m, sc) = Signed(m, FormatUint[Abs(m)])  BY <1>2 DEF FormatDecimal, FormatInt
  <2>2. Renders(FormatUint[Abs(m)], Abs(m), sc)  BY <1>1, <1>2, FormatUintSpells, SpellsRenders
  <2> QED  BY <2>1, <2>2
<1>3. CASE sc # 0
  <2>1. sc # 0 /\ ~(sc <= 0) /\ sc + 1 \in Nat  BY <1>3
  <2>2. PICK s : s = Padded(Abs(m), sc + 1)  OBVIOUS
  <2>3. Spells(s, Abs(m)) /\ Len(s) >= sc + 1  BY <1>1, <2>1, <2>2, PaddedSpells
  <2>8. PICK n \in Nat : n = Len(s)  BY <2>3 DEF Spells
  <2>4. PICK dot \in Nat : dot # 0 /\ dot = n - sc
    <3>1. n - sc \in Nat /\ n - sc # 0  BY <2>1, <2>3, <2>8
    <3> QED  BY <3>1
  <2>9. Split(s, n, dot, sc)  BY <2>1, <2>4, <2>8 DEF Split
  <2>5. PICK w : w = SubSeq(s, 1, dot) \o <<".">> \o SubSeq(s, dot + 1, Len(s))  OBVIOUS
  <2>6. FormatDecimal(m, sc) = Signed(m, w)  BY <2>1, <2>2, <2>4, <2>5, <2>8 DEF FormatDecimal
  <2>7. Renders(w, Abs(m), sc)  BY <2>1, <2>3, <2>5, <2>8, <2>9, PointRenders
  <2> QED  BY <2>6, <2>7
<1> QED  BY <1>2, <1>3

(* TrimSpace cuts the blanks in front and behind.                          *)
Trimmed(t, s, a, k) ==
  /\ a \in Nat /\ k \in Nat /\ k > 0 /\ Len(s) \in Nat /\ a + k <= Len(s)
  /\ Copies(t, s, a, k) /\ s[a + 1] # " " /\ s[a + k] # " "
  /\ \A i \in 1 .. Len(s) : s[i] # " " => i > a /\ i <= a + k

LEMMA TrimAt ==
  ASSUME NEW s, IsSeq(s)
  PROVE  \/ TrimSpace(s) = <<>> /\ \A i \in 1 .. Len(s) : s[i] = " "
         \/ \E a, k : Trimmed(TrimSpace(s), s, a, k)
<1>1. PICK n \in Nat : n = Len(s) /\ DOMAIN s = 1 .. n
  <2>1. Len(s) \in Nat /\ DOMAIN s = 1 .. Len(s)  BY SeqShape
  <2> QED  BY <2>1
<1>2. PICK kept : kept = {i \in DOMAIN s : s[i] # " "}  OBVIOUS
<1>3. \A i : i \in kept <=> i \in 1 .. n /\ s[i] # " "  BY <1>1, <1>2
<1>4. CASE kept = {}
  <2>1. TrimSpace(s) = <<>>  BY <1>2, <1>4 DEF TrimSpace
  <2>2. \A i \in 1 .. n : s[i] = " "  BY <1>3, <1>4
  <2> QED  BY <1>1, <2>1, <2>2
<1>5. CASE kept # {}
  <2>1. kept \in SUBSET (1 .. n)  BY <1>3
  <2>2. PICK x, y : x = Min(kept) /\ y = Max(kept)  OBVIOUS
  <2>3. x \in kept /\ y \in kept /\ \A i \in kept : x <= i /\ y >= i  BY <1>5, <2>1, <2>2, Extremes
  <2>4. x \in 1 .. n /\ y \in 1 .. n  BY <1>3, <2>3
  <2>14. s[x] # " " /\ s[y] # " "  BY <1>3, <2>3
  <2>15. x <= y  BY <2>3
  <2>5. PICK a \in Nat : x = a + 1
    <3>1. x - 1 \in Nat /\ x = (x - 1) + 1  BY <2>4
    <3> QED  BY <3>1
  <2>6. PICK k \in Nat : k > 0 /\ y = a + k
    <3>1. y - a \in Nat /\ y - a > 0 /\ y = a + (y - a)  BY <2>4, <2>5, <2>15
    <3> QED  BY <3>1
  <2>7. PICK t : t = TrimSpace(s)  OBVIOUS
  <2>8. t = SubSeq(s, x, y)  BY <1>2, <1>5, <2>2, <2>7 DEF TrimSpace
  <2>9. Cut(t, s, a, k)  BY <2>5, <2>6, <2>8 DEF Cut
  <2>10. Copies(t, s, a, k)  BY <2>9, CutAt
  <2>11. \A i \in 1 .. n : s[i] # " " => i > a /\ i <= a + k
    <3>1. ASSUME NEW i \in kept PROVE i > a /\ i <= a + k
      <4>1. x <= i /\ y >= i  BY <2>3
      <4>2. i \in 1 .. n  BY <2>1
      <4> QED  BY <2>5, <2>6, <4>1, <4>2
    <3> QED  BY <1>3, <3>1
  <2>12. a + k <= n  BY <2>4, <2>6
  <2>13. s[a + 1] # " " /\ s[a + k] # " "  BY <2>5, <2>6, <2>14
  <2> QED  BY <1>1, <2>6, <2>7, <2>10, <2>11, <2>12, <2>13 DEF Trimmed
<1> QED  BY <1>4, <1>5

(* A text without blanks at its ends is trimmed already.                   *)
Solid(s, n) == IsSeq(s) /\ n \in Nat /\ n = Len(s) /\ n > 0 /\ s[1] # " " /\ s[n] # " "

LEMMA TrimNothing ==
  ASSUME NEW s, NEW n, Solid(s, n)
  PROVE  TrimSpace(s) = s
<1>0. n \in Nat /\ n > 0  BY DEF Solid
<1>1. 1 \in 1 .. n /\ n \in 1 .. n  BY <1>0
<1>10. IsSeq(s) /\ n = Len(s) /\ s[1] # " " /\ s[n] # " "  BY DEF Solid
<1>2. PICK a, k : Trimmed(TrimSpace(s), s, a, k)
  <2>1. ~ \A i \in 1 .. Len(s) : s[i] = " "  BY <1>1, <1>10
  <2> QED  BY <1>10, <2>1, TrimAt
<1>3. PICK t : t = TrimSpace(s)  OBVIOUS
<1>4. a \in Nat /\ k \in Nat /\ a + k <= n /\ Copies(t, s, a, k)  BY <1>2, <1>3, <1>10 DEF Trimmed
<1>5. \A i \in 1 .. n : s[i] # " " => i > a /\ i <= a + k  BY <1>2, <1>10 DEF Trimmed
<1>6. 1 > a /\ n <= a + k  BY <1>1, <1>5, <1>10
<1>11. a \in Nat /\ k \in Nat /\ a + k <= n  BY <1>4
<1>7. a = 0 /\ k = n  BY <1>0, <1>6, <1>11
<1>8. IsSeq(t) /\ Len(t) = n /\ \A i \in 1 .. n : t[i] = s[i]
  <2>1. \A i \in 1 .. n : a + i = i  BY <1>0, <1>7
  <2> QED  BY <1>4, <1>7, <2>1 DEF Copies
<1>9. t = s  BY <1>8, <1>10, SameSeq
<1> QED  BY <1>3, <1>9

(* Trimming twice is trimming once.                                        *)
LEMMA TrimTwice == ASSUME NEW s, IsSeq(s) PROVE TrimSpace(TrimSpace(s)) = TrimSpace(s)
<1>1. PICK t : t = TrimSpace(s)  OBVIOUS
<1>2. IsSeq(t)  BY <1>1, TrimmedSeq
<1>3. CASE t = <<>>
  <2>1. Len(t) = 0  BY <1>3, Tuples
  <2>2. ~ \E a, k : Trimmed(TrimSpace(t), t, a, k)  
    <3>1. ASSUME NEW a, NEW k, Trimmed(TrimSpace(t), t, a, k) PROVE FALSE
      <4>1. a \in Nat /\ k \in Nat /\ k > 0 /\ a + k <= 0  BY <2>1, <3>1 DEF Trimmed
      <4> QED  BY <4>1
    <3> QED  BY <3>1
  <2>3. TrimSpace(t) = <<>>  BY <1>2, <2>2, TrimAt
  <2> QED  BY <1>1, <1>3, <2>3
<1>4. CASE t # <<>>
  <2>1. PICK a, k : Trimmed(t, s, a, k)  BY <1>1, <1>4, TrimAt
  <2>2. k \in Nat /\ k > 0 /\ Copies(t, s, a, k) /\ s[a + 1] # " " /\ s[a + k] # " "  BY <2>1 DEF Trimmed
  <2>6. k \in Nat /\ k > 0  BY <2>2
  <2>3. 1 \in 1 .. k /\ k \in 1 .. k  BY <2>6
  <2>4. Len(t) = k /\ t[1] # " " /\ t[k] # " "  BY <2>2, <2>3 DEF Copies
  <2>7. Solid(t, k)  BY <1>2, <2>2, <2>4 DEF Solid
  <2>5. TrimSpace(t) = t  BY <2>7, TrimNothing
  <2> QED  BY <1>1, <2>5
<1> QED  BY <1>3, <1>4

(* What a text stands for: a sign, a number of units and its decimals.     *)
Reads(t, neg, x, places) ==
  /\ IsSeq(t) /\ t # <<>> /\ TrimSpace(t) = t /\ IsNumeral(t)
  /\ Magnitude(t) = x /\ Places(t) = places /\ (Dots(t) = {} <=> places = 0)
  /\ Negative(t) <=> neg

LEMMA UnsignedReads ==
  ASSUME NEW t, IsSeq(t), t # <<>>, TrimSpace(t) = t, NEW w, Rest(t) = w, NEW x, NEW places, Renders(w, x, places)
  PROVE  Reads(t, Negative(t), x, places)
<1>1. PICK n \in Nat : n = Len(w) /\ n > 0  BY DEF Renders
<1>2. PICK p \in 1 .. (n + 1) : Shaped(w, n, p) /\ Counted(p, n) > 0 /\ Decimals(p, n) = places
  BY <1>1 DEF Renders
<1>3. Point(w, n) = p  BY <1>2, PointOf
<1>4. Point(w, n) # 0  BY <1>3
<1>5. IsNumeral(t)  BY <1>1, <1>2, <1>3, <1>4, NumeralShaped
<1>6. Places(t) = places /\ (Dots(t) = {} <=> p = n + 1)  BY <1>1, <1>2, <1>3, <1>4, PlacesShaped
<1>7. p = n + 1 <=> places = 0
  <2>1. p # n
    <3>1. n \in 1 .. n /\ IsDigit(w[n])  BY <1>1 DEF Renders
    <3>2. p = n => w[n] = "."  BY <1>2, <3>1 DEF Shaped
    <3> QED  BY <3>1, <3>2, NoDigits
  <2> QED  BY <1>2, <2>1 DEF Decimals
<1>8. \E v : Horner(w, v) /\ Magnitude(t) = v[n]  BY <1>1, MagnitudeShaped
<1>9. Magnitude(t) = x  BY <1>1, <1>8 DEF Renders
<1> QED  BY <1>5, <1>6, <1>7, <1>9 DEF Reads

LEMMA SignedReads ==
  ASSUME NEW m \in Int, NEW w, NEW x, NEW places, Renders(w, x, places), NEW t, t = Signed(m, w)
  PROVE  Reads(t, m < 0, x, places)
<1>1. PICK n \in Nat : n = Len(w) /\ n > 0  BY DEF Renders
<1>2. IsSeq(w) /\ IsDigit(w[1]) /\ IsDigit(w[n])  BY <1>1 DEF Renders
<1>3. w[1] \notin {"-", "+", " "} /\ w[n] # " "  BY <1>2, NoDigits
<1>4. CASE m < 0
  <2>1. PICK u, o : u = <<"-">> /\ o = 1  OBVIOUS
  <2>2. IsSeq(u) /\ Len(u) = o /\ u[1] = "-"  BY <2>1, Tuples
  <2>3. t = u \o w  BY <1>4, <2>1 DEF Signed
  <2>4. Joint(t, u, o, w, n)  BY <1>1, <1>2, <2>2, <2>3 DEF Joint
  <2>5. Laid(t, u, o, w, n)  BY <2>4, JointAt
  <2>6. IsSeq(t) /\ Len(t) = 1 + n /\ t[1] = "-" /\ \A i \in 1 .. n : t[1 + i] = w[i]
    <3>1. 1 \in 1 .. 1  OBVIOUS
    <3> QED  BY <2>1, <2>2, <2>5, <3>1 DEF Laid
  <2>7. t # <<>>
    <3>1. Len(t) # 0  BY <2>6
    <3> QED  BY <3>1, Tuples
  <2>8. TrimSpace(t) = t
    <3>1. PICK k \in Nat : k = 1 + n /\ k > 0  OBVIOUS
    <3>2. n \in 1 .. n  BY <1>1
    <3>3. t[1] # " " /\ t[k] # " "  BY <1>3, <2>6, <3>1, <3>2
    <3>4. Solid(t, k)  BY <2>6, <3>1, <3>3 DEF Solid
    <3> QED  BY <3>4, TrimNothing
  <2>9. Negative(t)  BY <2>6, <2>7 DEF Negative
  <2>10. Rest(t) = w
    <3>1. PICK off \in {0, 1} :
            /\ IsSeq(Rest(t)) /\ Len(t) = Len(Rest(t)) + off /\ Len(Rest(t)) \in Nat
            /\ \A i \in 1 .. Len(Rest(t)) : Rest(t)[i] = t[i + off]
            /\ off = 0 => t[1] \notin {"-", "+"}
      BY <2>6, <2>7, Unsign
    <3>2. off = 1  BY <2>6, <3>1
    <3>3. Len(Rest(t)) = n  BY <2>6, <3>1, <3>2
    <3>4. \A i \in 1 .. n : Rest(t)[i] = w[i]
      <4>1. \A i \in 1 .. n : i + off = 1 + i  BY <3>2
      <4> QED  BY <2>6, <3>1, <3>3, <4>1
    <3> QED  BY <1>1, <1>2, <3>1, <3>3, <3>4, SameSeq
  <2>11. Reads(t, Negative(t), x, places)  BY <2>6, <2>7, <2>8, <2>10, UnsignedReads
  <2> QED  BY <1>4, <2>9, <2>11 DEF Reads
<1>5. CASE ~(m < 0)
  <2>1. t = w  BY <1>5 DEF Signed
  <2>2. t # <<>>
    <3>1. Len(t) # 0  BY <1>1, <2>1
    <3> QED  BY <3>1, Tuples
  <2>7. Solid(t, n)  BY <1>1, <1>2, <1>3, <2>1 DEF Solid
  <2>3. TrimSpace(t) = t  BY <2>7, TrimNothing
  <2>4. ~Negative(t)  BY <1>3, <2>1 DEF Negative
  <2>5. Rest(t) = w
    <3>1. PICK off \in {0, 1} :
            /\ IsSeq(Rest(t)) /\ Len(t) = Len(Rest(t)) + off /\ Len(Rest(t)) \in Nat
            /\ \A i \in 1 .. Len(Rest(t)) : Rest(t)[i] = t[i + off]
            /\ off = extractSign(t)[2]
      BY <1>2, <2>1, <2>2, Unsign
    <3>2. off = 0
      <4>1. extractSign(t)[2] = 0  BY <1>3, <2>1 DEF extractSign
      <4> QED  BY <3>1, <4>1
    <3>3. Len(Rest(t)) = n  BY <1>1, <2>1, <3>1, <3>2
    <3>4. \A i \in 1 .. n : Rest(t)[i] = w[i]
      <4>1. \A i \in 1 .. n : i + off = i  BY <3>2
      <4> QED  BY <2>1, <3>1, <3>3, <4>1
    <3> QED  BY <1>1, <1>2, <3>1, <3>3, <3>4, SameSeq
  <2>6. Reads(t, Negative(t), x, places)  BY <1>2, <2>1, <2>2, <2>3, <2>5, UnsignedReads
  <2> QED  BY <1>5, <2>4, <2>6 DEF Reads
<1> QED  BY <1>4, <1>5

LEMMA Euclid == ASSUME NEW n \in Int, NEW P \in Int, P > 0 PROVE n % P = n - P * (n \div P)
OBVIOUS

LEMMA DivExact ==
  ASSUME NEW x \in Int, NEW k \in Nat, k > 0, x % k = 0
  PROVE  \E y \in Nat : /\ Abs(x) = y * k /\ Abs(x) \div k = y
                        /\ x >= 0 => x \div k = y
                        /\ x < 0 => y > 0
<1>1. PICK q \in Int : x = q * k
  <2>1. PICK q \in Int : q = x \div k  OBVIOUS
  <2>2. k \in Int  OBVIOUS
  <2>3. x % k = x - k * (x \div k)  BY <2>2, Euclid
  <2>4. PICK z \in Int : z = k * q  OBVIOUS
  <2>5. 0 = x - z  BY <2>1, <2>3, <2>4
  <2>6. x = z  BY <2>5
  <2>7. k * q = q * k  OBVIOUS
  <2> QED  BY <2>4, <2>6, <2>7
<1>2. \A y \in Nat : (y * k) \div k = y
  <2> SUFFICES ASSUME NEW y \in Nat PROVE (y * k) \div k = y  OBVIOUS
  <2>1. PICK rest \in Nat : rest = 0  OBVIOUS
  <2>2. rest < k  BY <2>1
  <2>3. (y * k + rest) \div k = y  BY <2>2
  <2>4. y * k \in Int  OBVIOUS
  <2>5. y * k + rest = y * k  BY <2>1, <2>4
  <2> QED  BY <2>3, <2>5
<1>3. CASE q >= 0
  <2>1. x >= 0  BY <1>1, <1>3
  <2>2. Abs(x) = x /\ q \in Nat  BY <1>3, <2>1 DEF Abs
  <2> QED  BY <1>1, <1>2, <2>1, <2>2
<1>4. CASE ~(q >= 0)
  <2>1. PICK y \in Nat : y = - q /\ y > 0  BY <1>4
  <2>2. x = - (y * k)
    <3>1. q = - y  BY <2>1
    <3>2. (- y) * k = - (y * k)  OBVIOUS
    <3> QED  BY <1>1, <3>1, <3>2
  <2>3. y * k \in Nat /\ y * k > 0  BY <2>1
  <2>4. x < 0 /\ Abs(x) = y * k  BY <2>2, <2>3 DEF Abs
  <2>5. ~(x >= 0)  BY <2>4
  <2> QED  BY <1>2, <2>1, <2>4, <2>5
<1> QED  BY <1>3, <1>4

(* X units of 10^-places are n units of 10^-p.                             *)
Scaled(X, places, n, p) == \E e \in Nat : places = p + e /\ X = n * Pow10[e]

(* FormatFloat writes a number that is the float.                          *)
LEMMA FloatReads ==
  ASSUME NEW x \in Int, NEW t, t = FormatFloat(x)
  PROVE  \E pl, y \in Nat : /\ Reads(t, x < 0, y, pl) /\ Scaled(Abs(x), FloatDigits, y, pl)
                            /\ pl <= FloatDigits
                            /\ pl # 0 => x % FloatUnit # 0
<1>1. PICK fd \in 0 .. 9 : fd = FloatDigits  BY FloatUnits
<1>2. PICK c : c = FracDigits(x)  OBVIOUS
<1>3. /\ c \in 0 .. fd /\ fd - c \in Nat /\ x % Pow10[fd - c] = 0
      /\ \A e \in 0 .. (c - 1) : x % Pow10[fd - e] # 0
  BY <1>1, <1>2, FracDigitsOf
<1>4. PICK e \in Nat : e = fd - c  BY <1>3
<1>5. PICK k \in Nat : k = Pow10[e] /\ k > 0
  <2>1. Pow10[e] \in Nat /\ Pow10[e] > 0  BY Powers
  <2> QED  BY <2>1
<1>6. x % k = 0  BY <1>3, <1>4, <1>5
<1>7. PICK y \in Nat : /\ Abs(x) = y * k /\ Abs(x) \div k = y
                       /\ x >= 0 => x \div k = y
                       /\ x < 0 => y > 0
  BY <1>5, <1>6, DivExact
<1>8. PICK m \in Int : m = IF x < 0 THEN - y ELSE y  OBVIOUS
<1>9. FormatFloat(x) = FormatDecimal(m, c)
  <2>1. k = Pow10[FloatDigits - FracDigits(x)]  BY <1>1, <1>2, <1>4, <1>5
  <2>2. CASE x < 0
    <3>1. m = - (Abs(x) \div k)  BY <1>7, <1>8, <2>2
    <3> QED  BY <1>2, <2>1, <2>2, <3>1 DEF FormatFloat
  <2>3. CASE ~(x < 0)
    <3>1. m = x \div k  BY <1>7, <1>8, <2>3
    <3> QED  BY <1>2, <2>1, <2>3, <3>1 DEF FormatFloat
  <2> QED  BY <2>2, <2>3
<1>10. c \in Nat /\ c <= fd  BY <1>3
<1>11. PICK w : FormatDecimal(m, c) = Signed(m, w) /\ Renders(w, Abs(m), c)  BY <1>10, DecimalRenders
<1>12. Abs(m) = y /\ (m < 0 <=> x < 0)  BY <1>7, <1>8 DEF Abs
<1>13. Reads(t, m < 0, y, c)  BY <1>9, <1>11, <1>12, SignedReads
<1>14. Reads(t, x < 0, y, c)  BY <1>12, <1>13 DEF Reads
<1>15. Scaled(Abs(x), fd, y, c)
  <2>1. fd = c + e  BY <1>3, <1>4, <1>10
  <2> QED  BY <1>5, <1>7, <2>1 DEF Scaled
<1>16. c # 0 => x % FloatUnit # 0
  <2> SUFFICES ASSUME c # 0 PROVE x % FloatUnit # 0
    OBVIOUS
  <2>1. 0 \in 0 .. (c - 1) /\ fd - 0 = fd  BY <1>10
  <2>2. x % Pow10[fd] # 0  BY <1>3, <2>1
  <2> QED  BY <1>1, <2>2, FloatUnits
<1> QED  BY <1>1, <1>10, <1>14, <1>15, <1>16

(* Units may be exchanged for smaller ones.                                *)
LEMMA DivScaled ==
  ASSUME NEW n \in Nat, NEW P \in Nat, P > 0, NEW E \in Nat, E > 0
  PROVE  (n * E) \div (P * E) = n \div P
<1>1. PICK q \in Nat : q = n \div P  OBVIOUS
<1>2. PICK r \in Nat : r = n % P /\ r < P  OBVIOUS
<1>3. n = q * P + r
  <2>1. n % P = n - P * (n \div P)
    <3>1. P \in Int /\ n \in Int  OBVIOUS
    <3> QED  BY <3>1, Euclid
  <2>2. P * q = q * P  OBVIOUS
  <2> QED  BY <1>1, <1>2, <2>1, <2>2
<1>4. PICK D \in Nat : D = P * E /\ D > 0
  <2>1. P * E \in Nat /\ P * E > 0  OBVIOUS
  <2> QED  BY <2>1
<1>5. PICK rest \in Nat : rest = r * E /\ rest < D
  <2>1. r * E \in Nat /\ r * E < P * E  BY <1>2
  <2> QED  BY <1>4, <2>1
<1>6. n * E = q * D + rest
  <2>1. (q * P + r) * E = q * (P * E) + r * E  OBVIOUS
  <2> QED  BY <1>3, <1>4, <1>5, <2>1
<1>7. (q * D + rest) \div D = q  BY <1>5
<1> QED  BY <1>1, <1>4, <1>6, <1>7

LEMMA ScaledReading ==
  ASSUME NEW n \in Nat, NEW p \in Nat, NEW X, NEW places, Scaled(X, places, n, p), NEW sc \in Nat
  PROVE  /\ X \div Pow10[places] = n \div Pow10[p]
         /\ Rounded(X, places, sc) = Rounded(n, p, sc)
<1>1. PICK e \in Nat : places = p + e /\ X = n * Pow10[e]  BY DEF Scaled
<1>2. PICK E \in Nat : E = Pow10[e] /\ E > 0
  <2>1. Pow10[e] \in Nat /\ Pow10[e] > 0  BY Powers
  <2> QED  BY <2>1
<1>3. \A j \in Nat : Pow10[j] \in Nat /\ Pow10[j] > 0  BY Powers
<1>4. X \div Pow10[places] = n \div Pow10[p]
  <2>1. PICK P \in Nat : P = Pow10[p] /\ P > 0  BY <1>3
  <2>2. Pow10[places] = P * E  BY <1>1, <1>2, <2>1, PowerSum
  <2>3. (n * E) \div (P * E) = n \div P  BY <1>2, <2>1, DivScaled
  <2> QED  BY <1>1, <1>2, <2>1, <2>2, <2>3
<1>5. CASE places <= sc
  <2>1. PICK d \in Nat : d = sc - places  BY <1>1, <1>5
  <2>2. sc - p = e + d /\ p <= sc  BY <1>1, <2>1
  <2>3. Pow10[e + d] = E * Pow10[d]  BY <1>2, PowerSum
  <2>4. PICK A \in Nat : A = Pow10[d]  BY <1>3
  <2>5. (n * E) * A = n * (E * A)  OBVIOUS
  <2>6. Rounded(X, places, sc) = (n * E) * A  BY <1>1, <1>2, <1>5, <2>1, <2>4 DEF Rounded
  <2>7. Rounded(n, p, sc) = n * (E * A)  BY <2>2, <2>3, <2>4 DEF Rounded
  <2> QED  BY <1>4, <2>5, <2>6, <2>7
<1>6. CASE ~(places <= sc) /\ p <= sc
  <2>1. PICK g \in Nat : places - sc = g + 1
    <3>1. places - sc - 1 \in Nat /\ places - sc = (places - sc - 1) + 1  BY <1>1, <1>6
    <3> QED  BY <3>1
  <2>2. PICK h \in Nat : h = sc - p  BY <1>6
  <2>3. e = h + (g + 1)  BY <1>1, <2>1, <2>2
  <2>4. PICK G \in Nat : G = Pow10[g] /\ G > 0  BY <1>3
  <2>5. PICK H \in Nat : H = Pow10[h]  BY <1>3
  <2>6. Pow10[g + 1] = 10 * G  BY <2>4, Powers
  <2>7. PICK D \in Nat : D = Pow10[g + 1] /\ D > 0
    <3>1. g + 1 \in Nat  OBVIOUS
    <3> QED  BY <1>3, <3>1
  <2>8. E = H * D
    <3>1. g + 1 \in Nat  OBVIOUS
    <3> QED  BY <1>2, <2>3, <2>5, <2>7, <3>1, PowerSum
  <2>9. PICK rest \in Nat : rest = 5 * G /\ rest < D  BY <2>4, <2>6, <2>7
  <2>10. PICK Y \in Nat : Y = n * H  OBVIOUS
  <2>11. n * E = Y * D
    <3>1. n * (H * D) = (n * H) * D  OBVIOUS
    <3> QED  BY <2>8, <2>10, <3>1
  <2>12. (Y * D + rest) \div D = Y  BY <2>9
  <2>13. places - sc - 1 = g  BY <1>1, <2>1
  <2>14. Rounded(X, places, sc) = (n * E + 5 * G) \div D
    BY <1>1, <1>2, <1>6, <2>1, <2>4, <2>7, <2>13 DEF Rounded
  <2>15. Rounded(n, p, sc) = n * H  BY <1>6, <2>2, <2>5 DEF Rounded
  <2>16. n * E + 5 * G = Y * D + rest  BY <2>9, <2>11
  <2> QED  BY <1>4, <2>10, <2>12, <2>14, <2>15, <2>16
<1>7. CASE ~(p <= sc)
  <2>1. PICK g \in Nat : p - sc = g + 1
    <3>1. p - sc - 1 \in Nat /\ p - sc = (p - sc - 1) + 1  BY <1>7
    <3> QED  BY <3>1
  <2>2. p - sc - 1 = g /\ places - sc - 1 = g + e /\ places - sc = (g + 1) + e /\ ~(places <= sc)
    BY <1>1, <1>7, <2>1
  <2>3. PICK G \in Nat : G = Pow10[g]  BY <1>3
  <2>4. PICK D \in Nat : D = Pow10[g + 1] /\ D > 0
    <3>1. g + 1 \in Nat  OBVIOUS
    <3> QED  BY <1>3, <3>1
  <2>5. Pow10[g + e] = G * E  BY <1>2, <2>3, PowerSum
  <2>6. Pow10[(g + 1) + e] = D * E
    <3>1. g + 1 \in Nat  OBVIOUS
    <3> QED  BY <1>2, <2>4, <3>1, PowerSum
  <2>7. PICK N \in Nat : N = n + 5 * G  OBVIOUS
  <2>8. (N * E) \div (D * E) = N \div D  BY <1>2, <2>4, DivScaled
  <2>9. N * E = n * E + 5 * (G * E)  BY <2>7
  <2>10. Rounded(X, places, sc) = (n * E + 5 * (G * E)) \div (D * E)
    BY <1>1, <1>2, <2>2, <2>5, <2>6 DEF Rounded
  <2>11. Rounded(n, p, sc) = N \div D  BY <1>7, <2>1, <2>2, <2>3, <2>4, <2>7 DEF Rounded
  <2> QED  BY <1>4, <2>8, <2>9, <2>10, <2>11
<1> QED  BY <1>5, <1>6, <1>7

(* A text with an "e" in it is no number.                                  *)
Lettered(u) == IsSeq(u) /\ \E i \in 1 .. Len(u) : u[i] = "e"

Has(s, i, ch) == i \in 1 .. Len(s) /\ s[i] = ch /\ ch # " "

LEMMA LetterKept ==
  ASSUME NEW s, NEW ch, IsSeq(s), NEW i, Has(s, i, ch)
  PROVE  \E j \in 1 .. Len(TrimSpace(s)) : TrimSpace(s)[j] = ch
<1>1. PICK t : t = TrimSpace(s)  OBVIOUS
<1>7. i \in 1 .. Len(s)  BY DEF Has
<1>8. s[i] = ch /\ ch # " "  BY DEF Has
<1>2. PICK a, k : Trimmed(t, s, a, k)  BY <1>1, <1>7, <1>8, TrimAt
<1>3. a \in Nat /\ k \in Nat /\ Len(s) \in Nat  BY <1>2 DEF Trimmed
<1>4. i > a /\ i <= a + k  BY <1>2, <1>7, <1>8 DEF Trimmed
<1>5. Len(t) = k /\ \A j \in 1 .. k : t[j] = s[a + j]  BY <1>2 DEF Trimmed, Copies
<1>6. PICK j \in 1 .. k : i = a + j
  <2>1. i \in Int  BY <1>3, <1>7
  <2>2. i - a \in 1 .. k /\ i = a + (i - a)  BY <1>3, <1>4, <2>1
  <2> QED  BY <2>2
<1>9. t[j] = ch  BY <1>5, <1>6, <1>8
<1> QED  BY <1>1, <1>5, <1>6, <1>9

LEMMA LetterRefused ==
  ASSUME NEW u, Lettered(u)
  PROVE  /\ ~CoerceInt64Fast(u).ok /\ ~CoerceFloat64Fast(u).ok /\ u # <<>>
         /\ \A sc \in Int : \A ov : ~CoerceDecimalFast(u, sc, ov).ok
<1>1. IsSeq(u)  BY DEF Lettered
<1>2. PICK t : t = TrimSpace(u)  OBVIOUS
<1>3. IsSeq(t)  BY <1>1, <1>2, TrimmedSeq
<1>4. PICK j \in 1 .. Len(t) : t[j] = "e"
  <2>1. PICK i \in 1 .. Len(u) : u[i] = "e"  BY DEF Lettered
  <2>2. Has(u, i, "e")  BY <2>1 DEF Has
  <2> QED  BY <1>1, <1>2, <2>2, LetterKept
<1>5. t # <<>> /\ u # <<>>
  <2>1. \A s : s = <<>> => Len(s) = 0  BY Tuples
  <2>2. 1 .. 0 = {}  OBVIOUS
  <2> QED  BY <1>4, <2>1, <2>2 DEF Lettered
<1>6. PICK q : q = Rest(t)  OBVIOUS
<1>7. PICK n \in Nat : n = Len(q)  BY <1>3, <1>6, RestSeq, SeqShape
<1>8. PICK i \in 1 .. n : q[i] = "e"
  <2>1. PICK off \in {0, 1} :
          /\ off = extractSign(t)[2] /\ Len(t) \in Nat /\ Len(t) = Len(q) + off
          /\ \A i \in 1 .. Len(q) : q[i] = t[i + off]
    BY <1>3, <1>5, <1>6, Unsign
  <2>2. CASE off = 0
    <3>1. j \in 1 .. n /\ j + 0 = j  BY <1>7, <2>1, <2>2
    <3> QED  BY <1>4, <1>7, <2>1, <2>2, <3>1
  <2>3. CASE off = 1
    <3>1. t[1] \in {"-", "+"}  BY <2>1, <2>3 DEF extractSign
    <3>2. j # 1  BY <1>4, <3>1
    <3>3. j - 1 \in 1 .. n /\ (j - 1) + 1 = j  BY <1>7, <2>1, <2>3, <3>2
    <3> QED  BY <1>4, <1>7, <2>1, <2>3, <3>3
  <2> QED  BY <2>2, <2>3
<1>9. ~IsNumeral(t)
  <2>1. Unsigned(t) = q /\ IsSeq(q)  BY <1>3, <1>5, <1>6, Unsign
  <2>2. i \in DOMAIN q  BY <1>7, <2>1, SeqShape
  <2>3. ~IsDigit(q[i]) /\ q[i] # "."  BY <1>8, NoDigits
  <2> QED  BY <2>1, <2>2, <2>3 DEF IsNumeral
<1>10. q # <<".">>
  <2> SUFFICES ASSUME q = <<".">> PROVE FALSE  OBVIOUS
  <2>1. Len(q) = 1 /\ q[1] = "."  BY Tuples
  <2>2. i = 1  BY <1>7, <2>1
  <2> QED  BY <1>8, <2>1, <2>2
<1>11. ~CoerceInt64Fast(u).ok  BY <1>1, <1>2, <1>9, IntCoerced
<1>12. ~CoerceFloat64Fast(u).ok  BY <1>1, <1>2, <1>9, FloatCoerced
<1>13. ASSUME NEW sc \in Int, NEW ov PROVE ~CoerceDecimalFast(u, sc, ov).ok
  <2>1. PICK D : D = CoerceDecimalFast(u, sc, ov)  OBVIOUS
  <2>2. D.ok /\ ~IsNumeral(t) => t = <<>> \/ Rest(t) = <<".">>  BY <1>1, <1>2, <2>1, DecimalCoerced
  <2> QED  BY <1>5, <1>6, <1>9, <1>10, <2>1, <2>2
<1> QED  BY <1>5, <1>11, <1>12, <1>13

(* What is written for a truth value, or with an exponent, has an "e".     *)
LEMMA Words ==
  /\ \A b : Lettered(Spelling(b))
  /\ \A x \in Int : Scientific(x) => Lettered(FormatV(x))
<1>1. Lettered(<<"t", "r", "u", "e">>)
  <2>1. PICK s : s = <<"t", "r", "u", "e">>  OBVIOUS
  <2>2. s \in Seq({"t", "r", "u", "e"}) /\ Len(s) = 4 /\ s[4] = "e"  BY <2>1
  <2>3. IsSeq(s)  BY <2>2, SeqsAre
  <2>4. 4 \in 1 .. Len(s)  BY <2>2
  <2> QED  BY <2>1, <2>2, <2>3, <2>4 DEF Lettered
<1>2. Lettered(<<"f", "a", "l", "s", "e">>)
  <2>1. PICK s : s = <<"f", "a", "l", "s", "e">>  OBVIOUS
  <2>2. s \in Seq({"f", "a", "l", "s", "e"}) /\ Len(s) = 5 /\ s[5] = "e"  BY <2>1
  <2>3. IsSeq(s)  BY <2>2, SeqsAre
  <2>4. 5 \in 1 .. Len(s)  BY <2>2
  <2> QED  BY <2>1, <2>2, <2>3, <2>4 DEF Lettered
<1>3. ASSUME NEW x \in Int, Scientific(x) PROVE Lettered(FormatV(x))
  <2>1. PICK s : s = <<Digits[1], "e", "+">>  OBVIOUS
  <2>2. s \in Seq({Digits[1], "e", "+"}) /\ Len(s) = 3 /\ s[2] = "e"  BY <2>1
  <2>3. IsSeq(s)  BY <2>2, SeqsAre
  <2>4. FormatV(x) = Signed(x, s)  BY <1>3, <2>1 DEF FormatV
  <2>5. CASE x < 0
    <3>1. PICK w, m : w = <<"-">> \o s /\ m = <<"-">>  OBVIOUS
    <3>2. IsSeq(m) /\ Len(m) = 1  BY <3>1, Tuples
    <3>3. PICK o, n : o = 1 /\ n = 3  OBVIOUS
    <3>4. Joint(w, m, o, s, n)  BY <2>2, <2>3, <3>1, <3>2, <3>3 DEF Joint
    <3>5. Laid(w, m, o, s, n)  BY <3>4, JointAt
    <3>6. IsSeq(w) /\ Len(w) = 1 + 3 /\ \A i \in 1 .. 3 : w[1 + i] = s[i]  BY <3>3, <3>5 DEF Laid
    <3>7. w[3] = "e" /\ 3 \in 1 .. Len(w)
      <4>1. 2 \in 1 .. 3 /\ 1 + 2 = 3  OBVIOUS
      <4>2. w[3] = s[2]  BY <3>6, <4>1
      <4> QED  BY <2>2, <3>6, <4>2
    <3>8. FormatV(x) = w  BY <2>4, <2>5, <3>1 DEF Signed
    <3> QED  BY <3>6, <3>7, <3>8 DEF Lettered
  <2>6. CASE ~(x < 0)
    <3>1. FormatV(x) = s  BY <2>4, <2>6 DEF Signed
    <3>2. 2 \in 1 .. Len(s)  BY <2>2
    <3> QED  BY <2>2, <2>3, <3>1, <3>2 DEF Lettered
  <2> QED  BY <2>5, <2>6
<1> QED  BY <1>1, <1>2, <1>3 DEF Spelling

(* A text that is blank or a lone point has no digits.                     *)
LEMMA NoDigitText ==
  ASSUME NEW s, IsSeq(s), NEW t, t = TrimSpace(s), t = <<>> \/ Rest(t) = <<".">>
  PROVE  DigitsIn(s, 1, Len(s)) = {}
<1> SUFFICES ASSUME NEW i \in 1 .. Len(s), IsDigit(s[i]) PROVE FALSE
  BY DEF DigitsIn
<1>1. PICK ch : ch = s[i]  OBVIOUS
<1>2. IsDigit(ch) /\ ch # " "  BY <1>1, NoDigits
<1>14. Has(s, i, ch)  BY <1>1, <1>2 DEF Has
<1>3. PICK j \in 1 .. Len(t) : t[j] = ch  BY <1>14, LetterKept
<1>4. IsSeq(t)  BY TrimmedSeq
<1>5. t # <<>>
  <2>1. t = <<>> => Len(t) = 0  BY Tuples
  <2>2. 1 .. 0 = {}  OBVIOUS
  <2> QED  BY <1>3, <2>1, <2>2
<1>6. PICK q : q = Rest(t)  OBVIOUS
<1>7. Len(q) = 1 /\ q[1] = "."  BY <1>5, <1>6, Tuples
<1>8. PICK off \in {0, 1} :
        /\ Len(t) = Len(q) + off
        /\ \A h \in 1 .. Len(q) : q[h] = t[h + off]
        /\ off = 1 => ~IsDigit(t[1])
  BY <1>4, <1>5, <1>6, Unsign
<1>9. 1 \in 1 .. Len(q)  BY <1>7
<1>10. t[1 + off] = "."  BY <1>7, <1>8, <1>9
<1>11. j = 1 \/ j = 2  BY <1>7, <1>8
<1>12. CASE off = 0
  <2>1. j = 1 /\ 1 + off = 1  BY <1>7, <1>8, <1>12
  <2> QED  BY <1>2, <1>3, <1>10, <2>1, NoDigits
<1>13. CASE off = 1
  <2>1. 1 + off = 2  BY <1>13
  <2>2. ~IsDigit(t[1]) /\ ~IsDigit(t[2])  BY <1>8, <1>10, <1>13, <2>1, NoDigits
  <2> QED  BY <1>2, <1>3, <1>11, <2>2
<1> QED  BY <1>12, <1>13

LEMMA DotKept ==
  ASSUME NEW s, IsSeq(s), Dots(s) = {}
  PROVE  Dots(TrimSpace(s)) = {}
<1> SUFFICES ASSUME NEW j \in Dots(TrimSpace(s)) PROVE FALSE  OBVIOUS
<1>1. PICK t : t = TrimSpace(s)  OBVIOUS
<1>2. IsSeq(t)  BY <1>1, TrimmedSeq
<1>3. j \in 1 .. Len(t) /\ t[j] = "."  BY <1>1, <1>2, SeqShape DEF Dots
<1>4. t # <<>>
  <2>1. t = <<>> => Len(t) = 0  BY Tuples
  <2>2. 1 .. 0 = {}  OBVIOUS
  <2> QED  BY <1>3, <2>1, <2>2
<1>5. PICK a, k : Trimmed(t, s, a, k)  BY <1>1, <1>4, TrimAt
<1>6. a \in Nat /\ k \in Nat /\ Len(s) \in Nat /\ a + k <= Len(s)  BY <1>5 DEF Trimmed
<1>7. Len(t) = k /\ \A i \in 1 .. k : t[i] = s[a + i]  BY <1>5 DEF Trimmed, Copies
<1>8. a + j \in 1 .. Len(s)
  <2>1. j \in 1 .. k  BY <1>3, <1>7
  <2> QED  BY <1>6, <2>1
<1>9. s[a + j] = "."  BY <1>3, <1>7
<1>10. a + j \in Dots(s)  BY <1>8, <1>9, SeqShape DEF Dots
<1> QED  BY <1>10

(* The text u stands for what the cell c says.                             *)
Fraction(c) == (c.k = "text" /\ ~Whole(c)) \/ (c.k = "number" /\ c.n % FloatUnit # 0)
Says(s, c) ==
  /\ Magnitude(s) \in Nat /\ Places(s) \in Nat
  /\ Scaled(Reading(c).n, Reading(c).places, Magnitude(s), Places(s))
  /\ Reading(c).neg <=> Negative(s)
  /\ Dots(s) = {} => Places(s) = 0
  /\ Dots(s) # {} => Fraction(c)
Stands(u, c) ==
  /\ IsSeq(u) /\ (IsNumeral(TrimSpace(u)) <=> Numeric(c)) /\ (u = <<>> => Blank(c))
  /\ ~Numeric(c) => c.k = "text" /\ TrimSpace(u) = TrimSpace(c.s) /\ IsSeq(c.s)
  /\ Numeric(c) => Says(TrimSpace(u), c)

LEMMA ReadingOf ==
  ASSUME NEW c
  PROVE  /\ c.k = "number" => /\ Reading(c).n = Abs(c.n) /\ Reading(c).places = FloatDigits
                              /\ Reading(c).neg <=> c.n < 0
         /\ c.k # "number" => \A s : s = TrimSpace(c.s) =>
                /\ Reading(c).n = Magnitude(s) /\ Reading(c).places = Places(s)
                /\ Reading(c).neg <=> Negative(s)
BY DEF Reading

LEMMA NumeralParts ==
  ASSUME NEW s, IsSeq(s), IsNumeral(s)
  PROVE  Magnitude(s) \in Nat /\ Places(s) \in Nat /\ (Dots(s) = {} => Places(s) = 0)
<1>1. s # <<>>  BY EmptyNumeral
<1>2. PICK q : q = Rest(s)  OBVIOUS
<1>3. PICK n \in Nat : n = Len(q)  BY <1>2, RestSeq, SeqShape
<1>4. \E v : Horner(q, v) /\ Magnitude(s) = v[n]  BY <1>1, <1>2, <1>3, MagnitudeShaped
<1>5. PICK v : Horner(q, v) /\ Magnitude(s) = v[n]  BY <1>4
<1>6. Magnitude(s) \in Nat
  <2>1. v \in [0 .. n -> Nat]  BY <1>3, <1>5 DEF Horner
  <2>2. n \in 0 .. n  OBVIOUS
  <2> QED  BY <1>5, <2>1, <2>2
<1>7. PICK p : p = Point(q, n)  OBVIOUS
<1>8. p # 0  BY <1>1, <1>2, <1>3, <1>7, NumeralShaped
<1>9. p \in 1 .. (n + 1)  BY <1>7, <1>8, PointOf
<1>10. Places(s) = Decimals(p, n)  BY <1>1, <1>2, <1>3, <1>7, <1>8, PlacesShaped
<1>11. Places(s) \in Nat  BY <1>9, <1>10 DEF Decimals
<1>12. Dots(s) = {} => Places(s) = 0  BY DEF Places
<1> QED  BY <1>6, <1>11, <1>12

LEMMA TextStands ==
  ASSUME NEW c, c.k = "text", IsSeq(c.s), NEW u, IsSeq(u), TrimSpace(u) = TrimSpace(c.s)
  PROVE  Stands(u, c)
<1>1. PICK s : s = TrimSpace(c.s)  OBVIOUS
<1>2. IsSeq(s)  BY <1>1, TrimmedSeq
<1>3. IsNumeral(s) <=> Numeric(c)  BY <1>1 DEF Numeric
<1>4. u = <<>> => Blank(c)
  <2> SUFFICES ASSUME u = <<>> PROVE Blank(c)  OBVIOUS
  <2>1. Len(u) = 0  BY Tuples
  <2>2. ~ \E a, k : Trimmed(TrimSpace(u), u, a, k)
    <3>1. ASSUME NEW a, NEW k, Trimmed(TrimSpace(u), u, a, k) PROVE FALSE
      <4>1. a \in Nat /\ k \in Nat /\ k > 0 /\ a + k <= 0  BY <2>1, <3>1 DEF Trimmed
      <4> QED  BY <4>1
    <3> QED  BY <3>1
  <2>3. TrimSpace(u) = <<>>  BY <2>2, TrimAt
  <2> QED  BY <2>3 DEF Blank
<1>5. ASSUME IsNumeral(s) PROVE Says(s, c)
  <2>1. Magnitude(s) \in Nat /\ Places(s) \in Nat /\ (Dots(s) = {} => Places(s) = 0)
    BY <1>2, <1>5, NumeralParts
  <2>2. Reading(c).n = Magnitude(s) /\ Reading(c).places = Places(s) /\ (Reading(c).neg <=> Negative(s))
    <3>1. c.k # "number"  OBVIOUS
    <3> QED  BY <1>1, <3>1, ReadingOf
  <2>3. Scaled(Magnitude(s), Places(s), Magnitude(s), Places(s))
    <3>1. PICK m \in Nat : m = Magnitude(s)  BY <2>1
    <3>2. PICK p \in Nat : p = Places(s)  BY <2>1
    <3>3. p = p + 0 /\ m = m * 1 /\ 0 \in Nat  OBVIOUS
    <3>4. Pow10[0] = 1  BY Powers
    <3>5. Scaled(m, p, m, p)  BY <3>3, <3>4 DEF Scaled
    <3> QED  BY <3>1, <3>2, <3>5
  <2>4. Dots(s) # {} => ~Whole(c)
    <3>1. Whole(c) => Dots(c.s) = {}  BY DEF Whole
    <3> QED  BY <1>1, <3>1, DotKept
  <2>5. Dots(s) # {} => Fraction(c)  BY <2>4 DEF Fraction
  <2> QED  BY <2>1, <2>2, <2>3, <2>5 DEF Says
<1> QED  BY <1>1, <1>3, <1>4, <1>5 DEF Stands

LEMMA FloatStands ==
  ASSUME NEW c, c.k = "number", c.n \in Int, NEW u, u = FormatFloat(c.n)
  PROVE  Stands(u, c)
<1>1. PICK x \in Int : x = c.n  OBVIOUS
<1>2. u = FormatFloat(x)  BY <1>1
<1>3. PICK pl, y \in Nat : /\ Reads(u, x < 0, y, pl) /\ Scaled(Abs(x), FloatDigits, y, pl)
                           /\ pl <= FloatDigits
                           /\ pl # 0 => x % FloatUnit # 0
  BY <1>2, FloatReads
<1>4. /\ IsSeq(u) /\ u # <<>> /\ TrimSpace(u) = u /\ IsNumeral(u)
      /\ Magnitude(u) = y /\ Places(u) = pl /\ (Dots(u) = {} <=> pl = 0)
      /\ Negative(u) <=> x < 0
  BY <1>3 DEF Reads
<1>5. Numeric(c)  BY DEF Numeric
<1>6. Reading(c).n = Abs(x) /\ Reading(c).places = FloatDigits /\ (Reading(c).neg <=> x < 0)
  BY <1>1, ReadingOf
<1>7. pl # 0 => Fraction(c)  BY <1>1, <1>3 DEF Fraction
<1>8. Says(u, c)  BY <1>1, <1>3, <1>4, <1>6, <1>7 DEF Says
<1> QED  BY <1>4, <1>5, <1>8 DEF Stands

(* The sign of the text is the sign of the cell.                           *)
LEMMA SameSign ==
  ASSUME NEW s, NEW c, Says(s, c), NEW x
  PROVE  WithSign(s, x) = SignedOf(c, x)
BY DEF Says, WithSign, SignedOf

WholePart(c) == SignedOf(c, Reading(c).n \div Pow10[Reading(c).places])

LEMMA IntRead ==
  ASSUME NEW u, NEW c, Stands(u, c), NEW p, p = CoerceInt64Fast(u)
  PROVE  /\ p.ok => Numeric(c) /\ p.val = WholePart(c)
         /\ ~p.ok => \/ ~Numeric(c)
                     \/ Fraction(c)
                     \/ WholePart(c) \notin Int64s
<1>1. IsSeq(u)  BY DEF Stands
<1>2. PICK s : s = TrimSpace(u)  OBVIOUS
<1>3. /\ p.ok <=> /\ IsNumeral(s) /\ Dots(s) = {}
                  /\ WithSign(s, Magnitude(s)) \in (- MaxInt64 - 1) .. MaxInt64
      /\ p.ok => p = Parsed(WithSign(s, Magnitude(s)))
  BY <1>1, <1>2, IntCoerced
<1>4. IsNumeral(s) <=> Numeric(c)  BY <1>2 DEF Stands
<1>5. ASSUME IsNumeral(s), Dots(s) = {} PROVE WithSign(s, Magnitude(s)) = WholePart(c)
  <2>1. Says(s, c)  BY <1>2, <1>4, <1>5 DEF Stands
  <2>2. PICK m \in Nat : m = Magnitude(s)  BY <2>1 DEF Says
  <2>3. PICK z \in Nat : z = 0  OBVIOUS
  <2>4. Scaled(Reading(c).n, Reading(c).places, m, z)  BY <1>5, <2>1, <2>2, <2>3 DEF Says
  <2>5. Reading(c).n \div Pow10[Reading(c).places] = m \div Pow10[z]  BY <2>3, <2>4, ScaledReading
  <2>6. Pow10[z] = 1  BY <2>3, Powers
  <2>7. m \div 1 = m  OBVIOUS
  <2>8. Reading(c).n \div Pow10[Reading(c).places] = m  BY <2>5, <2>6, <2>7
  <2> QED  BY <2>1, <2>2, <2>8, SameSign DEF WholePart
<1>6. IsNumeral(s) /\ Dots(s) # {} => Fraction(c)
  <2>1. IsNumeral(s) => Says(s, c)  BY <1>2, <1>4 DEF Stands
  <2> QED  BY <2>1 DEF Says
<1>7. p.ok => p.val = WithSign(s, Magnitude(s))  BY <1>3, ParseFields
<1>8. Int64s = (- MaxInt64 - 1) .. MaxInt64  BY DEF Int64s
<1> QED  BY <1>3, <1>4, <1>5, <1>6, <1>7, <1>8

(* A float64 can hold what the cell says.                                  *)
FloatFits(c) == /\ Reading(c).places <= FloatDigits
                /\ Reading(c).n \div Pow10[Reading(c).places] <= MaxUint64
                /\ Exactly(Rounded(Reading(c).n, Reading(c).places, FloatDigits))

LEMMA FloatRead ==
  ASSUME NEW u, NEW c, Stands(u, c), NEW p, p = CoerceFloat64Fast(u)
  PROVE  /\ p.ok <=> Numeric(c)
         /\ Numeric(c) /\ FloatFits(c)
            => p.val = SignedOf(c, Rounded(Reading(c).n, Reading(c).places, FloatDigits))
<1>1. IsSeq(u)  BY DEF Stands
<1>2. PICK s : s = TrimSpace(u)  OBVIOUS
<1>3. /\ p.ok <=> IsNumeral(s)
      /\ /\ IsNumeral(s) /\ Places(s) <= FloatDigits
         /\ Magnitude(s) \div Pow10[Places(s)] <= MaxUint64
         /\ Exactly(Magnitude(s) * Pow10[FloatDigits - Places(s)])
         => p = Parsed(WithSign(s, Magnitude(s) * Pow10[FloatDigits - Places(s)]))
  BY <1>1, <1>2, FloatCoerced
<1>4. IsNumeral(s) <=> Numeric(c)  BY <1>2 DEF Stands
<1>5. ASSUME Numeric(c), FloatFits(c)
      PROVE  p.val = SignedOf(c, Rounded(Reading(c).n, Reading(c).places, FloatDigits))
  <2>1. Says(s, c)  BY <1>2, <1>4, <1>5 DEF Stands
  <2>2. PICK m \in Nat : m = Magnitude(s)  BY <2>1 DEF Says
  <2>3. PICK z \in Nat : z = Places(s)  BY <2>1 DEF Says
  <2>4. Scaled(Reading(c).n, Reading(c).places, m, z)  BY <2>1, <2>2, <2>3 DEF Says
  <2>5. PICK fd \in Nat : fd = FloatDigits  BY FloatUnits
  <2>6. /\ Reading(c).n \div Pow10[Reading(c).places] = m \div Pow10[z]
        /\ Rounded(Reading(c).n, Reading(c).places, fd) = Rounded(m, z, fd)
    BY <2>4, ScaledReading
  <2>7. z <= fd
    <3>1. PICK e \in Nat : Reading(c).places = z + e  BY <2>4 DEF Scaled
    <3> QED  BY <1>5, <2>5, <3>1 DEF FloatFits
  <2>8. Rounded(m, z, fd) = m * Pow10[fd - z]  BY <2>7 DEF Rounded
  <2>11. m \div Pow10[z] <= MaxUint64 /\ Exactly(m * Pow10[fd - z])
    BY <1>5, <2>5, <2>6, <2>8 DEF FloatFits
  <2>9. p = Parsed(WithSign(s, m * Pow10[fd - z]))
    BY <1>3, <1>4, <1>5, <2>2, <2>3, <2>5, <2>7, <2>11
  <2>10. p.val = WithSign(s, m * Pow10[fd - z])  BY <2>9, ParseFields
  <2> QED  BY <2>1, <2>5, <2>6, <2>8, <2>10, SameSign
<1> QED  BY <1>3, <1>4, <1>5

LEMMA DecimalRead ==
  ASSUME NEW u, NEW c, Stands(u, c), NEW sc \in Int, NEW ov, NEW p, p = CoerceDecimalFast(u, sc, ov)
  PROVE  /\ ~p.ok => ~Numeric(c) \/ (ov = "fail" /\ Reading(c).places > sc)
         /\ p.ok /\ ~Numeric(c) => p.val = 0 /\ DigitsIn(c.s, 1, Len(c.s)) = {}
         /\ p.ok /\ Numeric(c) /\ sc >= 0 /\ Rounded(Reading(c).n, Reading(c).places, sc) <= MaxInt64
              => p.val = SignedOf(c, Rounded(Reading(c).n, Reading(c).places, sc))
<1>1. IsSeq(u)  BY DEF Stands
<1>2. PICK s : s = TrimSpace(u)  OBVIOUS
<1>3. /\ IsNumeral(s) /\ ~(ov = "fail" /\ Places(s) > sc) => p.ok
      /\ p.ok /\ ~IsNumeral(s) => p = Parsed(0) /\ (s = <<>> \/ Rest(s) = <<".">>)
      /\ p.ok /\ IsNumeral(s) /\ sc >= 0 /\ Rounded(Magnitude(s), Places(s), sc) <= MaxInt64
              => p = Parsed(WithSign(s, Rounded(Magnitude(s), Places(s), sc)))
  BY <1>1, <1>2, DecimalCoerced
<1>4. IsNumeral(s) <=> Numeric(c)  BY <1>2 DEF Stands
<1>5. ASSUME ~p.ok PROVE ~Numeric(c) \/ (ov = "fail" /\ Reading(c).places > sc)
  <2> SUFFICES ASSUME Numeric(c) PROVE ov = "fail" /\ Reading(c).places > sc
    OBVIOUS
  <2>1. ov = "fail" /\ Places(s) > sc  BY <1>3, <1>4, <1>5
  <2>2. Says(s, c)  BY <1>2 DEF Stands
  <2>3. PICK z \in Nat : z = Places(s)  BY <2>2 DEF Says
  <2>4. Scaled(Reading(c).n, Reading(c).places, Magnitude(s), z)  BY <2>2, <2>3 DEF Says
  <2>5. PICK e \in Nat : Reading(c).places = z + e  BY <2>4 DEF Scaled
  <2>6. z + e > sc  BY <2>1, <2>3
  <2> QED  BY <2>1, <2>5, <2>6
<1>6. ASSUME p.ok, ~Numeric(c) PROVE p.val = 0 /\ DigitsIn(c.s, 1, Len(c.s)) = {}
  <2>1. p = Parsed(0) /\ (s = <<>> \/ Rest(s) = <<".">>)  BY <1>3, <1>4, <1>6
  <2>2. IsSeq(c.s) /\ s = TrimSpace(c.s)  BY <1>2, <1>6 DEF Stands
  <2>3. DigitsIn(c.s, 1, Len(c.s)) = {}  BY <2>1, <2>2, NoDigitText
  <2> QED  BY <2>1, <2>3, ParseFields
<1>7. ASSUME p.ok, Numeric(c), sc >= 0, Rounded(Reading(c).n, Reading(c).places, sc) <= MaxInt64
      PROVE  p.val = SignedOf(c, Rounded(Reading(c).n, Reading(c).places, sc))
  <2>1. Says(s, c)  BY <1>2, <1>4, <1>7 DEF Stands
  <2>2. PICK m \in Nat : m = Magnitude(s)  BY <2>1 DEF Says
  <2>3. PICK z \in Nat : z = Places(s)  BY <2>1 DEF Says
  <2>4. Scaled(Reading(c).n, Reading(c).places, m, z)  BY <2>1, <2>2, <2>3 DEF Says
  <2>5. sc \in Nat  BY <1>7
  <2>6. Rounded(Reading(c).n, Reading(c).places, sc) = Rounded(m, z, sc)  BY <2>4, <2>5, ScaledReading
  <2>7. p = Parsed(WithSign(s, Rounded(m, z, sc)))  BY <1>3, <1>4, <1>7, <2>2, <2>3, <2>6
  <2>8. p.val = WithSign(s, Rounded(m, z, sc))  BY <2>7, ParseFields
  <2> QED  BY <2>1, <2>6, <2>8, SameSign
<1> QED  BY <1>5, <1>6, <1>7

-----------------------------------------------------------------------------
(* What a validated field may hold, and what may quarantine a record.      *)
Held(f, c, v) ==
  /\ v.null => Blank(c)
  /\ f.type \in NumericTypes /\ Numeric(c) /\ Fits(f, c) => v.type = f.type /\ v.num = Expected(f, c)
  /\ f.type \in NumericTypes /\ ~v.null /\ ~Numeric(c)
     => f.type = "decimal" /\ (c.k = "time" \/ (DigitsIn(c.s, 1, Len(c.s)) = {} /\ v.num = 0))
Exponent(c) == c.k = "number" /\ Scientific(c.n)
Cause(src, f, c) ==
  \/ Blank(c) /\ (~f.nullable \/ c.k = "text")
  \/ f.type = "int64" /\ \/ ~Numeric(c) \/ ~Whole(c) \/ Exponent(c)
                         \/ WholePart(c) \notin Int64s
                         \/ src = "api" /\ c.n % FloatUnit # 0
  \/ f.type = "decimal" /\ (~Numeric(c) \/ Exponent(c) \/ (f.onOverflow = "fail" /\ Reading(c).places > f.scale))
  \/ f.type = "float64" /\ (~Numeric(c) \/ Exponent(c))
  \/ f.type \in {"bool", "timestamp"} /\ c.k # "null"
(* Schema.Validate demands this of the decimals.                           *)
Valid(f) == f.type = "decimal" => f.scale \in Nat
Fate(src, f, c, p) == /\ p.ok /\ Valid(f) => Held(f, c, p.val)
                      /\ ~p.ok => Cause(src, f, c)

LEMMA PlanFields ==
  /\ \A v : Kept(v).ok = TRUE /\ Kept(v).val = v
  /\ \A why : Failed(why).ok = FALSE
  /\ \A type : SetNull(type).null = TRUE
  /\ \A n : SetInt64(n).null = FALSE /\ SetInt64(n).type = "int64" /\ SetInt64(n).num = n
  /\ \A n : SetFloat64(n).null = FALSE /\ SetFloat64(n).type = "float64" /\ SetFloat64(n).num = n
  /\ \A n, sc : /\ SetDecimal(n, sc).null = FALSE /\ SetDecimal(n, sc).type = "decimal"
                /\ SetDecimal(n, sc).num = n /\ SetDecimal(n, sc).scale = sc
  /\ \A n : SetTimestamp(n).null = FALSE /\ SetTimestamp(n).type = "timestamp"
  /\ \A b : SetBool(b).null = FALSE /\ SetBool(b).type = "bool"
  /\ \A s : SetString(s).null = FALSE /\ SetString(s).type = "string" /\ SetString(s).str = s
  /\ \A s : SetBytes(s).null = FALSE /\ SetBytes(s).type = "bytes"
BY DEF Kept, Failed, SetNull, SetInt64, SetFloat64, SetDecimal, SetTimestamp, SetBool, SetString, SetBytes,
       FieldValue

LEMMA BlankFacts == \A c : Blank(c) => ~Numeric(c)
BY EmptyNumeral DEF Blank, Numeric

LEMMA NullHeld == ASSUME NEW f, NEW c, NEW v, Blank(c), v.null PROVE Held(f, c, v)
BY BlankFacts DEF Held

LEMMA NullFate == ASSUME NEW src, NEW f, NEW c, Blank(c) PROVE Fate(src, f, c, NullCase(f))
<1>1. CASE f.nullable
  <2>1. NullCase(f) = Kept(SetNull(f.type))  BY <1>1 DEF NullCase
  <2>2. Held(f, c, SetNull(f.type))  BY PlanFields, NullHeld
  <2> QED  BY <2>1, <2>2, PlanFields DEF Fate
<1>2. CASE ~f.nullable
  <2>1. NullCase(f) = Failed("null")  BY <1>2 DEF NullCase
  <2>2. Cause(src, f, c)  BY <1>2 DEF Cause
  <2> QED  BY <2>1, <2>2, PlanFields DEF Fate
<1> QED  BY <1>1, <1>2

LEMMA KeptFate ==
  ASSUME NEW src, NEW f, NEW c, NEW v, Valid(f) => Held(f, c, v)
  PROVE  Fate(src, f, c, Kept(v))
BY PlanFields DEF Fate

LEMMA FailedFate ==
  ASSUME NEW src, NEW f, NEW c, NEW why, Cause(src, f, c)
  PROVE  Fate(src, f, c, Failed(why))
BY PlanFields DEF Fate

LEMMA IntHeld ==
  ASSUME NEW f, f.type = "int64", NEW c, Numeric(c), NEW x, WholePart(c) \in Int64s => x = WholePart(c)
  PROVE  Held(f, c, SetInt64(x))
<1>1. Expected(f, c) = WholePart(c)  BY DEF Expected, WholePart
<1>2. Fits(f, c) => WholePart(c) \in Int64s  BY DEF Fits, WholePart
<1> QED  BY <1>1, <1>2, PlanFields DEF Held

LEMMA FloatHeld ==
  ASSUME NEW f, f.type = "float64", NEW c, Numeric(c), NEW x,
         FloatFits(c) => x = SignedOf(c, Rounded(Reading(c).n, Reading(c).places, FloatDigits))
  PROVE  Held(f, c, SetFloat64(x))
<1>1. Expected(f, c) = SignedOf(c, Rounded(Reading(c).n, Reading(c).places, FloatDigits))
  BY DEF Expected
<1>2. Fits(f, c) => FloatFits(c)  BY DEF Fits, FloatFits
<1> QED  BY <1>1, <1>2, PlanFields DEF Held

LEMMA DecimalHeld ==
  ASSUME NEW f, f.type = "decimal", NEW c, NEW x,
         ~Numeric(c) => x = 0 /\ DigitsIn(c.s, 1, Len(c.s)) = {},
         Numeric(c) /\ Rounded(Reading(c).n, Reading(c).places, f.scale) <= MaxInt64
           => x = SignedOf(c, Rounded(Reading(c).n, Reading(c).places, f.scale))
  PROVE  Held(f, c, SetDecimal(x, f.scale))
<1>1. Expected(f, c) = SignedOf(c, Rounded(Reading(c).n, Reading(c).places, f.scale))
  BY DEF Expected
<1>2. Fits(f, c) => Rounded(Reading(c).n, Reading(c).places, f.scale) <= MaxInt64
  BY DEF Fits
<1> QED  BY <1>1, <1>2, PlanFields DEF Held

LEMMA OtherHeld ==
  ASSUME NEW f, f.type \notin NumericTypes, NEW c, NEW v, v.null = FALSE
  PROVE  Held(f, c, v)
BY DEF Held

(* A text on its way to a parser: it stands for the cell, or has a letter  *)
(* because the cell is no number, or one with an exponent; or it is a time *)
(* for a field of text.                                                    *)
Text(src, f, c, u) ==
  /\ c.k # "null"
  /\ \/ Stands(u, c) /\ (c.k = "number" /\ f.type = "int64" => src = "api")
     \/ Lettered(u) /\ (~Numeric(c) \/ Exponent(c))
     \/ f.type = "string" /\ c.k = "time"

LEMMA IntFate ==
  ASSUME NEW src, NEW f, f.type = "int64", NEW c, NEW u, Text(src, f, c, u)
  PROVE  Fate(src, f, c, Cast(CoerceInt64Fast(u), SetInt64))
<1>1. PICK p : p = CoerceInt64Fast(u)  OBVIOUS
<1>2. CASE p.ok
  <2>1. Stands(u, c)  BY <1>1, <1>2, LetterRefused DEF Text
  <2>2. Numeric(c) /\ p.val = WholePart(c)  BY <1>1, <1>2, <2>1, IntRead
  <2>3. Held(f, c, SetInt64(p.val))  BY <2>2, IntHeld
  <2>4. Fate(src, f, c, Kept(SetInt64(p.val)))  BY <2>3, KeptFate
  <2> QED  BY <1>1, <1>2, <2>4 DEF Cast
<1>3. CASE ~p.ok
  <2>1. CASE Stands(u, c) /\ (c.k = "number" => src = "api")
    <3>1. \/ ~Numeric(c) \/ Fraction(c) \/ WholePart(c) \notin Int64s
      BY <1>1, <1>3, <2>1, IntRead
    <3>2. Fraction(c) => ~Whole(c) \/ (src = "api" /\ c.n % FloatUnit # 0)  BY <2>1 DEF Fraction
    <3> QED  BY <1>1, <1>3, <3>1, <3>2, FailedFate DEF Cause, Cast
  <2>2. CASE ~Numeric(c) \/ Exponent(c)
    BY <1>1, <1>3, <2>2, FailedFate DEF Cause, Cast
  <2> QED  BY <2>1, <2>2 DEF Text
<1> QED  BY <1>2, <1>3

LEMMA FloatFate ==
  ASSUME NEW src, NEW f, f.type = "float64", NEW c, NEW u, Text(src, f, c, u)
  PROVE  Fate(src, f, c, Cast(CoerceFloat64Fast(u), SetFloat64))
<1>1. PICK p : p = CoerceFloat64Fast(u)  OBVIOUS
<1>2. CASE p.ok
  <2>1. Stands(u, c)  BY <1>1, <1>2, LetterRefused DEF Text
  <2>2. /\ Numeric(c)
        /\ FloatFits(c)
           => p.val = SignedOf(c, Rounded(Reading(c).n, Reading(c).places, FloatDigits))
    BY <1>1, <1>2, <2>1, FloatRead
  <2>3. Held(f, c, SetFloat64(p.val))  BY <2>2, FloatHeld
  <2>4. Fate(src, f, c, Kept(SetFloat64(p.val)))  BY <2>3, KeptFate
  <2> QED  BY <1>1, <1>2, <2>4 DEF Cast
<1>3. CASE ~p.ok
  <2>1. CASE Stands(u, c)
    <3>1. ~Numeric(c)  BY <1>1, <1>3, <2>1, FloatRead
    <3> QED  BY <1>1, <1>3, <3>1, FailedFate DEF Cause, Cast
  <2>2. CASE ~Numeric(c) \/ Exponent(c)
    BY <1>1, <1>3, <2>2, FailedFate DEF Cause, Cast
  <2> QED  BY <2>1, <2>2 DEF Text
<1> QED  BY <1>2, <1>3

LEMMA DecimalTextHeld ==
  ASSUME NEW src, NEW f, f.type = "decimal", f.scale \in Int, NEW c, NEW u, Text(src, f, c, u),
         NEW p, p = CoerceDecimalFast(u, f.scale, f.onOverflow), p.ok, f.scale \in Nat
  PROVE  Held(f, c, SetDecimal(p.val, f.scale))
<1>1. Stands(u, c)  BY LetterRefused DEF Text
<1>2. PICK sc \in Nat : sc = f.scale  OBVIOUS
<1>3. PICK ov : ov = f.onOverflow  OBVIOUS
<1>4. p = CoerceDecimalFast(u, sc, ov)  BY <1>2, <1>3
<1>5. sc \in Int /\ sc >= 0  OBVIOUS
<1>6. PICK x : x = Rounded(Reading(c).n, Reading(c).places, sc)  OBVIOUS
<1>7. p.ok /\ ~Numeric(c) => p.val = 0 /\ DigitsIn(c.s, 1, Len(c.s)) = {}
  BY <1>1, <1>4, <1>5, DecimalRead
<1>8. p.ok /\ Numeric(c) /\ sc >= 0 /\ x <= MaxInt64 => p.val = SignedOf(c, x)
  BY <1>1, <1>4, <1>5, <1>6, DecimalRead
<1> QED  BY <1>2, <1>5, <1>6, <1>7, <1>8, DecimalHeld

DecimalCast(f, u) ==
  Cast(CoerceDecimalFast(u, f.scale, f.onOverflow), LAMBDA m : SetDecimal(m, f.scale))

LEMMA DecimalFate ==
  ASSUME NEW src, NEW f, f.type = "decimal", f.scale \in Int, NEW c, NEW u, Text(src, f, c, u)
  PROVE  Fate(src, f, c, DecimalCast(f, u))
<1>1. PICK p : p = CoerceDecimalFast(u, f.scale, f.onOverflow)  OBVIOUS
<1>2. CASE p.ok
  <2>1. Valid(f) => Held(f, c, SetDecimal(p.val, f.scale))  BY <1>1, <1>2, DecimalTextHeld DEF Valid
  <2>2. Fate(src, f, c, Kept(SetDecimal(p.val, f.scale)))  BY <2>1, KeptFate
  <2> QED  BY <1>1, <1>2, <2>2 DEF Cast, DecimalCast
<1>3. CASE ~p.ok
  <2>1. CASE Stands(u, c)
    <3>1. PICK sc \in Int : sc = f.scale  OBVIOUS
    <3>2. PICK ov : ov = f.onOverflow  OBVIOUS
    <3>3. p = CoerceDecimalFast(u, sc, ov)  BY <1>1, <3>1, <3>2
    <3>4. ~Numeric(c) \/ (ov = "fail" /\ Reading(c).places > sc)  BY <1>3, <2>1, <3>3, DecimalRead
    <3> QED  BY <1>1, <1>3, <3>1, <3>2, <3>4, FailedFate DEF Cause, Cast, DecimalCast
  <2>2. CASE ~Numeric(c) \/ Exponent(c)
    BY <1>1, <1>3, <2>2, FailedFate DEF Cause, Cast, DecimalCast
  <2> QED  BY <2>1, <2>2 DEF Text
<1> QED  BY <1>2, <1>3

(* What the mapper of a source may make of a cell: a null for a blank      *)
(* one, a text, a number or a truth value, or a value of the field's own   *)
(* type.                                                                   *)
OwnTypes == {"int64", "float64", "decimal", "bool", "timestamp", "bytes"}
Own(f, c, raw) == /\ raw.null = FALSE /\ raw.type = f.type /\ f.type \in OwnTypes
                  /\ f.type = "decimal" => raw.scale = f.scale
                  /\ Valid(f) => Held(f, c, raw)
Worded(src, f, c, raw) == \E u : raw = SetString(u) /\ Text(src, f, c, u)
Numbered(c, raw) == c.k = "number" /\ c.n \in Int /\ raw = SetFloat64(c.n)
Flagged(c, raw) == c.k = "bool" /\ \E b : raw = SetBool(b)
Sourced(src, f, c, raw) == \/ raw.null = TRUE /\ Blank(c)
                        \/ Worded(src, f, c, raw) \/ Numbered(c, raw) \/ Flagged(c, raw)
                        \/ Own(f, c, raw)

LEMMA StringFacts ==
  /\ \A u : String(SetString(u)) = u
  /\ \A x : String(SetFloat64(x)) = FormatFloat(x)
  /\ \A b : \E d : String(SetBool(b)) = Spelling(d)
<1>1. ASSUME NEW u PROVE String(SetString(u)) = u
  <2>1. PICK v : v = SetString(u)  OBVIOUS
  <2>2. v.null = FALSE /\ v.type = "string" /\ v.str = u  BY <2>1, PlanFields
  <2>3. String(v) = v.str  BY <2>2 DEF String
  <2> QED  BY <2>1, <2>2, <2>3
<1>2. ASSUME NEW x PROVE String(SetFloat64(x)) = FormatFloat(x)
  <2>1. PICK v : v = SetFloat64(x)  OBVIOUS
  <2>2. v.null = FALSE /\ v.type = "float64" /\ v.num = x  BY <2>1, PlanFields
  <2>3. String(v) = FormatFloat(v.num)  BY <2>2 DEF String
  <2> QED  BY <2>1, <2>2, <2>3
<1>3. ASSUME NEW b PROVE \E d : String(SetBool(b)) = Spelling(d)
  <2>1. PICK v : v = SetBool(b)  OBVIOUS
  <2>2. v.null = FALSE /\ v.type = "bool"  BY <2>1, PlanFields
  <2>3. String(v) = Spelling(v.num = 1)  BY <2>2 DEF String
  <2>4. \E d : String(v) = Spelling(d)  BY <2>3, Zenon
  <2> QED  BY <2>1, <2>4
<1> QED  BY <1>1, <1>2, <1>3

LEMMA TextBlank ==
  ASSUME NEW src, NEW f, f.type # "string", NEW c, Text(src, f, c, <<>>)
  PROVE  Blank(c)
<1>1. ~Lettered(<<>>)  BY LetterRefused
<1> QED  BY <1>1 DEF Text, Stands

LEMMA WordText ==
  ASSUME NEW src, NEW f, NEW c, NEW b, c.k = "bool"
  PROVE  Text(src, f, c, Spelling(b))
<1>1. ~Numeric(c)  BY DEF Numeric
<1> QED  BY <1>1, Words DEF Text

(* A value that is not of the field's own type goes through its text.      *)
LEMMA RawText ==
  ASSUME NEW src, NEW f, NEW c, NEW raw,
         Worded(src, f, c, raw) \/ (Numbered(c, raw) /\ f.type # "int64") \/ Flagged(c, raw)
  PROVE  raw.null = FALSE /\ Text(src, f, c, String(raw))
<1>1. CASE Worded(src, f, c, raw)
  <2>1. PICK u : raw = SetString(u) /\ Text(src, f, c, u)  BY <1>1 DEF Worded
  <2> QED  BY <2>1, StringFacts, PlanFields
<1>2. CASE Numbered(c, raw) /\ f.type # "int64"
  <2>1. c.k = "number" /\ c.n \in Int /\ raw = SetFloat64(c.n)  BY <1>2 DEF Numbered
  <2>2. PICK u : u = FormatFloat(c.n)  OBVIOUS
  <2>3. Stands(u, c)  BY <2>1, <2>2, FloatStands
  <2>4. Text(src, f, c, u)  BY <1>2, <2>1, <2>3 DEF Text
  <2> QED  BY <2>1, <2>2, <2>4, StringFacts, PlanFields
<1>3. CASE Flagged(c, raw)
  <2>1. c.k = "bool"  BY <1>3 DEF Flagged
  <2>2. PICK b : raw = SetBool(b)  BY <1>3 DEF Flagged
  <2>3. PICK d : String(raw) = Spelling(d)  BY <2>2, StringFacts
  <2> QED  BY <2>1, <2>2, <2>3, WordText, PlanFields
<1> QED  BY <1>1, <1>2, <1>3

LEMMA RawTypes ==
  ASSUME NEW src, NEW f, NEW c, NEW raw
  PROVE  /\ Worded(src, f, c, raw) => raw.type = "string"
         /\ Numbered(c, raw) => raw.type = "float64" /\ raw.null = FALSE /\ raw.num = c.n
         /\ Flagged(c, raw) => raw.type = "bool"
BY PlanFields DEF Worded, Numbered, Flagged

LEMMA TruncateWhole ==
  ASSUME NEW c, c.k = "number", c.n \in Int
  PROVE  WholePart(c) \in Int64s => Truncate(c.n) = WholePart(c)
<1>1. PICK x \in Int : x = c.n  OBVIOUS
<1>2. Reading(c).n = Abs(x) /\ Reading(c).places = FloatDigits /\ (Reading(c).neg <=> x < 0)
  BY <1>1, ReadingOf
<1>3. Pow10[FloatDigits] = FloatUnit  BY FloatUnits
<1>4. ~(x < 0) => Abs(x) = x  BY DEF Abs
<1>5. WholePart(c) = IF x < 0 THEN - (Abs(x) \div FloatUnit) ELSE Abs(x) \div FloatUnit
  BY <1>2, <1>3 DEF WholePart, SignedOf
<1> QED  BY <1>1, <1>4, <1>5 DEF Truncate

LEMMA NegatedMultiple ==
  ASSUME NEW u \in Nat \ {0}
  PROVE  \A x \in Int : x % u = 0 <=> (- x) % u = 0
<1>1. ASSUME NEW x \in Int, x % u = 0 PROVE (- x) % u = 0
  <2>1. PICK q \in Int : q = x \div u  OBVIOUS
  <2>2. x = q * u  BY <1>1, <2>1
  <2>3. PICK n \in Int : n = - q  OBVIOUS
  <2>4. - x = n * u  BY <2>2, <2>3
  <2>5. (n * u) % u = 0  OBVIOUS
  <2> QED  BY <2>4, <2>5
<1>2. \A x \in Int : (- x) \in Int /\ - (- x) = x  OBVIOUS
<1>3. ASSUME NEW x \in Int, (- x) % u = 0 PROVE x % u = 0
  <2>1. PICK y \in Int : y = - x /\ - y = x  BY <1>2
  <2> QED  BY <1>1, <1>3, <2>1
<1> QED  BY <1>1, <1>3

LEMMA NumberFloat ==
  ASSUME NEW f, f.type = "float64", NEW c, c.k = "number", c.n \in Int
  PROVE  Held(f, c, SetFloat64(c.n)) /\ Held(f, c, SetFloat64(Nearest(c.n)))
<1>1. PICK x \in Int : x = c.n  OBVIOUS
<1>2. Reading(c).n = Abs(x) /\ Reading(c).places = FloatDigits /\ (Reading(c).neg <=> x < 0)
  BY <1>1, ReadingOf
<1>3. PICK fd \in Nat : fd = FloatDigits  BY FloatUnits
<1>4. PICK a \in Int : a = Abs(x)  BY DEF Abs
<1>5. fd <= fd /\ fd - fd = 0 /\ a * 1 = a  OBVIOUS
<1>6. Pow10[0] = 1  BY Powers
<1>7. Rounded(a, fd, fd) = a  BY <1>5, <1>6 DEF Rounded
<1>8. SignedOf(c, a) = x
  <2>1. (x < 0 => - a = x) /\ (~(x < 0) => a = x)  BY <1>4 DEF Abs
  <2> QED  BY <1>2, <2>1 DEF SignedOf
<1>9. Numeric(c)  BY DEF Numeric
<1>10. PICK y : y = SignedOf(c, Rounded(Reading(c).n, Reading(c).places, FloatDigits)) /\ y = x
  BY <1>2, <1>3, <1>4, <1>7, <1>8
<1>11. FloatFits(c) => Nearest(x) = x
  <2> SUFFICES ASSUME FloatFits(c) PROVE Exactly(x)  BY NearestSame
  <2>1. Exactly(a)  BY <1>2, <1>3, <1>4, <1>7 DEF FloatFits
  <2>2. PICK u \in Nat \ {0} : u = FloatUnit  BY FloatUnits
  <2>3. a = x \/ a = - x  BY <1>4 DEF Abs
  <2>4. Abs(a) = a /\ Abs(x) = a  BY <1>4 DEF Abs
  <2>5. a % u = 0 <=> x % u = 0  BY <2>3, NegatedMultiple
  <2> QED  BY <2>1, <2>2, <2>4, <2>5 DEF Exactly
<1>12. Held(f, c, SetFloat64(x))  BY <1>9, <1>10, FloatHeld
<1>13. Held(f, c, SetFloat64(Nearest(x)))
  <2>1. PICK w : w = Nearest(x)  OBVIOUS
  <2>2. FloatFits(c) => w = y  BY <1>10, <1>11, <2>1
  <2> QED  BY <1>9, <1>10, <2>1, <2>2, FloatHeld
<1> QED  BY <1>1, <1>12, <1>13

LEMMA OwnFate == ASSUME NEW src, NEW f, NEW c, NEW raw, Own(f, c, raw) PROVE Fate(src, f, c, Kept(raw))
BY KeptFate DEF Own

LEMMA IntPlan ==
  ASSUME NEW src, NEW f, f.type = "int64", NEW c, NEW raw, Sourced(src, f, c, raw)
  PROVE  Fate(src, f, c, CastInt64(f, raw))
<1>1. CASE raw.null = TRUE /\ Blank(c)
  BY <1>1, NullFate DEF CastInt64
<1>2. CASE Own(f, c, raw)
  <2>1. raw.null = FALSE /\ raw.type = "int64"  BY <1>2 DEF Own
  <2> QED  BY <1>2, <2>1, OwnFate DEF CastInt64
<1>3. CASE Numbered(c, raw)
  <2>1. raw.null = FALSE /\ raw.type = "float64" /\ raw.num = c.n  BY <1>3, RawTypes
  <2>2. c.k = "number" /\ c.n \in Int  BY <1>3 DEF Numbered
  <2>3. Numeric(c)  BY <2>2 DEF Numeric
  <2>4. Held(f, c, SetInt64(Truncate(c.n)))  BY <2>2, <2>3, TruncateWhole, IntHeld
  <2>5. Fate(src, f, c, Kept(SetInt64(Truncate(c.n))))  BY <2>4, KeptFate
  <2> QED  BY <2>1, <2>5 DEF CastInt64
<1>4. CASE Worded(src, f, c, raw) \/ Flagged(c, raw)
  <2>1. raw.null = FALSE /\ Text(src, f, c, String(raw))  BY <1>4, RawText
  <2>2. raw.type \in {"string", "bool"}  BY <1>4, RawTypes
  <2>3. CASE String(raw) = <<>>
    <3>1. Blank(c)  BY <2>1, <2>3, TextBlank
    <3> QED  BY <2>1, <2>2, <2>3, <3>1, NullFate DEF CastInt64, FromText
  <2>4. CASE String(raw) # <<>>
    <3>1. Fate(src, f, c, Cast(CoerceInt64Fast(String(raw)), SetInt64))  BY <2>1, IntFate
    <3> QED  BY <2>1, <2>2, <2>4, <3>1 DEF CastInt64, FromText
  <2> QED  BY <2>3, <2>4
<1> QED  BY <1>1, <1>2, <1>3, <1>4 DEF Sourced

LEMMA FloatPlan ==
  ASSUME NEW src, NEW f, f.type = "float64", NEW c, NEW raw, Sourced(src, f, c, raw)
  PROVE  Fate(src, f, c, CastFloat64(f, raw))
<1>1. CASE raw.null = TRUE /\ Blank(c)
  BY <1>1, NullFate DEF CastFloat64
<1>2. CASE Own(f, c, raw)
  <2>1. raw.null = FALSE /\ raw.type = "float64"  BY <1>2 DEF Own
  <2> QED  BY <1>2, <2>1, OwnFate DEF CastFloat64
<1>3. CASE Numbered(c, raw)
  <2>1. raw.null = FALSE /\ raw.type = "float64" /\ raw.num = c.n  BY <1>3, RawTypes
  <2>2. c.k = "number" /\ c.n \in Int /\ raw = SetFloat64(c.n)  BY <1>3 DEF Numbered
  <2>3. Held(f, c, raw)  BY <2>2, NumberFloat
  <2>4. Fate(src, f, c, Kept(raw))  BY <2>3, KeptFate
  <2> QED  BY <2>1, <2>4 DEF CastFloat64
<1>4. CASE Worded(src, f, c, raw) \/ Flagged(c, raw)
  <2>1. raw.null = FALSE /\ Text(src, f, c, String(raw))  BY <1>4, RawText
  <2>2. raw.type \in {"string", "bool"}  BY <1>4, RawTypes
  <2>3. CASE String(raw) = <<>>
    <3>1. Blank(c)  BY <2>1, <2>3, TextBlank
    <3> QED  BY <2>1, <2>2, <2>3, <3>1, NullFate DEF CastFloat64, FromText
  <2>4. CASE String(raw) # <<>>
    <3>1. Fate(src, f, c, Cast(CoerceFloat64Fast(String(raw)), SetFloat64))  BY <2>1, FloatFate
    <3> QED  BY <2>1, <2>2, <2>4, <3>1 DEF CastFloat64, FromText
  <2> QED  BY <2>3, <2>4
<1> QED  BY <1>1, <1>2, <1>3, <1>4 DEF Sourced

LEMMA DecimalPlan ==
  ASSUME NEW src, NEW f, f.type = "decimal", f.scale \in Int, NEW c, NEW raw, Sourced(src, f, c, raw)
  PROVE  Fate(src, f, c, CastDecimal(f, raw))
<1>1. CASE raw.null = TRUE /\ Blank(c)
  BY <1>1, NullFate DEF CastDecimal
<1>2. CASE Own(f, c, raw)
  <2>1. raw.null = FALSE /\ raw.type = "decimal" /\ raw.scale = f.scale  BY <1>2 DEF Own
  <2>2. CastDecimal(f, raw) = Kept(raw)  BY <2>1 DEF CastDecimal
  <2> QED  BY <1>2, <2>2, OwnFate
<1>3. CASE Worded(src, f, c, raw) \/ Numbered(c, raw) \/ Flagged(c, raw)
  <2>1. raw.null = FALSE /\ Text(src, f, c, String(raw))  BY <1>3, RawText
  <2>2. raw.type \in {"string", "bool", "float64"}  BY <1>3, RawTypes
  <2>3. CASE String(raw) = <<>>
    <3>1. Blank(c)  BY <2>1, <2>3, TextBlank
    <3>2. CastDecimal(f, raw) = NullCase(f)  BY <2>1, <2>2, <2>3 DEF CastDecimal, FromText
    <3> QED  BY <3>1, <3>2, NullFate
  <2>4. CASE String(raw) # <<>>
    <3>1. Fate(src, f, c, DecimalCast(f, String(raw)))  BY <2>1, DecimalFate
    <3> QED  BY <2>1, <2>2, <2>4, <3>1 DEF CastDecimal, FromText, DecimalCast
  <2> QED  BY <2>3, <2>4
<1> QED  BY <1>1, <1>2, <1>3 DEF Sourced

LEMMA BoolPlan ==
  ASSUME NEW src, NEW f, f.type = "bool", NEW c, NEW raw, Sourced(src, f, c, raw)
  PROVE  Fate(src, f, c, CastBool(f, raw))
<1>1. CASE raw.null = TRUE /\ Blank(c)
  BY <1>1, NullFate DEF CastBool
<1>2. CASE Own(f, c, raw)
  <2>1. raw.null = FALSE /\ raw.type = "bool"  BY <1>2 DEF Own
  <2> QED  BY <1>2, <2>1, OwnFate DEF CastBool
<1>3. CASE Worded(src, f, c, raw) \/ Numbered(c, raw) \/ Flagged(c, raw)
  <2>1. raw.null = FALSE /\ Text(src, f, c, String(raw))  BY <1>3, RawText
  <2>2. Fate(src, f, c, Failed("cast"))  BY <2>1, FailedFate DEF Cause, Text
  <2>3. ASSUME NEW v, v.null = FALSE PROVE Fate(src, f, c, Kept(v))
    <3>1. f.type \notin NumericTypes  BY DEF NumericTypes
    <3> QED  BY <2>3, <3>1, OtherHeld, KeptFate
  <2>4. Fate(src, f, c, Kept(raw))  BY <2>1, <2>3
  <2>5. PICK p : p = CoerceBoolFast(String(raw))  OBVIOUS
  <2>6. Fate(src, f, c, Kept(SetBool(p.val)))  BY <2>3, PlanFields
  <2>7. String(raw) = <<>> => Fate(src, f, c, NullCase(f))  BY <2>1, TextBlank, NullFate
  <2>8. Fate(src, f, c, Cast(p, SetBool))  BY <2>2, <2>6 DEF Cast
  <2> QED  BY <2>1, <2>4, <2>5, <2>7, <2>8 DEF CastBool, FromText
<1> QED  BY <1>1, <1>2, <1>3 DEF Sourced

LEMMA TimestampPlan ==
  ASSUME NEW src, NEW f, f.type = "timestamp", NEW c, NEW raw, Sourced(src, f, c, raw)
  PROVE  Fate(src, f, c, CastTimestamp(f, raw))
<1>1. CASE raw.null = TRUE /\ Blank(c)
  BY <1>1, NullFate DEF CastTimestamp
<1>2. CASE Own(f, c, raw)
  <2>1. raw.null = FALSE /\ raw.type = "timestamp"  BY <1>2 DEF Own
  <2> QED  BY <1>2, <2>1, OwnFate DEF CastTimestamp
<1>3. CASE Worded(src, f, c, raw) \/ Numbered(c, raw) \/ Flagged(c, raw)
  <2>1. raw.null = FALSE /\ Text(src, f, c, String(raw))  BY <1>3, RawText
  <2>2. Fate(src, f, c, Failed("cast"))  BY <2>1, FailedFate DEF Cause, Text
  <2>3. ASSUME NEW v, v.null = FALSE PROVE Fate(src, f, c, Kept(v))
    <3>1. f.type \notin NumericTypes  BY DEF NumericTypes
    <3> QED  BY <2>3, <3>1, OtherHeld, KeptFate
  <2>4. Fate(src, f, c, Kept(raw))  BY <2>1, <2>3
  <2>5. PICK p : p = CoerceTimestampFast(String(raw))  OBVIOUS
  <2>6. Fate(src, f, c, Kept(SetTimestamp(p.val)))  BY <2>3, PlanFields
  <2>7. String(raw) = <<>> => Fate(src, f, c, NullCase(f))  BY <2>1, TextBlank, NullFate
  <2>8. Fate(src, f, c, Cast(p, SetTimestamp))  BY <2>2, <2>6 DEF Cast
  <2> QED  BY <2>1, <2>4, <2>5, <2>7, <2>8 DEF CastTimestamp, FromText
<1> QED  BY <1>1, <1>2, <1>3 DEF Sourced

LEMMA NotNull ==
  ASSUME NEW src, NEW f, NEW c, NEW raw, Sourced(src, f, c, raw)
  PROVE  (raw.null = TRUE /\ Blank(c)) \/ raw.null = FALSE
<1>1. Worded(src, f, c, raw) \/ Flagged(c, raw) => raw.null = FALSE  BY RawText
<1> QED  BY <1>1, RawTypes DEF Sourced, Own

(* Bytes, strings and the types the plan does not know take any text.      *)
LEMMA TextPlan ==
  ASSUME NEW src, NEW f, f.type \notin NumericTypes, NEW c, NEW raw, Sourced(src, f, c, raw)
  PROVE  Fate(src, f, c, CastBytes(f, raw)) /\ Fate(src, f, c, CastString(f, raw))
<1>1. CASE raw.null = TRUE /\ Blank(c)
  <2>1. Fate(src, f, c, CastBytes(f, raw))  BY <1>1, NullFate DEF CastBytes
  <2>2. CASE f.nullable
    <3>1. Held(f, c, SetNull("string"))  BY <1>1, PlanFields, NullHeld
    <3> QED  BY <1>1, <2>1, <2>2, <3>1, KeptFate DEF CastString
  <2>3. CASE ~f.nullable
    <3>1. Cause(src, f, c)  BY <1>1, <2>3 DEF Cause
    <3> QED  BY <1>1, <2>1, <2>3, <3>1, FailedFate DEF CastString
  <2> QED  BY <2>2, <2>3
<1>2. CASE raw.null = FALSE
  <2>1. ASSUME NEW v, v.null = FALSE PROVE Fate(src, f, c, Kept(v))
    BY <2>1, OtherHeld, KeptFate
  <2>2. Fate(src, f, c, Kept(SetBytes(String(raw)))) /\ Fate(src, f, c, Kept(SetString(String(raw))))
    BY <2>1, PlanFields
  <2> QED  BY <1>2, <2>2 DEF CastBytes, CastString
<1> QED  BY <1>1, <1>2, NotNull

LEMMA PlanFate ==
  ASSUME NEW src, NEW f, f.scale \in Int, NEW c, NEW raw, Sourced(src, f, c, raw)
  PROVE  Fate(src, f, c, compileFieldPlan(f, raw))
<1>1. CASE f.type = "int64"  BY <1>1, IntPlan DEF compileFieldPlan
<1>2. CASE f.type = "decimal"  BY <1>2, DecimalPlan DEF compileFieldPlan
<1>3. CASE f.type = "float64"  BY <1>3, FloatPlan DEF compileFieldPlan
<1>4. CASE f.type = "bool"  BY <1>4, BoolPlan DEF compileFieldPlan
<1>5. CASE f.type = "timestamp"  BY <1>5, TimestampPlan DEF compileFieldPlan
<1>6. CASE f.type \notin {"int64", "decimal", "float64", "bool", "timestamp"}
  <2>1. f.type \notin NumericTypes  BY <1>6 DEF NumericTypes
  <2>2. Fate(src, f, c, CastBytes(f, raw)) /\ Fate(src, f, c, CastString(f, raw))  BY <2>1, TextPlan
  <2> QED  BY <1>6, <2>2 DEF compileFieldPlan
<1> QED  BY <1>1, <1>2, <1>3, <1>4, <1>5, <1>6

(* Every cell of the five sources arrives as such a value.                 *)
LEMMA PlainText ==
  ASSUME NEW src, NEW f, NEW c, c.k = "text", IsSeq(c.s)
  PROVE  Text(src, f, c, c.s) /\ Text(src, f, c, TrimSpace(c.s))
<1>1. IsSeq(TrimSpace(c.s)) /\ TrimSpace(TrimSpace(c.s)) = TrimSpace(c.s)  BY TrimmedSeq, TrimTwice
<1>2. Stands(c.s, c) /\ Stands(TrimSpace(c.s), c)  BY <1>1, TextStands
<1> QED  BY <1>2 DEF Text

LEMMA SprintText ==
  ASSUME NEW src, NEW f, f.type = "int64" => src = "api",
         NEW c, c.k \in {"text", "number", "bool"}, c.n \in Int, IsSeq(c.s)
  PROVE  Text(src, f, c, Sprint(c))
<1>1. CASE c.k = "text"
  <2>1. Sprint(c) = c.s  BY <1>1 DEF Sprint
  <2> QED  BY <1>1, <2>1, PlainText
<1>2. CASE c.k = "number"
  <2>1. Sprint(c) = FormatV(c.n)  BY <1>2 DEF Sprint
  <2>2. CASE Scientific(c.n)
    <3>1. Lettered(FormatV(c.n))  BY <2>2, Words
    <3> QED  BY <1>2, <2>1, <2>2, <3>1 DEF Text, Exponent
  <2>3. CASE ~Scientific(c.n)
    <3>1. PICK u : u = FormatFloat(c.n)  OBVIOUS
    <3>2. Sprint(c) = u  BY <2>1, <2>3, <3>1 DEF FormatV
    <3>3. Stands(u, c)  BY <1>2, <3>1, FloatStands
    <3> QED  BY <1>2, <3>2, <3>3 DEF Text
  <2> QED  BY <2>2, <2>3
<1>3. CASE c.k = "bool"
  <2>1. Sprint(c) = Spelling(c.n = 1)  BY <1>3 DEF Sprint
  <2>2. \E b : Sprint(c) = Spelling(b)  BY <2>1, Zenon
  <2> QED  BY <1>3, <2>2, WordText
<1> QED  BY <1>1, <1>2, <1>3

LEMMA MadeFrom ==
  ASSUME NEW src, NEW f, NEW c
  PROVE  /\ \A type : Blank(c) => Sourced(src, f, c, SetNull(type))
         /\ \A u : Text(src, f, c, u) => Sourced(src, f, c, SetString(u))
         /\ c.k = "number" /\ c.n \in Int => Sourced(src, f, c, SetFloat64(c.n))
         /\ \A b : c.k = "bool" => Sourced(src, f, c, SetBool(b))
         /\ \A n : f.type = "timestamp" => Sourced(src, f, c, SetTimestamp(n))
         /\ \A b : f.type = "bool" => Sourced(src, f, c, SetBool(b))
         /\ \A s : f.type = "bytes" => Sourced(src, f, c, SetBytes(s))
<1>1. \A type : Blank(c) => Sourced(src, f, c, SetNull(type))  BY PlanFields DEF Sourced
<1>2. \A u : Text(src, f, c, u) => Sourced(src, f, c, SetString(u))  BY DEF Sourced, Worded
<1>3. c.k = "number" /\ c.n \in Int => Sourced(src, f, c, SetFloat64(c.n))  BY DEF Sourced, Numbered
<1>4. \A b : c.k = "bool" => Sourced(src, f, c, SetBool(b))  BY DEF Sourced, Flagged
<1>5. ASSUME NEW v, v.null = FALSE, v.type = f.type, f.type \in {"timestamp", "bool", "bytes"}
      PROVE  Sourced(src, f, c, v)
  <2>1. f.type \notin NumericTypes /\ f.type \in OwnTypes /\ f.type # "decimal"
    BY <1>5 DEF NumericTypes, OwnTypes
  <2>2. Held(f, c, v)  BY <1>5, <2>1, OtherHeld
  <2> QED  BY <1>5, <2>1, <2>2 DEF Sourced, Own
<1>6. /\ \A n : f.type = "timestamp" => Sourced(src, f, c, SetTimestamp(n))
      /\ \A b : f.type = "bool" => Sourced(src, f, c, SetBool(b))
      /\ \A s : f.type = "bytes" => Sourced(src, f, c, SetBytes(s))
  BY <1>5, PlanFields
<1> QED  BY <1>1, <1>2, <1>3, <1>4, <1>6

LEMMA WholeFrom ==
  ASSUME NEW src, NEW f, f.type = "int64", NEW c, c.k = "number", c.n \in Int
  PROVE  Sourced(src, f, c, SetInt64(Truncate(c.n)))
<1>1. Numeric(c)  BY DEF Numeric
<1>2. Held(f, c, SetInt64(Truncate(c.n)))  BY <1>1, TruncateWhole, IntHeld
<1> QED  BY <1>2, PlanFields DEF Sourced, Own, OwnTypes

LEMMA FloatFrom ==
  ASSUME NEW src, NEW f, f.type = "float64", NEW c, c.k = "number", c.n \in Int
  PROVE  Sourced(src, f, c, SetFloat64(Nearest(c.n)))
<1>1. Held(f, c, SetFloat64(Nearest(c.n)))  BY NumberFloat
<1> QED  BY <1>1, PlanFields DEF Sourced, Own, OwnTypes

LEMMA TimeFrom ==
  ASSUME NEW src, NEW f, NEW c, c.k = "time"
  PROVE  /\ \A m : f.type = "decimal" => Sourced(src, f, c, SetDecimal(m, f.scale))
         /\ \A u : f.type = "string" => Sourced(src, f, c, SetString(u))
<1>1. ~Numeric(c)  BY DEF Numeric
<1>2. ASSUME NEW m, f.type = "decimal" PROVE Sourced(src, f, c, SetDecimal(m, f.scale))
  <2>1. Held(f, c, SetDecimal(m, f.scale))  BY <1>1, <1>2, PlanFields DEF Held
  <2> QED  BY <1>2, <2>1, PlanFields DEF Sourced, Own, OwnTypes
<1>3. ASSUME NEW u, f.type = "string" PROVE Sourced(src, f, c, SetString(u))
  <2>1. Text(src, f, c, u)  BY <1>3 DEF Text
  <2> QED  BY <2>1 DEF Sourced, Worded
<1> QED  BY <1>2, <1>3

LEMMA ParsedFrom ==
  ASSUME NEW src, NEW f, NEW c, c.k = "text", IsSeq(c.s), NEW p, p.ok
  PROVE  /\ f.type = "int64" /\ p = CoerceInt64Fast(c.s) => Sourced(src, f, c, SetInt64(p.val))
         /\ f.type = "float64" /\ p = CoerceFloat64Fast(c.s) => Sourced(src, f, c, SetFloat64(p.val))
<1>1. Stands(c.s, c)  BY TextStands
<1>2. ASSUME f.type = "int64", p = CoerceInt64Fast(c.s) PROVE Sourced(src, f, c, SetInt64(p.val))
  <2>1. Numeric(c) /\ p.val = WholePart(c)  BY <1>1, <1>2, IntRead
  <2>2. Held(f, c, SetInt64(p.val))  BY <1>2, <2>1, IntHeld
  <2> QED  BY <1>2, <2>2, PlanFields DEF Sourced, Own, OwnTypes
<1>3. ASSUME f.type = "float64", p = CoerceFloat64Fast(c.s) PROVE Sourced(src, f, c, SetFloat64(p.val))
  <2>1. /\ Numeric(c)
        /\ FloatFits(c)
           => p.val = SignedOf(c, Rounded(Reading(c).n, Reading(c).places, FloatDigits))
    BY <1>1, <1>3, FloatRead
  <2>2. Held(f, c, SetFloat64(p.val))  BY <1>3, <2>1, FloatHeld
  <2> QED  BY <1>3, <2>2, PlanFields DEF Sourced, Own, OwnTypes
<1> QED  BY <1>2, <1>3

LEMMA DecimalFrom ==
  ASSUME NEW src, NEW f, f.type = "decimal", f.scale \in Int, NEW c, NEW u, Text(src, f, c, u),
         NEW p, p = CoerceDecimalFast(u, f.scale, f.onOverflow), p.ok
  PROVE  Sourced(src, f, c, SetDecimal(p.val, f.scale))
<1>1. Valid(f) => Held(f, c, SetDecimal(p.val, f.scale))  BY DecimalTextHeld DEF Valid
<1> QED  BY <1>1, PlanFields DEF Sourced, Own, OwnTypes

LEMMA CellFrom ==
  ASSUME NEW src \in Sources, NEW f, f.scale \in Int,
         NEW c, c.k \in Kinds(src), c.n \in Int, IsSeq(c.s), NEW m, m = MapCell(src, f, c), m.ok
  PROVE  Sourced(src, f, c, m.val)
<1>0. /\ c.k = "null" => Blank(c)
      /\ c.k = "text" /\ TrimSpace(c.s) = <<>> => Blank(c)
  BY DEF Blank
<1>1. CASE src = "csv"
  <2>1. m = CSVCell(f, c)  BY <1>1 DEF MapCell
  <2>2. c.k \in {"null", "text"}  BY <1>1 DEF Kinds
  <2>3. CASE c.k = "null" \/ TrimSpace(c.s) = <<>>
    <3>1. m = Parsed(SetNull(f.type)) /\ Blank(c)  BY <1>0, <2>1, <2>2, <2>3 DEF CSVCell
    <3> QED  BY <3>1, MadeFrom, ParseFields
  <2>4. CASE ~(c.k = "null" \/ TrimSpace(c.s) = <<>>)
    <3>1. m = Parsed(SetString(TrimSpace(c.s)))  BY <2>1, <2>4 DEF CSVCell
    <3>2. Text(src, f, c, TrimSpace(c.s))  BY <2>2, <2>4, PlainText
    <3> QED  BY <3>1, <3>2, MadeFrom, ParseFields
  <2> QED  BY <2>3, <2>4
<1>2. CASE src = "jsonl"
  <2>1. m = JSONCell(f, c)  BY <1>2 DEF MapCell
  <2>2. c.k \in {"null", "text", "number", "bool"}  BY <1>2 DEF Kinds
  <2>3. CASE c.k = "null"
    <3>1. m = Parsed(SetNull(f.type))  BY <2>1, <2>3 DEF JSONCell
    <3> QED  BY <1>0, <2>3, <3>1, MadeFrom, ParseFields
  <2>4. CASE c.k = "text"
    <3>1. m = Parsed(SetString(c.s))  BY <2>1, <2>4 DEF JSONCell
    <3>2. Text(src, f, c, c.s)  BY <2>4, PlainText
    <3> QED  BY <3>1, <3>2, MadeFrom, ParseFields
  <2>5. CASE c.k = "number"
    <3>1. m = Parsed(SetFloat64(c.n))  BY <2>1, <2>5 DEF JSONCell
    <3> QED  BY <2>5, <3>1, MadeFrom, ParseFields
  <2>6. CASE c.k = "bool"
    <3>1. m = Parsed(SetBool(c.n = 1))  BY <2>1, <2>6 DEF JSONCell
    <3>2. \E b : m = Parsed(SetBool(b))  BY <3>1, Zenon
    <3> QED  BY <2>6, <3>2, MadeFrom, ParseFields
  <2> QED  BY <2>2, <2>3, <2>4, <2>5, <2>6
<1>3. CASE src = "api"
  <2>1. m = APICell(f, c)  BY <1>3 DEF MapCell
  <2>2. CASE c.k = "null"
    <3>1. m = Parsed(SetNull(f.type))  BY <2>1, <2>2 DEF APICell
    <3> QED  BY <1>0, <2>2, <3>1, MadeFrom, ParseFields
  <2>3. CASE c.k # "null"
    <3>1. m = Parsed(SetString(Sprint(c)))  BY <2>1, <2>3 DEF APICell
    <3>2. c.k \in {"text", "number", "bool"}  BY <1>3, <2>3 DEF Kinds
    <3>3. Text(src, f, c, Sprint(c))  BY <1>3, <3>2, SprintText
    <3> QED  BY <3>1, <3>3, MadeFrom, ParseFields
  <2> QED  BY <2>2, <2>3
<1>4. CASE src = "sql"
  <2>1. m = SQLCell(f, c)  BY <1>4 DEF MapCell
  <2>2. \/ m = Refused
        \/ c.k = "null" /\ m = Parsed(SetNull(IF f.type = "decimal" THEN "string" ELSE f.type))
        \/ f.type = "int64" /\ c.k = "number" /\ m = Parsed(SetInt64(Truncate(c.n)))
        \/ f.type = "float64" /\ c.k = "number" /\ m = Parsed(SetFloat64(Nearest(c.n)))
        \/ c.k = "bool" /\ m = Parsed(SetBool(c.n = 1))
        \/ f.type = "timestamp" /\ m = Parsed(SetTimestamp(c.n))
        \/ f.type = "bytes" /\ m = Parsed(SetBytes(c.s))
        \/ c.k = "text" /\ m = Parsed(SetString(c.s))
    BY <2>1 DEF SQLCell
  <2>3. CASE m = Refused  BY <2>3, ParseFields
  <2>4. CASE c.k = "null" /\ m = Parsed(SetNull(IF f.type = "decimal" THEN "string" ELSE f.type))
    BY <1>0, <2>4, MadeFrom, ParseFields
  <2>5. CASE f.type = "int64" /\ c.k = "number" /\ m = Parsed(SetInt64(Truncate(c.n)))
    BY <2>5, WholeFrom, ParseFields
  <2>6. CASE f.type = "float64" /\ c.k = "number" /\ m = Parsed(SetFloat64(Nearest(c.n)))
    BY <2>6, FloatFrom, ParseFields
  <2>7. CASE c.k = "bool" /\ m = Parsed(SetBool(c.n = 1))
    <3>1. \E b : m = Parsed(SetBool(b))  BY <2>7, Zenon
    <3> QED  BY <2>7, <3>1, MadeFrom, ParseFields
  <2>8. CASE f.type = "timestamp" /\ m = Parsed(SetTimestamp(c.n))  BY <2>8, MadeFrom, ParseFields
  <2>9. CASE f.type = "bytes" /\ m = Parsed(SetBytes(c.s))  BY <2>9, MadeFrom, ParseFields
  <2>10. CASE c.k = "text" /\ m = Parsed(SetString(c.s))
    <3>1. Text(src, f, c, c.s)  BY <2>10, PlainText
    <3> QED  BY <2>10, <3>1, MadeFrom, ParseFields
  <2> QED  BY <2>2, <2>3, <2>4, <2>5, <2>6, <2>7, <2>8, <2>9, <2>10
<1>5. CASE src = "mongo"
  <2>1. m = MongoCell(f, c)  BY <1>5 DEF MapCell
  <2>2. ASSUME c.k \notin {"null", "time"}, f.type # "int64" PROVE Text(src, f, c, Sprint(c))
    <3>1. c.k \in {"text", "number", "bool"}  BY <1>5, <2>2 DEF Kinds
    <3> QED  BY <2>2, <3>1, SprintText
  <2>3. CASE m = Refused  BY <2>3, ParseFields
  <2>4. CASE c.k = "null" /\ m = Parsed(SetNull(f.type))  BY <1>0, <2>4, MadeFrom, ParseFields
  <2>5. CASE f.type = "int64" /\ c.k = "number" /\ m = Parsed(SetInt64(Truncate(c.n)))
    BY <2>5, WholeFrom, ParseFields
  <2>6. CASE f.type = "float64" /\ c.k = "number" /\ m = Parsed(SetFloat64(Nearest(c.n)))
    BY <2>6, FloatFrom, ParseFields
  <2>7. CASE c.k = "bool" /\ m = Parsed(SetBool(c.n = 1))
    <3>1. \E b : m = Parsed(SetBool(b))  BY <2>7, Zenon
    <3> QED  BY <2>7, <3>1, MadeFrom, ParseFields
  <2>8. CASE f.type = "timestamp" /\ \E n : m = Parsed(SetTimestamp(n))  BY <2>8, MadeFrom, ParseFields
  <2>9. CASE f.type = "bool" /\ m = Parsed(SetBool(CoerceBoolFast(c.s).val))  BY <2>9, MadeFrom, ParseFields
  <2>10. CASE /\ f.type = "int64" /\ c.k = "text" /\ CoerceInt64Fast(c.s).ok
              /\ m = Parsed(SetInt64(CoerceInt64Fast(c.s).val))
    BY <2>10, ParsedFrom, ParseFields
  <2>11. CASE /\ f.type = "float64" /\ c.k = "text" /\ CoerceFloat64Fast(c.s).ok
              /\ m = Parsed(SetFloat64(CoerceFloat64Fast(c.s).val))
    BY <2>11, ParsedFrom, ParseFields
  <2>12. CASE /\ f.type = "decimal" /\ c.k \notin {"null", "time"}
              /\ CoerceDecimalFast(Sprint(c), f.scale, f.onOverflow).ok
              /\ m = Parsed(SetDecimal(CoerceDecimalFast(Sprint(c), f.scale, f.onOverflow).val, f.scale))
    <3>1. PICK p : p = CoerceDecimalFast(Sprint(c), f.scale, f.onOverflow)  OBVIOUS
    <3>2. Text(src, f, c, Sprint(c))  BY <2>2, <2>12
    <3>3. Sourced(src, f, c, SetDecimal(p.val, f.scale))  BY <2>12, <3>1, <3>2, DecimalFrom
    <3> QED  BY <2>12, <3>1, <3>3, ParseFields
  <2>13. CASE f.type = "string" /\ c.k \notin {"null", "time"} /\ m = Parsed(SetString(Sprint(c)))
    <3>1. PICK u : u = Sprint(c)  OBVIOUS
    <3>2. Text(src, f, c, u)  BY <2>2, <2>13, <3>1
    <3>3. Sourced(src, f, c, SetString(u))  BY <3>2, MadeFrom
    <3>4. m.val = SetString(u)  BY <2>13, <3>1, ParseFields
    <3> QED  BY <3>3, <3>4
  <2>14. CASE /\ f.type = "decimal" /\ c.k = "time"
              /\ m = Parsed(SetDecimal(CoerceDecimalFast(Sprint(c), f.scale, f.onOverflow).val, f.scale))
    <3>1. PICK z : z = CoerceDecimalFast(Sprint(c), f.scale, f.onOverflow).val  OBVIOUS
    <3>2. Sourced(src, f, c, SetDecimal(z, f.scale))  BY <2>14, TimeFrom
    <3>3. m.val = SetDecimal(z, f.scale)  BY <2>14, <3>1, ParseFields
    <3> QED  BY <3>2, <3>3
  <2>15. CASE f.type = "string" /\ c.k = "time" /\ m = Parsed(SetString(Sprint(c)))
    BY <2>15, TimeFrom, ParseFields
  <2> QED
    BY <2>1, <2>3, <2>4, <2>5, <2>6, <2>7, <2>8, <2>9, <2>10, <2>11, <2>12, <2>13, <2>14, <2>15
    DEF MongoCell, Via
<1> QED  BY <1>1, <1>2, <1>3, <1>4, <1>5 DEF Sources

-----------------------------------------------------------------------------
(* From the cells to the committed outputs.                                *)
LEMMA FieldFate ==
  ASSUME CaseInv, NEW i \in DOMAIN input, Raw(i).st = "ok", NEW j \in DOMAIN schema
  PROVE  Fate(input[i].src, schema[j], input[i].cells[j], PlanResult(Raw(i).val, j))
<1>1. PICK k \in Cases : schema = k.schema /\ input = k.input  BY DEF CaseInv
<1>2. PICK e : e = input[i]  OBVIOUS
<1>3. PICK f : f = schema[j]  OBVIOUS
<1>4. PICK c : c = e.cells[j]  OBVIOUS
<1>5. e.src \in Sources /\ f.scale \in Int  BY <1>1, <1>2, <1>3, FlowAssumption
<1>6. c.k \in Kinds(e.src) /\ c.n \in Int /\ IsSeq(c.s)  BY <1>1, <1>2, <1>4, FlowAssumption
<1>7. PICK mapped : mapped = [x \in DOMAIN schema |-> MapCell(e.src, schema[x], e.cells[x])]  OBVIOUS
<1>8. Raw(i) = IF \E x \in DOMAIN schema : ~mapped[x].ok THEN Stop("err")
               ELSE Got(Record(SchemaID(e.src), [x \in DOMAIN schema |-> mapped[x].val],
                               AuditFields(e.src)), 0)
  BY <1>2, <1>7 DEF Raw, Emitted
<1>9. \A x \in DOMAIN schema : mapped[x].ok
  <2>1. Stop("err").st # "ok"  BY DEF Stop
  <2> QED  BY <1>8, <2>1
<1>10. PICK rec : rec = Raw(i).val  OBVIOUS
<1>11. rec.values = [x \in DOMAIN schema |-> mapped[x].val]
  <2>1. PICK vs : vs = [x \in DOMAIN schema |-> mapped[x].val]  OBVIOUS
  <2>2. Raw(i) = Got(Record(SchemaID(e.src), vs, AuditFields(e.src)), 0)  BY <1>8, <1>9, <2>1
  <2>3. rec = Record(SchemaID(e.src), vs, AuditFields(e.src))  BY <1>10, <2>2 DEF Got
  <2> QED  BY <2>1, <2>3 DEF Record
<1>12. PICK m : m = MapCell(e.src, f, c)  OBVIOUS
<1>13. mapped[j] = m  BY <1>3, <1>4, <1>7, <1>12
<1>14. m.ok /\ j \in DOMAIN rec.values /\ rec.values[j] = m.val  BY <1>9, <1>11, <1>13
<1>15. PlanResult(rec, j) = compileFieldPlan(f, m.val)  BY <1>3, <1>14 DEF PlanResult
<1>16. Sourced(e.src, f, c, m.val)  BY <1>5, <1>6, <1>12, <1>14, CellFrom
<1>17. Fate(e.src, f, c, compileFieldPlan(f, m.val))  BY <1>5, <1>16, PlanFate
<1> QED  BY <1>2, <1>3, <1>4, <1>10, <1>15, <1>17

LEMMA IdealParts ==
  ASSUME IsSeq(schema), NEW rec, NEW v, v = Validate(rec)
  PROVE  /\ v.to = "valid" => \A j \in DOMAIN schema : /\ PlanResult(rec, j).ok
                                                      /\ v.rec.values[j] = PlanResult(rec, j).val
         /\ v.to = "dlq" => \E j \in DOMAIN schema : /\ ~PlanResult(rec, j).ok
                                                    /\ v.letter.col = <<schema[j].name>>
         /\ DOMAIN v.rec.values = DOMAIN schema \/ v.to # "valid"
<1>1. PICK bad, values : /\ bad = {i \in DOMAIN schema : ~PlanResult(rec, i).ok}
                         /\ values = [i \in DOMAIN schema |-> PlanResult(rec, i).val]
  OBVIOUS
<1>2. CASE bad = {}
  <2>1. \E events : v = Outcome("valid", Record(rec.schema, values, Enriched(rec)), NoLetter, events)
    BY <1>1, <1>2 DEF Validate
  <2>2. v.to = "valid" /\ v.rec = Record(rec.schema, values, Enriched(rec))  BY <2>1 DEF Outcome
  <2>3. v.rec.values = values  BY <2>2 DEF Record
  <2>4. \A j \in DOMAIN schema : PlanResult(rec, j).ok  BY <1>1, <1>2
  <2> QED  BY <1>1, <2>2, <2>3, <2>4
<1>3. CASE bad # {}
  <2>1. v = Outcome("dlq", Nil, DeadLetter(rec, Min(bad)), 1)  BY <1>1, <1>3 DEF Validate
  <2>2. PICK n \in Nat : DOMAIN schema = 1 .. n  BY SeqShape
  <2>3. bad \in SUBSET (1 .. n)  BY <1>1, <2>2
  <2>4. PICK j : j = Min(bad)  OBVIOUS
  <2>5. j \in bad  BY <1>3, <2>3, <2>4, Extremes
  <2>6. v.to = "dlq" /\ v.letter = DeadLetter(rec, j)  BY <2>1, <2>4 DEF Outcome
  <2>7. v.letter.col = <<schema[j].name>>  BY <2>6 DEF DeadLetter
  <2> QED  BY <1>1, <2>5, <2>6, <2>7
<1> QED  BY <1>2, <1>3

LEMMA CommittedHeld ==
  ASSUME FlowInv, CoderInv, NEW i \in DOMAIN valid, NEW j \in DOMAIN schema, Valid(schema[j])
  PROVE  Held(schema[j], input[i].cells[j], valid[i].values[j])
<1>1. PICK v : v = Ideal(i)  OBVIOUS
<1>2. Raw(i).st = "ok" /\ v.to = "valid" /\ valid[i] \in {v.rec, Typeless(v.rec)}
  BY <1>1 DEF CoderInv, OutputsInv
<1>3. i \in DOMAIN input  BY DEF FlowInv, Shape
<1>4. IsSeq(schema) /\ CaseInv  BY RawMade DEF CoderInv
<1>5. v = Validate(Raw(i).val)  BY <1>1 DEF Ideal
<1>6. PICK p : p = PlanResult(Raw(i).val, j)  OBVIOUS
<1>7. p.ok /\ v.rec.values[j] = p.val /\ DOMAIN v.rec.values = DOMAIN schema
  BY <1>2, <1>4, <1>5, <1>6, IdealParts
<1>8. Fate(input[i].src, schema[j], input[i].cells[j], p)  BY <1>2, <1>3, <1>4, <1>6, FieldFate
<1>9. Held(schema[j], input[i].cells[j], p.val)  BY <1>7, <1>8 DEF Fate
<1>10. CASE valid[i] = v.rec  BY <1>7, <1>9, <1>10
<1>11. CASE valid[i] = Typeless(v.rec)
  <2>1. valid[i].values[j] = IF p.val.null THEN SetNull("") ELSE p.val
    <3>1. PICK r : r = v.rec  OBVIOUS
    <3>2. PICK t : t = Typeless(r)  OBVIOUS
    <3>3. t.values = [x \in DOMAIN r.values |-> Stored(r.values[x])]  BY <3>2 DEF Typeless, Stored
    <3>4. j \in DOMAIN r.values /\ r.values[j] = p.val  BY <1>7, <3>1
    <3>5. t.values[j] = Stored(p.val)  BY <3>3, <3>4
    <3>6. valid[i] = t  BY <1>11, <3>1, <3>2
    <3> QED  BY <3>5, <3>6 DEF Stored
  <2>2. p.val.null => Blank(input[i].cells[j])  BY <1>9 DEF Held
  <2>3. p.val.null => Held(schema[j], input[i].cells[j], SetNull(""))  BY <2>2, NullHeld, PlanFields
  <2> QED  BY <1>9, <2>1, <2>3
<1> QED  BY <1>2, <1>10, <1>11

(* What a validated record holds is what the source's cell said, for any   *)
(* widths of the integers and floats, any schema and any cells of the five *)
(* sources, with or without coders between the stages: the parsers, the    *)
(* mappers and the casting plan never change a number that fits, and never *)
(* lose a value that is not blank.  The scales of the decimals are         *)
(* natural, as Schema.Validate (domain/schema.go) demands.                 *)
THEOREM ValuesKept ==
  ASSUME \A k \in Cases : \A j \in DOMAIN k.schema :
           k.schema[j].type = "decimal" => k.schema[j].scale \in Nat
  PROVE  FlowSpec => []ValuesPreserved
<1>1. FlowInv /\ CoderInv => ValuesPreserved
  <2> SUFFICES ASSUME FlowInv, CoderInv, NEW i \in DOMAIN valid, NEW j \in DOMAIN schema
               PROVE  Held(schema[j], input[i].cells[j], valid[i].values[j])
    BY DEF ValuesPreserved, Held
  <2>1. PICK k \in Cases : schema = k.schema /\ input = k.input  BY DEF CoderInv, CaseInv
  <2>2. Valid(schema[j])  BY <2>1 DEF Valid
  <2> QED  BY <2>2, CommittedHeld
<1> QED  BY <1>1, FlowInvariance, PTL

(* A dead letter names a column that cannot be read as its field's type,   *)
(* for any schema (negative scales too) and any cells of the five sources. *)
THEOREM LettersForCause == FlowSpec => []QuarantinedForCause
<1>1. FlowInv /\ CoderInv => QuarantinedForCause
  <2> SUFFICES ASSUME FlowInv, CoderInv, NEW i \in DOMAIN dlq
               PROVE  \E j \in DOMAIN schema : /\ dlq[i].col = <<schema[j].name>>
                                               /\ Cause(input[i].src, schema[j], input[i].cells[j])
    BY DEF QuarantinedForCause, Cause, Exponent, WholePart
  <2>1. PICK v : v = Ideal(i)  OBVIOUS
  <2>2. Raw(i).st = "ok" /\ v.to = "dlq" /\ dlq[i] = v.letter  BY <2>1 DEF CoderInv, OutputsInv
  <2>3. i \in DOMAIN input  BY DEF FlowInv, Shape
  <2>4. IsSeq(schema) /\ CaseInv  BY RawMade DEF CoderInv
  <2>5. v = Validate(Raw(i).val)  BY <2>1 DEF Ideal
  <2>6. PICK j \in DOMAIN schema : ~PlanResult(Raw(i).val, j).ok /\ v.letter.col = <<schema[j].name>>
    BY <2>2, <2>4, <2>5, IdealParts
  <2>7. Fate(input[i].src, schema[j], input[i].cells[j], PlanResult(Raw(i).val, j))
    BY <2>2, <2>3, <2>4, FieldFate
  <2>8. Cause(input[i].src, schema[j], input[i].cells[j])  BY <2>6, <2>7 DEF Fate
  <2> QED  BY <2>2, <2>6, <2>8
<1> QED  BY <1>1, FlowInvariance, PTL

=============================================================================
