----------------------------- MODULE FieldCast -----------------------------
(***************************************************************************)
(* The value of one field on its way from a source to the validated        *)
(* record: how each source turns a cell into a FieldValue (the CSV and     *)
(* JSONL parsers, the JSON extractor of the REST source, the SQL and the   *)
(* MongoDB mappers), the number parsers of pkg/fastnum and                 *)
(* domain/coercion.go, FieldValue.String(), and the casting plan that      *)
(* cast_and_validate.go compiles for a schema field.                       *)
(*                                                                         *)
(* A string is a sequence of characters; a date-time literal is one        *)
(* character of TimeLiterals.  A 64-bit integer has Bits bits.  A float64  *)
(* is represented by the multiple of 1/FloatUnit it is nearest to: a whole *)
(* number up to MaxWhole is a float64 itself, and up to MaxUnits units the *)
(* binary rounding of a fraction stays below half a unit; beyond, Nearest  *)
(* loses the low bits.  A time is a number of half seconds, so that a      *)
(* format with whole seconds loses something.                              *)
(***************************************************************************)
EXTENDS Integers, Sequences, SequencesExt, FiniteSetsExt

CONSTANTS
    Bits,        \* the width of int64 and uint64
    FloatUnit,   \* floats are multiples of 1/FloatUnit (a power of ten)
    MaxWhole,    \* the whole numbers up to here are floats (2^53)
    MaxUnits,    \* up to so many units a float tells them apart
    ExpFrom,     \* fmt's %v writes a float from here on with an exponent,
    ExpBelow,    \* and one of fewer units than this (10^-4)
    Saturates    \* whether int64(x) of a float out of range is the nearest
                 \* int64 (arm64) or the smallest one (amd64)

MaxInt64 == 2 ^ (Bits - 1) - 1
MaxUint64 == 2 * MaxInt64 + 1

\* the powers of ten
Pow10[n \in Nat] == IF n = 0 THEN 1 ELSE 10 * Pow10[n - 1]

ASSUME CastAssumption ==
    /\ Bits \in Nat \ {0} /\ MaxInt64 \in Nat
    /\ \E d \in 0 .. 9 : Pow10[d] = FloatUnit
    /\ ExpFrom \in Nat \ {0} /\ ExpBelow \in Nat
    /\ MaxWhole \in Nat \ {0} /\ MaxUnits \in Nat \ {0} /\ MaxUnits <= MaxWhole * FloatUnit
    /\ Saturates \in BOOLEAN

----------------------------------------------------------------------------
(* FieldValue of domain/record.go; the zero value has type "string".       *)

FieldValue(type, num, scale, str) ==
    [type |-> type, null |-> FALSE, num |-> num, scale |-> scale, str |-> str]
SetNull(type) ==
    [type |-> type, null |-> TRUE, num |-> 0, scale |-> 0, str |-> <<>>]
SetString(s) == FieldValue("string", 0, 0, s)
SetInt64(n) == FieldValue("int64", n, 0, <<>>)
SetFloat64(x) == FieldValue("float64", x, 0, <<>>)
SetBool(b) == FieldValue("bool", IF b THEN 1 ELSE 0, 0, <<>>)
SetTimestamp(t) == FieldValue("timestamp", t, 0, <<>>)
SetBytes(s) == FieldValue("bytes", 0, 0, s)
SetDecimal(m, scale) == FieldValue("decimal", m, scale, <<>>)

----------------------------------------------------------------------------
(* Characters.                                                             *)

Digits == <<"0", "1", "2", "3", "4", "5", "6", "7", "8", "9">>
IsDigit(c) == \E i \in DOMAIN Digits : Digits[i] = c
DigitVal(c) == (CHOOSE i \in DOMAIN Digits : Digits[i] = c) - 1

\* time literals: "T0" is second 0, "T0h" is half a second later
TimeLiterals == ("T0" :> 0) @@ ("T0h" :> 1) @@ ("T1" :> 2)
Spelling(b) == IF b THEN <<"t", "r", "u", "e">> ELSE <<"f", "a", "l", "s", "e">>
BoolStrings ==
    LET yes == {Spelling(TRUE), <<"t">>, <<"1">>}
        no == {Spelling(FALSE), <<"f">>, <<"0">>}
    IN  [s \in yes \cup no |-> s \in yes]

TrimSpace(s) ==
    LET kept == {i \in DOMAIN s : s[i] # " "}
    IN  IF kept = {} THEN <<>> ELSE SubSeq(s, Min(kept), Max(kept))

Abs(n) == IF n < 0 THEN - n ELSE n

\* n with the bits that do not fit into max rounded away, half to even
Coarse(n, max) ==
    LET p == 2 ^ Cardinality({k \in 0 .. (Bits - 1) : Abs(n) > max * 2 ^ k})
        q == n \div p
        up == 2 * (n % p) > p \/ (2 * (n % p) = p /\ q % 2 = 1)
    IN  (IF up THEN q + 1 ELSE q) * p
\* the float64 nearest to x units
Nearest(x) == IF x % FloatUnit = 0 THEN Coarse(x \div FloatUnit, MaxWhole) * FloatUnit
              ELSE Coarse(x, MaxUnits)

\* strconv.FormatUint and FormatInt
FormatUint[n \in Nat] ==
    IF n < 10 THEN <<Digits[n + 1]>>
              ELSE Append(FormatUint[n \div 10], Digits[(n % 10) + 1])
Signed(n, s) == IF n < 0 THEN <<"-">> \o s ELSE s
FormatInt(n) == Signed(n, FormatUint[Abs(n)])

\* the digits of n, at least width of them
Padded(n, width) ==
    LET s == FormatUint[n]
    IN  [i \in 1 .. (width - Len(s)) |-> "0"] \o s

\* FormatDecimal of record.go: scale <= 0 writes the bare mantissa
FormatDecimal(m, scale) ==
    IF scale <= 0 THEN FormatInt(m)
    ELSE LET s == Padded(Abs(m), scale + 1)
             dot == Len(s) - scale
         IN  Signed(m, SubSeq(s, 1, dot) \o <<".">> \o SubSeq(s, dot + 1, Len(s)))

\* strconv.FormatFloat(x, 'f', -1, 64): no trailing zeros
FloatDigits == CHOOSE d \in 0 .. 9 : Pow10[d] = FloatUnit
FracDigits(x) ==
    CHOOSE d \in 0 .. FloatDigits :
        /\ x % Pow10[FloatDigits - d] = 0
        /\ \A e \in 0 .. (d - 1) : x % Pow10[FloatDigits - e] # 0
FormatFloat(x) ==
    LET unit == Pow10[FloatDigits - FracDigits(x)]
    IN  FormatDecimal(IF x < 0 THEN - (Abs(x) \div unit) ELSE x \div unit, FracDigits(x))

\* fmt.Sprintf("%v", x) of a float64: %g, large and small numbers with an
\* exponent, whose sign and digits do not matter
Scientific(x) == Abs(x) >= ExpFrom * FloatUnit \/ (x # 0 /\ Abs(x) < ExpBelow)
FormatV(x) ==
    IF Scientific(x) THEN Signed(x, <<Digits[1], "e", "+">>) ELSE FormatFloat(x)

\* FieldValue.String()
String(v) ==
    IF v.null THEN <<>> ELSE
    CASE v.type = "int64"      -> FormatInt(v.num)
      [] v.type = "float64"    -> FormatFloat(v.num)
      [] v.type = "bool"       -> Spelling(v.num = 1)
      [] v.type = "timestamp"  -> <<CHOOSE c \in DOMAIN TimeLiterals :
                                       TimeLiterals[c] = v.num - (v.num % 2)>>
      [] v.type = "decimal"    -> FormatDecimal(v.num, v.scale)
      [] OTHER                 -> v.str

----------------------------------------------------------------------------
(* Parsers: [ok |-> TRUE, val |-> ...] or Refused.                         *)

Parsed(v) == [ok |-> TRUE, val |-> v]
Refused == [ok |-> FALSE, val |-> 0]

extractSign(s) == IF s[1] = "-" THEN <<TRUE, 1>>
                  ELSE IF s[1] = "+" THEN <<FALSE, 1>> ELSE <<FALSE, 0>>
Rest(s) == SubSeq(s, extractSign(s)[2] + 1, Len(s))

\* parseDigitsUint64: refused once the next digit would overflow uint64
DigitStep(n, c) ==
    IF n.ok /\ IsDigit(c) /\ n.val <= (MaxUint64 - DigitVal(c)) \div 10
    THEN Parsed(n.val * 10 + DigitVal(c)) ELSE Refused
parseDigitsUint64(s) == FoldLeft(LAMBDA n, c : DigitStep(n, c), Parsed(0), s)

\* fastnum.ParseInt64 behind CoerceInt64Fast
CoerceInt64Fast(str) ==
    LET s == TrimSpace(str)
        n == parseDigitsUint64(Rest(s))
    IN  IF s = <<>> THEN Refused
        ELSE IF Rest(s) = <<>> \/ ~n.ok THEN Refused
        ELSE IF extractSign(s)[1]
             THEN IF n.val > MaxInt64 + 1 THEN Refused ELSE Parsed(- n.val)
             ELSE IF n.val > MaxInt64 THEN Refused ELSE Parsed(n.val)

\* fastnum.ParseFloat64 behind CoerceFloat64Fast: the integer part is a
\* uint64 and wraps, then a float64 to which every digit behind the point is
\* added with a rounding; there is no exponent
FloatAcc(ok, val, dot, digits, factor) ==
    [ok |-> ok, val |-> val, dot |-> dot, digits |-> digits, factor |-> factor]
FloatStep(n, c) ==
    IF ~n.ok THEN n
    ELSE IF c = "." /\ ~n.dot THEN FloatAcc(TRUE, Nearest(n.val), TRUE, n.digits, n.factor)
    ELSE IF ~IsDigit(c) THEN FloatAcc(FALSE, n.val, n.dot, n.digits, n.factor)
    ELSE IF n.dot
         THEN FloatAcc(TRUE, Nearest(n.val + DigitVal(c) * n.factor), TRUE, TRUE,
                       n.factor \div 10)
         ELSE FloatAcc(TRUE, (((n.val \div FloatUnit) * 10 + DigitVal(c))
                                % (MaxUint64 + 1)) * FloatUnit, FALSE, TRUE, n.factor)

CoerceFloat64Fast(str) ==
    LET s == TrimSpace(str)
        n == FoldLeft(LAMBDA a, c : FloatStep(a, c),
                      FloatAcc(TRUE, 0, FALSE, FALSE, FloatUnit \div 10), Rest(s))
        val == IF n.dot THEN n.val ELSE Nearest(n.val)
    IN  IF s = <<>> THEN Refused
        ELSE IF ~n.ok \/ ~n.digits THEN Refused
        ELSE Parsed(IF extractSign(s)[1] THEN - val ELSE val)

CoerceBoolFast(str) ==
    LET s == TrimSpace(str)
    IN  IF s \in DOMAIN BoolStrings THEN Parsed(BoolStrings[s]) ELSE Refused

CoerceTimestampFast(str) ==
    LET s == TrimSpace(str)
    IN  IF Len(s) = 1 /\ s[1] \in DOMAIN TimeLiterals
        THEN Parsed(TimeLiterals[s[1]]) ELSE Refused

\* int64(x) of a uint64
ToInt64(n) == IF n > MaxInt64 THEN n - (MaxUint64 + 1) ELSE n

DecimalAcc(ok, m, dot, dec, up) == [ok |-> ok, m |-> m, dot |-> dot, dec |-> dec, up |-> up]

\* rounds on every excess digit, not on the first one
DecimalStepLate(scale, onOverflow, n, c) ==
    IF ~n.ok THEN n
    ELSE IF c = "." THEN DecimalAcc(~n.dot, n.m, TRUE, n.dec, n.up)
    ELSE IF ~IsDigit(c) THEN DecimalAcc(FALSE, n.m, n.dot, n.dec, n.up)
    ELSE IF ~n.dot \/ n.dec < scale
         THEN DecimalAcc(TRUE, (n.m * 10 + DigitVal(c)) % (MaxUint64 + 1), n.dot,
                         IF n.dot THEN n.dec + 1 ELSE n.dec, n.up)
    ELSE DecimalAcc(onOverflow # "fail", n.m, n.dot, n.dec, DigitVal(c) >= 5)

\* one character of CoerceDecimalFast: digits up to the scale enter the
\* mantissa, which wraps; the next one decides the rounding
DecimalStep(scale, onOverflow, n, c) ==
    IF ~n.ok THEN n
    ELSE IF c = "." THEN DecimalAcc(~n.dot, n.m, TRUE, n.dec, n.up)
    ELSE IF ~IsDigit(c) THEN DecimalAcc(FALSE, n.m, n.dot, n.dec, n.up)
    ELSE IF ~n.dot \/ n.dec < scale
         THEN DecimalAcc(TRUE, (n.m * 10 + DigitVal(c)) % (MaxUint64 + 1), n.dot,
                         IF n.dot THEN n.dec + 1 ELSE n.dec, n.up)
    ELSE IF n.dec = scale
         THEN DecimalAcc(onOverflow # "fail", n.m, n.dot, n.dec + 1, DigitVal(c) >= 5)
    ELSE n

CoerceDecimalFast(str, scale, onOverflow) ==
    LET s == TrimSpace(str)
        n == FoldLeft(LAMBDA a, c : DecimalStep(scale, onOverflow, a, c),
                      DecimalAcc(TRUE, 0, FALSE, 0, FALSE), Rest(s))
        filled == (n.m * Pow10[Max({0, scale - n.dec})]) % (MaxUint64 + 1)
        m == ToInt64((filled + (IF n.up THEN 1 ELSE 0)) % (MaxUint64 + 1))
    IN  IF s = <<>> THEN Parsed(0)
        ELSE IF Rest(s) = <<>> \/ ~n.ok THEN Refused
        ELSE Parsed(IF extractSign(s)[1] THEN - m ELSE m)

----------------------------------------------------------------------------
(* From a cell of the source to a FieldValue.  A cell has a kind k, the    *)
(* text s of a "text" cell and the number n of the others (a "number", the *)
(* float64 that a JSON or BSON decoder or a SQL driver hands over, in      *)
(* units of 1/FloatUnit, a "bool" as 0 or 1, a "time" in half seconds).    *)
(* A field of the schema is [type, nullable, scale, onOverflow].           *)

Int64s == (- MaxInt64 - 1) .. MaxInt64
\* int64(x) of a float64; Go leaves it to the processor when it does not fit
Truncate(x) ==
    LET whole == IF x < 0 THEN - (Abs(x) \div FloatUnit) ELSE x \div FloatUnit
    IN  IF whole \in Int64s THEN whole
        ELSE IF Saturates /\ x > 0 THEN MaxInt64 ELSE - MaxInt64 - 1

\* one column of the CSV parser; a short row leaves the column "null"
CSVCell(f, c) ==
    IF c.k = "null" \/ TrimSpace(c.s) = <<>> THEN Parsed(SetNull(f.type))
    ELSE Parsed(SetString(TrimSpace(c.s)))

\* mapToGenericRecord of the JSONL parser
JSONCell(f, c) ==
    Parsed(CASE c.k = "null"   -> SetNull(f.type)
             [] c.k = "text"   -> SetString(c.s)
             [] c.k = "number" -> SetFloat64(c.n)
             [] c.k = "bool"   -> SetBool(c.n = 1))

\* fmt.Sprintf("%v", val) of a decoded JSON or BSON value; a bson.DateTime is
\* a number of milliseconds
Sprint(c) == CASE c.k = "text"   -> c.s
               [] c.k = "number" -> FormatV(c.n)
               [] c.k = "bool"   -> Spelling(c.n = 1)
               [] c.k = "time"   -> FormatInt(500 * c.n)

\* ExtractRecords: every value of the REST source becomes a string
APICell(f, c) ==
    Parsed(IF c.k = "null" THEN SetNull(f.type) ELSE SetString(Sprint(c)))

\* NewScanTargetHolder and mapColumn: the driver fills a target of the
\* field's type, or Scan fails; decimals arrive as strings
SQLCell(f, c) ==
    CASE c.k = "null" -> Parsed(SetNull(IF f.type = "decimal" THEN "string" ELSE f.type))
      [] f.type = "int64" /\ c.k = "number" /\ c.n % FloatUnit = 0
            /\ c.n \div FloatUnit \in Int64s -> Parsed(SetInt64(Truncate(c.n)))
      [] f.type = "float64" /\ c.k = "number" -> Parsed(SetFloat64(Nearest(c.n)))
      [] f.type = "bool" /\ c.k = "bool" -> Parsed(SetBool(c.n = 1))
      [] f.type = "timestamp" /\ c.k = "time" -> Parsed(SetTimestamp(c.n))
      [] f.type = "bytes" /\ c.k = "text" -> Parsed(SetBytes(c.s))
      [] f.type \in {"string", "decimal"} /\ c.k = "text" -> Parsed(SetString(c.s))
      [] OTHER -> Refused

\* the parse p made into a value by Set
Via(p, Set(_)) == IF p.ok THEN Parsed(Set(p.val)) ELSE Refused

\* MapBSONToRecord: the mapper already casts; a value it cannot cast, or a
\* null in a required field, makes the whole document an error
MongoCell(f, c) ==
    CASE c.k = "null" -> IF f.nullable THEN Parsed(SetNull(f.type)) ELSE Refused
      [] f.type = "int64" /\ c.k = "number" -> Parsed(SetInt64(Truncate(c.n)))
      [] f.type = "int64" /\ c.k = "text" -> Via(CoerceInt64Fast(c.s), SetInt64)
      [] f.type = "float64" /\ c.k = "number" -> Parsed(SetFloat64(Nearest(c.n)))
      [] f.type = "float64" /\ c.k = "text" -> Via(CoerceFloat64Fast(c.s), SetFloat64)
      [] f.type = "bool" /\ c.k = "bool" -> Parsed(SetBool(c.n = 1))
      [] f.type = "bool" /\ c.k = "text" -> Via(CoerceBoolFast(c.s), SetBool)
      [] f.type = "timestamp" /\ c.k = "time" -> Parsed(SetTimestamp(c.n))
      [] f.type = "timestamp" /\ c.k = "text" -> Via(CoerceTimestampFast(c.s), SetTimestamp)
      [] f.type = "decimal" /\ c.k # "null" ->
             Via(CoerceDecimalFast(Sprint(c), f.scale, f.onOverflow),
                 LAMBDA m : SetDecimal(m, f.scale))
      [] f.type = "string" /\ c.k # "null" -> Parsed(SetString(Sprint(c)))
      [] OTHER -> Refused

----------------------------------------------------------------------------
(* The casting plan of a field: the validated value, or why it fails.      *)

Kept(v) == [ok |-> TRUE, val |-> v, why |-> ""]
Failed(why) == [ok |-> FALSE, val |-> SetNull("string"), why |-> why]

\* refuses nulls in nullable fields too
NullCaseStrict(f) == Failed("null")
\* a null or an empty string: failNull unless the field is nullable
NullCase(f) == IF f.nullable THEN Kept(SetNull(f.type)) ELSE Failed("null")
Cast(p, Set(_)) == IF p.ok THEN Kept(Set(p.val)) ELSE Failed("cast")

\* a value of another type goes through its text
FromText(f, raw, Parse(_)) ==
    IF String(raw) = <<>> THEN NullCase(f) ELSE Parse(String(raw))

CastInt64(f, raw) ==
    IF raw.null THEN NullCase(f) ELSE
    CASE raw.type = "int64"    -> Kept(raw)
      [] raw.type = "float64"  -> Kept(SetInt64(Truncate(raw.num)))
      [] OTHER -> FromText(f, raw, LAMBDA s : Cast(CoerceInt64Fast(s), SetInt64))

CastDecimal(f, raw) ==
    IF raw.null THEN NullCase(f) ELSE
    CASE raw.type = "decimal" /\ raw.scale = f.scale -> Kept(raw)
      [] raw.type = "int64"    -> Kept(SetDecimal(raw.num, 0))
      [] OTHER -> FromText(f, raw, LAMBDA s :
                    Cast(CoerceDecimalFast(s, f.scale, f.onOverflow),
                         LAMBDA m : SetDecimal(m, f.scale)))

CastFloat64(f, raw) ==
    IF raw.null THEN NullCase(f) ELSE
    CASE raw.type = "float64"  -> Kept(raw)
      [] raw.type = "int64"    -> Kept(SetFloat64(Nearest(raw.num * FloatUnit)))
      [] OTHER -> FromText(f, raw, LAMBDA s : Cast(CoerceFloat64Fast(s), SetFloat64))

CastBool(f, raw) ==
    IF raw.null THEN NullCase(f)
    ELSE IF raw.type = "bool" THEN Kept(raw)
    ELSE FromText(f, raw, LAMBDA s : Cast(CoerceBoolFast(s), SetBool))

CastTimestamp(f, raw) ==
    IF raw.null THEN NullCase(f)
    ELSE IF raw.type = "timestamp" THEN Kept(raw)
    ELSE FromText(f, raw, LAMBDA s : Cast(CoerceTimestampFast(s), SetTimestamp))

CastBytes(f, raw) == IF raw.null THEN NullCase(f) ELSE Kept(SetBytes(String(raw)))

\* strings, and every type the plan does not know ("date", "json")
CastString(f, raw) ==
    IF ~raw.null THEN Kept(SetString(String(raw)))
    ELSE IF f.nullable THEN Kept(SetNull("string")) ELSE Failed("null")

compileFieldPlan(f, raw) ==
    CASE f.type = "int64"     -> CastInt64(f, raw)
      [] f.type = "decimal"   -> CastDecimal(f, raw)
      [] f.type = "float64"   -> CastFloat64(f, raw)
      [] f.type = "bool"      -> CastBool(f, raw)
      [] f.type = "timestamp" -> CastTimestamp(f, raw)
      [] f.type = "bytes"     -> CastBytes(f, raw)
      [] OTHER                -> CastString(f, raw)

============================================================================
