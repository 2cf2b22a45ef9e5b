---------------------------- MODULE RecordCoder ----------------------------
(***************************************************************************)
(* The binary coders Beam calls when a record, a dead letter or the        *)
(* metrics cross a stage boundary (coders.go, coders_helpers.go).  A byte  *)
(* stream is a sequence of tokens: a varint, one character of a string, a  *)
(* null mask, a type byte, a fixed-width number.  A reader that meets      *)
(* another token than the one it expects fails, as it does in the code     *)
(* when the bytes are read out of step.                                    *)
(***************************************************************************)
EXTENDS FieldCast

CONSTANTS
    MaxRecordFields,   \* DefaultMaxRecordFields, checked by the reader only
    MaxBytes           \* DefaultChunkSizeBytes, checked by the reader only

ASSUME CoderAssumption == MaxRecordFields \in Nat /\ MaxBytes \in Nat \ {0}

\* an assignment to a map
Put(g, x, y) == [z \in {x} \cup DOMAIN g |-> IF z = x THEN y ELSE g[z]]

----------------------------------------------------------------------------
(* Writers.                                                                *)

Token(k, v) == <<[k |-> k, v |-> v]>>
writeVarint(n) == Token("varint", n)
writeBytes(s) == writeVarint(Len(s)) \o [i \in DOMAIN s |-> [k |-> "char", v |-> s[i]]]

Codes == [int64 |-> 1, float64 |-> 2, bool |-> 3, timestamp |-> 4, bytes |-> 5,
          date |-> 6, decimal |-> 7, json |-> 8]
dataTypeToByte(type) == IF type \in DOMAIN Codes THEN Codes[type] ELSE 0
byteToDataType(b) ==
    IF \E t \in DOMAIN Codes : Codes[t] = b
    THEN CHOOSE t \in DOMAIN Codes : Codes[t] = b ELSE "string"

encodeFieldValue(v) ==
    CASE v.type \in {"int64", "timestamp"} -> writeVarint(v.num)
      [] v.type \in {"float64", "bool"}    -> Token("fixed", v.num)
      [] v.type = "decimal"                -> writeVarint(v.num) \o writeVarint(v.scale)
      [] OTHER                             -> writeBytes(v.str)

writeNullMask(values) == Token("mask", {i \in DOMAIN values : values[i].null})
\* writes the values of the null fields too
writeFieldValuesAll(values) ==
    FlattenSeq([i \in DOMAIN values |->
        Token("type", dataTypeToByte(values[i].type)) \o encodeFieldValue(values[i])])

writeFieldValues(values) ==
    FlattenSeq([i \in DOMAIN values |->
        IF values[i].null THEN <<>>
        ELSE Token("type", dataTypeToByte(values[i].type)) \o encodeFieldValue(values[i])])

\* a map in the order the code ranges over it: any order will do
writeMap(m, Write(_)) ==
    LET keys == SetToSeq(DOMAIN m)
    IN  writeVarint(Len(keys))
        \o FlattenSeq([i \in DOMAIN keys |-> writeBytes(keys[i]) \o Write(m[keys[i]])])

Nil == [schema |-> <<>>, values |-> <<>>, audit |-> <<>>, nil |-> TRUE]
Record(schema, values, audit) ==
    [schema |-> schema, values |-> values, audit |-> audit, nil |-> FALSE]

EncodeGenericRecord(rec) ==
    IF rec.nil THEN writeVarint(-1)
    ELSE writeBytes(rec.schema) \o writeVarint(Len(rec.values))
         \o writeNullMask(rec.values) \o writeFieldValues(rec.values)
         \o writeMap(rec.audit, writeBytes)

EncodeDeadLetterRecord(d) ==
    writeBytes(d.payload) \o writeBytes(d.col) \o writeBytes(d.source)

EncodePipelineMetrics(m) ==
    writeVarint(m.total) \o writeVarint(m.written) \o writeVarint(m.dead)
    \o writeMap(m.origins, LAMBDA o : writeVarint(o.total) \o writeVarint(o.valid)
                                      \o writeVarint(o.dlq))

----------------------------------------------------------------------------
(* Readers: what was read, and where the next one starts.  The status is   *)
(* "nil" when a string has length -1 (ErrNilToken).                        *)

Got(v, at) == [st |-> "ok", val |-> v, at |-> at]
Stop(st) == [st |-> st, val |-> 0, at |-> 0]

Expect(t, at, k) ==
    IF at \in DOMAIN t /\ t[at].k = k THEN Got(t[at].v, at + 1) ELSE Stop("err")
readVarint(t, at) == Expect(t, at, "varint")

readBytes(t, at) ==
    LET n == readVarint(t, at)
    IN  IF n.st # "ok" \/ n.val < -1 \/ n.val > MaxBytes THEN Stop("err")
        ELSE IF n.val = -1 THEN Stop("nil")
        ELSE IF \A i \in 1 .. n.val : Expect(t, at + i, "char").st = "ok"
             THEN Got([i \in 1 .. n.val |-> t[at + i].v], at + n.val + 1)
             ELSE Stop("err")

\* Then(r, G): go on with G(value, position), or stop where r stopped
Then(r, G(_, _)) == IF r.st = "ok" THEN G(r.val, r.at) ELSE r

decodeFieldValue(t, at, type) ==
    CASE type = "int64"     -> Then(readVarint(t, at), LAMBDA n, q : Got(SetInt64(n), q))
      [] type = "timestamp" -> Then(readVarint(t, at), LAMBDA n, q : Got(SetTimestamp(n), q))
      [] type = "float64"   -> Then(Expect(t, at, "fixed"), LAMBDA n, q : Got(SetFloat64(n), q))
      [] type = "bool"      -> Then(Expect(t, at, "fixed"), LAMBDA n, q : Got(SetBool(n # 0), q))
      [] type = "decimal"   ->
            Then(readVarint(t, at), LAMBDA m, q :
              Then(readVarint(t, q), LAMBDA s, q2 : Got(SetDecimal(m, s), q2)))
      [] OTHER              ->
            Then(readBytes(t, at), LAMBDA s, q : Got(FieldValue(type, 0, 0, s), q))

\* one round of the loop of readFieldValues: a masked field keeps the zero type
readField(t, mask, r, i) ==
    Then(r, LAMBDA vals, p :
      IF i \in mask THEN Got(Append(vals, SetNull("")), p)
      ELSE Then(Expect(t, p, "type"), LAMBDA b, q :
             Then(decodeFieldValue(t, q, byteToDataType(b)), LAMBDA v, q2 :
               Got(Append(vals, v), q2))))
readFieldValues(t, at, n, mask) ==
    FoldLeft(LAMBDA r, i : readField(t, mask, r, i), Got(<<>>, at), [i \in 1 .. n |-> i])

\* one round of the loops that read a map: a key and its value
readEntry(t, r, Read(_)) ==
    Then(r, LAMBDA m, p :
      Then(readBytes(t, p), LAMBDA key, q :
        Then(Read(q), LAMBDA v, q2 : Got(Put(m, key, v), q2))))

readAuditFields(t, at) ==
    Then(readVarint(t, at), LAMBDA n, p :
      FoldLeft(LAMBDA r, i : readEntry(t, r, LAMBDA q : readBytes(t, q)),
               Got(<<>>, p), [i \in 1 .. n |-> i]))

readOriginMetric(t, at) ==
    Then(readVarint(t, at), LAMBDA total, p :
      Then(readVarint(t, p), LAMBDA valid, q :
        Then(readVarint(t, q), LAMBDA dlq, q2 :
          Got([total |-> total, valid |-> valid, dlq |-> dlq], q2))))
readOriginMetrics(t, at) ==
    Then(readVarint(t, at), LAMBDA n, p :
      FoldLeft(LAMBDA r, i : readEntry(t, r, LAMBDA q : readOriginMetric(t, q)),
               Got(<<>>, p), [i \in 1 .. n |-> i]))

DecodeGenericRecord(t) ==
    LET id == readBytes(t, 1)
        count == readVarint(t, id.at)
        mask == Expect(t, count.at, "mask")
        values == readFieldValues(t, mask.at, count.val, mask.val)
        audit == readAuditFields(t, values.at)
    IN  IF id.st = "nil" THEN Got(Nil, 0)
        ELSE IF id.st # "ok" \/ count.st # "ok" THEN Stop("err")
        ELSE IF count.val < 0 \/ count.val > MaxRecordFields THEN Stop("err")
        ELSE IF mask.st # "ok" \/ values.st # "ok" \/ audit.st # "ok" THEN Stop("err")
        ELSE Got(Record(id.val, values.val, audit.val), audit.at)

DecodeDeadLetterRecord(t) ==
    Then(readBytes(t, 1), LAMBDA payload, p :
      Then(readBytes(t, p), LAMBDA col, q :
        Then(readBytes(t, q), LAMBDA source, q2 :
          Got([payload |-> payload, col |-> col, source |-> source], q2))))

DecodePipelineMetrics(t) ==
    Then(readVarint(t, 1), LAMBDA total, p :
      Then(readVarint(t, p), LAMBDA written, q :
        Then(readVarint(t, q), LAMBDA dead, q2 :
          Then(readOriginMetrics(t, q2), LAMBDA origins, r :
            Got([total |-> total, written |-> written, dead |-> dead,
                 origins |-> origins], r)))))

============================================================================
