----------------------------- MODULE RecordFlow -----------------------------
(***************************************************************************)
(* The middle of the pipeline graph_builder.go lays out: the records the   *)
(* source emits lose their nils, are enriched and validated by             *)
(* FusedEnrichAndValidateFn, leave as valid records, dead letters and      *)
(* audit events, and are counted per origin and then over all origins      *)
(* (metrics_combiner.go) until MetricsSinkDoFn writes the totals.          *)
(*                                                                         *)
(* The runner cuts the input into bundles, retries the ones that fail and  *)
(* keeps only the output of those that succeed; it combines the per-bundle *)
(* accumulators in any order; and it either fuses the stages or passes     *)
(* every element through its coder between them.                           *)
(***************************************************************************)
EXTENDS RecordCoder

CONSTANTS
    Cases,         \* the [schema, input] pairs to run the graph on
    SoftNotNull,   \* the columns of the soft "not_null" quality rules
    Workers,       \* bundles in flight
    MaxAttempts    \* failures after which the runner gives the job up

Sources == {"csv", "jsonl", "api", "sql", "mongo"}
\* the kinds of cells a source can hold
Kinds(src) ==
    {"null", "text"} \cup (IF src = "csv" THEN {} ELSE {"number", "bool"})
                    \cup (IF src \in {"sql", "mongo"} THEN {"time"} ELSE {})
IsSeq(s) == s \in Seq(Range(s))

ASSUME FlowAssumption ==
    /\ MaxAttempts \in Nat \ {0}
    /\ \A c \in Cases :
         /\ IsSeq(c.input) /\ IsSeq(c.schema)
         /\ \A j \in DOMAIN c.schema : c.schema[j].scale \in Int
         /\ \A i \in DOMAIN c.input : c.input[i].src \in Sources
         /\ \A i \in DOMAIN c.input, j \in DOMAIN c.schema :
              \E cell \in {c.input[i].cells[j]} :
                cell.k \in Kinds(c.input[i].src) /\ cell.n \in Int /\ IsSeq(cell.s)

VARIABLES
    schema,     \* the schema of the job: a sequence of fields
    input,      \* what the source reads: a sequence of [src, cells]
    fused,      \* whether the stages exchange pointers or encoded bytes
    bundle,     \* per worker: the elements left, the record held between two
                \* stages, the outputs so far and their counts per origin
    valid,      \* committed output: element -> validated record
    dlq,        \* committed output: element -> dead letter
    audits,     \* committed output: number of audit events
    partials,   \* lifted accumulators: [origin, acc, from]
    sums,       \* partial PipelineMetrics: [metrics, from]
    metrics,    \* pipeline_metrics.json, {} while it does not exist
    errors,     \* the elements whose processing returned an error
    attempts,   \* failures so far
    job         \* "running", "done" or "failed"

flowVars == <<schema, input, fused, bundle, valid, dlq, audits, partials, sums,
          metrics, errors, attempts, job>>

SourceFile == <<"_source_file">>
IngestedAt == <<"_ingested_at">>
Bundle(left, held, out, accs) == [left |-> left, held |-> held, out |-> out, accs |-> accs]
Idle == Bundle({}, {}, <<>>, <<>>)

FlowInit ==
    /\ \E c \in Cases : schema = c.schema /\ input = c.input
    /\ fused \in BOOLEAN
    /\ bundle = [w \in Workers |-> Idle]
    /\ valid = <<>> /\ dlq = <<>> /\ audits = 0
    /\ partials = {} /\ sums = {} /\ metrics = {}
    /\ errors = {} /\ attempts = 0 /\ job = "running"

----------------------------------------------------------------------------
(* What the source emits for an element.                                   *)

MapCell(src, f, c) ==
    CASE src = "csv"   -> CSVCell(f, c)
      [] src = "jsonl" -> JSONCell(f, c)
      [] src = "api"   -> APICell(f, c)
      [] src = "sql"   -> SQLCell(f, c)
      [] src = "mongo" -> MongoCell(f, c)

FromFile(src) == src \in {"csv", "jsonl"}
SchemaID(src) == CASE FromFile(src)  -> <<src>>
                   [] src = "api"    -> <<"api_source">>
                   [] src = "sql"    -> <<"sql-schema">>
                   [] src = "mongo"  -> <<>>
AuditFields(src) == CASE FromFile(src) -> Put(<<>>, SourceFile, <<src>>)
                      [] src = "sql"   -> Put(<<>>, IngestedAt, <<"then">>)
                      [] OTHER         -> <<>>

\* a cell the mapper refuses is a row error of the source
Emitted(e) ==
    LET mapped == [i \in DOMAIN schema |-> MapCell(e.src, schema[i], e.cells[i])]
    IN  IF \E i \in DOMAIN schema : ~mapped[i].ok THEN Stop("err")
        ELSE Got(Record(SchemaID(e.src), [i \in DOMAIN schema |-> mapped[i].val],
                        AuditFields(e.src)), 0)

----------------------------------------------------------------------------
(* FusedEnrichAndValidateFn.ProcessElement.  BuildPipeline passes no job   *)
(* and no execution identifier.                                            *)

Enriched(rec) ==
    IF IngestedAt \in DOMAIN rec.audit THEN rec.audit
    ELSE Put(rec.audit, IngestedAt, <<"now">>)

\* the plan of the field, on the value of the record or on none
PlanResult(rec, i) ==
    compileFieldPlan(schema[i], IF i \in DOMAIN rec.values THEN rec.values[i]
                                ELSE SetNull(""))

DeadLetter(rec, i) ==
    [payload |-> FlattenSeq([j \in DOMAIN rec.values |-> String(rec.values[j])]),
     col |-> <<schema[i].name>>,
     source |-> IF SourceFile \in DOMAIN rec.audit THEN rec.audit[SourceFile] ELSE <<>>]

NoLetter == [payload |-> <<>>, col |-> <<>>, source |-> <<>>]
Outcome(to, rec, letter, events) ==
    [to |-> to, rec |-> rec, letter |-> letter, audits |-> events]

\* the first field that fails decides; soft rules only warn
Validate(rec) ==
    LET bad == {i \in DOMAIN schema : ~PlanResult(rec, i).ok}
        values == [i \in DOMAIN schema |-> PlanResult(rec, i).val]
        soft == {i \in DOMAIN schema : schema[i].name \in SoftNotNull /\ values[i].null}
    IN  IF bad = {}
        THEN Outcome("valid", Record(rec.schema, values, Enriched(rec)), NoLetter,
                     Cardinality(soft))
        ELSE Outcome("dlq", Nil, DeadLetter(rec, Min(bad)), 1)

\* a stage boundary
CrossRecord(rec) ==
    IF fused THEN Got(rec, 0) ELSE DecodeGenericRecord(EncodeGenericRecord(rec))
CrossLetter(d) ==
    IF fused THEN Got(d, 0) ELSE DecodeDeadLetterRecord(EncodeDeadLetterRecord(d))

\* an outcome of Validate as the sinks and the metrics receive it
Delivered(v) ==
    IF v.to = "valid"
    THEN Then(CrossRecord(v.rec), LAMBDA r, q : Got(Outcome(v.to, r, v.letter, v.audits), 0))
    ELSE Then(CrossLetter(v.letter), LAMBDA d, q : Got(Outcome(v.to, v.rec, d, v.audits), 0))

----------------------------------------------------------------------------
(* Counting.  The copying of map f over map g.                              *)

Over(f, g) == [z \in DOMAIN f \cup DOMAIN g |-> IF z \in DOMAIN f THEN f[z] ELSE g[z]]

validRecordMetricKVFn(rec) ==
    IF SourceFile \in DOMAIN rec.audit /\ rec.audit[SourceFile] # <<>>
    THEN rec.audit[SourceFile]
    ELSE IF rec.schema # <<>> THEN rec.schema ELSE <<"default">>
dlqRecordMetricKVFn(d) == IF d.source # <<>> THEN d.source ELSE <<"unknown">>
Origin(v) == IF v.to = "valid" THEN validRecordMetricKVFn(v.rec)
             ELSE dlqRecordMetricKVFn(v.letter)

\* OriginCombinerFn
CreateOrigin == [total |-> 0, valid |-> 0, dlq |-> 0]
AddOrigin(a, isDLQ) ==
    [total |-> a.total + 1,
     valid |-> IF isDLQ THEN a.valid ELSE a.valid + 1,
     dlq   |-> IF isDLQ THEN a.dlq + 1 ELSE a.dlq]
\* forgets one side's total
MergeOriginLossy(a, b) ==
    [total |-> a.total, valid |-> a.valid + b.valid, dlq |-> a.dlq + b.dlq]
MergeOrigin(a, b) ==
    [total |-> a.total + b.total, valid |-> a.valid + b.valid, dlq |-> a.dlq + b.dlq]

\* MetricsSummaryCombinerFn
CreateSummary == [total |-> 0, written |-> 0, dead |-> 0, origins |-> <<>>]
AddSummary(m, o, a) ==
    [total |-> m.total + a.total, written |-> m.written + a.valid,
     dead |-> m.dead + a.dlq, origins |-> Put(m.origins, o, a)]
MergeSummaries(m, n) ==
    [total |-> m.total + n.total, written |-> m.written + n.written,
     dead |-> m.dead + n.dead, origins |-> Over(n.origins, m.origins)]

\* CombinePerKey lifts the counting: each output of a bundle enters the
\* accumulator of its origin, the first one a new accumulator
Count(accs, v) ==
    LET o == Origin(v)
        a == IF o \in DOMAIN accs THEN accs[o] ELSE CreateOrigin
    IN  Put(accs, o, AddOrigin(a, v.to = "dlq"))

\* the accumulators a bundle hands on when it ends
Lifted(b) == {[origin |-> o, from |-> DOMAIN b.out, acc |-> b.accs[o]] : o \in DOMAIN b.accs}

----------------------------------------------------------------------------
(* The runner's steps.                                                     *)

job_vars == <<schema, input, fused>>
outputs == <<valid, dlq, audits>>
tallies == <<partials, sums, metrics>>

Done == DOMAIN valid \cup DOMAIN dlq
HeldBy(w) == {h.i : h \in bundle[w].held}
Taken == UNION {bundle[w].left \cup HeldBy(w) \cup DOMAIN bundle[w].out : w \in Workers}

\* a failure of any stage: the runner retries until it gives the job up
CountFailure ==
    /\ attempts' = attempts + 1
    /\ job' = IF attempts' = MaxAttempts THEN "failed" ELSE job

StartBundle(w) ==
    /\ job = "running" /\ bundle[w] = Idle
    /\ \E S \in (SUBSET (DOMAIN input \ (Done \cup Taken))) \ {{}} :
         bundle' = [bundle EXCEPT ![w] = Bundle(S, {}, <<>>, <<>>)]
    /\ UNCHANGED <<job_vars, outputs, tallies, errors, attempts, job>>

FailBundle(w, i) ==
    /\ bundle' = [bundle EXCEPT ![w] = Idle]
    /\ errors' = errors \cup {i}
    /\ CountFailure

\* the source emits a record; FilterNils lets it pass
Emit(w) ==
    /\ job = "running" /\ bundle[w].held = {}
    /\ \E i \in bundle[w].left :
         \E r \in {Then(Emitted(input[i]), LAMBDA raw, p : CrossRecord(raw))} :
           \/ /\ r.st = "ok" /\ ~r.val.nil
              /\ bundle' = [bundle EXCEPT ![w] = Bundle(@.left \ {i},
                                {[i |-> i, rec |-> r.val]}, @.out, @.accs)]
              /\ UNCHANGED <<errors, attempts, job>>
           \/ r.st # "ok" /\ FailBundle(w, i)
    /\ UNCHANGED <<job_vars, outputs, tallies>>

ProcessElement(w) ==
    /\ job = "running"
    /\ \E h \in bundle[w].held : \E v \in {Validate(h.rec)} : \E r \in {Delivered(v)} :
           \/ /\ r.st = "ok"
              /\ bundle' = [bundle EXCEPT ![w] = Bundle(@.left, {}, Put(@.out, h.i, r.val),
                                                         Count(@.accs, r.val))]
              /\ UNCHANGED <<errors, attempts, job>>
           \/ r.st # "ok" /\ FailBundle(w, h.i)
    /\ UNCHANGED <<job_vars, outputs, tallies>>

\* the worker dies, or the bundle's acknowledgement is lost
CrashBundle(w) ==
    /\ job = "running" /\ bundle[w] # Idle
    /\ bundle' = [bundle EXCEPT ![w] = Idle]
    /\ CountFailure
    /\ UNCHANGED <<job_vars, outputs, tallies, errors>>

Sent(out, to) == [i \in {j \in DOMAIN out : out[j].to = to} |->
                     IF to = "valid" THEN out[i].rec ELSE out[i].letter]

CommitBundle(w) ==
    /\ job = "running" /\ bundle[w] # Idle /\ bundle[w].left \cup HeldBy(w) = {}
    /\ LET out == bundle[w].out
       IN  /\ valid' = Over(Sent(out, "valid"), valid)
           /\ dlq' = Over(Sent(out, "dlq"), dlq)
           /\ audits' = audits + MapThenSumSet(LAMBDA i : out[i].audits, DOMAIN out)
           /\ partials' = partials \cup Lifted(bundle[w])
    /\ bundle' = [bundle EXCEPT ![w] = Idle]
    /\ UNCHANGED <<job_vars, sums, metrics, errors, attempts, job>>

\* two accumulators of one origin meet at CombinePerOrigin
MergeAccumulators ==
    /\ job = "running"
    /\ \E p, q \in partials :
         /\ p # q /\ p.origin = q.origin
         /\ partials' = (partials \ {p, q}) \cup
                {[origin |-> p.origin, from |-> p.from \cup q.from,
                  acc |-> MergeOrigin(p.acc, q.acc)]}
    /\ UNCHANGED <<job_vars, bundle, outputs, sums, metrics, errors, attempts, job>>

\* a stage boundary of the metrics
CrossMetrics(m) ==
    IF fused THEN Got(m, 0) ELSE DecodePipelineMetrics(EncodePipelineMetrics(m))

\* originKVToSummaryFn, once an origin's count is complete, and AddInput of
\* the summary into a new accumulator or into one that exists
ToOriginSummary ==
    /\ job = "running" /\ Done = DOMAIN input
    /\ \E p \in partials :
         /\ \A q \in partials : q.origin = p.origin => q = p
         /\ partials' = partials \ {p}
         /\ \/ sums' = sums \cup {AddSummary(CreateSummary, p.origin, p.acc)}
            \/ \E s \in sums : sums' = (sums \ {s}) \cup {AddSummary(s, p.origin, p.acc)}
    /\ UNCHANGED <<job_vars, bundle, outputs, metrics, errors, attempts, job>>

MergeSums ==
    /\ job = "running"
    /\ \E s, t \in sums :
         LET a == CrossMetrics(s)
             b == CrossMetrics(t)
         IN  /\ s # t /\ a.st = "ok" /\ b.st = "ok"
             /\ sums' = (sums \ {s, t}) \cup {MergeSummaries(a.val, b.val)}
    /\ UNCHANGED <<job_vars, bundle, outputs, partials, metrics, errors, attempts, job>>

\* MetricsSinkDoFn.ProcessElement: a temporary file, renamed when complete
WriteMetrics ==
    /\ job = "running" /\ Done = DOMAIN input /\ partials = {}
    /\ \E s \in sums :
         /\ sums = {s} /\ CrossMetrics(s).st = "ok"
         /\ metrics' = {CrossMetrics(s).val}
    /\ job' = "done"
    /\ UNCHANGED <<job_vars, bundle, outputs, partials, sums, errors, attempts>>

\* CreateTemp, Write, Close or CommitTemp fails
MetricsWriteFails ==
    /\ job = "running" /\ Done = DOMAIN input /\ partials = {}
    /\ Cardinality(sums) = 1
    /\ CountFailure
    /\ UNCHANGED <<job_vars, bundle, outputs, tallies, errors>>

\* no element, no summary, no metrics file
FinishEmpty ==
    /\ job = "running" /\ input = <<>>
    /\ job' = "done"
    /\ UNCHANGED <<job_vars, bundle, outputs, tallies, errors, attempts>>

Stopped == job # "running" /\ UNCHANGED flowVars

FlowNext ==
    \/ \E w \in Workers : \/ StartBundle(w) \/ Emit(w) \/ ProcessElement(w)
                          \/ CrashBundle(w) \/ CommitBundle(w)
    \/ MergeAccumulators \/ ToOriginSummary \/ MergeSums
    \/ WriteMetrics \/ MetricsWriteFails \/ FinishEmpty \/ Stopped

FlowSpec == FlowInit /\ [][FlowNext]_flowVars

----------------------------------------------------------------------------
(* What a cell says, defined without the parsers: a numeral is a sign,     *)
(* digits and at most one dot; it stands for a whole number of             *)
(* 10^-Places units.                                                       *)

Unsigned(s) == IF s # <<>> /\ s[1] \in {"-", "+"} THEN Tail(s) ELSE s
Dots(s) == {i \in DOMAIN s : s[i] = "."}
IsNumeral(s) ==
    LET u == Unsigned(s)
    IN  /\ \E i \in DOMAIN u : IsDigit(u[i])
        /\ \A i \in DOMAIN u : IsDigit(u[i]) \/ u[i] = "."
        /\ Cardinality(Dots(u)) <= 1
Places(s) == IF Dots(s) = {} THEN 0 ELSE Len(s) - Max(Dots(s))
DigitsIn(s, first, last) == {i \in first .. last : IsDigit(s[i])}
\* a digit counts ten to the number of digits behind it
Magnitude(s) ==
    LET Weight(i) == Pow10[Cardinality(DigitsIn(s, i + 1, Len(s)))]
        sum[i \in 0 .. Len(s)] ==
            IF i = 0 THEN 0
            ELSE sum[i - 1] + (IF IsDigit(s[i]) THEN DigitVal(s[i]) * Weight(i) ELSE 0)
    IN  sum[Len(s)]
Negative(s) == s # <<>> /\ s[1] = "-"

\* the whole number of 10^-scale units nearest to n 10^-places units, a half
\* going away from zero
Rounded(n, places, scale) ==
    IF places <= scale THEN n * Pow10[scale - places]
    ELSE (n + 5 * Pow10[places - scale - 1]) \div Pow10[places - scale]

\* the magnitude of a numeric cell, its places and its sign
Reading(c) ==
    IF c.k = "number" THEN [n |-> Abs(c.n), places |-> FloatDigits, neg |-> c.n < 0]
    ELSE LET s == TrimSpace(c.s) IN [n |-> Magnitude(s), places |-> Places(s), neg |-> Negative(s)]
Numeric(c) == c.k = "number" \/ (c.k = "text" /\ IsNumeral(TrimSpace(c.s)))
Whole(c) == c.k = "number" \/ Dots(c.s) = {}
SignedOf(c, n) == IF Reading(c).neg THEN - n ELSE n

\* the number a numeric field must hold
Expected(f, c) ==
    LET r == Reading(c)
    IN  CASE f.type = "int64"   -> SignedOf(c, r.n \div Pow10[r.places])
          [] f.type = "decimal" -> SignedOf(c, Rounded(r.n, r.places, f.scale))
          [] f.type = "float64" -> SignedOf(c, Rounded(r.n, r.places, FloatDigits))
\* a float64 tells x units from x - 1 and x + 1
Exactly(x) == Abs(x) <= (IF x % FloatUnit = 0 THEN MaxWhole * FloatUnit ELSE MaxUnits)
\* the field's type can hold the number: past it an int64 is what the
\* processor makes of it, a decimal's mantissa and a float's integer part
\* wrap around, and a float loses its last digits
Fits(f, c) ==
    LET r == Reading(c)
    IN  /\ f.type = "int64" => SignedOf(c, r.n \div Pow10[r.places]) \in Int64s
        /\ f.type = "decimal" => Rounded(r.n, r.places, f.scale) <= MaxInt64
        /\ f.type = "float64" => /\ r.n \div Pow10[r.places] <= MaxUint64
                                 /\ r.places <= FloatDigits
                                 /\ Exactly(Rounded(r.n, r.places, FloatDigits))

Blank(c) == c.k = "null" \/ (c.k = "text" /\ TrimSpace(c.s) = <<>>)
NumericTypes == {"int64", "decimal", "float64"}

----------------------------------------------------------------------------
(* Properties.                                                             *)

\* What a validated record holds is what the source's cell said: an integer,
\* decimal or float field holds the number the text or the JSON number stands
\* for, rounded half away from zero at the field's scale, if its type can; a
\* field is null only if the cell was null or blank; and what is no number
\* becomes one only in a decimal field, where a text without digits is 0 and
\* a time of MongoDB its milliseconds.  (The coercions of coercion.go, the
\* mappers of the five sources and the plan of cast_and_validate.go.)
ValuesPreserved ==
    \A i \in DOMAIN valid : \A j \in DOMAIN schema :
        LET f == schema[j]
            c == input[i].cells[j]
            v == valid[i].values[j]
        IN  /\ v.null => Blank(c)
            /\ f.type \in NumericTypes /\ Numeric(c) /\ Fits(f, c)
               => v.type = f.type /\ v.num = Expected(f, c)
            /\ f.type \in NumericTypes /\ ~v.null /\ ~Numeric(c)
               => /\ f.type = "decimal"
                  /\ c.k = "time" \/ (DigitsIn(c.s, 1, Len(c.s)) = {} /\ v.num = 0)

\* A record is quarantined only for a field that cannot be read as its type:
\* the column named by the dead letter is a required field without a value,
\* a text that is no numeral (or no integer, or has digits past the scale
\* under on_overflow = fail), an integer out of range, or a number so large
\* or so small that the REST or MongoDB mapper wrote it with an exponent.
QuarantinedForCause ==
    \A i \in DOMAIN dlq : \E j \in DOMAIN schema :
        LET f == schema[j]
            c == input[i].cells[j]
            exp == c.k = "number" /\ Scientific(c.n)
        IN  /\ dlq[i].col = <<f.name>>
            /\ \/ Blank(c) /\ (~f.nullable \/ c.k = "text")
               \/ f.type = "int64" /\
                    \/ ~Numeric(c) \/ ~Whole(c) \/ exp
                    \/ SignedOf(c, Reading(c).n \div Pow10[Reading(c).places]) \notin Int64s
                    \/ input[i].src = "api" /\ c.n % FloatUnit # 0
               \/ f.type = "decimal" /\
                    (~Numeric(c) \/ exp \/
                     (f.onOverflow = "fail" /\ Reading(c).places > f.scale))
               \/ f.type = "float64" /\ (~Numeric(c) \/ exp)
               \/ f.type \in {"bool", "timestamp"} /\ c.k # "null"

\* null fields lose their type on the way through a coder
Typeless(rec) ==
    [schema |-> rec.schema, audit |-> rec.audit, nil |-> rec.nil,
     values |-> [i \in DOMAIN rec.values |->
                    IF rec.values[i].null THEN SetNull("") ELSE rec.values[i]]]
Sizeable(rec) ==
    /\ Len(rec.values) <= MaxRecordFields
    /\ \A i \in DOMAIN rec.values : Len(rec.values[i].str) <= MaxBytes

\* partial metrics come out of their coder as they went in
MetricsTransparent ==
    \A s \in sums : CrossMetrics(s).st = "ok" => CrossMetrics(s).val = s

\* Encoding between the stages changes nothing: whatever bundles the runner
\* makes, a committed record or dead letter is the one that enrichment and
\* validation give without any coder, up to the type of a null; partial
\* metrics are combined as they were counted; and an element fails only if
\* its source refused it or it exceeds the limits that DecodeGenericRecord
\* and readBytes put on what EncodeGenericRecord and writeBytes write freely.
CodersTransparent ==
    /\ MetricsTransparent
    /\ \A i \in Done : \E v \in {Validate(Emitted(input[i]).val)} :
         /\ v.to = "valid" => i \in DOMAIN valid /\ Typeless(valid[i]) = Typeless(v.rec)
         /\ v.to = "dlq" => i \in DOMAIN dlq /\ dlq[i] = v.letter
    /\ \A i \in errors : \E raw \in {Emitted(input[i])} : raw.st = "ok" =>
         /\ ~fused
         /\ \E v \in {Validate(raw.val)} : \/ ~Sizeable(raw.val) \/ ~Sizeable(v.rec)
                                           \/ Len(v.letter.payload) > MaxBytes

OutOf(out, origin, Of(_)) == {i \in DOMAIN out : Of(out[i]) = origin}

\* The metrics file counts every element exactly once, in total and under its
\* origin, however the input was cut into bundles, whatever bundles were
\* retried and in whatever order the accumulators met; and it is written only
\* when everything has been written.  (IsStrictlyConserved and
\* IsConservedPerOrigin of domain/metrics.go.)
MetricsExact ==
    \A m \in metrics :
        /\ Done = DOMAIN input
        /\ m.total = Len(input)
        /\ m.written = Cardinality(DOMAIN valid) /\ m.dead = Cardinality(DOMAIN dlq)
        /\ \A i \in DOMAIN valid : validRecordMetricKVFn(valid[i]) \in DOMAIN m.origins
        /\ \A i \in DOMAIN dlq : dlqRecordMetricKVFn(dlq[i]) \in DOMAIN m.origins
        /\ \A o \in DOMAIN m.origins :
             /\ m.origins[o].valid = Cardinality(OutOf(valid, o, validRecordMetricKVFn))
             /\ m.origins[o].dlq = Cardinality(OutOf(dlq, o, dlqRecordMetricKVFn))
             /\ m.origins[o].total = m.origins[o].valid + m.origins[o].dlq

============================================================================
