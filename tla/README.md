# OmniBeam: TLA+ models, checks and proofs

OmniBeam (`src/`) is an ETL program for Apache Beam in Go. It reads files, SQL and MongoDB
tables and REST APIs through splittable DoFns, validates and casts the records, and writes them
to files, BigQuery or an API, with dead letters, audit records, metrics and a watermark on the
side. The program has no threads of its own design worth the name, but everything it runs in
does: the runner splits, retries and parallelises its work items, goroutines feed decoders
through pipes and channels, storage calls fail half-way and workers are lost between two of
them. The models here are about those places.

## Inventory

| Component | State | Operations | Works with | What makes it correct |
| :-- | :-- | :-- | :-- | :-- |
| Byte offset tracker (`beam/streams/byte_offset_tracker.go`) | range, claimed offset, stopped flag, under a mutex | ClaimOffset, TrySplit, MarkDone | the feeder claims, the runner splits | a byte belongs to one restriction; nothing at or below a claim is given away |
| Byte-stream source (`byte_stream_sdf.go`) | the copied restriction, the read position | initial restriction, chunks, ProcessElement | tracker, storage, decoder | each record of the file is read once and whole |
| Feed pipe and decoders (`byte_stream_sdf.go`, `streams/parsers`) | pipe, two bounded channels, three goroutines | feed, decode, drain, cancel | context of the bundle | ProcessElement returns; nil means everything was emitted; no goroutine stays |
| File sinks and stager (`core/stager.go`, `stream_file_sink.go`, `parquet_sink.go`, `dlq_sink.go`, `audit_sink.go`) | writer, record count, temporary and final name | StartBundle, ProcessElement, FinishBundle, Abort | storage, runner | no partial file, no acknowledged record lost, temporary files cleaned up |
| Storage (`adapters/storage`) | files and objects | CreateTemp, CommitTemp, AbortTemp | stager | a commit is a rename, or a copy and a delete |
| Circuit breaker (`pkg/resilience/circuit_breaker.go`) | state, two counters, a timestamp | Execute, State | REST client, SQL source | opens, shields, probes and closes on the right evidence |
| Partition and paged-API sources (`beam/partitions`, `beam/paged_api`) | tracker on `[0, 1)`, reader, two channels, pooled connections | Setup, claim, split, stream rows or pages, Teardown | SQL, MongoDB, REST | success means the whole slice; one reader per slice; no closed pool handed out |
| REST client, backoff, token bucket (`paged_api/source`) | attempt, tokens | Do, Wait | circuit breaker | bounded retries that respect the breaker, rate kept |
| API and BigQuery sinks (`beam/paged_api/api_sink.go`, `beam/bigquery`) | batch buffer, batch size, append stream | Add, Flush, FinishBundle | service, dead letters | every record sent or in the dead letters; whole bundles committed |
| SQL and MongoDB slicers (`adapters/partitions`) | bounds of the slices | CalculateSlices, CalculatePartitions, ReadPartition | database, the coder of slices, workers | slices cover the keys without overlap, while rows are inserted |
| Validation and casting (`core/cast_and_validate.go`, `domain/coercion.go`, `pkg/fastnum`, the mappers) | none per record | map, enrich, cast, route | dead letters, audit | a record goes to exactly one output with the value it had |
| Records and coders (`domain/record.go`, `core/coders*.go`) | none | encode, decode | every stage boundary | what is decoded is what was encoded |
| Metrics (`core/metrics_combiner.go`, `metrics_sink.go`, `cmd/pipeline/metrics_writer.go`) | accumulators | add, merge, write | end of the job | independent of order; every record counted once |
| Watermark (`cmd/pipeline/watermark_output.go`, `domain/watermark_*.go`, `rest_reader.go`) | the value in the manifest, the output directory | run, resolve, save | source, directory, next run | never moves back, never past a row nobody read |
| Record batches, prefetch reader, interner, shutdown coordinator, generic retry | buffers, table, handlers | | called by tests only | |
| Graph, configuration, codecs, secrets, telemetry | set-up only | | | sequential code, a matter of tests |

Hard behaviours: claims race with dynamic splits; failed work items are run again; goroutines
wait for each other through an unbuffered pipe, two bounded channels and a context; storage
operations fail between two steps and workers crash there; answers reach the circuit breaker in a
state other than the one that sent the question; batches are refused in part and answers get
lost; accumulators meet in any order; and a source grows while its slices are read one after the
other. `PROJECT.json` lists the hazards, each at its
line, with the properties that cover it.

## Modules

| Module | Models | Notes |
| :-- | :-- | :-- |
| `WorkRange` | abstract: what any restriction tracker promises | items own disjoint sets of positions that cover the input, seal a growing prefix, and hand over unsealed positions |
| `ByteOffsetTracker` | `byte_offset_tracker.go` | operators on the tracker record, one for each method or condition |
| `ByteStreamSDF` | `byte_stream_sdf.go` without its goroutines | refines `WorkRange` |
| `ByteStreamSDF_proofs` | | theorems about `ByteStreamSDF` and `RecordPipe` |
| `RecordPipe` | the goroutines of `ProcessElement`, `csv_parser.go`, `jsonl_parser.go` | with fairness |
| `BundleStager` | stager, the four file sinks, both storages, the runner's retries | |
| `BundleStager_proofs` | | theorems about `BundleStager` |
| `CircuitBreaker` | `circuit_breaker.go` | with fairness and history variables |
| `KeySlices` | `range_slicer.go`, `partitioner.go`, the discovery and the predicates of `generic_sql_source.go` and `mongo_source.go`, the slice coder of `graph_builder.go` | |
| `RangeTracker` | `partition_tracker.go` and `page_tracker.go`, which are one algorithm | operators on the tracker record |
| `PartitionSource` | `partition_query_sdf.go`, `paged_api_sdf.go`, the streaming halves of `generic_sql_source.go`, `mongo_source.go` and `rest_reader.go`, `connection_pool.go` | with fairness |
| `PartitionSource_proofs` | | theorems about `PartitionSource` |
| `RestClient` | `client.go`, `token_bucket.go`, `backoff.go` | extends `CircuitBreaker`: the client and the breaker composed |
| `RestClient_proofs` | | theorems about `CircuitBreaker`; the client keeps the breaker's specification; retries are shielded |
| `BatchSinks` | both `api_sink.go`, `batch_buffer.go`, `sink_dofn.go`, `client.go` of BigQuery, `adaptive_batch.go` | |
| `BatchSinks_proofs` | | theorems about `BatchSinks` |
| `FieldCast` | field values, the mappers of five sources, the number parsers, the casting plans | operators only |
| `RecordCoder` | `coders.go`, `coders_helpers.go` | operators on token streams, extends `FieldCast` |
| `RecordFlow` | `fused_enrich_and_validate.go`, `graph_builder.go`, `metrics_combiner.go`, `metrics_sink.go` | the stages between source and sink, extends `RecordCoder` |
| `Records_proofs` | | theorems about the coders of `RecordCoder`, and the counting and encoding of `RecordFlow` |
| `FieldCast_proofs` | | theorems about the values and the dead letters of `RecordFlow`, and what the casts of `FieldCast` compute |
| `Watermark` | `watermark_output.go`, `metrics_writer.go`, `EffectiveQuery`, `EstimatePages`, `executePipeline` | successive runs of the program, with fairness |
| `Tables_proofs` | | theorems about `KeySlices` and `Watermark` |
| `MC...` | instances for TLC | |

Operators whose comment describes a fault (`PrimaryKeepsAll`, `CloseForgotten`, ...) are the
mutants of `PROJECT.json`: plausible bugs that the property they are listed with detects. No
specification uses them.

### ByteStreamSDF

A file is the kind of each of its bytes (ordinary, newline, quote). `tracker[w]` is the
`ByteOffsetTracker` of restriction `w`; `pc`, `rest`, `currPos` and `fed` are the local state of
its `ProcessElement`. `Open` is the entry up to the opened file, `Sync` the discarding of the
partial record, `Claim` and `Feed` the two halves of the feed loop between which the runner may
split, `Return` and `Fail` the two ways out (both run the deferred `MarkDone`), `TrySplit` the
runner's split and `Retry` its rescheduling of a failed restriction. A split fraction enters as
the rounded number of bytes, any value a fraction can give. Doubled and escaped quotes do not
change the parity and count as ordinary bytes.

### RecordPipe

A line is what the code does with it: a record, skipped, malformed, a syntax error in an array,
the closing bracket, a failing read. The feeder offers one line in `pipe` and waits (io.Pipe has
no buffer); the decoder takes it and sends records to `recChan` and errors to `errChan`, blocking
or dropping as the code does; `ProcessElement` drains records, decoder errors and feeder errors in
this order and closes the read end when it returns. The end of the range and a refused claim are
both the end of the lines. A line that is longer than the decoder's buffer would take several
reads; one is enough for what the properties say. When a read fails after part of a line, the
code first passes that part on; its result is an error either way, and the model omits the part.

### BundleStager

A bundle has `load[b]` records and runs up to `MaxAttempts` times, each attempt with a temporary
name of its own. A file is the set of its records and whether its writers were closed. The code's
steps are `StartBundle`, `ProcessElement` (with the failures of creating, wrapping, formatting and
writing), `FinishBundle` (closing), `CommitTemp` (rename, or copy and `DeleteCopied`), and between
any two the worker may `Crash`. A GCS object appears when its writer is closed, a local file when
it is created. `excused` remembers the attempts that crashed or whose delete failed. `SharedURI`
stands for `single_file` and for an output path with an extension.

### CircuitBreaker

`Execute` is two steps, `Admit` and `Failed`/`Succeeded`, since `fn` runs without the lock. `age`
is the time since `lastStateChg`, capped just above the timeout, because the code only asks
whether the timeout has passed. `okRun` and `sinceOpen` are history, written by every step and
read by the properties only.

### KeySlices

A row is its key, an integer: the partition column of SQL, possibly NULL, or the `_id` of MongoDB,
`IdsPerSecond` of which share a second. `CalculateSlices` is the one bounds query of SQL and what
`ConstructContiguousSlices` makes of it; the `ROW_NUMBER` window is a `Rank`, its buckets the ranks
divided by `BatchSize`. MongoDB needs two queries, `FetchMin` and the rest of `CalculatePartitions`;
when either finds nothing or fails, the collection is one slice. `Received` is the JSON coder
between driver and workers: a number decoded into an `any` is a float64, which rounds keys from
2^53 on to multiples of `granule`. `ReadPartition(i)` evaluates slice `i`'s predicate on the rows
present at that moment (a query sees one snapshot), and `InsertKey` adds rows at any time. Keys of
other types, deletes and updates of keys are left out; the streaming of the rows is
`PartitionSource`.

### PartitionSource and RangeTracker

The instances of a source DoFn in one worker process. `Setup` opens a reader: a pool from the
cache that all SQL instances share, a MongoDB client of its own (or none when its Ping fails,
`PingFails`, which leaves the client connected: `lost`), or the REST reader that only the
process that built the pipeline has (`remote`). `Start` and `Claim` begin an element,
`ReadPartition` starts the goroutine that takes the rows one by one (`NextRow`), sends records or
errors (`SendRecord`, `SendError`) and closes its channels in the order of the code (`CloseErrs`,
`CloseRecs`); `DrainRecords` and `ReturnErr` or `ReturnNil` are the consumer. A bad row is one
that cannot be scanned or mapped: SQL goes on after it, MongoDB and REST stop. A query, an
iteration or a Setup may fail; the runner runs a failed slice again, up to `MaxAttempts` times,
on any instance, and may call `Teardown` of an idle one. The runner may ask for a split at any
moment and any fraction; `OneReader` says that it gets none, because the range of an element is
`[0, 1)`.

### RestClient

`RestClient` extends `CircuitBreaker`: its callers are the pages of one worker, which share the
client. `Do` looks at the breaker first, as the code does, then each attempt waits for a token
(`Wait`), goes through `Execute` (`Send`, which may be refused), and ends in an `Answer`, a
`Transient` status or a failure, after which it sleeps and wakes (`Wake`) or gives up. All sleeps
are waits of any length. A page that failed is read again by the runner.

### BatchSinks

A record is a bundle and its position. The API sink adds records to the buffer, hands full batches
to `WriteBatch`, which sends the POST up to `MaxRetries` times again and which the service may take
every time, answered or not, and writes the
failed ones to a dead letter file (`KeepLetters`, `LettersFail`). BigQuery appends batches of a
size that adapts to the time of the last flush to a stream of its own for each attempt and commits
it in `FinishBundle`; records that do not serialise are emitted as dead letters. An instance goes
on with another bundle after an error, so what an attempt leaves in the buffer matters.
`delivered` counts how often the service took a record; `faults` counts the failed attempts;
`writer = FALSE` is an instance on a remote worker.

### FieldCast, RecordCoder, RecordFlow

A string is a sequence of characters, an int64 has `Bits` bits, a time is a number of half seconds. A
float64 is represented by the multiple of `1/FloatUnit` it is nearest to: a whole number up to
`MaxWhole` (2^53) is a float64 itself, a fraction is told from its neighbours up to `MaxUnits` units,
and beyond these `Nearest` rounds the low bits away, half to even, as the conversions and additions
of the code do. An `int64` of a float64 that is out of range is what the processor makes of it
(`Truncate`, `Saturates`). A number cell is the float64 that a JSON or BSON decoder or a driver hands
over; what decoding itself has lost is lost before the model starts. BSON integers are treated like
doubles: the difference is that `%v` writes a large one without an exponent. Each mapper, parser and casting plan is an operator
that computes what the code computes, wrap-around, blanks, signs, exponents and rounding included.
The coders write and read tokens; a reader that meets the wrong token fails. `RecordFlow` runs the
stages: `StartBundle` cuts the input, `Emit` and `ProcessElement` are the two stages of a bundle,
with the coder between them unless the runner fused them, `CommitBundle`, `FailBundle` and
`CrashBundle` end it. Each output enters the accumulator of its origin (`Count`); committed bundles
leave their accumulators, which `MergeAccumulators`,
`ToOriginSummary`, `CrossMetrics` and `MergeSums` combine in any order until `WriteMetrics`.
`ValuesPreserved` compares the result with a reference definition: the number a text stands for,
rounded half away from zero, computed without the code's digit loop. It speaks of numbers the type of
the field can hold (`Fits`): in the range of int64, with a mantissa of 64 bits for a decimal, and told
from its neighbours by a float64 (`Exactly`).

### Watermark

The state outlives a run: the rows of the source, the watermark in the manifest, and what lies in
the output directory (`dir`, the number of rows and their largest stored value) and in the
quarantine file (`dead`, its number of lines). A run (`StartRun`) determines its slices, reads each as one bundle
(`ReadSlice`), which may be published twice (`RepeatSlice`), and ends in `FinishRun`, which counts
and resolves as `writeExecutionMetrics` and `resolveWatermarkOutput` do, or in `FailRun`. `Insert`
adds rows at any time. `cfg.layout` says where the bundles' files lie with respect to the directory
that is searched, `cfg.fresh` whether each run has a directory of its own, `cfg.gran` how coarsely
a stored value is kept, `cfg.pages` how the number of pages is found, `cfg.initial` the
`initial_page`, which only the single page of the fallback minds (`OnlyPage`). When the quarantine path
is a file (`cfg.dlqFile`), the DLQ sink and the audit sink commit to it and the last one stays
(`Quarantined`): the dead letters (`Letters`), or one line for each of them and one for each soft
`not_null` rule a valid row breaks (`Warnings`, with `cfg.rules`). `late` collects the rows no
watermark can see: inserted at or below the watermark, or into a slice or page that the run had
already read and that ends up behind the next watermark.

## Runs

| Run | Result | Shows |
| :-- | :-- | :-- |
| `byte_sdf` | pass | no record is read twice or in part; only records that begin at a boundary are missed; `WorkRange` is implemented |
| `byte_sdf_omission` | violation | a record that begins exactly at a chunk or split boundary is read by nobody |
| `pipe` | pass | the feed pipe loses nothing silently and leaves no goroutine; `ProcessElement` returns, for JSON as long as the context lives and an array is well formed and last |
| `staging` | pass | no partial file, no acknowledged loss, temporary files cleaned up |
| `breaker` | pass | counters, closing, shielding and recovery of the circuit breaker |
| `key_slices` | pass | no row is read by two workers and none is missed, whatever is inserted meanwhile |
| `partition_source` | pass | success means the whole slice, one reader per slice, a cache without closed pools, no unreachable connection but MongoDB clients whose Ping failed; a worker is stuck only on more bad SQL rows than `errChan` holds |
| `rest_client` | pass | retries respect the breaker, calls of `Do` return, every page is read once the service stays healthy |
| `sinks` | pass | acknowledged records are taken or quarantined, repeated only for failed attempts and POSTs sent again, committed in whole bundles, and buffers stay in bounds |
| `sinks_remote` | violation | on a remote worker the API sink has no writer and lets go of every batch |
| `record_flow` | pass | values their field can hold survive mapping, casting and coding, dead letters have a cause, metrics are exact |
| `watermark` | pass | the watermark never moves back nor past unread rows, and every row is read in the end |

Each violation is a disagreement between the code and what a document or a comment of the
repository says of it; `PROJECT.json` quotes both under "findings".

### Findings without a run

These came up while modelling. Where a property of a run excepts one of them, it is named.

* In multiline mode a chunk that starts inside a quoted field counts the parity of quotes from its
  own start (`byte_stream_sdf.go:183`) and resynchronises inside a record, where
  `byte_stream_sdf.go:181` says "respecting quote parity" (also `byte_offset_tracker.go:146`).
  `RecordsIntact` is violated with `Multiline = TRUE` and `Size = 6`.
* `TrySplit` (`byte_offset_tracker.go:76`) knows nothing of compression: a compressed file, "kept as
  a single restriction" by `byte_stream_sdf.go:93-95`, can be split dynamically (`Compressed = TRUE`).
* A line after the closing bracket of a JSON array, a blank one too, blocks the feeder and
  `ProcessElement` for ever (`byte_stream_sdf.go:265`), where `:234` says "Guarantee read pipe is
  closed on exit to unblock the feeder goroutine". `Returns` is violated with `AllowTrailing = TRUE`.
* With `single_file`, or an output path with an extension, every bundle commits to one name and
  the last replaces the others (`uri_builder.go:44`), where `docs/omnibeam-contract-spec.md:284`
  says that it "fuses all worker partitions into a single consolidated output file".
  `AckedPublished` is violated with `SharedURI = TRUE`.
* A crash between publishing and acknowledgement publishes the records again under another shard
  name (`stager.go:132`), where `dataflow_compute_specification.md:181` promises no duplicate files.
* Without a formatter the sink returns an error after it has opened its temporary file and does not
  abort it (`stream_file_sink.go:199`); `NoOrphanTemp` excepts it.
* A bucket of NULL keys becomes a scan of the whole table, and NULL keys elsewhere are read by
  nobody (`range_slicer.go:35`), where `:61-62` says "zero row drops and zero duplicates".
* a cancellation while the JSON decoder waits to send a record (`jsonl_parser.go:135`) ends the
  decoder without an error and leaves the feeder in `pw.Write` and `ProcessElement` waiting for it;
  this is why `ReturnsUncancelled` excepts it;
* only the worker that created a temporary file deletes it, so a crash leaves it behind, although
  `dataflow_compute_specification.md:182` says that failures of a worker leave no rubbish in
  staging; `NoOrphanTemp` excepts it;
* `Execute` refuses calls only while the circuit is open: `halfOpenLimit` is the number of
  successes that close it, and any number of callers runs in the half-open state, where
  `docs/omnibeam-contract-spec.md:233` speaks of "Trial requests permitted";
* a success in the closed state does not reset the failure counter (`circuit_breaker.go:119`), so
  failures need not be consecutive to open the circuit, where `docs/omnibeam-contract-spec.md:231`
  speaks of "Consecutive failures";
* after a syntax error inside a JSON array the decoder returns the same error for ever and the loop
  at `jsonl_parser.go:90` never ends; `ReturnsUncancelled` excepts it;
* the first of several MongoDB slices includes its upper bound and so does the second its lower
  one (`mongo_source.go:175` and `:179`): a document whose `_id` is that bound, the first of its
  second with only zeros behind, is read twice; `NoRowTwice` excepts it;
* a single MongoDB slice ends at the largest `_id` (`mongo_source.go:174` takes it for a first
  slice), and the first SQL slice starts at the smallest key: later inserts beyond them are not
  read; `Outside` in `NothingMissed` says so. From 2^53 on the smallest keys themselves may lie
  below a first bound that was rounded up.
* partition source: each element is the range `[0, 1)`, so no dynamic split ever succeeds, which
  `OneReader` states. The reader of the REST source is set by `buildAPISource` on the driver only,
  so Setup fails on remote workers. The SQL pool is shared and the first Teardown closes it for all
  (`connection_pool.go`): their reads fail and are retried. More than 100 bad SQL rows in a slice
  stall it for ever. When the Ping of a new MongoDB client fails, the client is not disconnected
  (`mongo_source.go:34-36`) and nobody can reach it any more; `PoolsConsistent` says that no others are
  left.
* sinks: a POST is sent again after a transient status or a lost answer (`client.go:178-201`), and the
  service may have taken it already. Each retry reuses the request: its body is consumed, but net/http
  rewinds it (`GetBody`) when a kept-alive connection turns out to be closed, so some retries fail in
  the transport and others send the batch again; the model lets the service take it every time.
  `DuplicatesOnlyByRetries` allows it. A dead letter file whose
  commit fails leaves its temporary file (`orphans`). `BuildSink` of BigQuery uses `ParDo0` although
  `ProcessElement` has an output for dead letters. `StorageWriteAdapter` keeps its streams in memory.
  `features-and-roadmap.md:59` and `docs/architecture-adapters-and-sinks.md:290` speak of
  exactly-once delivery, but a commit whose acknowledgement is lost is repeated by the next attempt;
  `DuplicatesOnlyByRetries` allows it too.
* values: JSON numbers of the REST source and MongoDB decimals are formatted with `%v`
  (`extractor.go:95`, `document_mapper.go:164`), so numbers from 10^21 on and below 10^-4 get an exponent
  that no parser accepts and are quarantined (`Scientific` in `QuarantinedForCause`). A float64 out of
  the range of int64 becomes some int64 without an error (`cast_and_validate.go:81`,
  `document_mapper.go:98`), an int64 above 2^53 loses its last digits in a float64 field
  (`cast_and_validate.go:149`), and so does a text with more digits than a float64 tells apart
  (`fastnum.go:114`); `Fits` in `ValuesPreserved` excepts them. A MongoDB time in a decimal or string
  field is its number of milliseconds. A
  blank text, or a lone ".", is 0 in a decimal field. The mantissa of a decimal and the integer part
  of a float wrap silently at 64 bits. An int64 becomes a decimal of scale 0 whatever the field's
  scale. A null loses its type in the coder. A timestamp cast to a string loses its sub-seconds. The
  limits of the coder are checked by the reader only, so an oversized record fails only where the
  stages are not fused. Dead letters of databases and APIs are counted under "unknown", valid
  records under their schema. Empty input gives no metrics element, although `graph_builder.go:112`
  calls it a guaranteed singleton. `MetricsSinkDoFn` marshals a value, so `MarshalJSON` with its
  pointer receiver is not used and `row_count` stays 0.
* watermark: the offset is said to advance by `total_records_read` with dead letters
  (`docs/omnibeam-contract-spec.md:259` and `:453`), but `dlqCount` is 0 when `QuarantinePath` is a
  directory: a source read one page at a time never leaves a page of bad records (`Counted` in
  `CatchesUp`). A shared directory or a bundle published twice is counted in full, and the offset
  skips rows (`OwnCount` in `NothingPassedOver`). With a page hint, rows appended to a page already
  read are passed over when a later page has found some; rows inserted behind a slice already read,
  ties and NULLs are passed over too (`late`). When the quarantine path is a file, the audit file
  replaces the dead letters or they replace it, so that one of the two is lost (`registry.go:166-181`,
  `uri_builder.go:20-23`). Every line of the audit file, also the soft `not_null` warning of a valid
  record (`fused_enrich_and_validate.go:158-171`), is then counted as a record read
  (`metrics_writer.go:88-103`), and the offset passes rows nobody has requested, where
  `docs/omnibeam-contract-spec.md:259` says that it advances by the records read "(including valid rows
  and DLQ)"; `NothingPassedOver` without `NoWarnings` is violated. `initial_page`
  is honoured by the fallback only and not by the pages of a probe or a hint, and the offset does not
  include it (`FromOffset`). With an output directory without a trailing slash
  nothing is counted. Cursor and link-header pagination read a single page, and so does a failed
  probe. `metrics.json` is not written atomically.

### Bounds

* `byte_sdf`: every file of 5 bytes (32 of them, all patterns of newlines), chunks of 3 and three
  restrictions, so that there is a static boundary, a short last chunk and a dynamic split of
  either chunk at every moment, with any number of failures and retries.
* `pipe`: four lines with `recChan` of 2 and `errChan` of 1 (100 and 10 in the code) fill both
  channels. The run turns deadlock checking off, because the JSON decoder
  really can stop for good when the context is cancelled; the liveness properties say when not.
* `staging`: two bundles of up to two records and two attempts reach an attempt that crashes after
  each step next to a bundle that succeeds; the bundles are symmetric.
* `breaker`: three callers, two failures to open, two successes to close, a timeout of two ticks: a
  late failure and a late success can meet each state. No clock bound is needed (`age` is capped).
* `key_slices`: every table of four rows with keys 0..5 in buckets of two, so that equal keys fill,
  straddle and miss a bucket; three seconds in three partitions; rounding to even keys next to none.
  Rows are numbered by their keys, since nothing else tells them apart.
* `partition_source`: two slices of two rows on two instances, channels of one, every set of bad
  rows: both rows bad overflow `errChan`, one does not; two attempts let one slice be retried next to
  the other, and two pools let the cache be closed and opened again, or a Ping fail before a Setup
  that succeeds. Deadlock checking is off: when
  all slices are done or given up, and when a SQL slice stalls, nothing is left to do.
* `rest_client`: two pages, two failures to open, two retries: the retry of one page meets the circuit
  the other one opened. Deadlock checking is off because all pages may be read.
* `sinks`: bundles of three records in batches of two end in a partial batch; the adaptive size takes
  all values from 2 to 4. Two attempts and two workers, which are symmetric, and one retry of a POST
  (`MaxRetries = 1`). The constraint `OneRetry` lets the runner repeat one attempt in all, of either
  bundle, next to the other bundle's only one; the proofs have no such bound.
* `record_flow`: floats of two decimals with whole numbers exact up to 1024 and fractions up to 512 units, an
  exponent from 1000 on and below 0.02; the texts and numbers around these limits and those of a
  12-bit integer, and one cell of every other kind
  through every source and type of field; every text of two or three characters out of those the
  parsers tell apart through the file sources and the required fields that parse numbers; and three
  records of two origins in all bundles two workers can make of them.
* `watermark`: three rows in pages of two, so that the last page is half full; two pages hinted, one
  of which may lie past the end; values on both sides of the first watermark, a NULL, a coarse
  granularity; rows with and without a warning; one fault.

### Fairness

`RecordPipe`: weak fairness of each goroutine, which the Go scheduler provides; none for the
cancellation. `CircuitBreaker`: time passes, callers keep coming and calls of `fn` return; HTTP
client and database driver have timeouts, and a breaker nobody calls need not change. The service
has no fairness; `Recovers` assumes `<>[]healthy`. `PartitionSource`: the reader's goroutine and the
consumer of each instance, but neither Setup, Teardown nor the runner's retries. `RestClient`: time
passes, requests are answered (the client has a timeout), sleeps end, and the runner reads its pages
again. Waiting for a token is weakly fair as well, which does not keep other pages from taking
every token first; `DoReturns` assumes that a page does not wait for ever. `Watermark`: a scheduler starts
runs again and again and a run goes on until it ends; failed runs are bounded by `MaxFaults`.
`ByteStreamSDF`, `BundleStager`, `KeySlices`, `BatchSinks` and `RecordFlow` state safety only and
have none.

## Proofs

TLAPS checks the theorems for every value of the constants that satisfies the named assumptions.

**ByteStreamSDF** (any file size, chunk size, number of restrictions, mode; assumptions
`SizeAssumption`, `ChunkAssumption`, `ModeAssumption`, `PoolAssumption`). `TypeCorrect`,
`NeverReadTwice` and `Refinement`. `NoDuplicateRecords` speaks of fed records and is not inductive:
the step that feeds knows nothing of the other workers. `IInv` adds that each tracker is in order
(start - 1 <= claimed < end), that the ranges are disjoint and cover the file, that the record
about to be fed is the claimed one, and that what was fed lies between start and claim. Claims move
up inside their range and splits cut above the claim, so the ranges stay a partition and two
workers cannot have claimed the same offset. The refinement maps a range to `own` and the offsets
up to the claim to `sealed`; a claim is `Seal`, a split `HandOver`, a retry `Restart`, and every
other step a stutter.

`OnlyWholeRecords` and `OmissionsAreBoundaries` hold when a record is a line (`~Multiline`, as in the
runs). `LineInv` says that the feeder stands at the start of a record, above its claim (`Aligned`),
that each record fed is the whole one at its place (`FedWhole`), and that the record starts a
restriction answers for, all but its own first byte (`Due`), were fed up to the feeder's position
(`ReadSoFar`) and up to the end of the range once the feeder has ended (`ReadAll`); a split cuts
above the claim, so what it gives away is not yet due. The first newline at or behind a byte exists
by the well-foundedness of the naturals, so no induction over the bytes is needed. In multiline mode
`RecordsIntact` is false (see the findings).

**RecordPipe** (in `ByteStreamSDF_proofs`; any lines, formats and capacities; `PipeAssumption`). `SuccessIsWhole` and
`OutputInOrder`. `NoSilentLoss` is about the end of an attempt only. `PipeInv` follows each line on
its way: the decoder has got what the feeder has handed over (`FedInv`), output and `recChan` hold
exactly the records among the lines the decoder is done with, in file order, unless a JSON decoder
drops one because the context is done (`SentInv`), a malformed line has left an error that is queued
or reported (`ErrInv`), and the consumer leaves a stage of the draining only when the goroutine
behind it has ended and its channel is empty (`DrainInv`). Each step of a decoder is one of three
(`TakeStep`, `ParseStep`, `SendStep`), whatever the format.

**RecordFlow** (any cases, workers and attempts; `FlowAssumption`: the cells of a case are of kinds
its source can hold, and scales are integers; `CastAssumption`: `FloatUnit` is a power of ten, so that
a float has a decimal form, and the fractions told apart lie within the whole numbers that are). `CountedOnce`: the metrics file is exact, and `CodersChangeNothing`:
`CodersTransparent` holds, both for stages fused or not. `MetricsExact` looks at the file only;
`FlowInv` follows an element until it is counted there. It is in one place (`OnePlace`: to be read,
between two stages, output of one bundle, or committed), so no retry commits it twice; a bundle's
accumulators count its outputs (`Tallied`); accumulators of one origin stem from disjoint sets of
elements and, with the summaries, cover what is committed (`PartialsInv`); and summaries have
disjoint sets of origins, each with the count of all its elements, and exist only when everything is
committed (`SumsInv`). Sums of counts are cardinalities of disjoint unions, so no induction over the
bundles is needed. `FlowInv` is preserved only if partial metrics survive their coder, which
`CodersTransparent` says of committed outputs but which must hold of everything under way.
`CoderInv` is the strengthening: the record between two stages of a bundle is the one the source
emitted and its outputs are the validated ones, up to the types of nulls (`Faithful`), so are the
committed ones (`OutputsInv`), an element has failed only if its source refused it or it is too large
for a reader (`ErrorsInv`), and every origin is a name and every summary a shape the coder can carry
(`OriginsInv`). It rests on what the operators make of any input: whatever a source emits and a plan
keeps is a record the coder carries (`PlansMade`, `Validated`), whatever the parsers and formatters
return is well-formed (`CellTextual`, and the loops below), and a plan gives a null that has lost its
type the result it gave the null with its type (`PlansTypeless`), so validation commutes with
encoding.

**FieldCast** (in `FieldCast_proofs`; any widths of integers and floats, any texts). `ValuesKept`: `ValuesPreserved` holds when
the scales of decimals are natural, which `Schema.Validate` (`schema.go:86`) demands; the program
does not call it, and with a negative scale the code keeps the whole mantissa instead of rounding it.
`LettersForCause`: `QuarantinedForCause` holds for all scales. Both look at committed outputs, which
`OutputsInv` makes results of the plans; what remains is one cell, one mapper and one plan
(`FieldFate`). The digits of a text are read by Horner's rule (`Horner`), and the reference sum of
digits times powers of ten is its last value (`MagnitudeShaped`). After k characters the loop of a
parser holds the Horner value of the first k, as long as it fits, and where the point stood; the float
loop rounds after each digit, which changes nothing while the whole number is told apart, since then
each prefix of it is (`ExactPrefix`, `NearestSame`); behind
the scale a decimal drops digits, and the first one dropped decides the rounding (`RoundedTail`). So
a parser gives the number of a numeral in its range and accepts no other text, but for the 0 that
`CoerceDecimalFast` makes of a blank or a lone point (`IntCoerced`, `FloatCoerced`, `DecimalCoerced`). The other way, `FormatUint` spells a number (`Spells`), padding and cutting put
the point at its place (`PointRenders`), and `FormatFloat` writes a text that reads as the float again
(`FloatReads`); a text with an exponent, or of a truth value, has a letter and is refused
(`LetterRefused`). `Stands` joins the two: whatever text a mapper hands to a parser stands for the
cell or has a letter (`CellFrom`), and each plan turns such a value into what the cell says, or fails
for a cause (`PlanFate`). Powers of ten with symbolic exponents, and products and quotients of
variables, are beyond the SMT backend; lemmas such as `Euclid`, `DivExact` and `ScaledReading` supply
the few facts needed.

**RecordCoder** (any limits; `CoderAssumption`). `ValuesTransparent`: a field value of each type, read
anywhere in a stream, comes out as it went in, and the reader is left at the token behind it.
`LettersTransparent`, `RecordsTransparent` and `SummariesTransparent`: so does a dead letter, a record
with any number of fields and audit entries (up to the types of its nulls) and the metrics of any
number of origins; what exceeds a limit of the reader is an error and never another value. `Holds`
says that a stream holds given tokens from a position on; `BytesRead` reads a text back from there,
and `HoldsFlattened` finds where each part of a concatenation starts (`Starts`). A loop of the code is
a fold, and what it has computed after k rounds is shown by induction over k (`FieldLoop`,
`AuditLoop`, `OriginLoop` for the readers, `DigitLoop`, `FloatLoop`, `DecimalLoop` for the parsers).
The induction is `Induction`, stated for a set of naturals and derived from the well-foundedness of
`<`: the library's own theorem takes an operator, which the provers cannot instantiate.

**BundleStager** (any bundles, loads and attempts; `StagerAssumption`). `StagerTypes`,
`NeverPartial`, `TempsCleaned`, and `AckedIsPublished` for shard names (`~SharedURI`). The invariant
follows the life of one bundle: attempts to come have left nothing, the file of a running bundle
holds exactly the records counted and exists only if one was, a bundle about to commit has a
closed and complete file, and from the commit on its own final file is there. A frame lemma keeps
a step of one bundle away from the others.

**CircuitBreaker** (in `RestClient_proofs`; any callers and settings; `CallersAssumption`, `SettingsAssumption`).
`TypeCorrect`, `CountersOfState`, `NoRunaway`, `ClosingEarned`, `Shielded`. The invariant ties the
code's variables to the history: in the half-open state the successes counted came in a row, in
the open state `lastStateChg` is no older than the opening, and the failure counter plus the calls
still out stays below `maxFailures` plus the number of callers.

**KeySlices** (in `Tables_proofs`; any table, batch size, number of partitions and inserts; `SlicesAssumption`).
`TypeCorrect`, with NULLs or without, and `ReadOnce` and `AllFound` for columns without NULLs. The
ranks of n rows are an injection into 0..n-1 and therefore onto, so no bucket is empty; ranks follow
keys, so the lower bounds of the buckets do not decrease, and rounding to float64 keeps that order.
The slices of either store are then the steps of a staircase (`Stairs`): two steps exclude each
other, and the last step that starts at or below a key selects it. The invariant `IInv` says that
the slices handed out are such (`Separate`, `Covering`), and that each reading gave rows of its
slice only, all those among them that were there before the first reading. Least elements come from
the well-foundedness of the naturals.

**RestClient** (any pages, settings and retries; the breaker's assumptions, `RetriesAssumption`,
`IntervalAssumption`). `UsesBreaker`: every step of the composed system is a step of
`CircuitBreaker` or leaves its variables alone, so the breaker's theorems hold for the client.
`Retries` follows from the breaker's invariant and a page's place being "out" exactly while its
call runs in the breaker.

**PartitionSource** (any instances, slices, rows, capacities, attempts and pools;
`KindsAssumption`, `BoundsAssumption`). `Whole`, `Reader`, `PoolCache`, `Stalls`. `WholeSlices` is
about finished slices and says nothing of the attempt under way. The invariant adds that the rows before the reader's position
are emitted, in the channel, in hand, or bad, with one error in `errChan` or in hand for each bad
one (`RInv`), that a busy slice is neither pending nor done (`OnePlace`), that trackers are at
`[0, 1)` (`Trackers`), and that each MongoDB client open belongs to one instance or was lost by a failed Ping (`PInv`).

**BatchSinks** (any workers, bundles, batch sizes, attempts; `SinksAssumption`, `CountAssumption`).
`Bound`, `Commits`, `Duplicates`, `Accounts`. The invariant says whose the buffered records are
(`Mine`: of the bundle in hand, at positions already passed), that the records so far are in the
open stream, in the buffer or refused (`BqInv`), that a record taken in this attempt is no longer
in the buffer and was taken at most `Sends` times (`DupInv`), and that every record passed is accounted for (`AccountInv`).

**Watermark** (in `Tables_proofs`; any source, configurations, faults; `WatermarkAssumption`). `Monotone` needs the
types and that an offset never exceeds the bound that stands for the end of the source.
`NonePassedOver` proves both halves of `NothingPassedOver`. For a column the invariant `ColumnInv`
says that a row at or below the watermark was read or came late, and that a row of a slice already
read in this run was read, came after, or lies below the old watermark. For an offset `OffsetInv`
says that in a directory of the run's own there is a set of rows that were read, from the pages of
this run, such that the rows counted in the directory and the lines of the quarantine file are no more
than its good and its bad rows (`Tally`), which needs a file without warnings, and that a row missing from a page already read came after the
reading and, unless the number of pages is a hint, lies behind every row of the set. The offset
advances by the count; were a row it passes neither read nor late, the set would lie below that row
and be too small for the count.

Only model-checked: the liveness properties (`ReturnsUncancelled`, `NoGoroutineLeft`, `Recovers`,
`AttemptsEnd`, `DoReturns`, `AllPagesRead`, `CatchesUp`), since temporal reasoning with ENABLED is
out of the prover's reach.

## Not modelled

Compression, encryption, charsets, output formatting, configuration defaults, secrets and
telemetry: sequential code without a protocol. Record batches and their coder, the prefetch reader,
the interner, the shutdown coordinator, `resilience.Retry`, `AuditEnricherFn`,
`CastAndValidateFn.ProcessElement` (the fused stage uses its plans only) and
`BundleFileStager.Drain` have no caller in the program, only tests. Nested JSON and BSON values,
page-number, cursor and link-header pagination, authentication and database drivers are left out of
their components. Further work would start there.
