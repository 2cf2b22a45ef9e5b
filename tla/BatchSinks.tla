----------------------------- MODULE BatchSinks -----------------------------
(***************************************************************************)
(* The sinks that collect the records of a bundle into batches: the API    *)
(* sink (APISinkDoFn, its batch buffer and APISink.WriteBatch) and the     *)
(* BigQuery sink (BigQuerySinkDoFn, the adaptive batch sizer and the       *)
(* pending streams of StorageWriteAdapter), with the runner that runs a    *)
(* bundle again when an attempt fails or its worker is lost.               *)
(*                                                                         *)
(* A record is a bundle and a position in it.  What a request goes through *)
(* inside HTTPClient.Do is the subject of RestClient; here the POST of a   *)
(* batch may be sent several times, taken or not each time, and answered   *)
(* or not.                                                                 *)
(***************************************************************************)
EXTENDS Integers, FiniteSets

CONSTANTS Sinks,              \* of {"api", "bigquery"}
          Workers,            \* instances of the sink DoFn
          NumBundles, BundleSize,
          BatchSize,          \* batch_size, after its default is applied
          MaxRetries,         \* how often HTTPClient.Do sends a POST again
          MaxFactor, Step,    \* DefaultAdaptiveMaxBatchFactor, DefaultAdaptiveStepSize
          MaxAttempts         \* how often the runner runs a bundle

ASSUME SinksAssumption == Sinks \subseteq {"api", "bigquery"}
ASSUME CountAssumption ==
  /\ NumBundles \in Nat /\ BundleSize \in Nat /\ MaxAttempts \in Nat /\ MaxRetries \in Nat
  /\ BatchSize \in Nat \ {0} /\ MaxFactor \in Nat \ {0} /\ Step \in Nat

Bundles == 1..NumBundles
Indices == 1..BundleSize
Records == Bundles \X Indices
NoBundle == 0
None == <<0, 0>>    \* no stream is open

VARIABLES
  sink,       \* the kind of sink of the job
  writer,     \* API: the instances have a writer
  dlq,        \* API: the instances have a dead letter path and storage
  unfit,      \* BigQuery: the records SerializeRecordToJSONProto refuses
  pc,         \* where each instance stands
  bundle,     \* the bundle it works on
  next,       \* the position of the next record of the bundle
  buffer,     \* the records in its buffer
  size,       \* BigQuery: the sizer's currentSize
  rejects,    \* the records of the last batch that WriteBatch returned as failed,
              \* BigQuery: the dead letters emitted by the attempt
  stream,     \* BigQuery: the stream of the attempt, named by <<bundle, attempt>>
  rows,       \* BigQuery: the rows of every stream
  committed,  \* BigQuery: the committed streams
  delivered,  \* how often the service took each record
  letters,    \* the records in the dead letters
  orphans,    \* the attempts that left a temporary dead letter file
  tries,      \* the attempts begun on each bundle
  faults,     \* the attempts of each bundle that failed or were lost
  acked,      \* the bundles the runner counts as done
  dropped     \* the records a flush let go without a trace

vars == <<sink, writer, dlq, unfit, pc, bundle, next, buffer, size, rejects, stream,
          rows, committed, delivered, letters, orphans, tries, faults, acked, dropped>>

config   == <<sink, writer, dlq, unfit>>
bigquery == <<stream, rows, committed>>
runner   == <<tries, faults, acked>>

Streams == Bundles \X (1..MaxAttempts)

Init ==
  /\ sink \in Sinks
  /\ writer \in BOOLEAN /\ dlq \in BOOLEAN
  /\ unfit \in SUBSET Records
  /\ sink = "api" => unfit = {}
  /\ sink = "bigquery" => writer /\ dlq
  /\ pc = [w \in Workers |-> "idle"]
  /\ bundle = [w \in Workers |-> NoBundle] /\ next = [w \in Workers |-> 1]
  /\ buffer = [w \in Workers |-> {}]
  /\ size = [w \in Workers |-> BatchSize]
  /\ rejects = [w \in Workers |-> {}]
  /\ stream = [w \in Workers |-> None]
  /\ rows = [s \in Streams |-> {}] /\ committed = {}
  /\ delivered = [r \in Records |-> 0] /\ letters = {} /\ orphans = {}
  /\ tries = [b \in Bundles |-> 0] /\ faults = [b \in Bundles |-> 0]
  /\ acked = {} /\ dropped = {}

Goto(w, label) == pc' = [pc EXCEPT ![w] = label]
Empty(w) == buffer' = [buffer EXCEPT ![w] = {}]

-----------------------------------------------------------------------------
(* StartBundle that keeps what the last bundle left in the buffer. *)
StartBundleKeeps(w) ==
  /\ pc[w] = "idle"
  /\ \E b \in Bundles \ acked :
       /\ \A v \in Workers : bundle[v] # b
       /\ tries[b] < MaxAttempts
       /\ bundle' = [bundle EXCEPT ![w] = b]
       /\ tries' = [tries EXCEPT ![b] = @ + 1]
  /\ next' = [next EXCEPT ![w] = 1]
  /\ rejects' = [rejects EXCEPT ![w] = {}]
  /\ stream' = [stream EXCEPT ![w] = None]
  /\ Goto(w, "elements")
  /\ UNCHANGED <<config, buffer, size, rows, committed, delivered, letters, orphans, faults, acked, dropped>>

(* StartBundle: the buffer is emptied (BundleBatchBuffer.Reset) and no     *)
(* stream is open.                                                         *)
StartBundle(w) ==
  /\ pc[w] = "idle"
  /\ \E b \in Bundles \ acked :
       /\ \A v \in Workers : bundle[v] # b
       /\ tries[b] < MaxAttempts
       /\ bundle' = [bundle EXCEPT ![w] = b]
       /\ tries' = [tries EXCEPT ![b] = @ + 1]
  /\ next' = [next EXCEPT ![w] = 1]
  /\ Empty(w)
  /\ rejects' = [rejects EXCEPT ![w] = {}]
  /\ stream' = [stream EXCEPT ![w] = None]
  /\ Goto(w, "elements")
  /\ UNCHANGED <<config, size, rows, committed, delivered, letters, orphans, faults, acked, dropped>>

(* The batch size that ProcessElement compares with. *)
TargetBatch(w) == IF sink = "bigquery" THEN size[w] ELSE BatchSize

(* A buffer that is flushed once it holds more than a batch. *)
FullLate(w) == Cardinality(buffer'[w]) > TargetBatch(w)
Full(w) == Cardinality(buffer'[w]) >= TargetBatch(w)

ProcessElement(w) ==
  /\ pc[w] = "elements"
  /\ next[w] <= BundleSize
  /\ buffer' = [buffer EXCEPT ![w] = @ \cup {<<bundle[w], next[w]>>}]
  /\ next' = [next EXCEPT ![w] = @ + 1]
  /\ Goto(w, IF Full(w) THEN "flush" ELSE "elements")
  /\ UNCHANGED <<config, bundle, size, rejects, bigquery, delivered, letters, orphans, runner, dropped>>

(* After the last element the runner calls FinishBundle, which flushes     *)
(* what is left.                                                           *)
FinishBundle(w) ==
  /\ pc[w] = "elements"
  /\ next[w] > BundleSize
  /\ Goto(w, IF buffer[w] # {} THEN "flush" ELSE "finish")
  /\ UNCHANGED <<config, bundle, next, buffer, size, rejects, bigquery, delivered, letters, orphans, runner, dropped>>

(* An attempt that returned an error, or whose worker was lost.  The DoFn  *)
(* instance may live on with its buffer as it is.                          *)
FailAttempt(w) ==
  /\ faults' = [faults EXCEPT ![bundle[w]] = @ + 1]
  /\ bundle' = [bundle EXCEPT ![w] = NoBundle]
  /\ Goto(w, "idle")
  /\ UNCHANGED <<config, next, buffer, rejects, letters, tries, acked, dropped>>

Crash(w) ==
  /\ pc[w] # "idle"
  /\ FailAttempt(w)
  /\ UNCHANGED <<size, bigquery, delivered, orphans>>

-----------------------------------------------------------------------------
(* flushBatch of the API sink.                                             *)

(* Without a writer the batch counts as written. *)
FlushWithoutWriter(w) ==
  /\ pc[w] = "flush" /\ sink = "api" /\ ~writer
  /\ dropped' = dropped \cup buffer[w]
  /\ Empty(w)
  /\ Goto(w, "elements")
  /\ UNCHANGED <<config, bundle, next, size, rejects, bigquery, delivered, letters, orphans, runner>>

Took(w, n) == [r \in Records |-> IF r \in buffer[w] THEN delivered[r] + n ELSE delivered[r]]

(* How often one flush may hand a record to the service. *)
Sends == IF sink = "api" THEN MaxRetries + 1 ELSE 1

(* WriteBatch: HTTPClient.Do sends the POST until it is answered with a    *)
(* final status, MaxRetries times again at most, and the service may take  *)
(* the batch every time, also when it answers with an error or its answer  *)
(* is lost.  The batch succeeds as a whole or all its records have failed. *)
WriteBatch(w) ==
  /\ pc[w] = "flush" /\ sink = "api" /\ writer
  /\ \E n \in 0..Sends :
       /\ delivered' = Took(w, n)
       /\ \/ n > 0 /\ rejects' = [rejects EXCEPT ![w] = {}]
          \/ rejects' = [rejects EXCEPT ![w] = buffer[w]]
  /\ Goto(w, "letters")
  /\ UNCHANGED <<config, bundle, next, buffer, size, bigquery, letters, orphans, runner, dropped>>

(* The payload cannot be marshalled. *)
WriteBatchFails(w) ==
  /\ pc[w] = "flush" /\ sink = "api" /\ writer
  /\ FailAttempt(w)
  /\ UNCHANGED <<size, bigquery, delivered, orphans>>

(* Failed records that are not written because there are too few of them. *)
KeepLettersOfWholeBatches(w) ==
  /\ pc[w] = "letters"
  /\ IF dlq /\ Cardinality(rejects[w]) >= BatchSize
       THEN letters' = letters \cup rejects[w] /\ UNCHANGED dropped
       ELSE dropped' = (dropped \cup IF dlq THEN {} ELSE rejects[w]) /\ UNCHANGED letters
  /\ rejects' = [rejects EXCEPT ![w] = {}]
  /\ Empty(w)
  /\ Goto(w, "elements")
  /\ UNCHANGED <<config, bundle, next, size, bigquery, delivered, orphans, runner>>

(* writeDLQ publishes the dead letters of the batch in a file of their     *)
(* own; without a path or a storage they are let go.  Then the buffer is   *)
(* emptied.                                                                *)
KeepLetters(w) ==
  /\ pc[w] = "letters"
  /\ IF dlq
       THEN letters' = letters \cup rejects[w] /\ UNCHANGED dropped
       ELSE dropped' = dropped \cup rejects[w] /\ UNCHANGED letters
  /\ rejects' = [rejects EXCEPT ![w] = {}]
  /\ Empty(w)
  /\ Goto(w, "elements")
  /\ UNCHANGED <<config, bundle, next, size, bigquery, delivered, orphans, runner>>

(* Creating, writing and closing clean up after themselves; a failing      *)
(* commit leaves its temporary file.                                       *)
LettersFail(w) ==
  /\ pc[w] = "letters"
  /\ dlq /\ rejects[w] # {}
  /\ FailAttempt(w)
  /\ orphans' \in {orphans, orphans \cup {<<bundle[w], tries[bundle[w]]>>}}
  /\ UNCHANGED <<size, bigquery, delivered>>

-----------------------------------------------------------------------------
(* flushBuffer of the BigQuery sink.                                       *)

Larger(a, b)  == IF a >= b THEN a ELSE b
Smaller(a, b) == IF a <= b THEN a ELSE b
MaxSize == BatchSize * MaxFactor

(* RecordFlush: quick flushes let the batch grow, slow ones shrink it, and *)
(* a full heap resets it.                                                  *)
RecordFlush(n) ==
  {n, BatchSize,
   Smaller(MaxSize, n + Larger(n \div 5, Step)),
   Larger(BatchSize, n - Larger(n \div 3, Step))}

Name(w) == <<bundle[w], tries[bundle[w]]>>

(* OpenStream on the first flush, then AppendRecords: the rows that        *)
(* serialise, at offset 0 every time; the others are dead letters.         *)
AppendRecords(w) ==
  /\ pc[w] = "flush" /\ sink = "bigquery"
  /\ stream' = [stream EXCEPT ![w] = Name(w)]
  /\ rows' = [rows EXCEPT ![Name(w)] = @ \cup (buffer[w] \ unfit)]
  /\ rejects' = [rejects EXCEPT ![w] = @ \cup (buffer[w] \cap unfit)]
  /\ \E n \in RecordFlush(size[w]) : size' = [size EXCEPT ![w] = n]
  /\ Empty(w)
  /\ Goto(w, "elements")
  /\ UNCHANGED <<config, bundle, next, committed, delivered, letters, orphans, runner, dropped>>

(* OpenStream or AppendRecords fails; the sizer has seen the flush. *)
AppendFails(w) ==
  /\ pc[w] = "flush" /\ sink = "bigquery"
  /\ FailAttempt(w)
  /\ \E n \in RecordFlush(size[w]) : size' = [size EXCEPT ![w] = n]
  /\ UNCHANGED <<bigquery, delivered, orphans>>

Shown(w) == [r \in Records |-> IF r \in rows[stream[w]] THEN delivered[r] + 1 ELSE delivered[r]]

(* A commit after every batch. *)
CommitEarly(w) ==
  /\ pc[w] \in {"elements", "finish"} /\ sink = "bigquery" /\ stream[w] # None
  /\ committed' = committed \cup {stream[w]}
  /\ delivered' = Shown(w)
  /\ Goto(w, IF pc[w] = "finish" THEN "ack" ELSE pc[w])
  /\ UNCHANGED <<config, bundle, next, buffer, size, rejects, stream, rows, letters, orphans, runner, dropped>>

(* CommitStream makes the rows of the bundle visible at once. *)
CommitStream(w) ==
  /\ pc[w] = "finish" /\ sink = "bigquery" /\ stream[w] # None
  /\ committed' = committed \cup {stream[w]}
  /\ delivered' = Shown(w)
  /\ Goto(w, "ack")
  /\ UNCHANGED <<config, bundle, next, buffer, size, rejects, stream, rows, letters, orphans, runner, dropped>>

(* An error from CommitStream, with the stream committed all the same when *)
(* only the answer was lost.                                               *)
CommitFails(w) ==
  /\ pc[w] = "finish" /\ sink = "bigquery" /\ stream[w] # None
  /\ FailAttempt(w)
  /\ \/ UNCHANGED <<committed, delivered>>
     \/ committed' = committed \cup {stream[w]} /\ delivered' = Shown(w)
  /\ UNCHANGED <<stream, rows, size, orphans>>

(* The runner takes the bundle for done, and with it the dead letters the  *)
(* BigQuery sink emitted.                                                  *)
Ack(w) ==
  /\ pc[w] = "ack" \/ (pc[w] = "finish" /\ (sink = "api" \/ stream[w] = None))
  /\ acked' = acked \cup {bundle[w]}
  /\ letters' = letters \cup (IF sink = "bigquery" THEN rejects[w] ELSE {})
  /\ bundle' = [bundle EXCEPT ![w] = NoBundle]
  /\ Goto(w, "idle")
  /\ UNCHANGED <<config, next, buffer, size, rejects, bigquery, delivered, orphans, tries, faults, dropped>>

Next ==
  \E w \in Workers :
    \/ StartBundle(w) \/ ProcessElement(w) \/ FinishBundle(w) \/ Crash(w) \/ Ack(w)
    \/ FlushWithoutWriter(w) \/ WriteBatch(w) \/ WriteBatchFails(w) \/ KeepLetters(w) \/ LettersFail(w)
    \/ AppendRecords(w) \/ AppendFails(w) \/ CommitStream(w) \/ CommitFails(w)

Spec == Init /\ [][Next]_vars

-----------------------------------------------------------------------------
(* Every instance, stream and counter stays in range; the batch size stays *)
(* between the configured one and its multiple.                            *)
TypeOK ==
  /\ sink \in Sinks /\ writer \in BOOLEAN /\ dlq \in BOOLEAN /\ unfit \subseteq Records
  /\ pc \in [Workers -> {"idle", "elements", "flush", "letters", "finish", "ack"}]
  /\ bundle \in [Workers -> 0..NumBundles] /\ next \in [Workers -> 1..(BundleSize + 1)]
  /\ buffer \in [Workers -> SUBSET Records] /\ rejects \in [Workers -> SUBSET Records]
  /\ size \in [Workers -> BatchSize..MaxSize]
  /\ stream \in [Workers -> Streams \cup {None}] /\ rows \in [Streams -> SUBSET Records]
  /\ committed \subseteq Streams /\ orphans \subseteq Streams
  /\ delivered \in [Records -> Nat] /\ letters \subseteq Records /\ dropped \subseteq Records
  /\ tries \in [Bundles -> 0..MaxAttempts] /\ faults \in [Bundles -> Nat]
  /\ acked \subseteq Bundles

Of(b) == {r \in Records : r[1] = b}

(* Every record of a finished bundle is somewhere: the service took it, or *)
(* it is a dead letter, or the sink had no writer or no place for dead     *)
(* letters.  Failed batches, failed dead letter files, retries and         *)
(* instances that carry on after an error do not lose one.                 *)
AckedAccounted ==
  /\ \A b \in acked : \A r \in Of(b) : delivered[r] > 0 \/ r \in letters \/ r \in dropped
  /\ dropped # {} => ~writer \/ ~dlq

(* What the code's comment says of the API sink, that its handles are      *)
(* "reconstructed in Setup()" on the workers: nothing is let go as long as *)
(* a dead letter path is configured.                                       *)
NothingDropped == dlq => dropped = {}

(* A record is taken again only by a retry: for an attempt of its bundle   *)
(* that failed, and within an attempt when the HTTP client sent the POST   *)
(* of its one batch again.  Batches of one attempt never repeat each       *)
(* other's records and never carry records of an earlier bundle.           *)
DuplicatesOnlyByRetries ==
  \A b \in Bundles : \A r \in Of(b) : delivered[r] <= (faults[b] + 1) * Sends

(* BigQuery shows the rows of a bundle all at once: a committed stream     *)
(* holds exactly the rows of its bundle that serialise, although they were *)
(* appended in batches of changing size.                                   *)
CommitsWholeBundles ==
  \A s \in committed : rows[s] = Of(s[1]) \ unfit

(* The buffer never outgrows the batch size, whichever way the sizer moves *)
(* while records are waiting, and is empty when a bundle is finished.      *)
BufferBounded ==
  \A w \in Workers :
    /\ pc[w] = "elements" => Cardinality(buffer[w]) < TargetBatch(w)
    /\ pc[w] \in {"finish", "ack"} => buffer[w] = {}
=============================================================================
