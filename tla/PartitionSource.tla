--------------------------- MODULE PartitionSource ---------------------------
(***************************************************************************)
(* The sources that read one slice of a table, or one page of an API, for  *)
(* each element: the DoFn instances of one worker process with Setup,      *)
(* ProcessElement and Teardown, the goroutine that streams the rows of a   *)
(* slice through two bounded channels, the connection pools the instances  *)
(* share, and the runner that splits, retries and tears down.              *)
(*                                                                         *)
(* A row is its position in the slice.  What the bounds of a slice select  *)
(* is the subject of KeySlices, what the HTTP client does that of          *)
(* RestClient.                                                             *)
(***************************************************************************)
EXTENDS Integers, FiniteSets, RangeTracker

CONSTANTS Kinds,        \* the kinds of reader, of {"sql", "mongo", "rest"}
          DoFns,        \* the DoFn instances of the worker process
          NumSlices, NumRows,
          RecCap,       \* capacity of recChan, 100 in the code
          SQLErrCap,    \* capacity of errChan in ReadSlice, 100 in the code
          MaxAttempts,  \* how often the runner runs an element
          MaxPools      \* how many pools or clients the process may open

ASSUME KindsAssumption == Kinds \subseteq {"sql", "mongo", "rest"}
ASSUME BoundsAssumption ==
  /\ NumSlices \in Nat \ {0} /\ NumRows \in Nat /\ RecCap \in Nat \ {0}
  /\ SQLErrCap \in Nat \ {0} /\ MaxAttempts \in Nat /\ MaxPools \in Nat

Slices == 1..NumSlices
Rows   == 1..NumRows
Pools  == 1..MaxPools
NoPool == 0

VARIABLES
  kind,      \* which reader the job uses
  remote,    \* the worker is not the process that built the pipeline
  bad,       \* the rows of each slice that cannot be scanned or mapped
  made,      \* how many pools were opened so far
  cached,    \* the pool in poolCache, or NoPool
  open,      \* the pools that are not closed
  lost,      \* the MongoDB clients a failed Ping has left behind
  pc,        \* where each DoFn instance stands
  db,        \* the pool or client of each instance's reader
  elem,      \* the slice each instance works on
  tracker,   \* the tracker of its range
  go,        \* where the streaming goroutine of the instance stands
  next,      \* the row it is about to read
  recs, errs,\* what is in recChan and errChan
  emitted,   \* the rows the current attempt has emitted
  pending,   \* the slices that wait for an instance
  tries,     \* the attempts begun on each slice
  done       \* the rows each slice delivered by attempts that returned nil

poolVars == <<made, cached, open, lost>>
chanVars == <<go, next, recs, errs>>
workVars == <<pending, tries, done>>
vars == <<kind, remote, bad, poolVars, pc, db, elem, tracker, chanVars, emitted, workVars>>

Bad(d) == bad[elem[d]]
ErrCap == IF kind = "sql" THEN SQLErrCap ELSE 1

Goto(d, label) == pc' = [pc EXCEPT ![d] = label]
GoTo(d, label) == go' = [go EXCEPT ![d] = label]

(* CreateInitialRestriction: every slice and every page is the range [0, 1). *)
NewRange == NewTracker(0, 1)

Init ==
  /\ kind \in Kinds /\ remote \in BOOLEAN
  /\ bad \in [Slices -> SUBSET Rows]
  /\ made = 0 /\ cached = NoPool /\ open = {} /\ lost = {}
  /\ pc = [d \in DoFns |-> "down"]
  /\ db = [d \in DoFns |-> NoPool]
  /\ elem = [d \in DoFns |-> 1]
  /\ tracker = [d \in DoFns |-> NewRange]
  /\ go = [d \in DoFns |-> "off"] /\ next = [d \in DoFns |-> 1]
  /\ recs = [d \in DoFns |-> {}] /\ errs = [d \in DoFns |-> 0]
  /\ emitted = [d \in DoFns |-> {}]
  /\ pending = Slices
  /\ tries = [s \in Slices |-> 0]
  /\ done = [s \in Slices |-> {}]

-----------------------------------------------------------------------------
(* Setup, Teardown and the pools they share.                               *)

NewPool == /\ made < MaxPools
           /\ made' = made + 1
           /\ open' = open \cup {made + 1}

(* GetOrCreateDB, under poolMu: the cached pool, or a new one that is cached. *)
GetOrCreateDB(d) ==
  \/ /\ cached # NoPool
     /\ db' = [db EXCEPT ![d] = cached]
     /\ UNCHANGED poolVars
  \/ /\ cached = NoPool
     /\ NewPool
     /\ cached' = made'
     /\ db' = [db EXCEPT ![d] = made']
     /\ UNCHANGED lost

(* OpenClient: MongoDB clients are not shared. *)
OpenClient(d) == /\ NewPool
                 /\ db' = [db EXCEPT ![d] = made']
                 /\ UNCHANGED <<cached, lost>>

(* OpenClient when Ping fails: the client mongo.Connect returned is neither *)
(* disconnected nor handed to anyone, and Setup fails.                      *)
PingFails(d) ==
  /\ pc[d] = "down" /\ kind = "mongo"
  /\ NewPool
  /\ lost' = lost \cup {made'}
  /\ UNCHANGED <<kind, remote, bad, cached, pc, db, elem, tracker, chanVars, emitted, workVars>>

(* The provider of REST readers exists only in the process that ran        *)
(* buildAPISource; elsewhere Setup fails and the instance is not used.     *)
Setup(d) ==
  /\ pc[d] = "down"
  /\ \/ kind = "sql" /\ GetOrCreateDB(d)
     \/ kind = "mongo" /\ OpenClient(d)
     \/ kind = "rest" /\ ~remote /\ UNCHANGED <<poolVars, db>>
  /\ Goto(d, "idle")
  /\ UNCHANGED <<kind, remote, bad, elem, tracker, chanVars, emitted, workVars>>

(* A pool that is closed and stays in the cache. *)
CloseForgetsCache(p) == open' = open \ {p} /\ UNCHANGED <<made, cached, lost>>

(* CloseDB forgets the pool, if it is the cached one, and closes it. *)
CloseDB(p) ==
  /\ open' = open \ {p}
  /\ cached' = IF cached = p THEN NoPool ELSE cached
  /\ UNCHANGED <<made, lost>>

(* Teardown closes the reader.  The runner tears an instance down between  *)
(* two bundles, never during one; what comes next is a new instance.       *)
Teardown(d) ==
  /\ pc[d] = "idle"
  /\ IF kind = "rest" THEN UNCHANGED poolVars ELSE CloseDB(db[d])
  /\ db' = [db EXCEPT ![d] = NoPool]
  /\ Goto(d, "down")
  /\ UNCHANGED <<kind, remote, bad, elem, tracker, chanVars, emitted, workVars>>

-----------------------------------------------------------------------------
(* ProcessElement.                                                         *)

(* The runner hands a slice to an idle instance, which claims index 0. *)
Start(d) ==
  /\ pc[d] = "idle"
  /\ \E s \in pending :
       /\ tries[s] < MaxAttempts
       /\ elem' = [elem EXCEPT ![d] = s]
       /\ pending' = pending \ {s}
       /\ tries' = [tries EXCEPT ![s] = @ + 1]
  /\ tracker' = [tracker EXCEPT ![d] = NewRange]
  /\ Goto(d, "started")
  /\ UNCHANGED <<kind, remote, bad, poolVars, db, chanVars, emitted, done>>

(* A refused claim would end the attempt with nil and nothing emitted. *)
Claim(d) ==
  /\ pc[d] = "started"
  /\ tracker' = [tracker EXCEPT ![d] = TryClaim(@, 0)]
  /\ Goto(d, IF Claimable(tracker[d], 0) THEN "claimed" ELSE "idle")
  /\ UNCHANGED <<kind, remote, bad, poolVars, db, elem, chanVars, emitted, workVars>>

(* The channels are garbage once ProcessElement has returned. *)
Forget(d) ==
  /\ go' = [go EXCEPT ![d] = "off"] /\ next' = [next EXCEPT ![d] = 1]
  /\ recs' = [recs EXCEPT ![d] = {}] /\ errs' = [errs EXCEPT ![d] = 0]
  /\ emitted' = [emitted EXCEPT ![d] = {}]

(* An attempt that returns an error: the runner will try the slice again. *)
FailAttempt(d) ==
  /\ Goto(d, "idle")
  /\ Forget(d)
  /\ pending' = pending \cup {elem[d]}
  /\ UNCHANGED <<kind, remote, bad, poolVars, db, elem, tracker, tries, done>>

(* ReadPartition and ReadPage start the goroutine.  The query of a closed  *)
(* pool fails, and so may any other; a REST reader asks nothing yet.       *)
ReadFails(d) ==
  /\ pc[d] = "claimed"
  /\ kind # "rest"
  /\ FailAttempt(d)

ReadPartition(d) ==
  /\ pc[d] = "claimed"
  /\ kind # "rest" => db[d] \in open
  /\ Goto(d, "records")
  /\ GoTo(d, "row")
  /\ UNCHANGED <<kind, remote, bad, poolVars, db, elem, tracker, next, recs, errs, emitted, workVars>>

(* for rec := range recChan: the oldest record, until closed and empty. *)
DrainRecords(d) ==
  /\ pc[d] = "records"
  /\ \/ \E r \in recs[d] :
          /\ \A q \in recs[d] : r <= q
          /\ emitted' = [emitted EXCEPT ![d] = @ \cup {r}]
          /\ recs' = [recs EXCEPT ![d] = @ \ {r}]
          /\ UNCHANGED pc
     \/ /\ recs[d] = {} /\ go[d] = "closed"
        /\ Goto(d, "errors")
        /\ UNCHANGED <<emitted, recs>>
  /\ UNCHANGED <<kind, remote, bad, poolVars, db, elem, tracker, go, next, errs, workVars>>

(* for err := range errChan: the first error is returned. *)
ReturnErr(d) ==
  /\ pc[d] = "errors"
  /\ errs[d] > 0
  /\ FailAttempt(d)

ReturnNil(d) ==
  /\ pc[d] = "errors"
  /\ errs[d] = 0 /\ go[d] = "closed"
  /\ Goto(d, "idle")
  /\ done' = [done EXCEPT ![elem[d]] = @ \cup emitted[d]]
  /\ Forget(d)
  /\ UNCHANGED <<kind, remote, bad, poolVars, db, elem, tracker, pending, tries>>

-----------------------------------------------------------------------------
(* The goroutine: streamRows, streamRecords and the one in ReadPage.       *)

Streams(d) == UNCHANGED <<kind, remote, bad, poolVars, pc, db, elem, tracker, emitted, workVars>>

(* A streamer that steps over a row it cannot scan. *)
NextRowSkipsBad(d) ==
  /\ go[d] = "row"
  /\ \/ next[d] > NumRows /\ GoTo(d, "closing") /\ UNCHANGED next
     \/ next[d] <= NumRows /\ next[d] \in Bad(d) /\ next' = [next EXCEPT ![d] = @ + 1] /\ UNCHANGED go
     \/ next[d] <= NumRows /\ next[d] \notin Bad(d) /\ GoTo(d, "record") /\ UNCHANGED next
  /\ UNCHANGED <<recs, errs>>
  /\ Streams(d)

(* rows.Next, cursor.Next, or the next of the page's records.  A page that *)
(* cannot be parsed has none.                                              *)
NextRow(d) ==
  /\ go[d] = "row"
  /\ GoTo(d, IF next[d] > NumRows THEN "closing"
             ELSE IF next[d] \in Bad(d) THEN "error" ELSE "record")
  /\ UNCHANGED <<next, recs, errs>>
  /\ Streams(d)

(* The iteration ends early with an error: a lost connection, a cancelled  *)
(* context, a failed request.                                              *)
IterationFails(d) ==
  /\ go[d] = "row"
  /\ GoTo(d, "last error")
  /\ UNCHANGED <<next, recs, errs>>
  /\ Streams(d)

(* recChan <- rec; only the REST reader also watches the context here. *)
SendRecord(d) ==
  /\ go[d] = "record"
  /\ \/ /\ Cardinality(recs[d]) < RecCap
        /\ recs' = [recs EXCEPT ![d] = @ \cup {next[d]}]
        /\ next' = [next EXCEPT ![d] = @ + 1]
        /\ GoTo(d, "row")
     \/ /\ kind = "rest"
        /\ GoTo(d, "last error")
        /\ UNCHANGED <<recs, next>>
  /\ UNCHANGED errs
  /\ Streams(d)

(* errChan <- err: every reader goes on to the next row. *)
SendErrorAndGoOn(d) ==
  /\ go[d] \in {"error", "last error"}
  /\ errs[d] < ErrCap
  /\ errs' = [errs EXCEPT ![d] = @ + 1]
  /\ next' = [next EXCEPT ![d] = @ + 1]
  /\ GoTo(d, IF go[d] = "error" THEN "row" ELSE "closing")
  /\ UNCHANGED recs
  /\ Streams(d)

(* errChan <- err: after the error of one row streamRows goes on with the  *)
(* next row, the other readers return.                                     *)
SendError(d) ==
  /\ go[d] \in {"error", "last error"}
  /\ errs[d] < ErrCap
  /\ errs' = [errs EXCEPT ![d] = @ + 1]
  /\ IF go[d] = "error" /\ kind = "sql"
       THEN next' = [next EXCEPT ![d] = @ + 1] /\ GoTo(d, "row")
       ELSE UNCHANGED next /\ GoTo(d, "closing")
  /\ UNCHANGED recs
  /\ Streams(d)

(* The goroutine returns and leaves recChan open. *)
CloseErrsOnly(d) ==
  /\ go[d] = "closing"
  /\ GoTo(d, "off")
  /\ UNCHANGED <<next, recs, errs>>
  /\ Streams(d)

(* The deferred calls: errChan is closed first, then recChan. *)
CloseErrs(d) ==
  /\ go[d] = "closing"
  /\ GoTo(d, "errs closed")
  /\ UNCHANGED <<next, recs, errs>>
  /\ Streams(d)

CloseRecs(d) ==
  /\ go[d] = "errs closed"
  /\ GoTo(d, "closed")
  /\ UNCHANGED <<next, recs, errs>>
  /\ Streams(d)

Goroutine(d) ==
  NextRow(d) \/ IterationFails(d) \/ SendRecord(d) \/ SendError(d) \/ CloseErrs(d) \/ CloseRecs(d)

Consumer(d) ==
  Claim(d) \/ ReadFails(d) \/ ReadPartition(d) \/ DrainRecords(d) \/ ReturnErr(d) \/ ReturnNil(d)

Runner(d) == Setup(d) \/ PingFails(d) \/ Teardown(d) \/ Start(d)

Next == \E d \in DoFns : Goroutine(d) \/ Consumer(d) \/ Runner(d)

(* Goroutines are scheduled; when and whether the runner acts is its own affair. *)
Fairness == \A d \in DoFns : WF_vars(Goroutine(d)) /\ WF_vars(Consumer(d))

Spec == Init /\ [][Next]_vars
FairSpec == Spec /\ Fairness

-----------------------------------------------------------------------------
(* Control points, channels and pools stay in range. *)
TypeOK ==
  /\ kind \in Kinds /\ remote \in BOOLEAN /\ bad \in [Slices -> SUBSET Rows]
  /\ made \in 0..MaxPools /\ cached \in 0..MaxPools
  /\ open \subseteq Pools /\ lost \subseteq Pools
  /\ pc \in [DoFns -> {"down", "idle", "started", "claimed", "records", "errors"}]
  /\ db \in [DoFns -> 0..MaxPools]
  /\ elem \in [DoFns -> Slices]
  /\ go \in [DoFns -> {"off", "row", "record", "error", "last error", "closing", "errs closed", "closed"}]
  /\ next \in [DoFns -> 1..(NumRows + 1)]
  /\ recs \in [DoFns -> SUBSET Rows] /\ emitted \in [DoFns -> SUBSET Rows]
  /\ errs \in [DoFns -> 0..ErrCap]
  /\ pending \subseteq Slices /\ tries \in [Slices -> 0..MaxAttempts]
  /\ done \in [Slices -> SUBSET Rows]

(* A slice whose ProcessElement returned nil was read to its last row, and *)
(* no row of it failed: neither the order of the two channels, nor their   *)
(* capacities, nor a retry hides an error behind rows already emitted.     *)
WholeSlices == \A s \in Slices : done[s] \in {{}, Rows} /\ (done[s] # {} => bad[s] = {})

(* The work on a slice is in one place: waiting, in the hands of one       *)
(* instance, or over.  A retry never meets the attempt it repeats, and     *)
(* whenever the runner asks for a split, before or after the claim and at  *)
(* any fraction, it gets none, so that no second range of a slice exists.  *)
Busy(s) == {d \in DoFns : pc[d] \notin {"down", "idle"} /\ elem[d] = s}

OneReader ==
  /\ \A s \in Slices :
       /\ \A c, d \in Busy(s) : c = d
       /\ s \in pending => Busy(s) = {}
       /\ done[s] # {} => Busy(s) = {} /\ s \notin pending
  /\ \A d \in DoFns : \A k \in 0..Remaining(tracker[d]) : ~Splittable(tracker[d], k)

(* However Setup, a Setup that fails and Teardown of the instances         *)
(* interleave, the cache never hands out a closed pool, and the pools that *)
(* stay open although nobody can reach them are the MongoDB clients whose  *)
(* Ping failed, and only those: an instance never holds one of them, and   *)
(* no Teardown closes one.                                                 *)
PoolsConsistent ==
  /\ cached # NoPool => cached \in open
  /\ kind = "sql" => open = {cached} \ {NoPool}
  /\ kind = "mongo" => LET held == {db[d] : d \in DoFns} \ {NoPool}
                       IN  open = held \cup lost /\ held \cap lost = {}

(* Reader and source wait for each other for ever only when SQL rows fail  *)
(* more often than errChan has room: the source reads errChan only after   *)
(* recChan is closed.                                                      *)
Stalled(d) ==
  /\ pc[d] = "records" /\ recs[d] = {}
  /\ go[d] \in {"error", "last error"} /\ errs[d] = ErrCap

StallsOnlyOnOverflow ==
  \A d \in DoFns : Stalled(d) =>
    /\ kind = "sql"
    /\ Cardinality(Bad(d)) >= ErrCap
    /\ go[d] = "error" => Cardinality(Bad(d)) > ErrCap

(* Every attempt ends, unless it stalls that way. *)
AttemptsEnd ==
  \A d \in DoFns : pc[d] = "started" ~> pc[d] \in {"idle", "down"} \/ Stalled(d)
=============================================================================
