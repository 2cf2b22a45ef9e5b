----------------------- MODULE PartitionSource_proofs -----------------------
(***************************************************************************)
(* Proofs of the safety properties of PartitionSource, for any number of   *)
(* instances, slices, rows and attempts and any channel capacities.  The   *)
(* invariant has five parts: types, the pools, the trackers, the place of  *)
(* each slice, and the rows an attempt has read so far, with the slices    *)
(* those rows made whole.                                                  *)
(***************************************************************************)
EXTENDS PartitionSource, FiniteSetTheorems, TLAPS

(* A goroutine that is about to send something stands at a row. *)
AtRow == \A d \in DoFns : go[d] \in {"record", "error"} => next[d] <= NumRows

JobT   == kind \in Kinds /\ remote \in BOOLEAN /\ bad \in [Slices -> SUBSET Rows]
PoolT  == /\ made \in 0..MaxPools /\ cached \in 0..MaxPools
          /\ open \subseteq Pools /\ lost \subseteq Pools
          /\ db \in [DoFns -> 0..MaxPools]
PlaceT == /\ pc \in [DoFns -> {"down", "idle", "started", "claimed", "records", "errors"}]
          /\ elem \in [DoFns -> Slices]
          /\ pending \subseteq Slices /\ tries \in [Slices -> 0..MaxAttempts]
Labels == {"off", "row", "record", "error", "last error", "closing", "errs closed", "closed"}
ChanT  == /\ go \in [DoFns -> Labels]
          /\ next \in [DoFns -> 1..(NumRows + 1)]
          /\ recs \in [DoFns -> SUBSET Rows] /\ emitted \in [DoFns -> SUBSET Rows]
          /\ errs \in [DoFns -> 0..ErrCap]
DoneT  == done \in [Slices -> SUBSET Rows]

TInv == JobT /\ PoolT /\ PlaceT /\ ChanT /\ DoneT /\ AtRow

LEMMA TypesOf == TInv => TypeOK
  BY DEF TInv, JobT, PoolT, PlaceT, ChanT, DoneT, TypeOK, Labels

LEMMA Bounds ==
  /\ NumSlices \in Nat \ {0} /\ NumRows \in Nat /\ RecCap \in Nat \ {0}
  /\ SQLErrCap \in Nat \ {0} /\ MaxAttempts \in Nat /\ MaxPools \in Nat
  /\ ErrCap \in Nat \ {0}
  BY BoundsAssumption DEF ErrCap

LEMMA InitTypes == Init => TInv
<1> SUFFICES ASSUME Init PROVE TInv  OBVIOUS
<1>1. JobT  BY DEF Init, JobT
<1>2. PoolT /\ PlaceT /\ ChanT /\ DoneT /\ AtRow
  BY Bounds DEF Init, PoolT, PlaceT, ChanT, DoneT, AtRow, Slices, Rows, Pools, NoPool, Labels
<1> QED  BY <1>1, <1>2 DEF TInv

(* The variables of the job never change, and with them the room for errors. *)
LEMMA JobConstant ==
  ASSUME [Next]_vars PROVE kind' = kind /\ bad' = bad /\ remote' = remote /\ ErrCap' = ErrCap
<1>1. kind' = kind /\ bad' = bad /\ remote' = remote
  BY DEF Next, vars, Goroutine, Consumer, Runner, Setup, PingFails, Teardown, Start, Claim, ReadFails,
         ReadPartition, DrainRecords, ReturnErr, ReturnNil, FailAttempt, NextRow, IterationFails,
         SendRecord, SendError, CloseErrs, CloseRecs, Streams
<1> QED  BY <1>1 DEF ErrCap

LEMMA JobStep == ASSUME JobT, [Next]_vars PROVE JobT'
<1>1. kind' = kind /\ bad' = bad /\ remote' = remote  BY JobConstant
<1> QED  BY <1>1, Zenon DEF JobT

LEMMA PoolStep == ASSUME PoolT, [Next]_vars PROVE PoolT'
<1> USE Bounds DEF PoolT
<1>1. ASSUME NEW d \in DoFns, Setup(d) PROVE PoolT'
  <2>1. CASE UNCHANGED poolVars /\ db' = db
    BY <2>1 DEF poolVars
  <2>2. CASE UNCHANGED poolVars /\ db' = [db EXCEPT ![d] = cached]
    BY <2>2 DEF poolVars
  <2>3. CASE NewPool /\ db' = [db EXCEPT ![d] = made'] /\ cached' \in {cached, made'} /\ lost' = lost
    <3>1. made' \in 0..MaxPools /\ made' \in Pools /\ open' = open \cup {made'}
      BY <2>3 DEF NewPool, Pools
    <3> QED  BY <2>3, <3>1
  <2> QED  BY <1>1, <2>1, <2>2, <2>3 DEF Setup, GetOrCreateDB, OpenClient
<1>p. ASSUME NEW d \in DoFns, PingFails(d) PROVE PoolT'
  <2>1. made' \in 0..MaxPools /\ made' \in Pools /\ open' = open \cup {made'}
    BY <1>p DEF PingFails, NewPool, Pools
  <2> QED  BY <1>p, <2>1 DEF PingFails
<1>2. ASSUME NEW d \in DoFns, Teardown(d) PROVE PoolT'
  BY <1>2 DEF Teardown, CloseDB, poolVars, NoPool
<1>3. ASSUME UNCHANGED <<made, cached, open, lost, db>> PROVE PoolT'
  BY <1>3
<1>4. ASSUME NEW d \in DoFns, Goroutine(d) \/ Consumer(d) \/ Start(d)
      PROVE  UNCHANGED <<made, cached, open, lost, db>>
  BY <1>4 DEF Goroutine, Consumer, Start, Claim, ReadFails, ReadPartition, DrainRecords, ReturnErr,
              ReturnNil, FailAttempt, NextRow, IterationFails, SendRecord, SendError, CloseErrs,
              CloseRecs, Streams, poolVars
<1> QED  BY <1>1, <1>p, <1>2, <1>3, <1>4 DEF Next, Runner, vars, poolVars

LEMMA PlaceStep == ASSUME PlaceT, [Next]_vars PROVE PlaceT'
<1> USE Bounds DEF PlaceT
<1>1. ASSUME NEW d \in DoFns, Start(d) PROVE PlaceT'
  BY <1>1 DEF Start, Goto
<1>2. ASSUME NEW d \in DoFns, FailAttempt(d) PROVE PlaceT'
  BY <1>2 DEF FailAttempt, Goto
<1>3. ASSUME NEW d \in DoFns,
             \/ Setup(d) \/ PingFails(d) \/ Teardown(d)
             \/ Claim(d) \/ ReadPartition(d) \/ DrainRecords(d) \/ ReturnNil(d)
      PROVE  /\ UNCHANGED <<elem, pending, tries>>
             /\ pc' \in [DoFns -> {"down", "idle", "started", "claimed", "records", "errors"}]
  BY <1>3 DEF Setup, PingFails, Teardown, Claim, ReadPartition, DrainRecords, ReturnNil, Goto, workVars
<1>4. ASSUME NEW d \in DoFns, Goroutine(d) PROVE UNCHANGED <<pc, elem, pending, tries>>
  BY <1>4 DEF Goroutine, NextRow, IterationFails, SendRecord, SendError, CloseErrs,
              CloseRecs, Streams, workVars
<1>5. UNCHANGED vars => UNCHANGED <<pc, elem, pending, tries>>  BY DEF vars, workVars
<1>6. UNCHANGED <<elem, pending, tries>>
        /\ pc' \in [DoFns -> {"down", "idle", "started", "claimed", "records", "errors"}] => PlaceT'
  OBVIOUS
<1> HIDE DEF PlaceT
<1> QED
  <2>1. UNCHANGED <<pc, elem, pending, tries>> => PlaceT'  BY DEF PlaceT
  <2> QED  BY <1>1, <1>2, <1>3, <1>4, <1>5, <1>6, <2>1 DEF Next, Runner, Consumer, ReadFails, ReturnErr

(* A goroutine about to send stays at a row when one instance moves. *)
LEMMA AtRowMove ==
  ASSUME NEW d \in DoFns, NEW label, NEW n, NumRows \in Nat,
         go \in [DoFns -> Labels], next \in [DoFns -> 1..(NumRows + 1)], AtRow,
         go' = [go EXCEPT ![d] = label], next' = [next EXCEPT ![d] = n],
         label \in {"record", "error"} => n <= NumRows
  PROVE  AtRow'
  BY DEF AtRow

LEMMA ChanStep == ASSUME ChanT, AtRow, [Next]_vars PROVE ChanT' /\ AtRow'
<1> DEFINE Rest == UNCHANGED <<recs, errs, emitted>>
<1>0. ErrCap' = ErrCap /\ ErrCap \in Nat \ {0} /\ NumRows \in Nat  BY JobConstant, Bounds
<1>g. go \in [DoFns -> Labels]  BY DEF ChanT
<1>n. next \in [DoFns -> 1..(NumRows + 1)]  BY DEF ChanT
<1>r. recs \in [DoFns -> SUBSET Rows] /\ emitted \in [DoFns -> SUBSET Rows]  BY DEF ChanT
<1>e. errs \in [DoFns -> 0..ErrCap]  BY DEF ChanT
<1>1. ASSUME NEW d \in DoFns, NextRow(d) \/ IterationFails(d) \/ CloseErrs(d) \/ CloseRecs(d)
      PROVE  ChanT' /\ AtRow'
  <2>1. UNCHANGED <<next, recs, emitted, errs>>
    BY <1>1 DEF NextRow, IterationFails, CloseErrs, CloseRecs, Streams
  <2>2. PICK label \in Labels : /\ go' = [go EXCEPT ![d] = label]
                                /\ label \in {"record", "error"} => ~(next[d] > NumRows)
    BY <1>1 DEF NextRow, IterationFails, CloseErrs, CloseRecs, GoTo, Labels
  <2>3. go' \in [DoFns -> Labels]  BY <1>g, <2>2
  <2>4. AtRow'
    <3>1. next' = [next EXCEPT ![d] = next[d]]  BY <1>n, <2>1
    <3>2. next[d] \in 1..(NumRows + 1)  BY <1>n
    <3>3. label \in {"record", "error"} => next[d] <= NumRows  BY <1>0, <2>2, <3>2
    <3> QED  BY <1>0, <1>g, <1>n, <2>2, <3>1, <3>3, AtRowMove
  <2> QED  BY <1>0, <2>1, <2>3, <2>4, <1>n, <1>r, <1>e DEF ChanT
<1>2. ASSUME NEW d \in DoFns, SendRecord(d) PROVE ChanT' /\ AtRow'
  <2>1. next[d] <= NumRows /\ next[d] \in 1..(NumRows + 1)  BY <1>2, <1>n DEF SendRecord, AtRow
  <2>2. errs' = errs /\ emitted' = emitted  BY <1>2 DEF SendRecord, Streams
  <2>3. CASE /\ recs' = [recs EXCEPT ![d] = @ \cup {next[d]}]
             /\ next' = [next EXCEPT ![d] = @ + 1] /\ go' = [go EXCEPT ![d] = "row"]
    <3>1. next' \in [DoFns -> 1..(NumRows + 1)]  BY <1>0, <1>n, <2>1, <2>3
    <3>2. recs' \in [DoFns -> SUBSET Rows]  BY <1>0, <1>r, <2>1, <2>3 DEF Rows
    <3>3. go' \in [DoFns -> Labels]  BY <1>g, <2>3 DEF Labels
    <3>4. AtRow'  BY <1>0, <1>g, <1>n, <2>3, AtRowMove
    <3> QED  BY <1>0, <2>2, <3>1, <3>2, <3>3, <3>4, <1>r, <1>e DEF ChanT
  <2>4. CASE go' = [go EXCEPT ![d] = "last error"] /\ recs' = recs /\ next' = next
    <3>1. next' = [next EXCEPT ![d] = next[d]]  BY <1>n, <2>4
    <3>2. AtRow'  BY <1>0, <1>g, <1>n, <2>4, <3>1, AtRowMove
    <3>3. go' \in [DoFns -> Labels]  BY <1>g, <2>4 DEF Labels
    <3> QED  BY <1>0, <2>2, <2>4, <3>2, <3>3, <1>n, <1>r, <1>e DEF ChanT
  <2> QED  BY <1>2, <2>3, <2>4 DEF SendRecord, GoTo
<1>3. ASSUME NEW d \in DoFns, SendError(d) PROVE ChanT' /\ AtRow'
  <2>1. UNCHANGED <<recs, emitted>>  BY <1>3 DEF SendError, Streams
  <2>2. errs' \in [DoFns -> 0..ErrCap]
    <3>1. errs' = [errs EXCEPT ![d] = @ + 1] /\ errs[d] < ErrCap  BY <1>3 DEF SendError
    <3> QED  BY <3>1, <1>0, <1>e
  <2>3. PICK label \in {"row", "closing"}, n \in {next[d], next[d] + 1} :
          /\ go' = [go EXCEPT ![d] = label] /\ next' = [next EXCEPT ![d] = n]
          /\ n = next[d] + 1 => next[d] <= NumRows
    <3>1. CASE go[d] = "error" /\ kind = "sql"
      BY <1>3, <3>1 DEF SendError, GoTo, AtRow
    <3>2. CASE ~(go[d] = "error" /\ kind = "sql")
      <4>1. next' = next /\ go' = [go EXCEPT ![d] = "closing"]  BY <1>3, <3>2 DEF SendError, GoTo
      <4>2. next' = [next EXCEPT ![d] = next[d]] /\ next[d] \in Int  BY <4>1, <1>n
      <4>3. ~(next[d] = next[d] + 1)  BY <4>2
      <4> WITNESS "closing" \in {"row", "closing"}, next[d] \in {next[d], next[d] + 1}
      <4> QED  BY <4>1, <4>2, <4>3
    <3> QED  BY <3>1, <3>2
  <2>4. next[d] \in 1..(NumRows + 1)  BY <1>n
  <2>5. n \in 1..(NumRows + 1)  BY <1>0, <2>3, <2>4
  <2>6. next' \in [DoFns -> 1..(NumRows + 1)]
    <3> DEFINE N == 1..(NumRows + 1)
    <3>1. next \in [DoFns -> N] /\ n \in N /\ next' = [next EXCEPT ![d] = n]  BY <1>n, <2>3, <2>5
    <3> HIDE DEF N
    <3>2. next' \in [DoFns -> N]  BY <3>1
    <3> QED  BY <3>2 DEF N
  <2>7. go' \in [DoFns -> Labels]  BY <1>g, <2>3 DEF Labels
  <2>8. AtRow'
    <3>1. label \notin {"record", "error"}  BY <2>3
    <3> QED  BY <1>0, <1>g, <1>n, <2>3, <3>1, AtRowMove
  <2> QED  BY <1>0, <2>1, <2>2, <2>6, <2>7, <2>8, <1>r DEF ChanT
<1>4. ASSUME NEW d \in DoFns, Forget(d) PROVE ChanT' /\ AtRow'
  <2>1. go' \in [DoFns -> Labels] /\ next' \in [DoFns -> 1..(NumRows + 1)]
    <3>1. next' = [next EXCEPT ![d] = 1] /\ 1 \in 1..(NumRows + 1)  BY <1>4, <1>0 DEF Forget
    <3>2. go' = [go EXCEPT ![d] = "off"] /\ "off" \in Labels  BY <1>4 DEF Forget, Labels
    <3> QED  BY <3>1, <3>2, <1>g, <1>n
  <2>2. /\ recs' \in [DoFns -> SUBSET Rows] /\ emitted' \in [DoFns -> SUBSET Rows]
        /\ errs' \in [DoFns -> 0..ErrCap]
    <3>1. {} \in SUBSET Rows /\ 0 \in 0..ErrCap  BY <1>0
    <3>2. /\ recs' = [recs EXCEPT ![d] = {}] /\ emitted' = [emitted EXCEPT ![d] = {}]
          /\ errs' = [errs EXCEPT ![d] = 0]
      BY <1>4 DEF Forget
    <3> QED  BY <3>1, <3>2, <1>r, <1>e
  <2>3. AtRow'  BY <1>4, <1>0, <1>g, <1>n, AtRowMove DEF Forget
  <2> QED  BY <1>0, <2>1, <2>2, <2>3 DEF ChanT
<1>5. ASSUME NEW d \in DoFns, ReadPartition(d) PROVE ChanT' /\ AtRow'
  <2>1. go' = [go EXCEPT ![d] = "row"] /\ UNCHANGED <<next, recs, errs, emitted>>
    BY <1>5 DEF ReadPartition, GoTo
  <2>2. go' \in [DoFns -> Labels]  BY <2>1, <1>g DEF Labels
  <2>3. next' = [next EXCEPT ![d] = next[d]]  BY <1>n, <2>1
  <2>4. AtRow'  BY <1>0, <1>g, <1>n, <2>1, <2>3, AtRowMove
  <2> QED  BY <1>0, <2>1, <2>2, <2>4, <1>n, <1>r, <1>e DEF ChanT
<1>6. ASSUME NEW d \in DoFns, DrainRecords(d) PROVE ChanT' /\ AtRow'
  <2>1. UNCHANGED <<go, next, errs>>  BY <1>6 DEF DrainRecords
  <2>2. recs' \in [DoFns -> SUBSET Rows] /\ emitted' \in [DoFns -> SUBSET Rows]
    BY <1>6, <1>r DEF DrainRecords
  <2> QED  BY <1>0, <2>1, <2>2, <1>g, <1>n, <1>e DEF ChanT, AtRow
<1>7. ASSUME UNCHANGED <<go, next, recs, errs, emitted>> PROVE ChanT' /\ AtRow'
  BY <1>7, <1>0 DEF ChanT, AtRow
<1>8. ASSUME NEW d \in DoFns, Setup(d) \/ PingFails(d) \/ Teardown(d) \/ Start(d) \/ Claim(d)
      PROVE  UNCHANGED <<go, next, recs, errs, emitted>>
  BY <1>8 DEF Setup, PingFails, Teardown, Start, Claim, chanVars
<1>9. UNCHANGED vars => UNCHANGED <<go, next, recs, errs, emitted>>  BY DEF vars, chanVars
<1> QED
  BY <1>1, <1>2, <1>3, <1>4, <1>5, <1>6, <1>7, <1>8, <1>9
     DEF Next, Goroutine, Consumer, Runner, ReadFails, ReturnErr, ReturnNil, FailAttempt

LEMMA DoneStep == ASSUME DoneT, ChanT, PlaceT, [Next]_vars PROVE DoneT'
<1>1. ASSUME NEW d \in DoFns, ReturnNil(d) PROVE DoneT'
  BY <1>1 DEF ReturnNil, DoneT, ChanT, PlaceT
<1>2. ASSUME NEW d \in DoFns, Goroutine(d) \/ Runner(d) \/ Claim(d) \/ FailAttempt(d)
                               \/ ReadPartition(d) \/ DrainRecords(d)
      PROVE  done' = done
  BY <1>2 DEF Goroutine, Runner, Setup, PingFails, Teardown, Start, Claim, FailAttempt, ReadPartition,
              DrainRecords, NextRow, IterationFails, SendRecord, SendError, CloseErrs, CloseRecs,
              Streams, workVars
<1>3. UNCHANGED vars => done' = done  BY DEF vars, workVars
<1>4. done' = done => DoneT'  BY DEF DoneT
<1> QED  BY <1>1, <1>2, <1>3, <1>4 DEF Next, Consumer, ReadFails, ReturnErr

LEMMA TypesStep == ASSUME TInv, [Next]_vars PROVE TInv'
  BY JobStep, PoolStep, PlaceStep, ChanStep, DoneStep DEF TInv

-----------------------------------------------------------------------------
(* The pools.  Besides PoolsConsistent: only SQL readers share a pool, no  *)
(* two MongoDB readers hold the same client, an instance that is down      *)
(* holds none, and every pool in use or left behind was made.              *)
OwnClients ==
  /\ \A p \in lost : p <= made
  /\ kind # "sql" => cached = NoPool
  /\ cached <= made
  /\ kind = "mongo" => \A c, d \in DoFns : db[c] = db[d] /\ db[c] # NoPool => c = d
  /\ \A d \in DoFns : /\ pc[d] = "down" => db[d] = NoPool
                      /\ db[d] <= made

PInv == PoolsConsistent /\ OwnClients

(* Only Setup, with or without success, and Teardown touch the pools or    *)
(* take an instance up or down.                                            *)
LEMMA PoolsAlone ==
  ASSUME PlaceT, NEW d \in DoFns, Goroutine(d) \/ Consumer(d) \/ Start(d)
  PROVE  /\ UNCHANGED <<made, cached, open, lost, db>>
         /\ \A e \in DoFns : pc'[e] = "down" => pc[e] = "down"
<1>1. UNCHANGED <<made, cached, open, lost, db>>
  BY DEF Goroutine, Consumer, Start, Claim, ReadFails, ReadPartition, DrainRecords, ReturnErr,
         ReturnNil, FailAttempt, NextRow, IterationFails, SendRecord, SendError, CloseErrs,
         CloseRecs, Streams, poolVars
<1>2. \/ pc' = pc
      \/ \E label \in {"idle", "started", "claimed", "records", "errors"} :
           pc' = [pc EXCEPT ![d] = label]
  BY DEF Goroutine, Consumer, Start, Claim, ReadFails, ReadPartition, DrainRecords, ReturnErr,
         ReturnNil, FailAttempt, NextRow, IterationFails, SendRecord, SendError, CloseErrs,
         CloseRecs, Streams, Goto
<1> QED  BY <1>1, <1>2 DEF PlaceT

LEMMA PoolsStep == ASSUME TInv, PInv, [Next]_vars PROVE PInv'
<1>0. kind' = kind  BY JobConstant
<1>t. /\ made \in Nat /\ cached \in Nat /\ db \in [DoFns -> Nat]
      /\ open \subseteq Nat /\ lost \subseteq Nat \ {0}
      /\ pc \in [DoFns -> {"down", "idle", "started", "claimed", "records", "errors"}]
  BY Bounds DEF TInv, PoolT, PlaceT, Pools
<1>1. ASSUME UNCHANGED <<made, cached, open, lost, db>>,
             \A e \in DoFns : pc'[e] = "down" => pc[e] = "down"
      PROVE  PInv'
  <2>1. {db'[e] : e \in DoFns} = {db[e] : e \in DoFns}  BY <1>1
  <2>2. PoolsConsistent'  BY <1>0, <1>1, <2>1 DEF PInv, PoolsConsistent
  <2>3. OwnClients'  BY <1>0, <1>1 DEF PInv, OwnClients
  <2> QED  BY <2>2, <2>3 DEF PInv
<1>2. ASSUME NEW d \in DoFns, Setup(d) PROVE PInv'
  <2>0. db[d] = NoPool /\ pc' = [pc EXCEPT ![d] = "idle"]
    BY <1>2 DEF Setup, Goto, PInv, OwnClients
  <2>1. CASE kind = "sql" /\ GetOrCreateDB(d)
    <3>1. CASE cached # NoPool
      BY <1>0, <1>t, <2>0, <2>1, <3>1
         DEF GetOrCreateDB, PInv, PoolsConsistent, OwnClients, poolVars, NoPool
    <3>2. CASE cached = NoPool
      <4>1. /\ made' = made + 1 /\ cached' = made + 1 /\ open' = {made + 1} /\ lost' = lost
            /\ db' = [db EXCEPT ![d] = made + 1]
        BY <2>1, <3>2 DEF GetOrCreateDB, NewPool, PInv, PoolsConsistent
      <4> QED  BY <1>0, <1>t, <2>0, <2>1, <4>1 DEF PInv, PoolsConsistent, OwnClients, NoPool
    <3> QED  BY <3>1, <3>2
  <2>2. CASE kind = "mongo" /\ OpenClient(d)
    <3>1. /\ made' = made + 1 /\ cached' = NoPool /\ open' = open \cup {made + 1} /\ lost' = lost
          /\ db' = [db EXCEPT ![d] = made + 1]
      BY <2>2 DEF OpenClient, NewPool, PInv, OwnClients
    <3>2. {db'[e] : e \in DoFns} \ {NoPool} = ({db[e] : e \in DoFns} \ {NoPool}) \cup {made + 1}
      BY <1>t, <2>0, <3>1 DEF NoPool
    <3>3. PoolsConsistent'
      <4>1. made + 1 \notin lost  BY <1>t DEF PInv, OwnClients
      <4> QED  BY <1>0, <2>2, <3>1, <3>2, <4>1 DEF PInv, PoolsConsistent, NoPool
    <3>4. OwnClients'
      BY <1>0, <1>t, <2>0, <2>2, <3>1 DEF PInv, OwnClients, NoPool
    <3> QED  BY <3>3, <3>4 DEF PInv
  <2>3. CASE kind = "rest" /\ UNCHANGED <<poolVars, db>>
    BY <1>0, <1>t, <2>0, <2>3 DEF PInv, PoolsConsistent, OwnClients, poolVars
  <2> QED  BY <1>2, <2>1, <2>2, <2>3 DEF Setup
<1>p. ASSUME NEW d \in DoFns, PingFails(d) PROVE PInv'
  <2>1. /\ made' = made + 1 /\ open' = open \cup {made + 1} /\ lost' = lost \cup {made + 1}
        /\ UNCHANGED <<cached, db, pc>> /\ kind = "mongo" /\ cached = NoPool
    BY <1>p DEF PingFails, NewPool, PInv, OwnClients
  <2>2. {db'[e] : e \in DoFns} = {db[e] : e \in DoFns}  BY <2>1
  <2>3. made + 1 \notin {db[e] : e \in DoFns}  BY <1>t DEF PInv, OwnClients
  <2>4. PoolsConsistent'  BY <1>0, <2>1, <2>2, <2>3 DEF PInv, PoolsConsistent
  <2>5. OwnClients'  BY <1>0, <1>t, <2>1 DEF PInv, OwnClients
  <2> QED  BY <2>4, <2>5 DEF PInv
<1>3. ASSUME NEW d \in DoFns, Teardown(d) PROVE PInv'
  <2>0. db' = [db EXCEPT ![d] = NoPool] /\ pc' = [pc EXCEPT ![d] = "down"]
    BY <1>3 DEF Teardown, Goto
  <2>1. CASE kind = "rest"
    BY <1>0, <1>3, <1>t, <2>0, <2>1
       DEF Teardown, PInv, PoolsConsistent, OwnClients, poolVars, NoPool
  <2>2. CASE kind # "rest"
    <3>1. /\ open' = open \ {db[d]} /\ made' = made /\ lost' = lost
          /\ cached' = IF cached = db[d] THEN NoPool ELSE cached
      BY <1>3, <2>2 DEF Teardown, CloseDB
    <3>2. OwnClients'
      BY <1>0, <1>t, <2>0, <3>1 DEF PInv, OwnClients, NoPool
    <3>3. (kind = "sql" => open = {cached} \ {NoPool}) => (kind = "sql" => open' = {cached'} \ {NoPool})
      BY <3>1
    <3>4. kind = "mongo" => {db'[e] : e \in DoFns} \ {NoPool}
                             = ({db[e] : e \in DoFns} \ {NoPool}) \ {db[d]}
      BY <1>t, <2>0 DEF PInv, OwnClients, NoPool
    <3>5. cached' # NoPool => cached' \in open'
      BY <3>1 DEF PInv, PoolsConsistent
    <3>6. kind = "mongo" => db[d] \notin lost
      BY <1>t DEF PInv, PoolsConsistent, NoPool
    <3>7. PoolsConsistent'
      BY <1>0, <3>1, <3>3, <3>4, <3>5, <3>6 DEF PInv, PoolsConsistent
    <3> QED  BY <3>2, <3>7 DEF PInv
  <2> QED  BY <2>1, <2>2
<1>4. UNCHANGED vars => UNCHANGED <<made, cached, open, lost, db, pc>>  BY DEF vars, poolVars
<1> QED
  BY <1>1, <1>2, <1>p, <1>3, <1>4, PoolsAlone DEF Next, Runner, TInv

-----------------------------------------------------------------------------
(* The place of every slice.  The tracker of an instance is fresh or has   *)
(* claimed index 0, and is fresh when its attempt starts.                  *)
OnePlace ==
  \A s \in Slices :
    /\ \A c, d \in Busy(s) : c = d
    /\ s \in pending => Busy(s) = {}
    /\ done[s] # {} => Busy(s) = {} /\ s \notin pending

Fresh == [start |-> 0, end |-> 1, claimed |-> -1, stopped |-> FALSE]
Spent == [start |-> 0, end |-> 1, claimed |-> 0, stopped |-> FALSE]

Trackers ==
  /\ tracker \in [DoFns -> {Fresh, Spent}]
  /\ \A d \in DoFns : pc[d] = "started" => tracker[d] = Fresh

(* A claim of index 0 on a fresh range is granted. *)
LEMMA ClaimFresh ==
  /\ NewRange = Fresh
  /\ Claimable(Fresh, 0) /\ TryClaim(Fresh, 0) = Spent
<1>1. NewRange = Fresh  BY DEF NewRange, NewTracker, Fresh
<1>2. Claimable(Fresh, 0)  BY DEF Claimable, Fresh
<1>3. Fresh.start = 0 /\ Fresh.end = 1 /\ Fresh.stopped = FALSE  BY DEF Fresh
<1>4. (Fresh.stopped \/ ~Claimable(Fresh, 0)) = FALSE  BY <1>2, <1>3
<1>5. TryClaim(Fresh, 0) = Spent  BY <1>2, <1>3, <1>4 DEF TryClaim, Spent
<1> QED  BY <1>1, <1>2, <1>5

(* Neither a fresh range nor a spent one can be split. *)
LEMMA NoSplit ==
  ASSUME NEW t \in {Fresh, Spent}, NEW k \in 0..Remaining(t) PROVE ~Splittable(t, k)
  BY DEF Fresh, Spent, Remaining, Splittable, SplitPoint

LEMMA TrackersStep == ASSUME PlaceT, Trackers, [Next]_vars PROVE Trackers'
<1>t. /\ pc \in [DoFns -> {"down", "idle", "started", "claimed", "records", "errors"}]
      /\ tracker \in [DoFns -> {Fresh, Spent}]
  BY DEF PlaceT, Trackers
<1>1. ASSUME NEW d \in DoFns, Start(d) PROVE Trackers'
  <2>1. tracker' = [tracker EXCEPT ![d] = Fresh] /\ pc' = [pc EXCEPT ![d] = "started"]
    BY <1>1, ClaimFresh DEF Start, Goto
  <2> QED  BY <1>t, <2>1 DEF Trackers
<1>2. ASSUME NEW d \in DoFns, Claim(d) PROVE Trackers'
  <2>1. tracker[d] = Fresh  BY <1>2 DEF Claim, Trackers
  <2>2. tracker' = [tracker EXCEPT ![d] = Spent] /\ pc' = [pc EXCEPT ![d] = "claimed"]
    BY <1>2, <2>1, ClaimFresh DEF Claim, Goto
  <2> QED  BY <1>t, <2>2 DEF Trackers
<1>3. ASSUME tracker' = tracker, \A e \in DoFns : pc'[e] = "started" => pc[e] = "started"
      PROVE  Trackers'
  BY <1>3 DEF Trackers
<1>4. ASSUME NEW d \in DoFns,
             Goroutine(d) \/ FailAttempt(d) \/ ReadPartition(d) \/ DrainRecords(d) \/ ReturnNil(d)
               \/ Setup(d) \/ PingFails(d) \/ Teardown(d)
      PROVE  tracker' = tracker /\ \A e \in DoFns : pc'[e] = "started" => pc[e] = "started"
  <2>1. tracker' = tracker
    BY <1>4 DEF Goroutine, FailAttempt, ReadPartition, DrainRecords, ReturnNil, Setup, PingFails, Teardown,
                NextRow, IterationFails, SendRecord, SendError, CloseErrs, CloseRecs, Streams
  <2>2. pc' = pc \/ \E label \in {"idle", "down", "records", "errors"} : pc' = [pc EXCEPT ![d] = label]
    BY <1>4 DEF Goroutine, FailAttempt, ReadPartition, DrainRecords, ReturnNil, Setup, PingFails, Teardown,
                NextRow, IterationFails, SendRecord, SendError, CloseErrs, CloseRecs, Streams, Goto
  <2> QED  BY <1>t, <2>1, <2>2
<1>5. UNCHANGED vars => tracker' = tracker /\ pc' = pc  BY DEF vars
<1> QED
  BY <1>1, <1>2, <1>3, <1>4, <1>5 DEF Next, Consumer, Runner, ReadFails, ReturnErr

(* Where the slices are, after a step that changes at most one instance. *)
LEMMA PlacesStep == ASSUME PlaceT, DoneT, Trackers, OnePlace, [Next]_vars PROVE OnePlace'
<1> DEFINE Free == {"down", "idle"}
<1>t. /\ pc \in [DoFns -> {"down", "idle", "started", "claimed", "records", "errors"}]
      /\ elem \in [DoFns -> Slices] /\ done \in [Slices -> SUBSET Rows]
  BY DEF PlaceT, DoneT
<1>1. ASSUME UNCHANGED <<elem, pending, done>>,
             \A e \in DoFns : pc'[e] \in Free <=> pc[e] \in Free
      PROVE  OnePlace'
  <2>1. \A s \in Slices : Busy(s)' = Busy(s)  BY <1>1 DEF Busy
  <2> QED  BY <1>1, <2>1 DEF OnePlace
<1>2. ASSUME NEW d \in DoFns,
             \/ Goroutine(d) \/ Claim(d) \/ ReadPartition(d) \/ DrainRecords(d)
             \/ Setup(d) \/ PingFails(d) \/ Teardown(d)
      PROVE  OnePlace'
  <2>1. UNCHANGED <<elem, pending, done>>
    BY <1>2 DEF Goroutine, Claim, ReadPartition, DrainRecords, Setup, PingFails, Teardown,
                NextRow, IterationFails, SendRecord, SendError, CloseErrs, CloseRecs, Streams, workVars
  <2>2. ASSUME Claim(d) PROVE pc[d] = "started" /\ pc' = [pc EXCEPT ![d] = "claimed"]
    <3>1. pc[d] = "started" /\ tracker[d] = Fresh  BY <2>2 DEF Claim, Trackers
    <3> QED  BY <2>2, <3>1, ClaimFresh DEF Claim, Goto
  <2>3. \/ pc' = pc
        \/ pc[d] \in Free /\ \E label \in Free : pc' = [pc EXCEPT ![d] = label]
        \/ pc[d] \notin Free /\ \E label \in {"claimed", "records", "errors"} :
                                  pc' = [pc EXCEPT ![d] = label]
    BY <1>2, <2>2 DEF Goroutine, ReadPartition, DrainRecords, Setup, PingFails, Teardown,
                NextRow, IterationFails, SendRecord, SendError, CloseErrs, CloseRecs, Streams, Goto
  <2>4. \A e \in DoFns : pc'[e] \in Free <=> pc[e] \in Free
    BY <1>t, <2>3
  <2> QED  BY <1>1, <2>1, <2>4
<1>3. ASSUME NEW d \in DoFns, Start(d) PROVE OnePlace'
  <2>1. PICK s \in pending : elem' = [elem EXCEPT ![d] = s] /\ pending' = pending \ {s}
    BY <1>3 DEF Start
  <2>2. pc[d] \in Free /\ pc' = [pc EXCEPT ![d] = "started"] /\ done' = done /\ s \in Slices
    BY <1>3, <2>1 DEF Start, Goto, PlaceT
  <2>3. Busy(s) = {} /\ done[s] = {}  BY <2>1, <2>2 DEF OnePlace
  <2>4. Busy(s)' = {d}  BY <1>t, <2>1, <2>2, <2>3 DEF Busy
  <2>5. \A q \in Slices : q # s => Busy(q)' = Busy(q)  BY <1>t, <2>1, <2>2 DEF Busy
  <2> QED  BY <2>1, <2>2, <2>3, <2>4, <2>5 DEF OnePlace
<1>4. ASSUME NEW d \in DoFns, pc[d] \notin Free, FailAttempt(d) PROVE OnePlace'
  <2>1. /\ pc' = [pc EXCEPT ![d] = "idle"] /\ elem' = elem /\ done' = done
        /\ pending' = pending \cup {elem[d]} /\ elem[d] \in Slices /\ d \in Busy(elem[d])
    BY <1>t, <1>4 DEF FailAttempt, Goto, Busy
  <2>2. Busy(elem[d])' = {}  BY <1>t, <2>1 DEF Busy, OnePlace
  <2>3. \A q \in Slices : q # elem[d] => Busy(q)' = Busy(q)  BY <1>t, <2>1 DEF Busy
  <2>4. done[elem[d]] = {}  BY <2>1 DEF OnePlace
  <2> QED  BY <2>1, <2>2, <2>3, <2>4 DEF OnePlace
<1>5. ASSUME NEW d \in DoFns, ReturnNil(d) PROVE OnePlace'
  <2>1. /\ pc' = [pc EXCEPT ![d] = "idle"] /\ elem' = elem /\ pending' = pending
        /\ done' = [done EXCEPT ![elem[d]] = @ \cup emitted[d]]
        /\ elem[d] \in Slices /\ d \in Busy(elem[d])
    BY <1>t, <1>5 DEF ReturnNil, Goto, Busy
  <2>2. Busy(elem[d])' = {} /\ elem[d] \notin pending  BY <1>t, <2>1 DEF Busy, OnePlace
  <2>3. \A q \in Slices : q # elem[d] => Busy(q)' = Busy(q) /\ done'[q] = done[q]
    BY <1>t, <2>1 DEF Busy
  <2> QED  BY <2>1, <2>2, <2>3 DEF OnePlace
<1>6. ASSUME NEW d \in DoFns, ReadFails(d) \/ ReturnErr(d) PROVE OnePlace'
  BY <1>4, <1>6 DEF ReadFails, ReturnErr
<1>7. UNCHANGED vars => UNCHANGED <<elem, pending, done, pc>>  BY DEF vars, workVars
<1> QED
  BY <1>1, <1>2, <1>3, <1>5, <1>6, <1>7 DEF Next, Consumer, Runner

-----------------------------------------------------------------------------
(* What an attempt has read so far: the rows up to the next one that could *)
(* be read are emitted or in recChan, and a row that could not be read     *)
(* left an error.  b, p, g, n, r, e and out are the bad rows of the slice  *)
(* and the instance's pc, go, next, recs, errs and emitted.                *)
Reads == {"records", "errors"}
Shut  == {"closing", "errs closed", "closed"}
Looping == {"row", "record", "error", "last error"}

SoFar(b, p, g, n, r, e, out) ==
  /\ p \notin Reads => g = "off" /\ n = 1 /\ r = {} /\ e = 0 /\ out = {}
  /\ p \in Reads => out \cup r = (1..(n-1)) \ b
  /\ p \in Reads /\ e = 0 => (1..(n-1)) \cap b = {}
  /\ p \in Reads /\ g = "record" => n \notin b
  /\ p \in Reads /\ g = "error" => n \in b
  /\ p \in Reads /\ g \in Shut /\ e = 0 => n = NumRows + 1
  /\ p = "errors" => r = {} /\ g = "closed"

Attempt == \A d \in DoFns : SoFar(Bad(d), pc[d], go[d], next[d], recs[d], errs[d], emitted[d])

(* A goroutine that has not left its loop has sent an error for every bad  *)
(* row before the next, if it is an SQL reader, and none otherwise.        *)
SentFor(b, g, n, e) ==
  g \in Looping => e = IF kind = "sql" THEN Cardinality(b \cap 1..(n-1)) ELSE 0

Counted == \A d \in DoFns : SentFor(Bad(d), go[d], next[d], errs[d])

RInv == Attempt /\ Counted

(* A step that leaves every other instance alone. *)
Others(d) ==
  \A e \in DoFns \ {d} :
    /\ Bad(e)' = Bad(e) /\ pc'[e] = pc[e] /\ go'[e] = go[e] /\ next'[e] = next[e]
    /\ recs'[e] = recs[e] /\ errs'[e] = errs[e] /\ emitted'[e] = emitted[e]

LEMMA OneAttempt ==
  ASSUME NEW d \in DoFns, RInv, Others(d), kind' = kind,
         SoFar(Bad(d)', pc'[d], go'[d], next'[d], recs'[d], errs'[d], emitted'[d]),
         SentFor(Bad(d)', go'[d], next'[d], errs'[d])
  PROVE  RInv'
<1>1. \A e \in DoFns : SoFar(Bad(e)', pc'[e], go'[e], next'[e], recs'[e], errs'[e], emitted'[e])
  <2> SUFFICES ASSUME NEW e \in DoFns
               PROVE  SoFar(Bad(e)', pc'[e], go'[e], next'[e], recs'[e], errs'[e], emitted'[e])
    OBVIOUS
  <2>1. CASE e = d  BY <2>1
  <2>2. CASE e # d
    <3>1. SoFar(Bad(e), pc[e], go[e], next[e], recs[e], errs[e], emitted[e])  BY DEF RInv, Attempt
    <3> QED  BY <2>2, <3>1 DEF Others
  <2> QED  BY <2>1, <2>2
<1>2. \A e \in DoFns : SentFor(Bad(e)', go'[e], next'[e], errs'[e])
  <2> SUFFICES ASSUME NEW e \in DoFns PROVE SentFor(Bad(e)', go'[e], next'[e], errs'[e])
    OBVIOUS
  <2>1. CASE e = d  BY <2>1
  <2>2. CASE e # d
    <3>1. SentFor(Bad(e), go[e], next[e], errs[e])  BY DEF RInv, Counted
    <3> QED  BY <2>2, <3>1 DEF Others
  <2> QED  BY <2>1, <2>2
<1>3. Attempt'  BY <1>1 DEF Attempt, SoFar
<1>4. Counted'  BY <1>2 DEF Counted, SentFor
<1> QED  BY <1>3, <1>4 DEF RInv

LEMMA OthersStep ==
  ASSUME TInv, NEW d \in DoFns, Goroutine(d) \/ Consumer(d) \/ Runner(d) PROVE Others(d)
<1>t. /\ DOMAIN pc = DoFns /\ DOMAIN elem = DoFns /\ DOMAIN go = DoFns /\ DOMAIN next = DoFns
      /\ DOMAIN recs = DoFns /\ DOMAIN errs = DoFns /\ DOMAIN emitted = DoFns
  BY DEF TInv, PlaceT, ChanT
<1>0. bad' = bad  BY JobConstant DEF Next
<1>1. \A e \in DoFns \ {d} : pc'[e] = pc[e] /\ elem'[e] = elem[e]
  BY <1>t DEF Goroutine, Consumer, Runner, Setup, PingFails, Teardown, Start, Claim, ReadFails,
         ReadPartition, DrainRecords, ReturnErr, ReturnNil, FailAttempt, NextRow, IterationFails,
         SendRecord, SendError, CloseErrs, CloseRecs, Streams, Goto
<1>2. \A e \in DoFns \ {d} : go'[e] = go[e] /\ next'[e] = next[e]
  BY <1>t DEF Goroutine, Consumer, Runner, Setup, PingFails, Teardown, Start, Claim, ReadFails,
         ReadPartition, DrainRecords, ReturnErr, ReturnNil, FailAttempt, NextRow, IterationFails,
         SendRecord, SendError, CloseErrs, CloseRecs, Streams, GoTo, Forget, chanVars
<1>3. \A e \in DoFns \ {d} : recs'[e] = recs[e] /\ errs'[e] = errs[e] /\ emitted'[e] = emitted[e]
  BY <1>t DEF Goroutine, Consumer, Runner, Setup, PingFails, Teardown, Start, Claim, ReadFails,
         ReadPartition, DrainRecords, ReturnErr, ReturnNil, FailAttempt, NextRow, IterationFails,
         SendRecord, SendError, CloseErrs, CloseRecs, Streams, Forget, chanVars
<1> QED  BY <1>0, <1>1, <1>2, <1>3 DEF Others, Bad

(* The bad rows up to a bad one are one more than those before it. *)
LEMMA OneMoreBad ==
  ASSUME NEW b \in SUBSET Rows, NEW n \in 1..NumRows
  PROVE  /\ IsFiniteSet(b \cap 1..(n-1)) /\ IsFiniteSet(b)
         /\ Cardinality(b \cap 1..(n-1)) \in Nat /\ Cardinality(b) \in Nat
         /\ n \in b => Cardinality(b \cap 1..n) = Cardinality(b \cap 1..(n-1)) + 1
         /\ n \notin b => b \cap 1..n = b \cap 1..(n-1)
         /\ Cardinality(b \cap 1..(n-1)) <= Cardinality(b)
         /\ n \in b => Cardinality(b \cap 1..(n-1)) < Cardinality(b)
<1>0. NumRows \in Nat  BY Bounds
<1>1. IsFiniteSet(1..NumRows)  BY <1>0, FS_Interval
<1>2. IsFiniteSet(b)  BY <1>1, FS_Subset DEF Rows
<1> DEFINE B == b \cap 1..(n-1)
<1>3. /\ IsFiniteSet(B) /\ Cardinality(B) <= Cardinality(b) /\ IsFiniteSet(b \cap 1..n)
      /\ Cardinality(b \cap 1..n) <= Cardinality(b)
  BY <1>2, FS_Subset
<1>4. Cardinality(B) \in Nat /\ Cardinality(b) \in Nat  BY <1>2, <1>3, FS_CardinalityType
<1>5. n \notin B  OBVIOUS
<1>6. Cardinality(B \cup {n}) = Cardinality(B) + 1  BY <1>3, <1>5, FS_AddElement
<1>7. n \in b => b \cap 1..n = B \cup {n}  BY <1>0
<1>8. n \notin b => b \cap 1..n = B  BY <1>0
<1>9. n \in b => Cardinality(b \cap 1..n) = Cardinality(B) + 1  BY <1>6, <1>7
<1>10. n \in b => Cardinality(B) < Cardinality(b)  BY <1>3, <1>4, <1>9
<1> QED  BY <1>2, <1>3, <1>4, <1>8, <1>9, <1>10

LEMMA AttemptStep == ASSUME TInv, RInv, Trackers, [Next]_vars PROVE RInv'
<1>c. kind' = kind /\ bad' = bad  BY JobConstant
<1>n. NumRows \in Nat  BY Bounds
<1>1. ASSUME UNCHANGED vars PROVE RInv'
  <2>1. UNCHANGED <<pc, elem, go, next, recs, errs, emitted>>  BY <1>1 DEF vars, chanVars
  <2>2. Attempt'  BY <1>c, <2>1 DEF RInv, Attempt, SoFar, Bad
  <2>3. Counted'  BY <1>c, <2>1 DEF RInv, Counted, SentFor, Bad
  <2> QED  BY <2>2, <2>3 DEF RInv
<1>2. ASSUME NEW d \in DoFns, Goroutine(d) \/ Consumer(d) \/ Runner(d) PROVE RInv'
  <2> DEFINE Now  == SoFar(Bad(d)', pc'[d], go'[d], next'[d], recs'[d], errs'[d], emitted'[d])
             Sent == SentFor(Bad(d)', go'[d], next'[d], errs'[d])
  <2>o. Others(d)  BY <1>2, OthersStep
  <2>i. /\ SoFar(Bad(d), pc[d], go[d], next[d], recs[d], errs[d], emitted[d])
        /\ SentFor(Bad(d), go[d], next[d], errs[d])
    BY DEF RInv, Attempt, Counted
  <2>t. /\ pc \in [DoFns -> {"down", "idle", "started", "claimed", "records", "errors"}]
        /\ elem \in [DoFns -> Slices]
    BY DEF TInv, PlaceT
  <2>u. /\ go \in [DoFns -> Labels] /\ DOMAIN next = DoFns /\ next[d] \in 1..(NumRows + 1)
        /\ DOMAIN recs = DoFns /\ DOMAIN emitted = DoFns
        /\ DOMAIN errs = DoFns /\ errs[d] \in Nat
    BY Bounds DEF TInv, ChanT
  <2>b. Bad(d) \in SUBSET Rows  BY <2>t DEF TInv, JobT, Bad
  <2>q. Now /\ Sent => RInv'  BY <1>c, <2>o, OneAttempt
  <2>1. ASSUME Forget(d), pc'[d] \notin Reads PROVE RInv'
    <3>1. go'[d] = "off" /\ next'[d] = 1 /\ recs'[d] = {} /\ errs'[d] = 0 /\ emitted'[d] = {}
      BY <2>1, <2>u DEF Forget
    <3> QED  BY <2>1, <2>q, <3>1 DEF SoFar, SentFor, Reads, Looping, Shut
  <2>2. ASSUME UNCHANGED <<go, next, recs, errs, emitted>>, pc[d] \notin Reads, pc'[d] \notin Reads
        PROVE  RInv'
    BY <2>2, <2>i, <2>q DEF SoFar, SentFor, Reads, Looping
  <2>3. ASSUME NextRow(d) \/ IterationFails(d) \/ CloseErrs(d) \/ CloseRecs(d) PROVE RInv'
    <3>1. /\ UNCHANGED <<pc, next, recs, errs, emitted>> /\ Bad(d)' = Bad(d)
      BY <1>c, <2>3 DEF NextRow, IterationFails, CloseErrs, CloseRecs, Streams, Bad
    <3>2. \/ /\ go[d] = "row" /\ go'[d] \in {"closing", "error", "record", "last error"}
             /\ go'[d] = "closing" => next[d] > NumRows
             /\ go'[d] = "error" => next[d] \in Bad(d)
             /\ go'[d] = "record" => next[d] \notin Bad(d)
          \/ go[d] = "closing" /\ go'[d] = "errs closed"
          \/ go[d] = "errs closed" /\ go'[d] = "closed"
      BY <2>3, <2>u DEF NextRow, IterationFails, CloseErrs, CloseRecs, GoTo
    <3>p. pc[d] = "records"  BY <2>i, <3>2 DEF SoFar, Reads
    <3>m. go'[d] = "closing" => next[d] = NumRows + 1  BY <1>n, <2>u, <3>2
    <3>3. Now
      <4>1. /\ emitted[d] \cup recs[d] = (1..(next[d] - 1)) \ Bad(d)
            /\ errs[d] = 0 => (1..(next[d] - 1)) \cap Bad(d) = {}
            /\ go[d] \in Shut /\ errs[d] = 0 => next[d] = NumRows + 1
        BY <2>i, <3>p DEF SoFar, Reads
      <4>2. go'[d] \in Shut /\ errs[d] = 0 => next[d] = NumRows + 1
        BY <3>2, <3>m, <4>1 DEF Shut
      <4>3. /\ go'[d] = "error" => next[d] \in Bad(d)
            /\ go'[d] = "record" => next[d] \notin Bad(d)
        BY <3>2
      <4> QED  BY <3>1, <3>p, <4>1, <4>2, <4>3 DEF SoFar, Reads
    <3>4. Sent  BY <2>i, <3>1, <3>2 DEF SentFor, Looping
    <3> QED  BY <2>q, <3>3, <3>4
  <2>4. ASSUME SendRecord(d) PROVE RInv'
    <3>1. /\ go[d] = "record" /\ UNCHANGED <<pc, errs, emitted>> /\ Bad(d)' = Bad(d)
      BY <1>c, <2>4 DEF SendRecord, Streams, Bad
    <3>2. next[d] \in 1..NumRows /\ next[d] \notin Bad(d) /\ pc[d] \in Reads
      BY <1>n, <2>i, <2>u, <3>1 DEF TInv, AtRow, SoFar, Reads
    <3>3. CASE go'[d] = "last error" /\ next' = next /\ recs' = recs
      <4>1. Now  BY <2>i, <3>1, <3>2, <3>3 DEF SoFar, Reads, Shut
      <4>2. Sent  BY <2>i, <3>1, <3>3 DEF SentFor, Looping
      <4> QED  BY <2>q, <4>1, <4>2
    <3>4. CASE go'[d] = "row" /\ next'[d] = next[d] + 1 /\ recs'[d] = recs[d] \cup {next[d]}
      <4>1. 1..(next[d] + 1 - 1) = (1..(next[d] - 1)) \cup {next[d]}  BY <1>n, <3>2
      <4>2. Now  BY <2>i, <3>1, <3>2, <3>4, <4>1 DEF SoFar, Reads, Shut
      <4>3. next'[d] - 1 = next[d]  BY <1>n, <3>2, <3>4
      <4>4. Sent
        <5>1. Bad(d) \cap 1..next[d] = Bad(d) \cap 1..(next[d] - 1)  BY <2>b, <3>2, OneMoreBad
        <5>2. errs[d] = IF kind = "sql" THEN Cardinality(Bad(d) \cap 1..(next[d] - 1)) ELSE 0
          BY <2>i, <3>1 DEF SentFor, Looping
        <5>3. Bad(d)' \cap 1..(next'[d] - 1) = Bad(d) \cap 1..(next[d] - 1)
          BY <3>1, <4>3, <5>1
        <5>4. errs'[d] = IF kind = "sql" THEN Cardinality(Bad(d)' \cap 1..(next'[d] - 1)) ELSE 0
          BY <3>1, <5>2, <5>3
        <5> QED  BY <5>4 DEF SentFor
      <4> QED  BY <2>q, <4>2, <4>4
    <3> QED  BY <2>4, <2>u, <3>3, <3>4 DEF SendRecord, GoTo
  <2>5. ASSUME SendError(d) PROVE RInv'
    <3>1. /\ UNCHANGED <<pc, recs, emitted>> /\ Bad(d)' = Bad(d) /\ errs'[d] = errs[d] + 1
          /\ go[d] \in {"error", "last error"}
      BY <1>c, <2>5, <2>u DEF SendError, Streams, Bad
    <3>p. pc[d] = "records"  BY <2>i, <3>1 DEF SoFar, Reads
    <3>e. errs[d] + 1 # 0  BY <2>u
    <3>2. pc[d] \in Reads /\ errs[d] + 1 # 0 /\ pc[d] # "errors"  BY <3>p, <3>e DEF Reads
    <3>3. CASE go[d] = "error" /\ kind = "sql"
      <4>1. next'[d] = next[d] + 1 /\ go'[d] = "row"  BY <2>5, <2>u, <3>3 DEF SendError, GoTo
      <4>2. next[d] \in 1..NumRows /\ next[d] \in Bad(d)
        BY <1>n, <2>i, <2>u, <3>2, <3>3 DEF TInv, AtRow, SoFar
      <4>5. next'[d] - 1 = next[d]  BY <1>n, <4>1, <4>2
      <4>3. (1..next[d]) \ Bad(d) = (1..(next[d] - 1)) \ Bad(d)  BY <1>n, <4>2
      <4>4. Now
        <5>1. emitted[d] \cup recs[d] = (1..(next[d] - 1)) \ Bad(d)  BY <2>i, <3>2 DEF SoFar
        <5>2. emitted'[d] \cup recs'[d] = (1..(next'[d] - 1)) \ Bad(d)'
          BY <3>1, <4>3, <4>5, <5>1
        <5> QED  BY <3>1, <3>2, <4>1, <5>2 DEF SoFar, Shut
      <4>6. Sent
        <5>1. errs[d] = Cardinality(Bad(d) \cap 1..(next[d] - 1))  BY <2>i, <3>3 DEF SentFor, Looping
        <5>2. errs'[d] = Cardinality(Bad(d) \cap 1..next[d])
          <6>1. Cardinality(Bad(d) \cap 1..next[d]) = Cardinality(Bad(d) \cap 1..(next[d] - 1)) + 1
            BY <2>b, <4>2, OneMoreBad
          <6> QED  BY <3>1, <5>1, <6>1
        <5>3. Bad(d)' \cap 1..(next'[d] - 1) = Bad(d) \cap 1..next[d]  BY <3>1, <4>5
        <5> QED  BY <3>3, <5>2, <5>3 DEF SentFor
      <4> QED  BY <2>q, <4>4, <4>6
    <3>4. CASE ~(go[d] = "error" /\ kind = "sql")
      <4>1. next' = next /\ go'[d] = "closing"  BY <2>5, <2>u, <3>4 DEF SendError, GoTo
      <4>2. Now  BY <2>i, <3>1, <3>2, <4>1 DEF SoFar, Reads, Shut
      <4>3. Sent  BY <4>1 DEF SentFor, Looping
      <4> QED  BY <2>q, <4>2, <4>3
    <3> QED  BY <3>3, <3>4
  <2>6. ASSUME ReadPartition(d) PROVE RInv'
    <3>1. /\ pc[d] = "claimed" /\ pc'[d] = "records" /\ go'[d] = "row"
          /\ UNCHANGED <<next, recs, errs, emitted>> /\ Bad(d)' = Bad(d)
      BY <1>c, <2>6, <2>t, <2>u DEF ReadPartition, Goto, GoTo, Bad
    <3>2. next[d] = 1 /\ recs[d] = {} /\ errs[d] = 0 /\ emitted[d] = {}
      BY <2>i, <3>1 DEF SoFar, Reads
    <3>3. 1..(1 - 1) = {} /\ Bad(d) \cap {} = {} /\ Cardinality({}) = 0  BY FS_EmptySet
    <3>4. Now  BY <3>1, <3>2, <3>3 DEF SoFar, Reads, Shut
    <3>5. Sent  BY <3>1, <3>2, <3>3 DEF SentFor, Looping
    <3> QED  BY <2>q, <3>4, <3>5
  <2>7. ASSUME DrainRecords(d) PROVE RInv'
    <3>1. /\ pc[d] = "records" /\ UNCHANGED <<go, next, errs>> /\ Bad(d)' = Bad(d)
      BY <1>c, <2>7 DEF DrainRecords, Bad
    <3>2. Sent  BY <2>i, <3>1 DEF SentFor
    <3>3. CASE /\ recs[d] = {} /\ go[d] = "closed" /\ pc'[d] = "errors"
               /\ UNCHANGED <<emitted, recs>>
      <4>1. Now  BY <2>i, <3>1, <3>3 DEF SoFar, Reads, Shut
      <4> QED  BY <2>q, <3>2, <4>1
    <3>4. CASE \E x \in recs[d] : /\ emitted'[d] = emitted[d] \cup {x}
                                  /\ recs'[d] = recs[d] \ {x} /\ pc' = pc
      <4>1. emitted'[d] \cup recs'[d] = emitted[d] \cup recs[d]  BY <3>4
      <4>2. Now  BY <2>i, <3>1, <3>4, <4>1 DEF SoFar, Reads, Shut
      <4> QED  BY <2>q, <3>2, <4>2
    <3> QED  BY <2>7, <2>t, <2>u, <3>3, <3>4 DEF DrainRecords, Goto
  <2>8. ASSUME Claim(d) \/ Runner(d) PROVE RInv'
    <3>1. UNCHANGED <<go, next, recs, errs, emitted>>
      BY <2>8 DEF Claim, Runner, Setup, PingFails, Teardown, Start, chanVars
    <3>2. pc[d] \notin Reads /\ pc'[d] \notin Reads
      BY <2>8, <2>t DEF Claim, Runner, Setup, PingFails, Teardown, Start, Goto, Reads
    <3> QED  BY <2>2, <3>1, <3>2
  <2>9. ASSUME ReadFails(d) \/ ReturnErr(d) \/ ReturnNil(d) PROVE RInv'
    <3>1. Forget(d) /\ pc'[d] = "idle"
      BY <2>9, <2>t DEF ReadFails, ReturnErr, ReturnNil, FailAttempt, Goto
    <3> QED  BY <2>1, <3>1 DEF Reads
  <2> QED  BY <1>2, <2>3, <2>4, <2>5, <2>6, <2>7, <2>8, <2>9 DEF Goroutine, Consumer
<1> QED  BY <1>1, <1>2 DEF Next

(* An attempt that returns nil has emitted the whole of a slice without bad rows. *)
LEMMA WholeStep == ASSUME TInv, RInv, WholeSlices, [Next]_vars PROVE WholeSlices'
<1>c. bad' = bad  BY JobConstant
<1>n. NumRows \in Nat  BY Bounds
<1>1. ASSUME NEW d \in DoFns, ReturnNil(d) PROVE WholeSlices'
  <2>t. /\ done \in [Slices -> SUBSET Rows] /\ elem[d] \in Slices /\ bad[elem[d]] \subseteq Rows
    BY DEF TInv, DoneT, PlaceT, JobT
  <2>1. /\ pc[d] = "errors" /\ errs[d] = 0 /\ go[d] = "closed"
        /\ done' = [done EXCEPT ![elem[d]] = @ \cup emitted[d]]
    BY <1>1 DEF ReturnNil
  <2>2. /\ next[d] = NumRows + 1 /\ recs[d] = {}
        /\ emitted[d] \cup recs[d] = (1..(next[d] - 1)) \ bad[elem[d]]
        /\ (1..(next[d] - 1)) \cap bad[elem[d]] = {}
    BY <2>1 DEF RInv, Attempt, SoFar, Reads, Shut, Bad
  <2>3. next[d] - 1 = NumRows  BY <1>n, <2>2
  <2>4. emitted[d] = Rows /\ bad[elem[d]] = {}  BY <2>t, <2>2, <2>3 DEF Rows
  <2>5. done[elem[d]] \cup Rows = Rows  BY <2>t
  <2> QED  BY <1>c, <2>t, <2>1, <2>4, <2>5 DEF WholeSlices
<1>2. ASSUME NEW d \in DoFns, Goroutine(d) \/ Runner(d) \/ Claim(d) \/ FailAttempt(d)
                               \/ ReadPartition(d) \/ DrainRecords(d)
      PROVE  done' = done
  BY <1>2 DEF Goroutine, Runner, Setup, PingFails, Teardown, Start, Claim, FailAttempt, ReadPartition,
              DrainRecords, NextRow, IterationFails, SendRecord, SendError, CloseErrs, CloseRecs,
              Streams, workVars
<1>3. UNCHANGED vars => done' = done  BY DEF vars, workVars
<1>4. done' = done => WholeSlices'  BY <1>c DEF WholeSlices
<1> QED  BY <1>1, <1>2, <1>3, <1>4 DEF Next, Consumer, ReadFails, ReturnErr

-----------------------------------------------------------------------------
Inv == TInv /\ PInv /\ Trackers /\ OnePlace /\ RInv /\ WholeSlices

LEMMA InitInv == Init => Inv
<1> SUFFICES ASSUME Init PROVE Inv  OBVIOUS
<1>1. TInv  BY InitTypes
<1>2. PInv
  <2>1. {db[d] : d \in DoFns} \ {NoPool} = {}  BY DEF Init
  <2> QED  BY <2>1 DEF Init, PInv, PoolsConsistent, OwnClients, NoPool
<1>3. Trackers
  <2>1. tracker = [d \in DoFns |-> Fresh]  BY ClaimFresh DEF Init
  <2>2. tracker \in [DoFns -> {Fresh, Spent}]  BY <2>1
  <2> QED  BY <2>1, <2>2 DEF Init, Trackers
<1>4. OnePlace /\ WholeSlices
  <2>1. \A s \in Slices : Busy(s) = {} /\ done[s] = {}  BY DEF Init, Busy
  <2> QED  BY <2>1 DEF OnePlace, WholeSlices
<1>5. RInv
  <2>1. Attempt  BY DEF Init, Attempt, SoFar, Reads
  <2>2. Counted  BY DEF Init, Counted, SentFor, Looping
  <2> QED  BY <2>1, <2>2 DEF RInv
<1> QED  BY <1>1, <1>2, <1>3, <1>4, <1>5 DEF Inv

LEMMA InvStep == ASSUME Inv, [Next]_vars PROVE Inv'
<1>1. PlaceT /\ DoneT  BY DEF Inv, TInv
<1> QED
  BY <1>1, TypesStep, PoolsStep, TrackersStep, PlacesStep, AttemptStep, WholeStep DEF Inv

(* The invariant of every behaviour. *)
LEMMA Invariance == Spec => []Inv
<1>1. Init => Inv  BY InitInv
<1>2. Inv /\ [Next]_vars => Inv'  BY InvStep
<1> QED  BY <1>1, <1>2, PTL DEF Spec

LEMMA StallCause == ASSUME TInv, RInv PROVE StallsOnlyOnOverflow
<1> SUFFICES ASSUME NEW d \in DoFns, Stalled(d)
             PROVE  /\ kind = "sql" /\ Cardinality(Bad(d)) >= ErrCap
                    /\ go[d] = "error" => Cardinality(Bad(d)) > ErrCap
  BY DEF StallsOnlyOnOverflow
<1>t. /\ Bad(d) \in SUBSET Rows /\ next[d] \in 1..(NumRows + 1) /\ NumRows \in Nat
  BY Bounds DEF TInv, JobT, PlaceT, ChanT, Bad
<1>1. /\ pc[d] = "records" /\ go[d] \in Looping /\ errs[d] = ErrCap
  BY DEF Stalled, Looping
<1>2. errs[d] = IF kind = "sql" THEN Cardinality(Bad(d) \cap 1..(next[d] - 1)) ELSE 0
  BY <1>1 DEF RInv, Counted, SentFor
<1>3. kind = "sql"
  <2>1. ErrCap # 0  BY Bounds
  <2> QED  BY <1>1, <1>2, <2>1
<1> DEFINE B == Bad(d) \cap 1..(next[d] - 1)
<1>4. Cardinality(B) = ErrCap  BY <1>1, <1>2, <1>3
<1>5. IsFiniteSet(Bad(d))  BY <1>t, FS_Interval, FS_Subset DEF Rows
<1>6. Cardinality(B) <= Cardinality(Bad(d))  BY <1>5, FS_Subset
<1>7. Cardinality(Bad(d)) \in Nat /\ ErrCap \in Nat  BY <1>5, FS_CardinalityType, Bounds
<1>8. ASSUME go[d] = "error" PROVE Cardinality(B) < Cardinality(Bad(d))
  <2>1. next[d] <= NumRows  BY <1>8 DEF TInv, AtRow
  <2>2. next[d] \in 1..NumRows  BY <1>t, <2>1
  <2>3. next[d] \in Bad(d)  BY <1>1, <1>8 DEF RInv, Attempt, SoFar, Reads
  <2> QED  BY <1>t, <2>2, <2>3, OneMoreBad
<1> HIDE DEF B
<1>9. Cardinality(Bad(d)) >= ErrCap  BY <1>4, <1>6, <1>7
<1>10. go[d] = "error" => Cardinality(Bad(d)) > ErrCap  BY <1>4, <1>7, <1>8
<1> QED  BY <1>3, <1>9, <1>10

(* Type correctness of the partition source, with the fact that a          *)
(* goroutine about to send stands at a row of its slice.                   *)
THEOREM Types == Spec => []TypeOK
<1>1. Inv => TypeOK  BY TypesOf DEF Inv
<1> QED  BY <1>1, Invariance, PTL

(* ProcessElement returns nil only for a slice read to its last row, all   *)
(* of whose rows could be read: whatever the capacities of recChan and     *)
(* errChan and however often the runner retries.                           *)
THEOREM Whole == Spec => []WholeSlices
<1>1. Inv => WholeSlices  BY DEF Inv
<1> QED  BY <1>1, Invariance, PTL

(* A slice is waiting, with one instance, or over, and no request for a    *)
(* split of the range [0, 1) succeeds, for any number of instances.        *)
THEOREM Reader == Spec => []OneReader
<1>1. Inv => OneReader
  <2> SUFFICES ASSUME Inv PROVE OneReader  OBVIOUS
  <2>1. \A d \in DoFns : tracker[d] \in {Fresh, Spent}  BY DEF Inv, Trackers
  <2>2. \A d \in DoFns : \A k \in 0..Remaining(tracker[d]) : ~Splittable(tracker[d], k)
    BY <2>1, NoSplit
  <2> QED  BY <2>2 DEF Inv, OnePlace, OneReader
<1> QED  BY <1>1, Invariance, PTL

(* GetOrCreateDB never hands out a closed pool, and the only pools that    *)
(* stay open out of reach of every Teardown are the MongoDB clients whose  *)
(* Ping failed.                                                            *)
THEOREM PoolCache == Spec => []PoolsConsistent
<1>1. Inv => PoolsConsistent  BY DEF Inv, PInv
<1> QED  BY <1>1, Invariance, PTL

(* Reader and source block each other only when more SQL rows fail than    *)
(* errChan holds.                                                          *)
THEOREM Stalls == Spec => []StallsOnlyOnOverflow
<1>1. Inv => StallsOnlyOnOverflow  BY StallCause DEF Inv
<1> QED  BY <1>1, Invariance, PTL
=============================================================================
