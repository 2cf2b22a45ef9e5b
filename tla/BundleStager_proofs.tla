------------------------- MODULE BundleStager_proofs -------------------------
(***************************************************************************)
(* Proofs, for any bundles, loads and number of attempts, on either        *)
(* storage and under every failure and crash, of what the file sinks       *)
(* promise: no partial file, no acknowledged record lost, no temporary     *)
(* file forgotten.                                                         *)
(***************************************************************************)
EXTENDS BundleStager, TLAPS

(* The first n records of bundle b. *)
FirstRecords(b, n) == {b} \X (1..n)

(* Attempts not yet begun have left no trace. *)
FutureClean(b) ==
  /\ \A a \in Attempts : a > attempt[b] =>
       tempState[<<b, a>>] = "absent" /\ tempRecs[<<b, a>>] = {}
  /\ pc[b] = "queued" => tempState[Id(b)] = "absent" /\ tempRecs[Id(b)] = {}

(* The temporary file of a running bundle holds the records counted. *)
ActiveCounted(b) ==
  pc[b] = "active" =>
    /\ tempRecs[Id(b)] = FirstRecords(b, count[b])
    /\ count[b] <= load[b]
    /\ writer[b] = (count[b] > 0)
    /\ ~writer[b] => tempState[Id(b)] = "absent"

(* What is about to be committed is closed and complete. *)
ClosedComplete(b) ==
  pc[b] = "closed" =>
    /\ tempState[Id(b)] = "closed" /\ tempRecs[Id(b)] = Complete(b)
    /\ load[b] > 0

(* From the commit on, the bundle's own file is published. *)
CommittedPublished(b) ==
  pc[b] \in {"copied", "committed", "done"} /\ load[b] > 0 /\ ~SharedURI =>
    finalState[Id(b)] # "absent" /\ finalRecs[Id(b)] = Complete(b)

Sound(b) ==
  FutureClean(b) /\ ActiveCounted(b) /\ ClosedComplete(b) /\ CommittedPublished(b)

IInv ==
  /\ TypeOK /\ NoPartialFile /\ NoOrphanTemp
  /\ \A b \in Bundles : Sound(b)

(* A record more; no records at all. *)
LEMMA RecordSets ==
  ASSUME NEW b, NEW n \in Nat
  PROVE  /\ FirstRecords(b, n) \cup {<<b, n + 1>>} = FirstRecords(b, n + 1)
         /\ FirstRecords(b, 0) = {}
<1>1. 1..(n + 1) = (1..n) \cup {n + 1}  BY SMT
<1>2. 1..0 = {}  BY SMT
<1> QED  BY <1>1, <1>2 DEF FirstRecords

(* The names of temporary and final files. *)
LEMMA Names ==
  ASSUME TypeOK, NEW b \in Bundles
  PROVE  Id(b) \in Ids /\ Id(b) \in Uris /\ BuildOutputURI(b) \in Uris
  BY DEF TypeOK, Id, Ids, Uris, BuildOutputURI

(* A storage operation of bundle b keeps the types. *)
LEMMA TypeInv == ASSUME TypeOK, NEW b \in Bundles, Step(b) PROVE TypeOK'
<1> USE StagerAssumption, Names DEF TypeOK
<1>0. attempt[b] \in Attempts /\ Id(b) = <<b, attempt[b]>>  BY DEF Id
<1>1. CASE StartBundle(b)
  BY <1>1 DEF StartBundle, Goto, config, temps, finals
<1>2. CASE ProcessElement(b)
  <2>0. count[b] \in Nat /\ load[b] \in 0..MaxRecords /\ count[b] < load[b]
    BY <1>2 DEF ProcessElement
  <2>1. <<b, count[b] + 1>> \in Records /\ count[b] + 1 \in 0..MaxRecords
    BY <2>0 DEF Records
  <2>2. CASE CreateFails(b)
    BY <1>2, <2>2 DEF ProcessElement, CreateFails, Goto, config, temps, finals, stager
  <2>3. CASE FormatterMissing(b)
    BY <1>2, <2>3 DEF ProcessElement, FormatterMissing, Goto, config, finals, Created
  <2>4. CASE WriteFails(b)
    BY <1>2, <2>4 DEF ProcessElement, WriteFails, Abort, AbortTemp, Goto, config, finals
  <2>5. CASE Written(b)
    BY <1>2, <2>1, <2>5 DEF ProcessElement, Written, Goto, config, finals, Created
  <2> QED  BY <1>2, <2>2, <2>3, <2>4, <2>5 DEF ProcessElement
<1>3. CASE FinishBundle(b)
  <2>1. CASE FinishEmpty(b)
    BY <1>3, <2>1 DEF FinishBundle, FinishEmpty, Goto, config, temps, finals
  <2>2. CASE CloseFails(b)
    BY <1>3, <2>2 DEF FinishBundle, CloseFails, Abort, AbortTemp, Goto, config, finals
  <2>3. CASE CloseWriter(b)
    BY <1>3, <2>3 DEF FinishBundle, CloseWriter, Goto, config, finals
  <2> QED  BY <1>3, <2>1, <2>2, <2>3 DEF FinishBundle
<1>4. CASE CommitTemp(b)
  <2>1. CASE Rename(b)
    BY <1>4, <2>1 DEF CommitTemp, Rename, Publish, DropTemp, Goto, config, stager
  <2>2. CASE Copy(b)
    BY <1>4, <2>2 DEF CommitTemp, Copy, Publish, Goto, config, temps, stager
  <2>3. CASE CommitFails(b)
    BY <1>4, <2>3 DEF CommitTemp, CommitFails, AbortTemp, Goto, config, finals, stager
  <2> QED  BY <1>4, <2>1, <2>2, <2>3 DEF CommitTemp
<1>5. CASE DeleteCopied(b)
  BY <1>5 DEF DeleteCopied, DropTemp, AbortTemp, Goto, config, finals, stager
<1>6. CASE Ack(b)
  BY <1>6 DEF Ack, Goto, config, temps, finals, stager
<1>7. CASE Crash(b)
  BY <1>7 DEF Crash, Goto, config, temps, finals, stager
<1>8. CASE Retry(b)
  BY <1>8 DEF Retry, Goto, Attempts, config, temps, finals, stager
<1> QED  BY <1>1, <1>2, <1>3, <1>4, <1>5, <1>6, <1>7, <1>8 DEF Step

(* What a step of one bundle cannot touch. *)
Framed(b) ==
  /\ load' = load /\ formatter' = formatter
  /\ \A c \in Bundles \ {b} :
       /\ pc'[c] = pc[c] /\ attempt'[c] = attempt[c]
       /\ writer'[c] = writer[c] /\ count'[c] = count[c]
       /\ \A a \in Attempts : /\ tempState'[<<c, a>>] = tempState[<<c, a>>]
                              /\ tempRecs'[<<c, a>>] = tempRecs[<<c, a>>]
       /\ ~SharedURI => \A a \in Attempts : /\ finalState'[<<c, a>>] = finalState[<<c, a>>]
                                            /\ finalRecs'[<<c, a>>] = finalRecs[<<c, a>>]
  /\ \A a \in Attempts : a # attempt[b] =>
       tempState'[<<b, a>>] = tempState[<<b, a>>] /\ tempRecs'[<<b, a>>] = tempRecs[<<b, a>>]
  /\ excused \subseteq excused'

(* A step of one bundle stays within that bundle and its attempt. *)
LEMMA Frame == ASSUME TypeOK, NEW b \in Bundles, Step(b) PROVE Framed(b)
<1> USE Names DEF TypeOK, Framed, Ids, Uris
<1>0. attempt[b] \in Attempts /\ Id(b) = <<b, attempt[b]>>  BY DEF Id
<1>1. CASE StartBundle(b)
  BY <1>1 DEF StartBundle, Goto, config, temps, finals
<1>2. CASE ProcessElement(b)
  <2>2. CASE CreateFails(b)
    BY <1>2, <2>2 DEF ProcessElement, CreateFails, Goto, config, temps, finals, stager
  <2>3. CASE FormatterMissing(b)
    BY <1>0, <1>2, <2>3 DEF ProcessElement, FormatterMissing, Goto, config, finals
  <2>4. CASE WriteFails(b)
    BY <1>0, <1>2, <2>4 DEF ProcessElement, WriteFails, Abort, AbortTemp, Goto, config, finals
  <2>5. CASE Written(b)
    BY <1>0, <1>2, <2>5 DEF ProcessElement, Written, Goto, config, finals
  <2> QED  BY <1>2, <2>2, <2>3, <2>4, <2>5 DEF ProcessElement
<1>3. CASE FinishBundle(b)
  <2>1. CASE FinishEmpty(b)
    BY <1>3, <2>1 DEF FinishBundle, FinishEmpty, Goto, config, temps, finals
  <2>2. CASE CloseFails(b)
    BY <1>0, <1>3, <2>2 DEF FinishBundle, CloseFails, Abort, AbortTemp, Goto, config, finals
  <2>3. CASE CloseWriter(b)
    BY <1>0, <1>3, <2>3 DEF FinishBundle, CloseWriter, Goto, config, finals
  <2> QED  BY <1>3, <2>1, <2>2, <2>3 DEF FinishBundle
<1>4. CASE CommitTemp(b)
  <2>1. CASE Rename(b)
    BY <1>0, <1>4, <2>1 DEF CommitTemp, Rename, Publish, DropTemp, BuildOutputURI, Goto, config, stager
  <2>2. CASE Copy(b)
    BY <1>0, <1>4, <2>2 DEF CommitTemp, Copy, Publish, BuildOutputURI, Goto, config, temps, stager
  <2>3. CASE CommitFails(b)
    BY <1>0, <1>4, <2>3 DEF CommitTemp, CommitFails, AbortTemp, Goto, config, finals, stager
  <2> QED  BY <1>4, <2>1, <2>2, <2>3 DEF CommitTemp
<1>5. CASE DeleteCopied(b)
  BY <1>0, <1>5 DEF DeleteCopied, DropTemp, AbortTemp, Goto, config, finals, stager
<1>6. CASE Ack(b)
  BY <1>6 DEF Ack, Goto, config, temps, finals, stager
<1>7. CASE Crash(b)
  BY <1>7 DEF Crash, Goto, config, temps, finals, stager
<1>8. CASE Retry(b)
  BY <1>8 DEF Retry, Goto, config, temps, finals, stager
<1> QED  BY <1>1, <1>2, <1>3, <1>4, <1>5, <1>6, <1>7, <1>8 DEF Step

(* So the other bundles keep what the invariant says of them. *)
LEMMA OthersSound ==
  ASSUME TypeOK, NEW b \in Bundles, Framed(b), NEW c \in Bundles \ {b}, Sound(c)
  PROVE  Sound(c)'
<1>1. attempt[c] \in Attempts /\ Id(c) = <<c, attempt[c]>> /\ Id(c)' = <<c, attempt'[c]>>
  BY DEF TypeOK, Id
<1>2. /\ pc'[c] = pc[c] /\ attempt'[c] = attempt[c] /\ Id(c)' = Id(c) /\ load' = load
      /\ writer'[c] = writer[c] /\ count'[c] = count[c]
      /\ tempState'[Id(c)] = tempState[Id(c)] /\ tempRecs'[Id(c)] = tempRecs[Id(c)]
      /\ ~SharedURI => finalState'[Id(c)] = finalState[Id(c)]
      /\ ~SharedURI => finalRecs'[Id(c)] = finalRecs[Id(c)]
  BY <1>1 DEF Framed
<1>3. FutureClean(c)'  BY <1>2 DEF Sound, FutureClean, Framed
<1>4. ActiveCounted(c)'  BY <1>2 DEF Sound, ActiveCounted
<1>5. ClosedComplete(c)'  BY <1>2 DEF Sound, ClosedComplete, Complete
<1>6. CommittedPublished(c)'  BY <1>2 DEF Sound, CommittedPublished, Complete
<1> QED  BY <1>3, <1>4, <1>5, <1>6 DEF Sound

(* The bundle that takes the step keeps its part of the invariant. *)
LEMMA OwnSound ==
  ASSUME TypeOK, NEW b \in Bundles, Sound(b), Step(b)
  PROVE  Sound(b)'
<1> DEFINE Later == \A a \in Attempts : a > attempt[b] =>
              tempState[<<b, a>>] = "absent" /\ tempRecs[<<b, a>>] = {}
<1>0. /\ attempt[b] \in Attempts /\ Id(b) \in Ids /\ Id(b) \in Uris
      /\ Id(b) = <<b, attempt[b]>> /\ Id(b)' = <<b, attempt'[b]>>
  BY Names DEF TypeOK, Id
<1>1. Framed(b)  BY Frame
<1>2. attempt'[b] = attempt[b] => Id(b)' = Id(b) /\ Later'
  BY <1>0, <1>1 DEF Framed, Sound, FutureClean, Attempts
<1>3. ASSUME attempt'[b] = attempt[b], pc'[b] = "failed" PROVE Sound(b)'
  BY <1>2, <1>3 DEF Sound, FutureClean, ActiveCounted, ClosedComplete, CommittedPublished
<1>4. CASE StartBundle(b)
  <2>1. /\ attempt' = attempt /\ tempState' = tempState /\ tempRecs' = tempRecs
        /\ pc[b] = "queued" /\ pc'[b] = "active" /\ ~writer'[b] /\ count'[b] = 0
        /\ writer'[b] \in BOOLEAN /\ load' = load /\ load[b] >= 0
    BY <1>4 DEF StartBundle, Goto, config, temps, TypeOK
  <2>2. tempState[Id(b)] = "absent" /\ tempRecs[Id(b)] = {}
    BY <2>1 DEF Sound, FutureClean
  <2>3. FirstRecords(b, 0) = {}  BY RecordSets
  <2>4. ActiveCounted(b)'  BY <1>2, <2>1, <2>2, <2>3 DEF ActiveCounted
  <2> QED
    BY <1>2, <2>1, <2>4 DEF Sound, FutureClean, ClosedComplete, CommittedPublished
<1>5. CASE ProcessElement(b)
  <2>1. CASE ~Written(b)
    <3>1. pc'[b] = "failed" /\ attempt' = attempt
      BY <1>5, <2>1 DEF ProcessElement, CreateFails, FormatterMissing, WriteFails, Goto, TypeOK
    <3> QED  BY <1>3, <3>1
  <2>2. CASE Written(b)
    <3>1. count[b] \in Nat /\ count[b] < load[b] /\ load[b] \in Nat
      BY <1>5 DEF ProcessElement, TypeOK
    <3>2. FirstRecords(b, count[b]) \cup {<<b, count[b] + 1>>} = FirstRecords(b, count[b] + 1)
      BY <3>1, RecordSets
    <3>3. /\ pc' = pc /\ attempt' = attempt /\ load' = load
          /\ pc[b] = "active" /\ writer'[b] = TRUE /\ count'[b] = count[b] + 1
          /\ tempRecs'[Id(b)] = tempRecs[Id(b)] \cup {<<b, count[b] + 1>>}
      BY <1>0, <1>5, <2>2 DEF ProcessElement, Written, config, TypeOK
    <3>4. tempRecs'[Id(b)'] = FirstRecords(b, count'[b])
      <4>1. tempRecs[Id(b)] = FirstRecords(b, count[b])  BY <3>3 DEF Sound, ActiveCounted
      <4> QED  BY <1>2, <3>2, <3>3, <4>1
    <3>5. count'[b] > 0 /\ count'[b] <= load'[b]  BY <3>1, <3>3
    <3>6. ActiveCounted(b)'
      BY <3>3, <3>4, <3>5 DEF ActiveCounted
    <3> QED
      BY <1>2, <3>3, <3>6 DEF Sound, FutureClean, ClosedComplete, CommittedPublished
  <2> QED  BY <2>1, <2>2
<1>6. CASE FinishBundle(b)
  <2>0. load' = load /\ attempt' = attempt /\ pc[b] = "active" /\ count[b] = load[b]
    BY <1>6 DEF FinishBundle, config
  <2>1. /\ writer[b] = (count[b] > 0) /\ tempRecs[Id(b)] = Complete(b)
        /\ load[b] \in Nat
    BY <2>0 DEF Sound, ActiveCounted, FirstRecords, Complete, TypeOK
  <2>2. CASE FinishEmpty(b)
    <3>1. pc'[b] = "committed" /\ ~(load[b] > 0)
      BY <2>0, <2>1, <2>2 DEF FinishEmpty, Goto, TypeOK
    <3> QED
      BY <1>2, <2>0, <3>1
         DEF Sound, FutureClean, ActiveCounted, ClosedComplete, CommittedPublished
  <2>3. CASE CloseFails(b)
    BY <1>3, <2>0, <2>3 DEF CloseFails, Goto, TypeOK
  <2>4. CASE CloseWriter(b)
    <3>1. /\ pc'[b] = "closed" /\ tempState'[Id(b)] = "closed" /\ tempRecs' = tempRecs
          /\ load[b] > 0
      BY <1>0, <2>0, <2>1, <2>4 DEF CloseWriter, Goto, TypeOK
    <3>2. ClosedComplete(b)'
      BY <1>2, <2>0, <2>1, <3>1 DEF ClosedComplete, Complete
    <3> QED
      BY <1>2, <2>0, <3>1, <3>2 DEF Sound, FutureClean, ActiveCounted, CommittedPublished
  <2> QED  BY <1>6, <2>2, <2>3, <2>4 DEF FinishBundle
<1>7. CASE CommitTemp(b)
  <2>0. load' = load /\ attempt' = attempt /\ pc[b] = "closed"
    BY <1>7 DEF CommitTemp, config
  <2>1. CASE Rename(b) \/ Copy(b)
    <3>1. pc'[b] \in {"committed", "copied"}  BY <2>1 DEF Rename, Copy, Goto, TypeOK
    <3>2. ~SharedURI => /\ finalState'[Id(b)] = tempState[Id(b)]
                        /\ finalRecs'[Id(b)] = tempRecs[Id(b)]
      BY <1>0, <2>1 DEF Rename, Copy, Publish, BuildOutputURI, TypeOK
    <3>3. tempState[Id(b)] = "closed" /\ tempRecs[Id(b)] = Complete(b)
      BY <2>0 DEF Sound, ClosedComplete
    <3>4. CommittedPublished(b)'
      BY <1>2, <2>0, <3>2, <3>3 DEF CommittedPublished, Complete
    <3> QED
      BY <1>2, <2>0, <3>1, <3>4 DEF Sound, FutureClean, ActiveCounted, ClosedComplete
  <2>2. CASE CommitFails(b)
    BY <1>3, <2>0, <2>2 DEF CommitFails, Goto, TypeOK
  <2> QED  BY <1>7, <2>1, <2>2 DEF CommitTemp
<1>8. CASE DeleteCopied(b) \/ Ack(b) \/ Crash(b)
  <2>1. /\ load' = load /\ attempt' = attempt
        /\ finalState' = finalState /\ finalRecs' = finalRecs
        /\ \/ pc'[b] = "failed"
           \/ pc'[b] \in {"committed", "done"} /\ pc[b] \in {"copied", "committed"}
    BY <1>8 DEF DeleteCopied, Ack, Crash, Goto, config, finals, TypeOK
  <2>2. CASE pc'[b] = "failed"  BY <1>3, <2>1, <2>2
  <2>3. CASE pc'[b] \in {"committed", "done"} /\ pc[b] \in {"copied", "committed"}
    <3>1. CommittedPublished(b)'
      BY <1>2, <2>1, <2>3 DEF Sound, CommittedPublished, Complete
    <3> QED
      BY <1>2, <2>1, <2>3, <3>1 DEF Sound, FutureClean, ActiveCounted, ClosedComplete
  <2> QED  BY <2>1, <2>2, <2>3
<1>9. CASE Retry(b)
  <2>1. /\ pc'[b] = "queued" /\ attempt'[b] = attempt[b] + 1 /\ attempt'[b] \in Attempts
        /\ tempState' = tempState /\ tempRecs' = tempRecs
    BY <1>9, StagerAssumption DEF Retry, Goto, Attempts, temps, TypeOK
  <2>2. FutureClean(b)'
    BY <1>0, <2>1 DEF Sound, FutureClean, Attempts
  <2> QED
    BY <2>1, <2>2 DEF Sound, ActiveCounted, ClosedComplete, CommittedPublished
<1> QED  BY <1>4, <1>5, <1>6, <1>7, <1>8, <1>9 DEF Step

(* A step publishes a complete file or nothing. *)
LEMMA PartialInv ==
  ASSUME TypeOK, NoPartialFile, NEW b \in Bundles, Sound(b), Step(b)
  PROVE  NoPartialFile'
<1>0. load' = load  BY Frame DEF Framed
<1>1. CASE CommitTemp(b) /\ (Rename(b) \/ Copy(b))
  <2>1. /\ tempState[Id(b)] = "closed" /\ tempRecs[Id(b)] = Complete(b) /\ load[b] > 0
    BY <1>1 DEF CommitTemp, Sound, ClosedComplete
  <2>2. \A u \in Uris :
          \/ finalState'[u] = finalState[u] /\ finalRecs'[u] = finalRecs[u]
          \/ finalState'[u] = tempState[Id(b)] /\ finalRecs'[u] = tempRecs[Id(b)]
    BY <1>1 DEF Rename, Copy, Publish, TypeOK
  <2> QED  BY <1>0, <2>1, <2>2 DEF NoPartialFile, Complete
<1>2. CASE ~(CommitTemp(b) /\ (Rename(b) \/ Copy(b)))
  <2>1. finalState' = finalState /\ finalRecs' = finalRecs
    BY <1>2 DEF Step, StartBundle, ProcessElement, FinishBundle, CommitTemp, CommitFails,
                DeleteCopied, Ack, Crash, Retry, finals
  <2> QED  BY <1>0, <2>1 DEF NoPartialFile, Complete
<1> QED  BY <1>1, <1>2

(* A step that ends an attempt deletes its temporary file, or the attempt  *)
(* is excused.                                                             *)
LEMMA OrphanInv ==
  ASSUME TypeOK, NoOrphanTemp, NEW b \in Bundles, Sound(b), Step(b)
  PROVE  NoOrphanTemp'
<1>0. Framed(b)  BY Frame
<1>1. attempt[b] \in Attempts /\ Id(b) = <<b, attempt[b]>> /\ Id(b) \in Ids
  BY Names DEF TypeOK, Id
<1> SUFFICES ASSUME NEW c \in Bundles, NEW a \in Attempts, formatter,
                    tempState'[<<c, a>>] # "absent", <<c, a>> \notin excused'
             PROVE  a = attempt'[c] /\ pc'[c] \in {"active", "closed", "copied"}
  BY <1>0 DEF NoOrphanTemp, Framed
<1>2. CASE c # b
  BY <1>0, <1>2 DEF NoOrphanTemp, Framed
<1>3. CASE c = b /\ a # attempt[b]
  BY <1>0, <1>3 DEF NoOrphanTemp, Framed
<1>4. CASE c = b /\ a = attempt[b]
  <2>0. tempState'[Id(b)] # "absent" /\ Id(b) \notin excused' /\ Id(b) \notin excused
    BY <1>0, <1>1, <1>4 DEF Framed
  <2>1. tempState[Id(b)] # "absent" => pc[b] \in {"active", "closed", "copied"}
    BY <1>1, <2>0 DEF NoOrphanTemp
  <2>2. CASE StartBundle(b) \/ Ack(b) \/ Crash(b) \/ Retry(b)
    BY <1>1, <1>4, <2>0, <2>1, <2>2
       DEF StartBundle, Ack, Crash, Retry, Goto, temps, TypeOK
  <2>3. CASE ProcessElement(b)
    <3>1. CASE CreateFails(b)
      BY <2>0, <2>3, <3>1 DEF ProcessElement, CreateFails, Sound, ActiveCounted, temps
    <3>2. CASE WriteFails(b)
      BY <1>1, <2>0, <3>2 DEF WriteFails, Abort, AbortTemp, TypeOK
    <3>3. CASE Written(b)
      BY <1>4, <2>3, <3>3 DEF ProcessElement, Written
    <3> QED  BY <2>3, <3>1, <3>2, <3>3 DEF ProcessElement, FormatterMissing
  <2>4. CASE FinishBundle(b)
    <3>1. CASE FinishEmpty(b)
      BY <2>0, <2>4, <3>1 DEF FinishBundle, FinishEmpty, Sound, ActiveCounted, temps
    <3>2. CASE CloseFails(b)
      BY <1>1, <2>0, <3>2 DEF CloseFails, Abort, AbortTemp, TypeOK
    <3>3. CASE CloseWriter(b)
      BY <1>4, <2>4, <3>3 DEF FinishBundle, CloseWriter, Goto, TypeOK
    <3> QED  BY <2>4, <3>1, <3>2, <3>3 DEF FinishBundle
  <2>5. CASE CommitTemp(b)
    <3>1. CASE Rename(b)
      BY <1>1, <2>0, <3>1 DEF Rename, DropTemp, TypeOK
    <3>2. CASE Copy(b)
      BY <1>4, <2>5, <3>2 DEF CommitTemp, Copy, Goto, TypeOK
    <3>3. CASE CommitFails(b)
      BY <1>1, <2>0, <3>3 DEF CommitFails, AbortTemp, TypeOK
    <3> QED  BY <2>5, <3>1, <3>2, <3>3 DEF CommitTemp
  <2>6. CASE DeleteCopied(b)
    BY <1>1, <2>0, <2>6 DEF DeleteCopied, DropTemp, AbortTemp, TypeOK
  <2> QED  BY <2>2, <2>3, <2>4, <2>5, <2>6 DEF Step
<1> QED  BY <1>2, <1>3, <1>4

(* The invariant holds before any bundle is run. *)
LEMMA Initial == Init => IInv
<1> SUFFICES ASSUME Init PROVE IInv  OBVIOUS
<1> USE StagerAssumption DEF Init
<1>1. TypeOK  BY DEF TypeOK, Attempts
<1>2. NoPartialFile /\ NoOrphanTemp
  BY DEF NoPartialFile, NoOrphanTemp, Ids
<1>3. ASSUME NEW b \in Bundles PROVE Sound(b)
  BY <1>1, Names DEF Sound, FutureClean, ActiveCounted, ClosedComplete, CommittedPublished, Ids
<1> QED  BY <1>1, <1>2, <1>3 DEF IInv

(* The invariant is inductive. *)
LEMMA Invariance == Spec => []IInv
<1>1. IInv /\ [Next]_vars => IInv'
  <2> SUFFICES ASSUME IInv, [Next]_vars PROVE IInv'  OBVIOUS
  <2>1. ASSUME NEW b \in Bundles, Step(b) PROVE IInv'
    <3>1. TypeOK /\ NoPartialFile /\ NoOrphanTemp /\ Sound(b)  BY DEF IInv
    <3>2. TypeOK' /\ NoPartialFile' /\ NoOrphanTemp' /\ Sound(b)'
      BY <2>1, <3>1, TypeInv, PartialInv, OrphanInv, OwnSound
    <3>3. ASSUME NEW c \in Bundles, c # b PROVE Sound(c)'
      BY <2>1, <3>1, <3>3, Frame, OthersSound DEF IInv
    <3> QED  BY <3>2, <3>3 DEF IInv
  <2>2. CASE UNCHANGED vars
    <3>1. TypeOK' /\ NoPartialFile' /\ NoOrphanTemp'
      BY <2>2 DEF vars, config, runner, stager, temps, finals, IInv, TypeOK, NoPartialFile,
                  NoOrphanTemp, Complete
    <3>2. ASSUME NEW b \in Bundles PROVE Sound(b)'
      <4>1. Sound(b)  BY DEF IInv
      <4>2. Id(b)' = Id(b)  BY <2>2 DEF vars, runner, Id
      <4> QED
        BY <2>2, <4>1, <4>2
           DEF vars, config, runner, stager, temps, finals, Sound, FutureClean,
               ActiveCounted, ClosedComplete, CommittedPublished, Complete
    <3> QED  BY <3>1, <3>2 DEF IInv
  <2> QED  BY <2>1, <2>2 DEF Next, Terminated
<1> QED  BY Initial, <1>1, PTL DEF Spec

(* The stager's, the runner's and the storage's state keeps its shape. *)
THEOREM StagerTypes == Spec => []TypeOK
<1>1. IInv => TypeOK  BY DEF IInv
<1> QED  BY Invariance, <1>1, PTL

(* No failure or crash makes a partial file visible. *)
THEOREM NeverPartial == Spec => []NoPartialFile
<1>1. IInv => NoPartialFile  BY DEF IInv
<1> QED  BY Invariance, <1>1, PTL

(* With a shard name for every bundle no acknowledged record is lost. *)
THEOREM AckedIsPublished == ~SharedURI => (Spec => []AckedPublished)
<1> SUFFICES ASSUME ~SharedURI PROVE Spec => []AckedPublished  OBVIOUS
<1>1. IInv => AckedPublished
  BY Names DEF IInv, Sound, CommittedPublished, AckedPublished
<1> QED  BY Invariance, <1>1, PTL

(* Every temporary file left is that of a crash or of a failed delete. *)
THEOREM TempsCleaned == Spec => []NoOrphanTemp
<1>1. IInv => NoOrphanTemp  BY DEF IInv
<1> QED  BY Invariance, <1>1, PTL
=============================================================================
