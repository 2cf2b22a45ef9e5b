---------------------------- MODULE BundleStager ----------------------------
(***************************************************************************)
(* The file sinks (delimited, Parquet, dead letters, audit) over the       *)
(* bundle stager and its storage: a bundle writes to a temporary file and  *)
(* publishes it under its final name when it finishes.  Every call on the  *)
(* storage may fail, the worker may crash between any two, and the runner  *)
(* runs the bundle again until it has an acknowledged success.             *)
(*                                                                         *)
(* A file is the set of records written to it and whether its writers were *)
(* closed; the records of a bundle are numbered.                           *)
(***************************************************************************)
EXTENDS Integers, FiniteSets

CONSTANTS Bundles,
          MaxRecords,   \* bound on the records of a bundle
          MaxAttempts,  \* how often the runner runs a bundle
          Storages,     \* the storages tried, of "local", "gcs"
          SharedURI     \* single_file, or an output path with an extension

ASSUME StagerAssumption ==
  /\ MaxRecords \in Nat /\ MaxAttempts \in Nat \ {0}
  /\ Storages \subseteq {"local", "gcs"}
  /\ SharedURI \in BOOLEAN

Attempts == 1..MaxAttempts
Ids      == Bundles \X Attempts          \* one temporary name per attempt
Uris     == Ids \cup {<<"output", 0>>}
Records  == Bundles \X (1..MaxRecords)

VARIABLES
  storage,     \* which storage the sink writes to; never changes
  formatter,   \* the provider knows the output format; never changes
  load,        \* how many records each bundle holds; never changes
  pc,          \* where the runner and the sink stand on each bundle
  attempt,     \* the attempt each bundle is on
  writer,      \* stager.writer # nil
  count,       \* stager.recordCount
  tempState, tempRecs,    \* the temporary files
  finalState, finalRecs,  \* the published files
  excused      \* attempts that crashed, or whose AbortTemp failed

config == <<storage, formatter, load>>
runner == <<pc, attempt>>
stager == <<writer, count>>
temps  == <<tempState, tempRecs>>
finals == <<finalState, finalRecs>>
vars == <<config, runner, stager, temps, finals, excused>>

Id(b) == <<b, attempt[b]>>

(* The path as it is, "output.<ext>", or a shard name that is never reused. *)
BuildOutputURI(b) == IF SharedURI THEN <<"output", 0>> ELSE Id(b)

Init ==
  /\ storage \in Storages
  /\ formatter \in BOOLEAN
  /\ load \in [Bundles -> 0..MaxRecords]
  /\ pc = [b \in Bundles |-> "queued"]
  /\ attempt = [b \in Bundles |-> 1]
  /\ writer = [b \in Bundles |-> FALSE]
  /\ count = [b \in Bundles |-> 0]
  /\ tempState = [i \in Ids |-> "absent"]
  /\ tempRecs = [i \in Ids |-> {}]
  /\ finalState = [u \in Uris |-> "absent"]
  /\ finalRecs = [u \in Uris |-> {}]
  /\ excused = {}

Goto(b, label) == pc' = [pc EXCEPT ![b] = label]

-----------------------------------------------------------------------------
(* External, the storage: creating a temporary file (a GCS object appears  *)
(* only when its writer is closed), and deleting it, which may fail.       *)

Created == IF storage = "local" THEN "open" ELSE "absent"

AbortTemp(b) ==
  \/ /\ tempState' = [tempState EXCEPT ![Id(b)] = "absent"]
     /\ tempRecs' = [tempRecs EXCEPT ![Id(b)] = {}]
     /\ UNCHANGED excused
  \/ /\ tempState' = [tempState EXCEPT ![Id(b)] = IF @ = "absent" THEN "open" ELSE @]
     /\ excused' = excused \cup {Id(b)}
     /\ UNCHANGED tempRecs

(* Abort without the delete. *)
AbortClosesOnly(b) ==
  /\ writer' = [writer EXCEPT ![b] = FALSE]
  /\ tempState' = [tempState EXCEPT ![Id(b)] = "open"]
  /\ UNCHANGED <<tempRecs, excused>>

(* Abort closes the writer, which uploads a GCS object, then deletes. *)
Abort(b) ==
  /\ writer' = [writer EXCEPT ![b] = FALSE]
  /\ AbortTemp(b)

-----------------------------------------------------------------------------
StartBundle(b) ==
  /\ pc[b] = "queued"
  /\ writer' = [writer EXCEPT ![b] = FALSE]
  /\ count' = [count EXCEPT ![b] = 0]
  /\ Goto(b, "active")
  /\ UNCHANGED <<config, attempt, temps, finals, excused>>

(* The first record opens the temporary file. *)
CreateFails(b) ==
  /\ ~writer[b]
  /\ Goto(b, "failed")
  /\ UNCHANGED <<stager, temps, excused>>

(* Without a formatter the sink returns its error and leaves the file. *)
FormatterMissing(b) ==
  /\ ~formatter
  /\ writer' = [writer EXCEPT ![b] = TRUE]
  /\ tempState' = [tempState EXCEPT ![Id(b)] = IF writer[b] THEN @ ELSE Created]
  /\ Goto(b, "failed")
  /\ UNCHANGED <<count, tempRecs, excused>>

(* Wrapping the writer, the header, formatting or writing fails. *)
WriteFails(b) ==
  /\ Abort(b)
  /\ Goto(b, "failed")
  /\ UNCHANGED count

(* A record counted twice. *)
WrittenCountsTwice(b) ==
  /\ formatter
  /\ writer' = [writer EXCEPT ![b] = TRUE]
  /\ count' = [count EXCEPT ![b] = @ + 2]
  /\ tempState' = [tempState EXCEPT ![Id(b)] = IF writer[b] THEN @ ELSE Created]
  /\ tempRecs' = [tempRecs EXCEPT ![Id(b)] = @ \cup {<<b, count[b] + 1>>}]
  /\ UNCHANGED <<pc, excused>>

Written(b) ==
  /\ formatter
  /\ writer' = [writer EXCEPT ![b] = TRUE]
  /\ count' = [count EXCEPT ![b] = @ + 1]
  /\ tempState' = [tempState EXCEPT ![Id(b)] = IF writer[b] THEN @ ELSE Created]
  /\ tempRecs' = [tempRecs EXCEPT ![Id(b)] = @ \cup {<<b, count[b] + 1>>}]
  /\ UNCHANGED <<pc, excused>>

ProcessElement(b) ==
  /\ pc[b] = "active" /\ count[b] < load[b]
  /\ CreateFails(b) \/ FormatterMissing(b) \/ WriteFails(b) \/ Written(b)
  /\ UNCHANGED <<config, attempt, finals>>

(* CommitOrAbort up to the commit: a bundle without records has no file,   *)
(* the others close the wrapper and the writer, and abort when that fails. *)
FinishEmpty(b) ==
  /\ ~writer[b]
  /\ Goto(b, "committed")
  /\ UNCHANGED <<writer, temps, excused>>

CloseFails(b) ==
  /\ writer[b]
  /\ Abort(b)
  /\ Goto(b, "failed")

(* A commit that leaves the wrapper and the writer open. *)
CloseForgotten(b) ==
  /\ writer[b]
  /\ writer' = [writer EXCEPT ![b] = FALSE]
  /\ Goto(b, "closed")
  /\ UNCHANGED <<temps, excused>>

CloseWriter(b) ==
  /\ writer[b]
  /\ writer' = [writer EXCEPT ![b] = FALSE]
  /\ tempState' = [tempState EXCEPT ![Id(b)] = "closed"]
  /\ Goto(b, "closed")
  /\ UNCHANGED <<tempRecs, excused>>

FinishBundle(b) ==
  /\ pc[b] = "active" /\ count[b] = load[b]
  /\ FinishEmpty(b) \/ CloseFails(b) \/ CloseWriter(b)
  /\ UNCHANGED <<config, attempt, count, finals>>

Publish(b) ==
  /\ finalState' = [finalState EXCEPT ![BuildOutputURI(b)] = tempState[Id(b)]]
  /\ finalRecs' = [finalRecs EXCEPT ![BuildOutputURI(b)] = tempRecs[Id(b)]]

DropTemp(b) ==
  /\ tempState' = [tempState EXCEPT ![Id(b)] = "absent"]
  /\ tempRecs' = [tempRecs EXCEPT ![Id(b)] = {}]

(* A commit whose error is logged and forgotten. *)
CommitErrorDropped(b) ==
  /\ pc[b] = "closed"
  /\ \/ Publish(b) /\ DropTemp(b) /\ UNCHANGED excused
     \/ AbortTemp(b) /\ UNCHANGED finals
  /\ Goto(b, "committed")
  /\ UNCHANGED <<config, attempt, stager>>

(* CommitTemp: a rename on the local disk, a copy and then a delete on     *)
(* GCS; when it fails the stager deletes the temporary file.               *)
Rename(b) ==
  /\ storage = "local"
  /\ Publish(b) /\ DropTemp(b)
  /\ Goto(b, "committed")
  /\ UNCHANGED excused

Copy(b) ==
  /\ storage = "gcs"
  /\ Publish(b)
  /\ Goto(b, "copied")
  /\ UNCHANGED <<temps, excused>>

CommitFails(b) ==
  /\ AbortTemp(b)
  /\ Goto(b, "failed")
  /\ UNCHANGED finals

CommitTemp(b) ==
  /\ pc[b] = "closed"
  /\ Rename(b) \/ Copy(b) \/ CommitFails(b)
  /\ UNCHANGED <<config, attempt, stager>>

(* The delete of the copied object; when it fails the bundle fails. *)
DeleteCopied(b) ==
  /\ pc[b] = "copied"
  /\ \/ DropTemp(b) /\ Goto(b, "committed") /\ UNCHANGED excused
     \/ AbortTemp(b) /\ Goto(b, "failed")
  /\ UNCHANGED <<config, attempt, stager, finals>>

-----------------------------------------------------------------------------
(* External, the runner: it records the success of a bundle, loses a       *)
(* worker at any moment before that, and runs a failed bundle again.       *)

Ack(b) ==
  /\ pc[b] = "committed"
  /\ Goto(b, "done")
  /\ UNCHANGED <<config, attempt, stager, temps, finals, excused>>

Crash(b) ==
  /\ pc[b] \in {"active", "closed", "copied", "committed"}
  /\ excused' = excused \cup {Id(b)}
  /\ Goto(b, "failed")
  /\ UNCHANGED <<config, attempt, stager, temps, finals>>

Retry(b) ==
  /\ pc[b] = "failed" /\ attempt[b] < MaxAttempts
  /\ attempt' = [attempt EXCEPT ![b] = @ + 1]
  /\ Goto(b, "queued")
  /\ UNCHANGED <<config, stager, temps, finals, excused>>

AllOver ==
  \A b \in Bundles : pc[b] = "done" \/ (pc[b] = "failed" /\ attempt[b] = MaxAttempts)
Terminated == AllOver /\ UNCHANGED vars

Step(b) ==
  \/ StartBundle(b) \/ ProcessElement(b) \/ FinishBundle(b)
  \/ CommitTemp(b) \/ DeleteCopied(b)
  \/ Ack(b) \/ Crash(b) \/ Retry(b)

Next == (\E b \in Bundles : Step(b)) \/ Terminated

Spec == Init /\ [][Next]_vars

-----------------------------------------------------------------------------
(* The state of the stager, the runner and the storage stays in shape, and *)
(* the stager counts no record that the bundle does not hold.              *)
TypeOK ==
  /\ storage \in Storages /\ formatter \in BOOLEAN
  /\ load \in [Bundles -> 0..MaxRecords]
  /\ pc \in [Bundles -> {"queued", "active", "closed", "copied", "committed", "done", "failed"}]
  /\ attempt \in [Bundles -> Attempts]
  /\ writer \in [Bundles -> BOOLEAN]
  /\ count \in [Bundles -> 0..MaxRecords] /\ (\A b \in Bundles : count[b] <= load[b])
  /\ tempState \in [Ids -> {"absent", "open", "closed"}]
  /\ tempRecs \in [Ids -> SUBSET Records]
  /\ finalState \in [Uris -> {"absent", "open", "closed"}]
  /\ finalRecs \in [Uris -> SUBSET Records]
  /\ excused \subseteq Ids

Complete(b) == {b} \X (1..load[b])

(* A reader of the output never sees a partial file: whatever fails or     *)
(* crashes, a published file was closed and holds exactly the records of   *)
(* one bundle (CommitOrAbort, CommitTemp).                                 *)
NoPartialFile ==
  \A u \in Uris : finalState[u] # "absent" =>
    /\ finalState[u] = "closed"
    /\ \E b \in Bundles : load[b] > 0 /\ finalRecs[u] = Complete(b)

(* No record of an acknowledged bundle is lost: it is in a published file. *)
(* (FinishBundle returns nil only after CommitTemp did.)                   *)
AckedPublished ==
  \A b \in Bundles : pc[b] = "done" /\ load[b] > 0 =>
    \E u \in Uris : finalState[u] # "absent" /\ finalRecs[u] = Complete(b)

(* Temporary files are cleaned up on every error path: one that is still   *)
(* there belongs to the attempt in progress, or the attempt crashed or its *)
(* AbortTemp failed (Abort, CommitOrAbort).  The sink that has no          *)
(* formatter leaves its file behind and is left out.                       *)
NoOrphanTemp ==
  \A b \in Bundles, a \in Attempts :
    formatter /\ tempState[<<b, a>>] # "absent" =>
      \/ <<b, a>> \in excused
      \/ a = attempt[b] /\ pc[b] \in {"active", "closed", "copied"}
=============================================================================
