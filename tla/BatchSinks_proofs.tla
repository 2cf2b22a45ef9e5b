-------------------------- MODULE BatchSinks_proofs --------------------------
(***************************************************************************)
(* Proofs of the safety properties of BatchSinks, for any number of        *)
(* workers, bundles, records, batches and attempts.                        *)
(***************************************************************************)
EXTENDS BatchSinks, FiniteSetTheorems, TLAPS

Labels == {"idle", "elements", "flush", "letters", "finish", "ack"}

ConfT == sink \in Sinks /\ writer \in BOOLEAN /\ dlq \in BOOLEAN /\ unfit \subseteq Records
CtrlT == /\ pc \in [Workers -> Labels]
         /\ bundle \in [Workers -> 0..NumBundles] /\ next \in [Workers -> 1..(BundleSize + 1)]
         /\ tries \in [Bundles -> 0..MaxAttempts] /\ faults \in [Bundles -> Nat]
         /\ acked \subseteq Bundles
BufT  == /\ buffer \in [Workers -> SUBSET Records] /\ rejects \in [Workers -> SUBSET Records]
         /\ size \in [Workers -> BatchSize..MaxSize]
BqT   == /\ stream \in [Workers -> Streams \cup {None}] /\ rows \in [Streams -> SUBSET Records]
         /\ committed \subseteq Streams /\ orphans \subseteq Streams
OutT  == delivered \in [Records -> Nat] /\ letters \subseteq Records /\ dropped \subseteq Records

(* An instance that is not idle works on a bundle of its own, which was    *)
(* begun and is not done.                                                  *)
Place ==
  \A w \in Workers :
    /\ pc[w] = "idle" <=> bundle[w] = NoBundle
    /\ bundle[w] # NoBundle =>
         /\ tries[bundle[w]] >= 1 /\ bundle[w] \notin acked
         /\ \A v \in Workers : bundle[v] = bundle[w] => v = w

TInv == ConfT /\ CtrlT /\ BufT /\ BqT /\ OutT /\ Place

LEMMA TypesOf == TInv => TypeOK
  BY DEF TInv, ConfT, CtrlT, BufT, BqT, OutT, TypeOK, Labels

LEMMA Counts ==
  /\ NumBundles \in Nat /\ BundleSize \in Nat /\ MaxAttempts \in Nat
  /\ BatchSize \in Nat \ {0} /\ MaxFactor \in Nat \ {0} /\ Step \in Nat
  /\ MaxSize \in Nat /\ BatchSize <= MaxSize
<1>1. \A a \in Nat, b \in Nat \ {0} : a * b >= a /\ a * b \in Nat  OBVIOUS
<1> QED  BY <1>1, CountAssumption DEF MaxSize

(* The configuration of a job never changes. *)
LEMMA ConfigConstant ==
  ASSUME [Next]_vars PROVE sink' = sink /\ writer' = writer /\ dlq' = dlq /\ unfit' = unfit
  BY DEF Next, vars, config, StartBundle, ProcessElement, FinishBundle, Crash, Ack, FlushWithoutWriter,
         WriteBatch, WriteBatchFails, KeepLetters, LettersFail, AppendRecords, AppendFails,
         CommitStream, CommitFails, FailAttempt

(* What an instance that is not idle works on. *)
LEMMA AtWork ==
  ASSUME CtrlT, Place, NEW w \in Workers, pc[w] # "idle"
  PROVE  /\ bundle[w] \in Bundles /\ tries[bundle[w]] \in 1..MaxAttempts
         /\ Name(w) \in Streams /\ bundle[w] \notin acked
<1>1. bundle[w] \in Bundles  BY Counts DEF CtrlT, Place, Bundles, NoBundle
<1>2. tries[bundle[w]] \in 1..MaxAttempts  BY <1>1, Counts DEF CtrlT, Place
<1> QED  BY <1>1, <1>2 DEF Name, Streams, Place

(* How each kind of step moves the control of one instance. *)
Starts(w, b) ==
  /\ pc[w] = "idle" /\ b \in Bundles \ acked /\ tries[b] < MaxAttempts
  /\ \A v \in Workers : bundle[v] # b
  /\ bundle' = [bundle EXCEPT ![w] = b] /\ tries' = [tries EXCEPT ![b] = @ + 1]
  /\ next' = [next EXCEPT ![w] = 1] /\ pc' = [pc EXCEPT ![w] = "elements"]
  /\ UNCHANGED <<faults, acked>>
Moves(w) ==
  /\ pc[w] # "idle" /\ \E label \in Labels \ {"idle"} : pc' = [pc EXCEPT ![w] = label]
  /\ \/ next' = next
     \/ next[w] <= BundleSize /\ next' = [next EXCEPT ![w] = @ + 1]
  /\ UNCHANGED <<bundle, tries, faults, acked>>
Fails(w) ==
  /\ pc[w] # "idle" /\ pc' = [pc EXCEPT ![w] = "idle"]
  /\ bundle' = [bundle EXCEPT ![w] = NoBundle]
  /\ faults' = [faults EXCEPT ![bundle[w]] = @ + 1]
  /\ UNCHANGED <<next, tries, acked>>
Ends(w) ==
  /\ pc[w] # "idle" /\ pc' = [pc EXCEPT ![w] = "idle"]
  /\ bundle' = [bundle EXCEPT ![w] = NoBundle]
  /\ acked' = acked \cup {bundle[w]}
  /\ UNCHANGED <<next, tries, faults>>

LEMMA Control ==
  ASSUME NEW w \in Workers
  PROVE  /\ StartBundle(w) => \E b \in Bundles : Starts(w, b)
         /\ ProcessElement(w) => Moves(w)
         /\ FinishBundle(w) => Moves(w) /\ next' = next
         /\ FlushWithoutWriter(w) \/ WriteBatch(w) \/ KeepLetters(w) \/ AppendRecords(w)
              \/ CommitStream(w) => Moves(w) /\ next' = next
         /\ Crash(w) \/ WriteBatchFails(w) \/ LettersFail(w) \/ AppendFails(w) \/ CommitFails(w)
              => Fails(w)
         /\ Ack(w) => Ends(w)
<1>1. StartBundle(w) => \E b \in Bundles : Starts(w, b)
  BY DEF StartBundle, Starts, Goto
<1>2. ProcessElement(w) => Moves(w)
  BY DEF ProcessElement, Moves, Goto, Labels, runner
<1>3. FinishBundle(w) => Moves(w) /\ next' = next
  BY DEF FinishBundle, Moves, Goto, Labels, runner
<1>4. FlushWithoutWriter(w) \/ WriteBatch(w) \/ KeepLetters(w) \/ AppendRecords(w)
        \/ CommitStream(w) => Moves(w) /\ next' = next
  BY DEF FlushWithoutWriter, WriteBatch, KeepLetters, AppendRecords, CommitStream,
         Moves, Goto, Labels, runner
<1>5. Crash(w) \/ WriteBatchFails(w) \/ LettersFail(w) \/ AppendFails(w) \/ CommitFails(w) => Fails(w)
  BY DEF Crash, WriteBatchFails, LettersFail, AppendFails, CommitFails, FailAttempt, Fails, Goto
<1>6. Ack(w) => Ends(w)
  BY DEF Ack, Ends, Goto
<1> QED  BY <1>1, <1>2, <1>3, <1>4, <1>5, <1>6

LEMMA ControlStep == ASSUME CtrlT, Place, [Next]_vars PROVE CtrlT' /\ Place'
<1>c. /\ NumBundles \in Nat /\ BundleSize \in Nat /\ MaxAttempts \in Nat /\ Bundles \subseteq 0..NumBundles
      /\ 0 \notin Bundles
  BY Counts DEF Bundles
<1>t. /\ pc \in [Workers -> Labels] /\ bundle \in [Workers -> 0..NumBundles]
      /\ tries \in [Bundles -> 0..MaxAttempts] /\ faults \in [Bundles -> Nat] /\ acked \subseteq Bundles
  BY DEF CtrlT
<1>n. next \in [Workers -> 1..(BundleSize + 1)]  BY DEF CtrlT
<1>1. ASSUME NEW w \in Workers, NEW b \in Bundles, Starts(w, b) PROVE CtrlT' /\ Place'
  <2>1. tries' \in [Bundles -> 0..MaxAttempts] /\ tries'[b] >= 1
        /\ \A a \in Bundles \ {b} : tries'[a] = tries[a]
    BY <1>c, <1>t, <1>1 DEF Starts
  <2>2. next' \in [Workers -> 1..(BundleSize + 1)]
    <3>1. 1 \in 1..(BundleSize + 1)  BY <1>c
    <3> QED  BY <1>n, <1>1, <3>1 DEF Starts
  <2>3. pc' \in [Workers -> Labels] /\ bundle' \in [Workers -> 0..NumBundles]
    BY <1>c, <1>t, <1>1 DEF Starts, Labels
  <2>4. CtrlT'  BY <1>1, <1>t, <2>1, <2>2, <2>3 DEF CtrlT, Starts
  <2>5. ASSUME NEW v \in Workers PROVE
          /\ pc'[v] = "idle" <=> bundle'[v] = NoBundle
          /\ bundle'[v] # NoBundle =>
               /\ tries'[bundle'[v]] >= 1 /\ bundle'[v] \notin acked'
               /\ \A u \in Workers : bundle'[u] = bundle'[v] => u = v
    <3>1. CASE v = w  BY <1>c, <1>t, <1>1, <2>1, <3>1 DEF Starts, NoBundle, Labels
    <3>2. CASE v # w
      <4>1. pc'[v] = pc[v] /\ bundle'[v] = bundle[v] /\ bundle[v] # b  BY <1>t, <1>1, <3>2 DEF Starts
      <4>2. bundle[v] # NoBundle => bundle[v] \in Bundles  BY <1>t, <1>c DEF Bundles, NoBundle
      <4> QED  BY <1>c, <1>t, <1>1, <2>1, <3>2, <4>1, <4>2 DEF Starts, Place
    <3> QED  BY <3>1, <3>2
  <2> QED  BY <2>4, <2>5 DEF Place
<1>2. ASSUME NEW w \in Workers, Moves(w) PROVE CtrlT' /\ Place'
  <2>1. next' \in [Workers -> 1..(BundleSize + 1)]
    BY <1>c, <1>n, <1>2 DEF Moves
  <2>2. /\ pc' \in [Workers -> Labels] /\ \A v \in Workers : pc'[v] = "idle" <=> pc[v] = "idle"
        /\ UNCHANGED <<bundle, tries, faults, acked>>
    BY <1>t, <1>2 DEF Moves
  <2> QED  BY <1>t, <2>1, <2>2 DEF CtrlT, Place
<1>3. ASSUME NEW w \in Workers, Fails(w) \/ Ends(w) PROVE CtrlT' /\ Place'
  <2>0. bundle[w] \in Bundles  BY <1>3, AtWork DEF Fails, Ends
  <2>1. /\ pc' \in [Workers -> Labels] /\ bundle' \in [Workers -> 0..NumBundles]
        /\ pc'[w] = "idle" /\ bundle'[w] = NoBundle
        /\ \A v \in Workers \ {w} : pc'[v] = pc[v] /\ bundle'[v] = bundle[v] /\ bundle'[v] # bundle[w]
    <3>1. pc' = [pc EXCEPT ![w] = "idle"] /\ bundle' = [bundle EXCEPT ![w] = NoBundle]
      BY <1>3 DEF Fails, Ends
    <3>2. \A v \in Workers \ {w} : bundle[v] # bundle[w]
      BY <1>c, <2>0 DEF Place, NoBundle
    <3> QED  BY <1>t, <1>c, <3>1, <3>2 DEF Labels, NoBundle
  <2>2. /\ faults' \in [Bundles -> Nat] /\ acked' \subseteq acked \cup {bundle[w]}
        /\ UNCHANGED <<next, tries>>
    BY <1>3, <1>t, <2>0 DEF Fails, Ends
  <2>3. CtrlT'  BY <1>t, <1>n, <2>0, <2>1, <2>2 DEF CtrlT
  <2> QED  BY <2>1, <2>2, <2>3 DEF Place
<1>4. UNCHANGED vars => CtrlT' /\ Place'
  BY DEF vars, CtrlT, Place
<1> QED  BY <1>1, <1>2, <1>3, <1>4, Control DEF Next

-----------------------------------------------------------------------------
(* The rest of the type invariant. *)

(* Whatever RecordFlush returns lies between the batch size and its limit. *)
LEMMA SizerBounds ==
  ASSUME NEW n \in BatchSize..MaxSize, NEW m \in RecordFlush(n) PROVE m \in BatchSize..MaxSize
<1>0. /\ BatchSize \in Nat \ {0} /\ MaxSize \in Nat /\ BatchSize <= MaxSize /\ Step \in Nat
  BY Counts
<1> DEFINE q == n \div 5
           k == n \div 3
<1>1. n \in Nat /\ n >= BatchSize /\ n <= MaxSize  BY <1>0
<1>2. q \in Nat /\ k \in Nat  BY <1>0, <1>1
<1>3. m \in {n, BatchSize, Smaller(MaxSize, n + Larger(q, Step)), Larger(BatchSize, n - Larger(k, Step))}
  BY DEF RecordFlush
<1> HIDE DEF q, k
<1>4. Larger(q, Step) \in Nat /\ Larger(k, Step) \in Nat  BY <1>0, <1>2 DEF Larger
<1>5. Smaller(MaxSize, n + Larger(q, Step)) \in BatchSize..MaxSize
  BY <1>0, <1>1, <1>4 DEF Smaller
<1>6. Larger(BatchSize, n - Larger(k, Step)) \in BatchSize..MaxSize
  BY <1>0, <1>1, <1>4 DEF Larger
<1> QED  BY <1>0, <1>3, <1>5, <1>6

LEMMA ConfStep == ASSUME ConfT, [Next]_vars PROVE ConfT'
<1>1. sink' = sink /\ writer' = writer /\ dlq' = dlq /\ unfit' = unfit  BY ConfigConstant
<1> QED  BY <1>1, Zenon DEF ConfT

LEMMA BufStep == ASSUME TInv, [Next]_vars PROVE BufT'
<1>t. buffer \in [Workers -> SUBSET Records] /\ rejects \in [Workers -> SUBSET Records]
  BY DEF TInv, BufT
<1>s. size \in [Workers -> BatchSize..MaxSize]  BY DEF TInv, BufT
<1>1. ASSUME NEW w \in Workers, AppendRecords(w) \/ AppendFails(w) PROVE size' \in [Workers -> BatchSize..MaxSize]
  <2>1. PICK n \in RecordFlush(size[w]) : size' = [size EXCEPT ![w] = n]
    BY <1>1 DEF AppendRecords, AppendFails
  <2>2. n \in BatchSize..MaxSize  BY <1>s, <2>1, SizerBounds
  <2> DEFINE S == BatchSize..MaxSize
  <2>3. size \in [Workers -> S] /\ n \in S  BY <1>s, <2>2
  <2> HIDE DEF S
  <2>4. size' \in [Workers -> S]  BY <2>1, <2>3
  <2> QED  BY <2>4 DEF S
<1>2. ASSUME NEW w \in Workers, ProcessElement(w) PROVE BufT'
  <2>1. bundle[w] \in Bundles  BY <1>2, AtWork DEF TInv, ProcessElement
  <2>2. next[w] \in Indices
    <3>1. next[w] \in 1..(BundleSize + 1) /\ next[w] <= BundleSize /\ BundleSize \in Nat
      BY <1>2, Counts DEF TInv, CtrlT, ProcessElement
    <3> QED  BY <3>1 DEF Indices
  <2>3. <<bundle[w], next[w]>> \in Records  BY <2>1, <2>2 DEF Records
  <2>4. /\ buffer' = [buffer EXCEPT ![w] = @ \cup {<<bundle[w], next[w]>>}]
        /\ UNCHANGED <<rejects, size>>
    BY <1>2 DEF ProcessElement
  <2> QED  BY <1>t, <1>s, <2>3, <2>4 DEF BufT
<1>3. ASSUME NEW w \in Workers,
             StartBundle(w) \/ FinishBundle(w) \/ Crash(w) \/ Ack(w) \/ FlushWithoutWriter(w) \/ WriteBatch(w)
             \/ WriteBatchFails(w) \/ KeepLetters(w) \/ LettersFail(w) \/ CommitStream(w) \/ CommitFails(w)
      PROVE  size' = size
  BY <1>3 DEF StartBundle, FinishBundle, Crash, Ack, FlushWithoutWriter, WriteBatch, WriteBatchFails,
              KeepLetters, LettersFail, CommitStream, CommitFails, FailAttempt
<1>4. ASSUME NEW w \in Workers,
             StartBundle(w) \/ FinishBundle(w) \/ Crash(w) \/ Ack(w) \/ FlushWithoutWriter(w) \/ WriteBatch(w)
             \/ WriteBatchFails(w) \/ KeepLetters(w) \/ LettersFail(w) \/ CommitStream(w) \/ CommitFails(w)
             \/ AppendRecords(w) \/ AppendFails(w)
      PROVE  buffer' \in [Workers -> SUBSET Records] /\ rejects' \in [Workers -> SUBSET Records]
  BY <1>4, <1>t DEF StartBundle, FinishBundle, Crash, Ack, FlushWithoutWriter, WriteBatch, WriteBatchFails,
              KeepLetters, LettersFail, CommitStream, CommitFails, FailAttempt, AppendRecords, AppendFails,
              Empty
<1>5. UNCHANGED vars => BufT'  BY <1>t, <1>s DEF vars, BufT
<1>6. buffer' \in [Workers -> SUBSET Records] /\ rejects' \in [Workers -> SUBSET Records]
        /\ size' \in [Workers -> BatchSize..MaxSize] => BufT'
  BY DEF BufT
<1> QED  BY <1>1, <1>2, <1>3, <1>4, <1>5, <1>6, <1>s DEF Next

LEMMA BqStep == ASSUME TInv, [Next]_vars PROVE BqT'
<1>t. /\ stream \in [Workers -> Streams \cup {None}] /\ rows \in [Streams -> SUBSET Records]
      /\ committed \subseteq Streams /\ orphans \subseteq Streams
  BY DEF TInv, BqT
<1>1. ASSUME NEW w \in Workers, AppendRecords(w) PROVE BqT'
  <2>1. Name(w) \in Streams  BY <1>1, AtWork DEF TInv, AppendRecords
  <2>2. buffer[w] \subseteq Records  BY DEF TInv, BufT
  <2>3. /\ stream' = [stream EXCEPT ![w] = Name(w)] /\ UNCHANGED <<committed, orphans>>
        /\ rows' = [rows EXCEPT ![Name(w)] = @ \cup (buffer[w] \ unfit)]
    BY <1>1 DEF AppendRecords
  <2> QED  BY <1>t, <2>1, <2>2, <2>3 DEF BqT
<1>2. ASSUME NEW w \in Workers, CommitStream(w) \/ CommitFails(w) PROVE BqT'
  <2>1. /\ stream[w] # None /\ committed' \subseteq committed \cup {stream[w]}
        /\ UNCHANGED <<stream, rows, orphans>>
    BY <1>2 DEF CommitStream, CommitFails
  <2> QED  BY <1>t, <2>1 DEF BqT
<1>3. ASSUME NEW w \in Workers, LettersFail(w) PROVE BqT'
  <2>1. Name(w) \in Streams  BY <1>3, AtWork DEF TInv, LettersFail
  <2>2. UNCHANGED <<stream, rows, committed>> /\ orphans' \in {orphans, orphans \cup {Name(w)}}
    BY <1>3 DEF LettersFail, bigquery, Name
  <2> QED  BY <1>t, <2>1, <2>2 DEF BqT
<1>4. ASSUME NEW w \in Workers, StartBundle(w) PROVE BqT'
  <2>1. stream' = [stream EXCEPT ![w] = None] /\ UNCHANGED <<rows, committed, orphans>>
    BY <1>4 DEF StartBundle
  <2> QED  BY <1>t, <2>1 DEF BqT
<1>5. ASSUME NEW w \in Workers,
             ProcessElement(w) \/ FinishBundle(w) \/ Crash(w) \/ Ack(w) \/ FlushWithoutWriter(w)
             \/ WriteBatch(w) \/ WriteBatchFails(w) \/ KeepLetters(w) \/ AppendFails(w)
      PROVE  UNCHANGED <<stream, rows, committed, orphans>>
  BY <1>5 DEF ProcessElement, FinishBundle, Crash, Ack, FlushWithoutWriter, WriteBatch, WriteBatchFails,
              KeepLetters, AppendFails, bigquery
<1>6. UNCHANGED <<stream, rows, committed, orphans>> => BqT'  BY <1>t DEF BqT
<1>7. UNCHANGED vars => UNCHANGED <<stream, rows, committed, orphans>>  BY DEF vars
<1> QED  BY <1>1, <1>2, <1>3, <1>4, <1>5, <1>6, <1>7 DEF Next

(* How a step changes what the service took. *)
LEMMA Delivery ==
  ASSUME NEW w \in Workers
  PROVE  /\ WriteBatch(w) => \E n \in 0..Sends : delivered' = Took(w, n)
         /\ CommitStream(w) => delivered' = Shown(w)
         /\ CommitFails(w) => delivered' \in {delivered, Shown(w)}
         /\ StartBundle(w) \/ ProcessElement(w) \/ FinishBundle(w) \/ Crash(w) \/ Ack(w)
              \/ FlushWithoutWriter(w) \/ WriteBatchFails(w) \/ KeepLetters(w) \/ LettersFail(w)
              \/ AppendRecords(w) \/ AppendFails(w) => delivered' = delivered
  BY DEF WriteBatch, CommitStream, CommitFails, StartBundle, ProcessElement, FinishBundle, Crash, Ack,
         FlushWithoutWriter, WriteBatchFails, KeepLetters, LettersFail, AppendRecords, AppendFails

LEMMA OutStep == ASSUME TInv, [Next]_vars PROVE OutT'
<1>t. /\ delivered \in [Records -> Nat] /\ letters \subseteq Records /\ dropped \subseteq Records
      /\ buffer \in [Workers -> SUBSET Records] /\ rejects \in [Workers -> SUBSET Records]
  BY DEF TInv, OutT, BufT
<1>1. \A w \in Workers : Shown(w) \in [Records -> Nat] /\ \A n \in 0..Sends : Took(w, n) \in [Records -> Nat]
  BY <1>t, CountAssumption DEF Took, Shown, Sends
<1>2. delivered' \in [Records -> Nat]
  BY <1>1, <1>t, Delivery DEF Next, vars
<1>3. ASSUME NEW w \in Workers,
             FlushWithoutWriter(w) \/ KeepLetters(w) \/ Ack(w)
      PROVE  letters' \subseteq Records /\ dropped' \subseteq Records
  BY <1>3, <1>t DEF FlushWithoutWriter, KeepLetters, Ack
<1>4. ASSUME NEW w \in Workers,
             StartBundle(w) \/ ProcessElement(w) \/ FinishBundle(w) \/ Crash(w) \/ WriteBatch(w)
             \/ WriteBatchFails(w) \/ LettersFail(w) \/ AppendRecords(w) \/ AppendFails(w)
             \/ CommitStream(w) \/ CommitFails(w)
      PROVE  UNCHANGED <<letters, dropped>>
  BY <1>4 DEF StartBundle, ProcessElement, FinishBundle, Crash, WriteBatch, WriteBatchFails, LettersFail,
              AppendRecords, AppendFails, CommitStream, CommitFails, FailAttempt
<1>5. UNCHANGED vars => UNCHANGED <<letters, dropped>>  BY DEF vars
<1>6. letters' \subseteq Records /\ dropped' \subseteq Records
  BY <1>3, <1>4, <1>5, <1>t DEF Next
<1> QED  BY <1>2, <1>6 DEF OutT

LEMMA TypesStep == ASSUME TInv, [Next]_vars PROVE TInv'
<1>1. ConfT /\ CtrlT /\ Place  BY DEF TInv
<1> QED  BY <1>1, ConfStep, ControlStep, BufStep, BqStep, OutStep DEF TInv

LEMMA InitTypes == Init => TInv
<1> SUFFICES ASSUME Init PROVE TInv  OBVIOUS
<1>1. ConfT  BY DEF Init, ConfT
<1>2. CtrlT /\ Place
  BY Counts DEF Init, CtrlT, Place, Labels, NoBundle
<1>3. BufT
  <2>1. BatchSize \in BatchSize..MaxSize  BY Counts
  <2> QED  BY <2>1 DEF Init, BufT
<1>4. BqT /\ OutT  BY DEF Init, BqT, OutT
<1> QED  BY <1>1, <1>2, <1>3, <1>4 DEF TInv

-----------------------------------------------------------------------------
(* The buffer. *)

(* A step of one instance leaves the others alone. *)
Others(w) ==
  \A v \in Workers \ {w} :
    /\ pc'[v] = pc[v] /\ bundle'[v] = bundle[v] /\ next'[v] = next[v]
    /\ buffer'[v] = buffer[v] /\ size'[v] = size[v] /\ rejects'[v] = rejects[v]
    /\ stream'[v] = stream[v]
    /\ pc[v] # "idle" => Name(v)' = Name(v)

Acts(w) ==
  \/ StartBundle(w) \/ ProcessElement(w) \/ FinishBundle(w) \/ Crash(w) \/ Ack(w)
  \/ FlushWithoutWriter(w) \/ WriteBatch(w) \/ WriteBatchFails(w) \/ KeepLetters(w) \/ LettersFail(w)
  \/ AppendRecords(w) \/ AppendFails(w) \/ CommitStream(w) \/ CommitFails(w)

LEMMA OthersStep == ASSUME TInv, NEW w \in Workers, Acts(w) PROVE Others(w)
<1>t. /\ DOMAIN pc = Workers /\ DOMAIN bundle = Workers /\ DOMAIN next = Workers
      /\ DOMAIN buffer = Workers /\ DOMAIN size = Workers /\ DOMAIN rejects = Workers
      /\ DOMAIN stream = Workers /\ DOMAIN tries = Bundles
  BY DEF TInv, CtrlT, BufT, BqT
<1>0. (\E b \in Bundles : Starts(w, b)) \/ Moves(w) \/ Fails(w) \/ Ends(w)  BY Control DEF Acts
<1>1. \A v \in Workers \ {w} : pc'[v] = pc[v] /\ bundle'[v] = bundle[v] /\ next'[v] = next[v]
  BY <1>t, <1>0 DEF Starts, Moves, Fails, Ends
<1>2. \A v \in Workers \ {w} : buffer'[v] = buffer[v] /\ rejects'[v] = rejects[v]
  BY <1>t DEF Acts, StartBundle, ProcessElement, FinishBundle, Crash, Ack, FlushWithoutWriter,
              WriteBatch, WriteBatchFails, KeepLetters, LettersFail, CommitStream, CommitFails,
              FailAttempt, AppendRecords, AppendFails, Empty
<1>3. \A v \in Workers \ {w} : size'[v] = size[v] /\ stream'[v] = stream[v]
  BY <1>t DEF Acts, StartBundle, ProcessElement, FinishBundle, Crash, Ack, FlushWithoutWriter,
              WriteBatch, WriteBatchFails, KeepLetters, LettersFail, CommitStream, CommitFails,
              FailAttempt, AppendRecords, AppendFails, bigquery
<1>4. ASSUME NEW v \in Workers \ {w}, pc[v] # "idle" PROVE tries'[bundle[v]] = tries[bundle[v]]
  <2>1. bundle[v] \in Bundles  BY <1>4, AtWork DEF TInv
  <2> QED  BY <1>t, <1>0, <2>1 DEF Starts, Moves, Fails, Ends
<1>5. \A v \in Workers \ {w} : pc[v] # "idle" => Name(v)' = Name(v)
  BY <1>1, <1>4 DEF Name
<1> QED  BY <1>1, <1>2, <1>3, <1>5 DEF Others

LEMMA StepOf == ASSUME [Next]_vars PROVE (\E w \in Workers : Acts(w)) \/ UNCHANGED vars
  BY DEF Next, Acts

(* BufferBounded of one instance, on values. *)
Bounded(p, B, t) ==
  /\ p = "elements" => Cardinality(B) < t
  /\ p \in {"finish", "ack"} => B = {}

LEMMA BoundStep == ASSUME TInv, BufferBounded, [Next]_vars PROVE BufferBounded'
<1>c. sink' = sink  BY ConfigConstant
<1>b. /\ BatchSize \in Nat \ {0} /\ \A v \in Workers : size[v] \in Nat \ {0}
      /\ \A v \in Workers : size'[v] \in Nat \ {0}
  <2>1. BufT'  BY TypesStep DEF TInv
  <2>2. BatchSize..MaxSize \subseteq Nat \ {0} /\ BatchSize \in Nat \ {0}  BY Counts
  <2>3. \A v \in Workers : size[v] \in BatchSize..MaxSize /\ size'[v] \in BatchSize..MaxSize
    BY <2>1 DEF TInv, BufT
  <2> QED  BY <2>2, <2>3
<1>i. \A v \in Workers : Bounded(pc[v], buffer[v], TargetBatch(v))  BY DEF BufferBounded, Bounded
<1>e. \A v \in Workers : Cardinality({}) < TargetBatch(v)'
  <2>1. Cardinality({}) = 0  BY FS_EmptySet
  <2>2. \A v \in Workers : TargetBatch(v)' \in Nat \ {0}  BY <1>b DEF TargetBatch
  <2>3. \A n \in Nat \ {0} : 0 < n  OBVIOUS
  <2> QED  BY <2>1, <2>2, <2>3
<1>1. ASSUME NEW w \in Workers, Acts(w) PROVE BufferBounded'
  <2>o. Others(w)  BY <1>1, OthersStep
  <2>t. DOMAIN pc = Workers /\ DOMAIN buffer = Workers  BY DEF TInv, CtrlT, BufT
  <2>q. Bounded(pc'[w], buffer'[w], TargetBatch(w)') => BufferBounded'
    <3> SUFFICES ASSUME Bounded(pc'[w], buffer'[w], TargetBatch(w)'), NEW v \in Workers
                 PROVE  Bounded(pc'[v], buffer'[v], TargetBatch(v)')
      BY DEF BufferBounded, Bounded
    <3>1. v # w => pc'[v] = pc[v] /\ buffer'[v] = buffer[v] /\ TargetBatch(v)' = TargetBatch(v)
      BY <1>c, <2>o DEF Others, TargetBatch
    <3> QED  BY <1>i, <3>1
  <2>1. ASSUME buffer'[w] = {} PROVE BufferBounded'
    BY <1>e, <2>1, <2>q DEF Bounded
  <2>2. ASSUME pc'[w] \in {"idle", "letters", "flush"} PROVE BufferBounded'
    BY <2>2, <2>q DEF Bounded
  <2>3. CASE StartBundle(w) \/ FlushWithoutWriter(w) \/ KeepLetters(w) \/ AppendRecords(w)
    BY <2>1, <2>3, <2>t DEF StartBundle, FlushWithoutWriter, KeepLetters, AppendRecords, Empty
  <2>4. CASE Crash(w) \/ Ack(w) \/ WriteBatchFails(w) \/ LettersFail(w) \/ AppendFails(w) \/ CommitFails(w)
    <3>1. pc'[w] = "idle"
      BY <2>4, <2>t DEF Crash, Ack, WriteBatchFails, LettersFail, AppendFails, CommitFails, FailAttempt, Goto
    <3> QED  BY <2>2, <3>1
  <2>5. CASE WriteBatch(w)
    BY <2>2, <2>5, <2>t DEF WriteBatch, Goto
  <2>6. CASE ProcessElement(w)
    <3>1. CASE Full(w)
      BY <2>2, <2>6, <2>t, <3>1 DEF ProcessElement, Goto
    <3>2. CASE ~Full(w)
      <4>1. pc'[w] = "elements" /\ size' = size
        BY <2>6, <2>t, <3>2 DEF ProcessElement, Goto
      <4>2. ~(Cardinality(buffer'[w]) >= TargetBatch(w))  BY <3>2 DEF Full
      <4>3. TargetBatch(w) \in Nat /\ TargetBatch(w)' = TargetBatch(w)
        BY <1>b, <1>c, <4>1 DEF TargetBatch
      <4>4. Cardinality(buffer'[w]) \in Nat
        <5>1. IsFiniteSet(Records)
          <6>1. IsFiniteSet(Bundles) /\ IsFiniteSet(Indices)  BY Counts, FS_Interval DEF Bundles, Indices
          <6> QED  BY <6>1, FS_Product DEF Records
        <5>2. buffer'[w] \subseteq Records  BY TypesStep DEF TInv, BufT
        <5> QED  BY <5>1, <5>2, FS_Subset, FS_CardinalityType
      <4>5. Cardinality(buffer'[w]) < TargetBatch(w)'  BY <4>2, <4>3, <4>4
      <4> QED  BY <2>q, <4>1, <4>5 DEF Bounded
    <3> QED  BY <3>1, <3>2
  <2>7. CASE FinishBundle(w)
    <3>1. CASE buffer[w] = {}
      BY <2>1, <2>7, <3>1 DEF FinishBundle
    <3>2. CASE buffer[w] # {}
      BY <2>2, <2>7, <2>t, <3>2 DEF FinishBundle, Goto
    <3> QED  BY <3>1, <3>2
  <2>8. CASE CommitStream(w)
    <3>1. pc[w] = "finish" /\ buffer' = buffer  BY <2>8 DEF CommitStream
    <3> QED  BY <1>i, <2>1, <3>1 DEF Bounded
  <2> QED  BY <1>1, <2>3, <2>4, <2>5, <2>6, <2>7, <2>8 DEF Acts
<1>2. ASSUME UNCHANGED vars PROVE BufferBounded'
  BY <1>2, <1>c DEF vars, BufferBounded, TargetBatch
<1> QED  BY <1>1, <1>2, StepOf

-----------------------------------------------------------------------------
(* The streams of the BigQuery sink. *)

(* The records of bundle b before position n. *)
Passed(b, n) == {r \in Records : r[1] = b /\ r[2] < n}

LEMMA PassedFacts ==
  ASSUME NEW b \in Bundles, NEW n \in 1..(BundleSize + 1)
  PROVE  /\ Passed(b, 1) = {} /\ Passed(b, BundleSize + 1) = Of(b)
         /\ n <= BundleSize =>
              /\ <<b, n>> \in Records
              /\ Passed(b, n + 1) = Passed(b, n) \cup {<<b, n>>}
              /\ <<b, n>> \notin Passed(b, n)
<1>0. BundleSize \in Nat  BY Counts
<1>1. \A r \in Records : r[2] \in 1..BundleSize /\ r = <<r[1], r[2]>>  BY DEF Records, Indices
<1>2. Passed(b, 1) = {}  BY <1>0, <1>1 DEF Passed
<1>3. Passed(b, BundleSize + 1) = Of(b)  BY <1>0, <1>1 DEF Passed, Of
<1>4. ASSUME n <= BundleSize PROVE <<b, n>> \in Records  BY <1>0, <1>4 DEF Records, Indices
<1>5. ASSUME n <= BundleSize PROVE Passed(b, n + 1) = Passed(b, n) \cup {<<b, n>>}
  <2>1. ASSUME NEW r \in Records PROVE r[2] < n + 1 <=> r[2] < n \/ r[2] = n  BY <1>0, <1>1
  <2>2. ASSUME NEW r \in Passed(b, n + 1) PROVE r \in Passed(b, n) \cup {<<b, n>>}
    BY <1>1, <2>1, <2>2 DEF Passed
  <2>3. <<b, n>> \in Passed(b, n + 1)
    <3>1. <<b, n>>[1] = b /\ <<b, n>>[2] = n /\ n < n + 1  OBVIOUS
    <3> QED  BY <1>4, <1>5, <3>1 DEF Passed
  <2>4. Passed(b, n) \subseteq Passed(b, n + 1)  BY <2>1 DEF Passed
  <2> QED  BY <2>2, <2>3, <2>4
<1>6. <<b, n>> \notin Passed(b, n)  BY DEF Passed
<1> QED  BY <1>2, <1>3, <1>4, <1>5, <1>6

(* What an instance at work holds, on values: its pc, bundle, next and     *)
(* buffer.                                                                 *)
Holds(p, b, n, B) ==
  p # "idle" => /\ B \subseteq Passed(b, n)
                /\ p \in {"finish", "ack"} => n = BundleSize + 1

Mine == \A w \in Workers : Holds(pc[w], bundle[w], next[w], buffer[w])

LEMMA MineStep == ASSUME TInv, Mine, [Next]_vars PROVE Mine'
<1>1. ASSUME NEW w \in Workers, Acts(w) PROVE Mine'
  <2>o. Others(w)  BY <1>1, OthersStep
  <2>t. /\ DOMAIN pc = Workers /\ DOMAIN buffer = Workers /\ DOMAIN bundle = Workers
        /\ DOMAIN next = Workers /\ next[w] \in 1..(BundleSize + 1) /\ BundleSize \in Nat
    BY Counts DEF TInv, CtrlT, BufT
  <2>i. Holds(pc[w], bundle[w], next[w], buffer[w])  BY DEF Mine
  <2>q. Holds(pc'[w], bundle'[w], next'[w], buffer'[w]) => Mine'
    <3> SUFFICES ASSUME Holds(pc'[w], bundle'[w], next'[w], buffer'[w]), NEW v \in Workers
                 PROVE  Holds(pc'[v], bundle'[v], next'[v], buffer'[v])
      BY DEF Mine, Holds
    <3>1. v # w => /\ pc'[v] = pc[v] /\ buffer'[v] = buffer[v]
                   /\ bundle'[v] = bundle[v] /\ next'[v] = next[v]
      BY <2>o DEF Others
    <3>2. Holds(pc[v], bundle[v], next[v], buffer[v])  BY DEF Mine
    <3> QED  BY <3>1, <3>2
  <2>1. ASSUME pc'[w] = "idle" PROVE Mine'  BY <2>1, <2>q DEF Holds
  <2>2. ASSUME buffer'[w] = {}, pc'[w] = "elements" PROVE Mine'  BY <2>2, <2>q DEF Holds
  <2>3. CASE StartBundle(w) \/ FlushWithoutWriter(w) \/ KeepLetters(w) \/ AppendRecords(w)
    BY <2>2, <2>3, <2>t DEF StartBundle, FlushWithoutWriter, KeepLetters, AppendRecords, Empty, Goto
  <2>4. CASE Crash(w) \/ Ack(w) \/ WriteBatchFails(w) \/ LettersFail(w) \/ AppendFails(w) \/ CommitFails(w)
    <3>1. pc'[w] = "idle"
      BY <2>4, <2>t DEF Crash, Ack, WriteBatchFails, LettersFail, AppendFails, CommitFails, FailAttempt, Goto
    <3> QED  BY <2>1, <3>1
  <2>5. CASE WriteBatch(w)
    <3>1. pc[w] = "flush" /\ pc'[w] = "letters" /\ UNCHANGED <<bundle, next, buffer>>
      BY <2>5, <2>t DEF WriteBatch, Goto
    <3> QED  BY <2>i, <2>q, <3>1 DEF Holds
  <2>6. CASE ProcessElement(w)
    <3>1. /\ pc[w] = "elements" /\ next[w] <= BundleSize /\ pc'[w] \in {"flush", "elements"}
          /\ buffer'[w] = buffer[w] \cup {<<bundle[w], next[w]>>} /\ next'[w] = next[w] + 1
          /\ bundle' = bundle
      BY <2>6, <2>t DEF ProcessElement, Goto
    <3>2. bundle[w] \in Bundles  BY <3>1, AtWork DEF TInv
    <3>3. Passed(bundle[w], next[w] + 1) = Passed(bundle[w], next[w]) \cup {<<bundle[w], next[w]>>}
      BY <2>t, <3>1, <3>2, PassedFacts
    <3> QED  BY <2>i, <2>q, <3>1, <3>3 DEF Holds
  <2>7. CASE FinishBundle(w)
    <3>1. /\ pc[w] = "elements" /\ pc'[w] \in {"flush", "finish"} /\ ~(next[w] <= BundleSize)
          /\ UNCHANGED <<bundle, next, buffer>>
      <4>1. next[w] > BundleSize  BY <2>7 DEF FinishBundle
      <4>2. ~(next[w] <= BundleSize)  BY <2>t, <4>1
      <4> QED  BY <2>7, <2>t, <4>2 DEF FinishBundle, Goto
    <3>2. next[w] = BundleSize + 1  BY <2>t, <3>1
    <3> QED  BY <2>i, <2>q, <3>1, <3>2 DEF Holds
  <2>8. CASE CommitStream(w)
    <3>1. pc[w] = "finish" /\ pc'[w] = "ack" /\ UNCHANGED <<bundle, next, buffer>>
      BY <2>8, <2>t DEF CommitStream, Goto
    <3> QED  BY <2>i, <2>q, <3>1 DEF Holds
  <2> QED  BY <1>1, <2>3, <2>4, <2>5, <2>6, <2>7, <2>8 DEF Acts
<1>2. ASSUME UNCHANGED vars PROVE Mine'
  BY <1>2 DEF vars, Mine
<1> QED  BY <1>1, <1>2, StepOf

(* The records of the bundle that went through a flush are in the rows of  *)
(* the attempt's stream or among its dead letters, and the stream is       *)
(* committed last.                                                         *)
Flushed(w) == Passed(bundle[w], next[w]) \ buffer[w]

Streamed(w) ==
  /\ pc[w] # "letters" /\ stream[w] \in {None, Name(w)}
  /\ rows[Name(w)] = Flushed(w) \ unfit /\ rejects[w] = Flushed(w) \cap unfit
  /\ stream[w] = None => Flushed(w) = {}
  /\ Name(w) \in committed <=> pc[w] = "ack"

(* The stream of an attempt that is still to come is empty. *)
Unused == \A s \in Streams : s[2] > tries[s[1]] => rows[s] = {} /\ s \notin committed

BqInv ==
  /\ sink = "bigquery" => \A w \in Workers : pc[w] # "idle" => Streamed(w)
  /\ sink = "api" => committed = {} /\ \A w \in Workers : pc[w] # "ack"
  /\ Unused /\ CommitsWholeBundles

LEMMA NamesDiffer ==
  ASSUME CtrlT, Place, NEW v \in Workers, NEW w \in Workers, pc[v] # "idle", pc[w] # "idle", v # w
  PROVE  Name(v) # Name(w)
<1>1. bundle[v] # bundle[w]  BY DEF Place
<1> QED  BY <1>1 DEF Name

(* A step of an instance touches no stream but its own. *)
OwnStream(w) ==
  \A s \in Streams : s # Name(w) => rows'[s] = rows[s] /\ (s \in committed' <=> s \in committed)

LEMMA OthersStreamed ==
  ASSUME TInv, NEW w \in Workers, Acts(w), pc[w] # "idle", OwnStream(w), unfit' = unfit,
         NEW v \in Workers, v # w, pc[v] # "idle", Streamed(v)
  PROVE  Streamed(v)'
<1>1. Name(v) \in Streams /\ Name(v) # Name(w)  BY AtWork, NamesDiffer DEF TInv
<1>2. rows'[Name(v)] = rows[Name(v)] /\ (Name(v) \in committed' <=> Name(v) \in committed)
  BY <1>1 DEF OwnStream
<1>3. /\ pc'[v] = pc[v] /\ bundle'[v] = bundle[v] /\ next'[v] = next[v] /\ buffer'[v] = buffer[v]
      /\ rejects'[v] = rejects[v] /\ stream'[v] = stream[v] /\ Name(v)' = Name(v)
  BY OthersStep DEF Others
<1>4. Flushed(v)' = Flushed(v)  BY <1>3 DEF Flushed, Passed
<1> QED  BY <1>2, <1>3, <1>4 DEF Streamed

(* The stream of the running attempt is in use. *)
LEMMA UnusedKept ==
  ASSUME TInv, Unused, NEW w \in Workers, pc[w] # "idle", OwnStream(w), tries' = tries
  PROVE  Unused'
<1>0. tries[bundle[w]] \in Nat
  <2>1. tries[bundle[w]] \in 1..MaxAttempts /\ MaxAttempts \in Nat  BY AtWork, Counts DEF TInv
  <2> QED  BY <2>1
<1>1. Name(w)[1] = bundle[w] /\ Name(w)[2] = tries[bundle[w]] /\ tries[bundle[w]] \in Nat
  BY <1>0 DEF Name
<1>2. \A s \in Streams : s[2] > tries[s[1]] => s # Name(w)  BY <1>1
<1> QED  BY <1>2 DEF Unused, OwnStream

LEMMA WholeKept ==
  ASSUME CommitsWholeBundles, committed \subseteq Streams, committed' \subseteq Streams,
         NEW w \in Workers, OwnStream(w), unfit' = unfit,
         Name(w) \in committed' => rows'[Name(w)] = Of(Name(w)[1]) \ unfit
  PROVE  CommitsWholeBundles'
<1>1. ASSUME NEW s \in committed' PROVE rows'[s] = Of(s[1]) \ unfit
  BY <1>1 DEF CommitsWholeBundles, OwnStream
<1> QED  BY <1>1 DEF CommitsWholeBundles, Of

LEMMA BqInvStep == ASSUME TInv, Mine, BufferBounded, BqInv, [Next]_vars PROVE BqInv'
<1>c. sink' = sink /\ unfit' = unfit  BY ConfigConstant
<1>s. committed \subseteq Streams /\ committed' \subseteq Streams
  BY TypesStep DEF TInv, BqT
<1>n. None \notin Streams  BY DEF None, Streams, Bundles
<1>1. ASSUME NEW w \in Workers, Acts(w), pc[w] # "idle" PROVE BqInv'
  <2>t. /\ DOMAIN pc = Workers /\ DOMAIN buffer = Workers /\ DOMAIN rejects = Workers
        /\ DOMAIN stream = Workers /\ DOMAIN next = Workers /\ rows \in [Streams -> SUBSET Records]
        /\ buffer[w] \in SUBSET Records
    BY DEF TInv, CtrlT, BufT, BqT
  <2>a. bundle[w] \in Bundles /\ Name(w) \in Streams  BY <1>1, AtWork DEF TInv
  <2>b. tries' = tries
    BY <1>1, Control DEF Acts, Starts, Moves, Fails, Ends
  <2>q. ASSUME OwnStream(w),
               sink = "bigquery" /\ pc'[w] # "idle" => Streamed(w)',
               sink = "api" => committed' = {} /\ pc'[w] # "ack",
               Name(w) \in committed' => rows'[Name(w)] = Of(bundle[w]) \ unfit
        PROVE  BqInv'
    <3>1. Unused'  BY <1>1, <2>b, <2>q, UnusedKept DEF BqInv
    <3>2. Name(w)[1] = bundle[w]  BY DEF Name
    <3>3. CommitsWholeBundles'  BY <1>c, <1>s, <2>q, <3>2, WholeKept DEF BqInv
    <3>4. ASSUME sink = "bigquery", NEW v \in Workers, pc'[v] # "idle" PROVE Streamed(v)'
      <4>1. CASE v = w  BY <2>q, <3>4, <4>1
      <4>2. CASE v # w
        <5>1. pc[v] # "idle"  BY <1>1, <3>4, <4>2, OthersStep DEF Others
        <5>2. Streamed(v)  BY <3>4, <5>1 DEF BqInv
        <5> QED  BY <1>1, <1>c, <2>q, <4>2, <5>1, <5>2, OthersStreamed
      <4> QED  BY <4>1, <4>2
    <3>5. ASSUME sink = "api" PROVE committed' = {} /\ \A v \in Workers : pc'[v] # "ack"
      BY <1>1, <2>q, <3>5, OthersStep DEF Others, BqInv
    <3> QED  BY <1>c, <3>1, <3>3, <3>4, <3>5 DEF BqInv
  <2>w. ASSUME Name(w) \in committed
        PROVE  rows[Name(w)] = Of(bundle[w]) \ unfit
    BY <2>w DEF BqInv, CommitsWholeBundles, Name
  <2>i. sink = "bigquery" => Streamed(w)  BY <1>1 DEF BqInv
  <2>o. UNCHANGED <<rows, committed>> => OwnStream(w)  BY DEF OwnStream
  <2>1. CASE Crash(w) \/ Ack(w) \/ WriteBatchFails(w) \/ LettersFail(w) \/ AppendFails(w)
    <3>1. pc'[w] = "idle" /\ UNCHANGED <<rows, committed>>
      BY <2>1, <2>t DEF Crash, Ack, WriteBatchFails, LettersFail, AppendFails, FailAttempt, Goto, bigquery
    <3>2. sink = "api" => committed' = {} /\ pc'[w] # "ack"  BY <3>1 DEF BqInv
    <3> QED  BY <2>q, <2>w, <2>o, <3>1, <3>2
  <2>2. CASE FlushWithoutWriter(w) \/ WriteBatch(w) \/ KeepLetters(w)
    <3>1. /\ UNCHANGED <<rows, committed>> /\ pc'[w] # "ack"
          /\ pc[w] = "letters" \/ sink = "api"
      BY <2>2, <2>t DEF FlushWithoutWriter, WriteBatch, KeepLetters, Goto, bigquery
    <3>2. sink # "bigquery"  BY <2>i, <3>1 DEF Streamed
    <3>3. sink = "api" => committed' = {}  BY <3>1 DEF BqInv
    <3> QED  BY <2>q, <2>w, <2>o, <3>1, <3>2, <3>3
  <2>3. CASE ProcessElement(w)
    <3>1. /\ pc[w] = "elements" /\ next[w] <= BundleSize /\ pc'[w] \in {"flush", "elements"}
          /\ buffer'[w] = buffer[w] \cup {<<bundle[w], next[w]>>} /\ next'[w] = next[w] + 1
          /\ UNCHANGED <<bundle, rejects, stream, rows, committed>>
      BY <2>3, <2>t DEF ProcessElement, Goto, bigquery
    <3>2. next[w] \in 1..(BundleSize + 1)  BY DEF TInv, CtrlT
    <3>3. Flushed(w)' = Flushed(w)
      <4>1. /\ Passed(bundle[w], next[w] + 1) = Passed(bundle[w], next[w]) \cup {<<bundle[w], next[w]>>}
            /\ <<bundle[w], next[w]>> \notin Passed(bundle[w], next[w])
        BY <2>a, <3>1, <3>2, PassedFacts
      <4>2. Flushed(w)' = Passed(bundle[w], next[w] + 1) \ (buffer[w] \cup {<<bundle[w], next[w]>>})
        BY <3>1 DEF Flushed, Passed
      <4> QED  BY <4>1, <4>2 DEF Flushed
    <3>4. Name(w)' = Name(w)  BY <2>b, <3>1 DEF Name
    <3>5. sink = "bigquery" => Streamed(w)'
      BY <1>c, <2>i, <3>1, <3>3, <3>4 DEF Streamed
    <3>6. sink = "api" => committed' = {} /\ pc'[w] # "ack"  BY <3>1 DEF BqInv
    <3> QED  BY <2>q, <2>w, <2>o, <3>1, <3>5, <3>6
  <2>4. CASE FinishBundle(w)
    <3>1. /\ pc[w] = "elements" /\ pc'[w] \in {"flush", "finish"}
          /\ UNCHANGED <<bundle, next, buffer, rejects, stream, rows, committed>>
      BY <2>4, <2>t DEF FinishBundle, Goto, bigquery
    <3>2. Flushed(w)' = Flushed(w)  BY <3>1 DEF Flushed, Passed
    <3>3. Name(w)' = Name(w)  BY <2>b, <3>1 DEF Name
    <3>4. sink = "bigquery" => Streamed(w)'
      BY <1>c, <2>i, <3>1, <3>2, <3>3 DEF Streamed
    <3>5. sink = "api" => committed' = {} /\ pc'[w] # "ack"  BY <3>1 DEF BqInv
    <3> QED  BY <2>q, <2>w, <2>o, <3>1, <3>4, <3>5
  <2>5. CASE AppendRecords(w)
    <3>1. /\ pc[w] = "flush" /\ sink = "bigquery" /\ pc'[w] = "elements" /\ buffer'[w] = {}
          /\ stream'[w] = Name(w) /\ rows' = [rows EXCEPT ![Name(w)] = @ \cup (buffer[w] \ unfit)]
          /\ rejects'[w] = rejects[w] \cup (buffer[w] \cap unfit)
          /\ UNCHANGED <<bundle, next, committed>>
      BY <2>5, <2>t DEF AppendRecords, Goto, Empty
    <3>2. OwnStream(w)  BY <2>t, <3>1 DEF OwnStream
    <3>3. Name(w)' = Name(w)  BY <2>b, <3>1 DEF Name
    <3>4. Flushed(w)' = Flushed(w) \cup buffer[w]
      <4>1. buffer[w] \subseteq Passed(bundle[w], next[w])  BY <1>1 DEF Mine, Holds
      <4>2. Flushed(w)' = Passed(bundle[w], next[w])  BY <3>1 DEF Flushed, Passed
      <4> QED  BY <4>1, <4>2 DEF Flushed
    <3>5. rows'[Name(w)] = rows[Name(w)] \cup (buffer[w] \ unfit)  BY <2>a, <2>t, <3>1
    <3>6. Name(w) \notin committed  BY <2>i, <3>1 DEF Streamed
    <3>7. Streamed(w)'
      <4>1. rows[Name(w)] = Flushed(w) \ unfit /\ rejects[w] = Flushed(w) \cap unfit
        BY <2>i, <3>1 DEF Streamed
      <4>2. rows'[Name(w)'] = Flushed(w)' \ unfit' /\ rejects'[w] = Flushed(w)' \cap unfit'
        BY <1>c, <3>1, <3>3, <3>4, <3>5, <4>1
      <4>3. Name(w) # None  BY <1>n, <2>a
      <4> QED  BY <3>1, <3>3, <3>6, <4>2, <4>3 DEF Streamed
    <3> QED  BY <2>q, <3>1, <3>2, <3>6, <3>7
  <2>6. CASE CommitStream(w) \/ CommitFails(w)
    <3>1. /\ pc[w] = "finish" /\ sink = "bigquery" /\ stream[w] # None
          /\ committed' \in {committed, committed \cup {stream[w]}}
          /\ UNCHANGED <<rows, stream, rejects, buffer, next>>
      BY <2>6 DEF CommitStream, CommitFails, FailAttempt
    <3>2. stream[w] = Name(w)  BY <2>i, <3>1 DEF Streamed
    <3>3. OwnStream(w)  BY <3>1, <3>2 DEF OwnStream
    <3>4. rows[Name(w)] = Of(bundle[w]) \ unfit
      <4>1. buffer[w] = {}  BY <3>1 DEF BufferBounded
      <4>2. next[w] = BundleSize + 1  BY <1>1, <3>1 DEF Mine, Holds
      <4>3. 1 \in 1..(BundleSize + 1)  BY Counts
      <4>4. Passed(bundle[w], BundleSize + 1) = Of(bundle[w])  BY <2>a, <4>3, PassedFacts
      <4>5. Flushed(w) = Of(bundle[w])  BY <4>1, <4>2, <4>4 DEF Flushed
      <4> QED  BY <2>i, <3>1, <4>5 DEF Streamed
    <3>5. CASE CommitFails(w)
      <4>1. pc'[w] = "idle"  BY <2>t, <3>5 DEF CommitFails, FailAttempt, Goto
      <4> QED  BY <2>q, <3>1, <3>3, <3>4, <4>1
    <3>6. CASE CommitStream(w)
      <4>1. pc'[w] = "ack" /\ bundle' = bundle /\ committed' = committed \cup {stream[w]}
        BY <2>t, <3>6 DEF CommitStream, Goto
      <4>2. Name(w)' = Name(w)  BY <2>b, <4>1 DEF Name
      <4>3. Flushed(w)' = Flushed(w)  BY <3>1, <4>1 DEF Flushed, Passed
      <4>4. Streamed(w)'  BY <1>c, <2>i, <3>1, <3>2, <4>1, <4>2, <4>3 DEF Streamed
      <4> QED  BY <2>q, <3>1, <3>3, <3>4, <4>4
    <3> QED  BY <2>6, <3>5, <3>6
  <2>7. ~StartBundle(w)  BY <1>1 DEF StartBundle
  <2> QED  BY <1>1, <2>1, <2>2, <2>3, <2>4, <2>5, <2>6, <2>7 DEF Acts
<1>2. ASSUME NEW w \in Workers, StartBundle(w) PROVE BqInv'
  <2>1. PICK b \in Bundles : Starts(w, b)  BY <1>2, Control
  <2>2. /\ UNCHANGED <<rows, committed>> /\ stream'[w] = None /\ rejects'[w] = {} /\ buffer'[w] = {}
    BY <1>2 DEF StartBundle, Empty, TInv, BufT, BqT
  <2>3. /\ bundle'[w] = b /\ next'[w] = 1 /\ pc'[w] = "elements" /\ tries' = [tries EXCEPT ![b] = @ + 1]
        /\ tries \in [Bundles -> 0..MaxAttempts]
    BY <2>1 DEF Starts, TInv, CtrlT
  <2>4. tries'[b] = tries[b] + 1 /\ tries[b] \in Nat /\ \A a \in Bundles \ {b} : tries'[a] = tries[a]
    BY Counts, <2>3
  <2>5. Unused'
    <3> SUFFICES ASSUME NEW s \in Streams, s[2] > tries'[s[1]] PROVE s[2] > tries[s[1]]
      BY <2>2 DEF Unused, BqInv
    <3>1. s[1] \in Bundles /\ s[2] \in Nat  BY Counts DEF Streams
    <3> QED  BY <2>4, <3>1
  <2>6. CommitsWholeBundles'  BY <1>c, <2>2 DEF BqInv, CommitsWholeBundles, Of
  <2>7. ASSUME sink = "bigquery", NEW v \in Workers, pc'[v] # "idle" PROVE Streamed(v)'
    <3>1. CASE v = w
      <4>1. Name(w)' = <<b, tries[b] + 1>>  BY <2>3, <2>4 DEF Name
      <4>2. <<b, tries[b] + 1>> \in Streams
        <5>1. tries[b] < MaxAttempts  BY <2>1 DEF Starts
        <5>2. tries[b] + 1 \in 1..MaxAttempts  BY <2>4, <5>1, Counts
        <5> QED  BY <5>2 DEF Streams
      <4>3. rows[<<b, tries[b] + 1>>] = {} /\ <<b, tries[b] + 1>> \notin committed
        <5>1. tries[b] + 1 > tries[b]  BY <2>4
        <5> QED  BY <4>2, <5>1 DEF BqInv, Unused
      <4>4. Flushed(w)' = {}
        <5>1. 1 \in 1..(BundleSize + 1)  BY Counts
        <5>2. Passed(b, 1) = {}  BY <5>1, PassedFacts
        <5>3. Flushed(w)' = Passed(b, 1) \ {}  BY <2>2, <2>3 DEF Flushed, Passed
        <5> QED  BY <5>2, <5>3
      <4>5. rows'[Name(w)'] = {} /\ Name(w)' \notin committed'  BY <2>2, <4>1, <4>3
      <4>6. Streamed(w)'
        BY <2>2, <2>3, <4>4, <4>5 DEF Streamed
      <4> QED  BY <3>1, <4>6
    <3>2. CASE v # w
      <4>1. /\ pc'[v] = pc[v] /\ bundle'[v] = bundle[v] /\ next'[v] = next[v] /\ buffer'[v] = buffer[v]
            /\ rejects'[v] = rejects[v] /\ stream'[v] = stream[v] /\ (pc[v] # "idle" => Name(v)' = Name(v))
        BY <1>2, <3>2, OthersStep DEF Others, Acts
      <4>2. Streamed(v) /\ Name(v)' = Name(v)  BY <2>7, <4>1 DEF BqInv
      <4>3. Flushed(v)' = Flushed(v)  BY <4>1 DEF Flushed, Passed
      <4> QED  BY <1>c, <2>2, <4>1, <4>2, <4>3 DEF Streamed
    <3> QED  BY <3>1, <3>2
  <2>8. sink = "api" => committed' = {} /\ \A v \in Workers : pc'[v] # "ack"
    BY <1>2, <2>2, <2>3, OthersStep DEF Others, Acts, BqInv
  <2> QED  BY <1>c, <2>5, <2>6, <2>7, <2>8 DEF BqInv
<1>3. ASSUME UNCHANGED vars PROVE BqInv'
  <2>1. \A v \in Workers : Streamed(v) => Streamed(v)'
    BY <1>3 DEF vars, Streamed, Flushed, Passed, Name
  <2> QED  BY <1>3, <2>1 DEF vars, BqInv, Unused, CommitsWholeBundles, Of
<1>4. \A w \in Workers : Acts(w) /\ pc[w] = "idle" => StartBundle(w)
  BY DEF Acts, ProcessElement, FinishBundle, Crash, Ack, FlushWithoutWriter, WriteBatch, WriteBatchFails,
         KeepLetters, LettersFail, CommitStream, CommitFails, AppendRecords, AppendFails
<1> QED  BY <1>1, <1>2, <1>3, <1>4, StepOf

-----------------------------------------------------------------------------
(* How often the service takes a record. *)

(* Whether the attempt of an instance, with pc, next and buffer p, n and   *)
(* B, may have delivered the record at position i.                         *)
Taken(p, n, B, r) ==
  \/ sink = "api" /\ r[2] < n /\ (r \notin B \/ p = "letters")
  \/ sink = "bigquery" /\ p = "ack"

(* The most that n attempts of its bundle may deliver a record. *)
Share(n) == n * Sends

LEMMA Shares ==
  /\ Sends \in Nat \ {0}
  /\ \A n \in Nat : Share(n) \in Nat /\ Share(n + 1) = Share(n) + Sends
<1>1. Sends \in Nat \ {0}  BY CountAssumption DEF Sends
<1> QED  BY <1>1 DEF Share

(* Besides DuplicatesOnlyByRetries: a record the running attempt has not    *)
(* delivered, or of a bundle nobody works on, was delivered by failed      *)
(* attempts only.                                                          *)
DupInv ==
  \A b \in Bundles : \A r \in Of(b) :
    /\ delivered[r] <= Share(faults[b] + 1)
    /\ b \notin acked /\ (\A w \in Workers : bundle[w] # b) => delivered[r] <= Share(faults[b])
    /\ \A w \in Workers : bundle[w] = b /\ ~Taken(pc[w], next[w], buffer[w], r) => delivered[r] <= Share(faults[b])

LEMMA DupStep ==
  ASSUME TInv, Mine, BufferBounded, BqInv, DupInv, [Next]_vars PROVE DupInv'
<1>c. sink' = sink  BY ConfigConstant
<1>t. /\ delivered \in [Records -> Nat] /\ faults \in [Bundles -> Nat]
      /\ bundle \in [Workers -> 0..NumBundles] /\ 0 \notin Bundles
  BY DEF TInv, OutT, CtrlT, Bundles
<1>s. /\ Sends \in Nat \ {0}
      /\ \A n \in Nat : Share(n) \in Nat /\ Share(n + 1) = Share(n) + Sends
  BY Shares
<1>of. \A b \in Bundles : \A r \in Of(b) : r \in Records /\ r[1] = b  BY DEF Of
<1>0. ASSUME NEW w \in Workers, Acts(w), NEW b \in Bundles, b # bundle[w], b # bundle'[w], NEW r \in Of(b),
             delivered'[r] = delivered[r], faults'[b] = faults[b], b \in acked' <=> b \in acked
      PROVE  /\ delivered'[r] <= Share(faults'[b] + 1)
             /\ b \notin acked' /\ (\A v \in Workers : bundle'[v] # b) => delivered'[r] <= Share(faults'[b])
             /\ \A v \in Workers : bundle'[v] = b /\ ~Taken(pc'[v], next'[v], buffer'[v], r)
                                     => delivered'[r] <= Share(faults'[b])
  <2>1. \A v \in Workers : v # w => /\ bundle'[v] = bundle[v] /\ pc'[v] = pc[v] /\ next'[v] = next[v]
                                    /\ buffer'[v] = buffer[v]
    BY <1>0, OthersStep DEF Others
  <2>2. \A v \in Workers : bundle'[v] = b <=> bundle[v] = b  BY <1>0, <2>1
  <2>3. \A v \in Workers : bundle'[v] = b => v # w  BY <1>0
  <2>4. /\ delivered[r] <= Share(faults[b] + 1)
        /\ b \notin acked /\ (\A v \in Workers : bundle[v] # b) => delivered[r] <= Share(faults[b])
        /\ \A v \in Workers : bundle[v] = b /\ ~Taken(pc[v], next[v], buffer[v], r)
                                => delivered[r] <= Share(faults[b])
    BY DEF DupInv
  <2>5. ASSUME NEW v \in Workers, bundle'[v] = b, ~Taken(pc'[v], next'[v], buffer'[v], r)
        PROVE  delivered[r] <= Share(faults[b])
    BY <2>1, <2>3, <2>4, <2>5
  <2> QED  BY <1>0, <2>2, <2>4, <2>5
(* the bundle of the instance *)
<1>1. ASSUME NEW w \in Workers, Acts(w), pc[w] # "idle", NEW b, b = bundle[w], NEW r \in Of(b),
             \A v \in Workers \ {w} : bundle'[v] # b,
             \/ /\ bundle'[w] = b /\ faults'[b] = faults[b]
                /\ \/ delivered'[r] = delivered[r] /\ (Taken(pc[w], next[w], buffer[w], r)
                                                        => Taken(pc'[w], next'[w], buffer'[w], r))
                   \/ /\ delivered'[r] \in delivered[r]..(delivered[r] + Sends)
                      /\ ~Taken(pc[w], next[w], buffer[w], r) /\ Taken(pc'[w], next'[w], buffer'[w], r)
             \/ /\ bundle'[w] = NoBundle /\ faults'[b] = faults[b] + 1
                /\ \/ delivered'[r] = delivered[r]
                   \/ delivered'[r] \in delivered[r]..(delivered[r] + Sends) /\ ~Taken(pc[w], next[w], buffer[w], r)
             \/ bundle'[w] = NoBundle /\ faults'[b] = faults[b] /\ delivered'[r] = delivered[r] /\ b \in acked'
      PROVE  /\ delivered'[r] <= Share(faults'[b] + 1)
             /\ b \notin acked' /\ (\A v \in Workers : bundle'[v] # b) => delivered'[r] <= Share(faults'[b])
             /\ \A v \in Workers : bundle'[v] = b /\ ~Taken(pc'[v], next'[v], buffer'[v], r)
                                     => delivered'[r] <= Share(faults'[b])
  <2>b. b \in Bundles  BY <1>1, AtWork DEF TInv
  <2>n. /\ delivered[r] \in Nat /\ faults[b] \in Nat /\ Sends \in Nat /\ Share(faults[b]) \in Nat
        /\ Share(faults[b] + 1) = Share(faults[b]) + Sends
        /\ Share(faults[b] + 1 + 1) = Share(faults[b]) + Sends + Sends
    BY <1>t, <1>s, <1>of, <2>b
  <2>i. /\ delivered[r] <= Share(faults[b] + 1)
        /\ ~Taken(pc[w], next[w], buffer[w], r) => delivered[r] <= Share(faults[b])
    BY <1>1, <2>b DEF DupInv
  <2>v. \A v \in Workers : bundle'[v] = b => v = w  BY <1>1
  <2>z. b # NoBundle  BY <1>t, <2>b DEF NoBundle
  <2>1. CASE /\ bundle'[w] = b /\ faults'[b] = faults[b] /\ delivered'[r] = delivered[r]
             /\ Taken(pc[w], next[w], buffer[w], r) => Taken(pc'[w], next'[w], buffer'[w], r)
    BY <2>1, <2>n, <2>i, <2>v
  <2>2. CASE /\ bundle'[w] = b /\ faults'[b] = faults[b] /\ delivered'[r] \in delivered[r]..(delivered[r] + Sends)
             /\ ~Taken(pc[w], next[w], buffer[w], r) /\ Taken(pc'[w], next'[w], buffer'[w], r)
    <3>1. delivered'[r] <= Share(faults[b] + 1)  BY <2>2, <2>n, <2>i
    <3> QED  BY <2>2, <2>v, <3>1
  <2>3. CASE /\ bundle'[w] = NoBundle /\ faults'[b] = faults[b] + 1
             /\ \/ delivered'[r] = delivered[r]
                \/ delivered'[r] \in delivered[r]..(delivered[r] + Sends) /\ ~Taken(pc[w], next[w], buffer[w], r)
    <3>1. delivered'[r] <= Share(faults[b] + 1) /\ delivered'[r] <= Share(faults[b] + 1 + 1)  BY <2>3, <2>n, <2>i
    <3> QED  BY <2>3, <2>v, <2>z, <3>1
  <2>4. CASE bundle'[w] = NoBundle /\ faults'[b] = faults[b] /\ delivered'[r] = delivered[r] /\ b \in acked'
    BY <2>4, <2>i, <2>v, <2>z
  <2> QED  BY <1>1, <2>1, <2>2, <2>3, <2>4
(* records of other bundles *)
<1>2. ASSUME NEW w \in Workers, Acts(w), pc[w] # "idle", NEW r \in Records, r[1] # bundle[w]
      PROVE  delivered'[r] = delivered[r]
  <2>1. r \notin buffer[w]  BY <1>2 DEF Mine, Holds, Passed
  <2>2. CommitStream(w) \/ CommitFails(w) => r \notin rows[stream[w]]
    <3> SUFFICES ASSUME CommitStream(w) \/ CommitFails(w) PROVE r \notin rows[stream[w]]  OBVIOUS
    <3>1. sink = "bigquery" /\ stream[w] # None  BY DEF CommitStream, CommitFails
    <3>2. rows[stream[w]] = Flushed(w) \ unfit  BY <1>2, <3>1 DEF BqInv, Streamed
    <3> QED  BY <1>2, <3>2 DEF Flushed, Passed
  <2>3. WriteBatch(w) => delivered'[r] = delivered[r]
    <3>1. \A n \in 0..Sends : Took(w, n)[r] = delivered[r]  BY <2>1 DEF Took
    <3> QED  BY <3>1, Delivery
  <2>4. CommitStream(w) \/ CommitFails(w) => delivered'[r] = delivered[r]
    <3>1. r \notin rows[stream[w]] => Shown(w)[r] = delivered[r]  BY DEF Shown
    <3> QED  BY <2>2, <3>1, Delivery
  <2> QED  BY <1>2, <2>3, <2>4, Delivery DEF Acts
<1>3. ASSUME NEW w \in Workers, Acts(w), pc[w] # "idle" PROVE DupInv'
  <2>k. (Moves(w) \/ Fails(w) \/ Ends(w)) /\ ~StartBundle(w)
    BY <1>3, Control DEF Acts, StartBundle
  <2>a. bundle[w] \in Bundles  BY <1>3, AtWork DEF TInv
  <2>d. DOMAIN pc = Workers /\ DOMAIN buffer = Workers /\ DOMAIN next = Workers
    BY DEF TInv, CtrlT, BufT
  <2>o. \A v \in Workers \ {w} : bundle'[v] # bundle[w]
    BY <1>3, <1>t, <2>a, OthersStep DEF Others, TInv, Place, NoBundle
  <2>1. ASSUME NEW b \in Bundles, b # bundle[w], NEW r \in Of(b)
        PROVE  /\ delivered'[r] <= Share(faults'[b] + 1)
               /\ b \notin acked' /\ (\A v \in Workers : bundle'[v] # b) => delivered'[r] <= Share(faults'[b])
               /\ \A v \in Workers : bundle'[v] = b /\ ~Taken(pc'[v], next'[v], buffer'[v], r)
                                       => delivered'[r] <= Share(faults'[b])
    <3>1. delivered'[r] = delivered[r]  BY <1>2, <1>3, <1>of, <2>1
    <3>2. faults'[b] = faults[b] /\ (b \in acked' <=> b \in acked)
      BY <1>t, <2>1, <2>k DEF Moves, Fails, Ends
    <3>3. b # bundle'[w]  BY <1>t, <2>1, <2>k DEF Moves, Fails, Ends, NoBundle
    <3> QED  BY <1>0, <1>3, <2>1, <3>1, <3>2, <3>3
  <2>2. ASSUME NEW r \in Of(bundle[w])
        PROVE  /\ delivered'[r] <= Share(faults'[bundle[w]] + 1)
               /\ bundle[w] \notin acked' /\ (\A v \in Workers : bundle'[v] # bundle[w])
                    => delivered'[r] <= Share(faults'[bundle[w]])
               /\ \A v \in Workers : bundle'[v] = bundle[w] /\ ~Taken(pc'[v], next'[v], buffer'[v], r)
                                       => delivered'[r] <= Share(faults'[bundle[w]])
    <3>r. r \in Records /\ r[1] = bundle[w] /\ r[2] \in Nat /\ next[w] \in Nat /\ delivered[r] \in Nat
      <4>1. r \in Records /\ r[1] = bundle[w]  BY <1>of, <2>a, <2>2
      <4>2. r[2] \in Nat  BY <4>1, Counts DEF Records, Indices
      <4>3. next[w] \in Nat  BY Counts DEF TInv, CtrlT
      <4> QED  BY <1>t, <4>1, <4>2, <4>3
    <3>1. CASE /\ bundle'[w] = bundle[w] /\ faults'[bundle[w]] = faults[bundle[w]]
               /\ \/ delivered'[r] = delivered[r] /\ (Taken(pc[w], next[w], buffer[w], r)
                                                       => Taken(pc'[w], next'[w], buffer'[w], r))
                  \/ /\ delivered'[r] \in delivered[r]..(delivered[r] + Sends)
                     /\ ~Taken(pc[w], next[w], buffer[w], r) /\ Taken(pc'[w], next'[w], buffer'[w], r)
      <4> QED  BY <1>1, <1>3, <2>o, <2>2, <3>1
    <3>2. CASE /\ bundle'[w] = NoBundle /\ faults'[bundle[w]] = faults[bundle[w]] + 1
               /\ \/ delivered'[r] = delivered[r]
                  \/ delivered'[r] \in delivered[r]..(delivered[r] + Sends) /\ ~Taken(pc[w], next[w], buffer[w], r)
      <4> QED  BY <1>1, <1>3, <2>o, <2>2, <3>2
    <3>3. CASE /\ bundle'[w] = NoBundle /\ faults'[bundle[w]] = faults[bundle[w]]
               /\ delivered'[r] = delivered[r] /\ bundle[w] \in acked'
      <4> QED  BY <1>1, <1>3, <2>o, <2>2, <3>3
    <3>m. Moves(w) => bundle'[w] = bundle[w] /\ faults'[bundle[w]] = faults[bundle[w]]
      BY DEF Moves
    <3>f. Fails(w) => bundle'[w] = NoBundle /\ faults'[bundle[w]] = faults[bundle[w]] + 1
      BY <1>t, <2>a DEF Fails
    <3>4. CASE ProcessElement(w)
      <4>1. /\ Moves(w) /\ delivered' = delivered /\ pc[w] = "elements" /\ pc'[w] # "letters"
            /\ buffer'[w] = buffer[w] \cup {<<bundle[w], next[w]>>} /\ next'[w] = next[w] + 1
            /\ pc'[w] # "ack"
        BY <2>d, <3>4, Control, Delivery DEF ProcessElement, Goto
      <4>2. Taken(pc[w], next[w], buffer[w], r) => Taken(pc'[w], next'[w], buffer'[w], r)
        <5>1. r[2] < next[w] => r[2] < next[w] + 1 /\ r # <<bundle[w], next[w]>>  BY <3>r
        <5> QED  BY <4>1, <5>1 DEF Taken
      <4> QED  BY <3>1, <3>m, <4>1, <4>2
    <3>5. CASE FinishBundle(w)
      <4>1. /\ Moves(w) /\ delivered' = delivered /\ pc[w] = "elements"
            /\ UNCHANGED <<next, buffer>>
        BY <3>5, Control, Delivery DEF FinishBundle
      <4>2. Taken(pc[w], next[w], buffer[w], r) => Taken(pc'[w], next'[w], buffer'[w], r)
        BY <4>1 DEF Taken
      <4> QED  BY <3>1, <3>m, <4>1, <4>2
    <3>6. CASE FlushWithoutWriter(w) \/ KeepLetters(w) \/ AppendRecords(w)
      <4>1. /\ Moves(w) /\ delivered' = delivered /\ pc[w] \in {"flush", "letters"}
            /\ next' = next /\ buffer'[w] = {}
        BY <2>d, <3>6, Control, Delivery DEF FlushWithoutWriter, KeepLetters, AppendRecords, Empty
      <4>2. Taken(pc[w], next[w], buffer[w], r) => Taken(pc'[w], next'[w], buffer'[w], r)
        BY <4>1 DEF Taken
      <4> QED  BY <3>1, <3>m, <4>1, <4>2
    <3>7. CASE WriteBatch(w)
      <4>n. PICK n \in 0..Sends : delivered' = Took(w, n)  BY <3>7, Delivery
      <4>1. /\ Moves(w) /\ pc[w] = "flush" /\ pc'[w] = "letters"
            /\ UNCHANGED <<next, buffer>> /\ sink = "api"
        BY <2>d, <3>7, Control, Delivery DEF WriteBatch, Goto
      <4>2. Taken(pc[w], next[w], buffer[w], r) => Taken(pc'[w], next'[w], buffer'[w], r)
        BY <4>1 DEF Taken
      <4>3. \/ delivered'[r] = delivered[r]
            \/ r \in buffer[w] /\ delivered'[r] \in delivered[r]..(delivered[r] + Sends)
        BY <1>s, <3>r, <4>n DEF Took
      <4>4. r \in buffer[w] => ~Taken(pc[w], next[w], buffer[w], r) /\ Taken(pc'[w], next'[w], buffer'[w], r)
        <5>1. r \in buffer[w] => r[2] < next[w]  BY <1>3 DEF Mine, Holds, Passed
        <5> QED  BY <4>1, <5>1 DEF Taken
      <4> QED  BY <3>1, <3>m, <4>1, <4>2, <4>3, <4>4
    <3>8. CASE CommitStream(w)
      <4>1. /\ Moves(w) /\ delivered' = Shown(w) /\ pc[w] = "finish" /\ pc'[w] = "ack"
            /\ sink = "bigquery"
        BY <2>d, <3>8, Control, Delivery DEF CommitStream, Goto
      <4>2. ~Taken(pc[w], next[w], buffer[w], r) /\ Taken(pc'[w], next'[w], buffer'[w], r)
        BY <4>1 DEF Taken
      <4>3. delivered'[r] \in delivered[r]..(delivered[r] + Sends)
        BY <1>s, <3>r, <4>1 DEF Shown
      <4> QED  BY <3>1, <3>m, <4>1, <4>2, <4>3
    <3>9. CASE CommitFails(w)
      <4>1. /\ Fails(w) /\ delivered' \in {delivered, Shown(w)} /\ pc[w] = "finish" /\ sink = "bigquery"
        BY <3>9, Control, Delivery DEF CommitFails
      <4>2. ~Taken(pc[w], next[w], buffer[w], r)  BY <4>1 DEF Taken
      <4>3. delivered'[r] \in delivered[r]..(delivered[r] + Sends)
        BY <1>s, <3>r, <4>1 DEF Shown
      <4> QED  BY <3>2, <3>f, <4>1, <4>2, <4>3
    <3>10. CASE Crash(w) \/ WriteBatchFails(w) \/ LettersFail(w) \/ AppendFails(w)
      <4>1. Fails(w) /\ delivered' = delivered  BY <3>10, Control, Delivery
      <4> QED  BY <3>2, <3>f, <4>1
    <3>11. CASE Ack(w)
      <4>1. Ends(w) /\ delivered' = delivered  BY <3>11, Control, Delivery
      <4>2. bundle'[w] = NoBundle /\ faults' = faults /\ bundle[w] \in acked'  BY <1>t, <4>1 DEF Ends
      <4> QED  BY <3>3, <4>1, <4>2
    <3> QED  BY <1>3, <2>k, <3>4, <3>5, <3>6, <3>7, <3>8, <3>9, <3>10, <3>11 DEF Acts
  <2> QED  BY <1>c, <2>1, <2>2 DEF DupInv, Of, Taken, Share, Sends
<1>4. ASSUME NEW w \in Workers, StartBundle(w) PROVE DupInv'
  <2>1. PICK a \in Bundles : Starts(w, a)  BY <1>4, Control
  <2>2. delivered' = delivered /\ Acts(w)  BY <1>4, Delivery DEF Acts
  <2>3. /\ faults' = faults /\ acked' = acked /\ bundle'[w] = a /\ bundle[w] = NoBundle
        /\ a \notin acked /\ \A v \in Workers : bundle[v] # a
    BY <1>t, <2>1 DEF Starts, TInv, Place
  <2>4. \A r \in Of(a) : delivered[r] <= Share(faults[a]) /\ delivered[r] <= Share(faults[a] + 1)
    BY <2>3 DEF DupInv
  <2>5. ASSUME NEW b \in Bundles, b # a, NEW r \in Of(b)
        PROVE  /\ delivered'[r] <= Share(faults'[b] + 1)
               /\ b \notin acked' /\ (\A v \in Workers : bundle'[v] # b) => delivered'[r] <= Share(faults'[b])
               /\ \A v \in Workers : bundle'[v] = b /\ ~Taken(pc'[v], next'[v], buffer'[v], r)
                                       => delivered'[r] <= Share(faults'[b])
    <3>1. b # bundle[w] /\ b # bundle'[w]  BY <1>t, <2>3, <2>5 DEF NoBundle
    <3> QED  BY <1>0, <2>2, <2>3, <2>5, <3>1
  <2> QED  BY <1>c, <2>2, <2>3, <2>4, <2>5 DEF DupInv, Of, Taken, Share, Sends
<1>5. ASSUME UNCHANGED vars PROVE DupInv'
  BY <1>5 DEF vars, DupInv, Of, Taken, Share, Sends
<1>6. \A w \in Workers : Acts(w) /\ pc[w] = "idle" => StartBundle(w)
  BY DEF Acts, ProcessElement, FinishBundle, Crash, Ack, FlushWithoutWriter, WriteBatch, WriteBatchFails,
         KeepLetters, LettersFail, CommitStream, CommitFails, AppendRecords, AppendFails
<1> QED  BY <1>3, <1>4, <1>5, <1>6, StepOf

-----------------------------------------------------------------------------
(* Where the records of a bundle are. *)

Kept(r) == delivered[r] > 0 \/ r \in letters \/ r \in dropped

(* The API sink keeps track batch by batch; the BigQuery sink's rows count *)
(* as taken from the commit on.                                            *)
Accounted(w) ==
  /\ sink = "api" => \A r \in Flushed(w) : Kept(r)
  /\ pc[w] = "letters" => \A r \in buffer[w] : delivered[r] > 0 \/ r \in rejects[w]
  /\ sink = "bigquery" /\ pc[w] = "ack" => \A r \in rows[Name(w)] : delivered[r] > 0

AccountInv ==
  /\ \A w \in Workers : pc[w] # "idle" => Accounted(w)
  /\ \A b \in acked : \A r \in Of(b) : Kept(r)
  /\ dropped # {} => ~writer \/ ~dlq
  /\ sink = "bigquery" => writer /\ dlq

(* No step takes anything back. *)
LEMMA NothingLost ==
  ASSUME TInv, [Next]_vars
  PROVE  /\ \A r \in Records : delivered[r] > 0 => delivered'[r] > 0
         /\ \A r \in Records : Kept(r) => Kept(r)'
<1>t. delivered \in [Records -> Nat]  BY DEF TInv, OutT
<1>1. \A w \in Workers : \A r \in Records :
        delivered[r] > 0 => Shown(w)[r] > 0 /\ \A n \in 0..Sends : Took(w, n)[r] > 0
  BY <1>t, Shares DEF Took, Shown
<1>2. \A r \in Records : delivered[r] > 0 => delivered'[r] > 0
  BY <1>1, Delivery DEF Next, vars
<1>3. letters \subseteq letters' /\ dropped \subseteq dropped'
  <2>1. ASSUME NEW w \in Workers, FlushWithoutWriter(w) \/ KeepLetters(w) \/ Ack(w)
        PROVE  letters \subseteq letters' /\ dropped \subseteq dropped'
    BY <2>1 DEF FlushWithoutWriter, KeepLetters, Ack
  <2>2. ASSUME NEW w \in Workers,
               StartBundle(w) \/ ProcessElement(w) \/ FinishBundle(w) \/ Crash(w) \/ WriteBatch(w)
               \/ WriteBatchFails(w) \/ LettersFail(w) \/ AppendRecords(w) \/ AppendFails(w)
               \/ CommitStream(w) \/ CommitFails(w)
        PROVE  UNCHANGED <<letters, dropped>>
    BY <2>2 DEF StartBundle, ProcessElement, FinishBundle, Crash, WriteBatch, WriteBatchFails, LettersFail,
                AppendRecords, AppendFails, CommitStream, CommitFails, FailAttempt
  <2>3. UNCHANGED vars => UNCHANGED <<letters, dropped>>  BY DEF vars
  <2> QED  BY <2>1, <2>2, <2>3 DEF Next
<1> QED  BY <1>2, <1>3 DEF Kept

LEMMA AccountStep ==
  ASSUME TInv, Mine, BufferBounded, BqInv, AccountInv, [Next]_vars PROVE AccountInv'
<1>c. sink' = sink /\ writer' = writer /\ dlq' = dlq /\ unfit' = unfit  BY ConfigConstant
<1>k. \A r \in Records : Kept(r) => Kept(r)'  BY NothingLost
<1>p. \A r \in Records : delivered[r] > 0 => delivered'[r] > 0  BY NothingLost
<1>t. /\ buffer \in [Workers -> SUBSET Records] /\ rejects \in [Workers -> SUBSET Records]
      /\ rows \in [Streams -> SUBSET Records] /\ DOMAIN pc = Workers /\ DOMAIN next = Workers
      /\ delivered \in [Records -> Nat]
  BY DEF TInv, BufT, BqT, CtrlT, OutT
<1>r. \A v \in Workers : Flushed(v) \subseteq Records  BY DEF Flushed, Passed
(* what went over the counter without a writer, or without dead letters *)
<1>d. (dropped # {} => ~writer \/ ~dlq)' /\ (sink = "bigquery" => writer /\ dlq)'
  <2>1. ASSUME NEW w \in Workers, Acts(w) PROVE dropped' = dropped \/ ~writer \/ ~dlq
    BY <2>1 DEF Acts, StartBundle, ProcessElement, FinishBundle, Crash, Ack, FlushWithoutWriter, WriteBatch,
                WriteBatchFails, KeepLetters, LettersFail, CommitStream, CommitFails, FailAttempt,
                AppendRecords, AppendFails
  <2>2. UNCHANGED vars => dropped' = dropped  BY DEF vars
  <2>3. dropped' = dropped \/ ~writer \/ ~dlq  BY <2>1, <2>2, StepOf
  <2> QED  BY <1>c, <2>3 DEF AccountInv
(* a step that leaves the instance where it is *)
<1>o. ASSUME NEW w \in Workers, Acts(w), NEW v \in Workers, v # w, pc'[v] # "idle" PROVE Accounted(v)'
  <2>1. /\ pc'[v] = pc[v] /\ bundle'[v] = bundle[v] /\ next'[v] = next[v] /\ buffer'[v] = buffer[v]
        /\ rejects'[v] = rejects[v] /\ (pc[v] # "idle" => Name(v)' = Name(v))
    BY <1>o, OthersStep DEF Others
  <2>2. pc[v] # "idle" /\ Accounted(v) /\ Name(v) \in Streams /\ Name(v)' = Name(v)
    BY <1>o, <2>1, AtWork DEF AccountInv, TInv
  <2>3. Flushed(v)' = Flushed(v)  BY <2>1 DEF Flushed, Passed
  <2>4. (sink = "bigquery" /\ pc[v] = "ack" => \A r \in rows[Name(v)] : delivered[r] > 0)'
    <3> SUFFICES ASSUME sink = "bigquery", pc[v] = "ack" PROVE \A r \in rows'[Name(v)] : delivered'[r] > 0
      BY <1>c, <2>1, <2>2
    <3>1. Streamed(v)  BY <2>2 DEF BqInv
    <3>2. Streamed(v)'  BY <2>1, <2>2, <1>c, BqInvStep DEF BqInv
    <3>3. rows'[Name(v)] = rows[Name(v)]
      BY <1>c, <2>2, <2>3, <3>1, <3>2 DEF Streamed
    <3>4. rows[Name(v)] \subseteq Records  BY <1>t, <2>2
    <3> QED  BY <1>p, <2>2, <3>3, <3>4 DEF Accounted
  <2>5. (sink = "api" => \A r \in Flushed(v) : Kept(r))'
    BY <1>c, <1>k, <1>r, <2>2, <2>3 DEF Accounted
  <2>6. (pc[v] = "letters" => \A r \in buffer[v] : delivered[r] > 0 \/ r \in rejects[v])'
    BY <1>t, <1>p, <2>1, <2>2 DEF Accounted
  <2> QED  BY <2>4, <2>5, <2>6 DEF Accounted
(* the instance that moves *)
<1>m. ASSUME NEW w \in Workers, Acts(w), pc'[w] # "idle" PROVE Accounted(w)'
  <2>1. CASE StartBundle(w)
    <3>1. PICK b \in Bundles : Starts(w, b)  BY <2>1, Control
    <3>2. /\ bundle'[w] = b /\ next'[w] = 1 /\ pc'[w] = "elements"
      BY <3>1 DEF Starts, TInv, CtrlT
    <3>3. Flushed(w)' = {}
      <4>1. 1 \in 1..(BundleSize + 1)  BY Counts
      <4>2. Passed(b, 1) = {}  BY <4>1, PassedFacts
      <4> QED  BY <3>2, <4>2 DEF Flushed, Passed
    <3> QED  BY <3>2, <3>3 DEF Accounted
  <2>2. CASE ~StartBundle(w)
    <3>0. pc[w] # "idle"
      BY <1>m, <2>2 DEF Acts, ProcessElement, FinishBundle, Crash, Ack, FlushWithoutWriter, WriteBatch,
           WriteBatchFails, KeepLetters, LettersFail, CommitStream, CommitFails, AppendRecords, AppendFails
    <3>a. bundle[w] \in Bundles /\ Accounted(w) /\ buffer[w] \subseteq Passed(bundle[w], next[w])
      BY <3>0, AtWork DEF TInv, AccountInv, Mine, Holds
    <3>n. next[w] \in 1..(BundleSize + 1)  BY DEF TInv, CtrlT
    <3>1. CASE ProcessElement(w)
      <4>1. /\ next[w] <= BundleSize /\ pc'[w] \in {"flush", "elements"} /\ bundle' = bundle
            /\ buffer'[w] = buffer[w] \cup {<<bundle[w], next[w]>>} /\ next'[w] = next[w] + 1
        BY <1>t, <3>1 DEF ProcessElement, Goto
      <4>2. /\ Passed(bundle[w], next[w] + 1) = Passed(bundle[w], next[w]) \cup {<<bundle[w], next[w]>>}
            /\ <<bundle[w], next[w]>> \notin Passed(bundle[w], next[w])
        BY <3>a, <3>n, <4>1, PassedFacts
      <4>3. Flushed(w)' = Passed(bundle[w], next[w] + 1) \ (buffer[w] \cup {<<bundle[w], next[w]>>})
        BY <4>1 DEF Flushed, Passed
      <4>4. Flushed(w)' = Flushed(w)  BY <4>2, <4>3 DEF Flushed
      <4>5. (sink = "api" => \A r \in Flushed(w) : Kept(r))'
        BY <1>c, <1>k, <1>r, <3>a, <4>4 DEF Accounted
      <4> QED  BY <4>1, <4>5 DEF Accounted
    <3>2. CASE FinishBundle(w)
      <4>1. pc'[w] \in {"flush", "finish"} /\ UNCHANGED <<bundle, next, buffer>>
        BY <1>t, <3>2 DEF FinishBundle, Goto
      <4>2. Flushed(w)' = Flushed(w)  BY <4>1 DEF Flushed, Passed
      <4>3. (sink = "api" => \A r \in Flushed(w) : Kept(r))'
        BY <1>c, <1>k, <1>r, <3>a, <4>2 DEF Accounted
      <4> QED  BY <4>1, <4>3 DEF Accounted
    <3>3. CASE FlushWithoutWriter(w) \/ KeepLetters(w)
      <4>1. pc'[w] = "elements" /\ UNCHANGED <<bundle, next>> /\ buffer'[w] = {}
        BY <1>t, <3>3 DEF FlushWithoutWriter, KeepLetters, Goto, Empty
      <4>2. Flushed(w)' = Flushed(w) \cup buffer[w]
        BY <3>a, <4>1 DEF Flushed, Passed
      <4>3. \A r \in buffer[w] : Kept(r)'
        <5>1. FlushWithoutWriter(w) => buffer[w] \subseteq dropped'  BY DEF FlushWithoutWriter
        <5>2. KeepLetters(w) => /\ rejects[w] \subseteq letters' \cup dropped'
                                /\ \A r \in buffer[w] : delivered[r] > 0 \/ r \in rejects[w]
                                /\ delivered' = delivered
          BY <3>a DEF KeepLetters, Accounted
        <5> QED  BY <3>3, <5>1, <5>2 DEF Kept
      <4>4. (sink = "api" => \A r \in Flushed(w) : Kept(r))'
        BY <1>c, <1>k, <1>r, <3>a, <4>2, <4>3 DEF Accounted
      <4> QED  BY <4>1, <4>4 DEF Accounted
    <3>4. CASE WriteBatch(w)
      <4>1. /\ pc'[w] = "letters" /\ UNCHANGED <<bundle, next, buffer>>
            /\ (\E n \in 1..Sends : delivered' = Took(w, n)) \/ rejects'[w] = buffer[w]
        BY <1>t, <3>4, Shares DEF WriteBatch, Goto
      <4>2. Flushed(w)' = Flushed(w)  BY <4>1 DEF Flushed, Passed
      <4>3. (sink = "api" => \A r \in Flushed(w) : Kept(r))'
        BY <1>c, <1>k, <1>r, <3>a, <4>2 DEF Accounted
      <4>4. \A n \in 1..Sends : \A r \in buffer[w] : Took(w, n)[r] > 0  BY <1>t, Shares DEF Took
      <4>5. \A r \in buffer'[w] : delivered'[r] > 0 \/ r \in rejects'[w]  BY <4>1, <4>4
      <4> QED  BY <4>1, <4>3, <4>5 DEF Accounted
    <3>5. CASE AppendRecords(w)
      <4>1. pc'[w] = "elements" /\ sink = "bigquery"  BY <1>t, <3>5 DEF AppendRecords, Goto
      <4> QED  BY <1>c, <4>1 DEF Accounted
    <3>6. CASE CommitStream(w)
      <4>1. /\ pc'[w] = "ack" /\ sink = "bigquery" /\ stream[w] # None /\ UNCHANGED <<rows, bundle>>
            /\ delivered' = Shown(w)
        BY <1>t, <3>6 DEF CommitStream, Goto
      <4>2. stream[w] = Name(w)  BY <3>0, <4>1 DEF BqInv, Streamed
      <4>3. Name(w)' = Name(w)  BY <3>6, <4>1, Control DEF Moves, Name
      <4>4. Name(w) \in Streams  BY <3>0, AtWork DEF TInv
      <4>5. rows[Name(w)] \subseteq Records  BY <1>t, <4>4
      <4>6. \A r \in rows[Name(w)] : Shown(w)[r] > 0  BY <1>t, <4>2, <4>5 DEF Shown
      <4> QED  BY <1>c, <4>1, <4>3, <4>6 DEF Accounted
    <3>7. ~(Crash(w) \/ Ack(w) \/ WriteBatchFails(w) \/ LettersFail(w) \/ AppendFails(w) \/ CommitFails(w))
      BY <1>m, <1>t, Control DEF Fails, Ends
    <3> QED  BY <1>m, <2>2, <3>1, <3>2, <3>3, <3>4, <3>5, <3>6, <3>7 DEF Acts
  <2> QED  BY <2>1, <2>2
(* a bundle that becomes done *)
<1>a. ASSUME NEW w \in Workers, Ack(w), NEW r \in Of(bundle[w]) PROVE Kept(r)'
  <2>0. pc[w] \in {"ack", "finish"} /\ r \in Records  BY <1>a DEF Ack, Of
  <2>1. bundle[w] \in Bundles /\ Accounted(w) /\ buffer[w] = {} /\ next[w] = BundleSize + 1
    BY <2>0, AtWork DEF TInv, AccountInv, BufferBounded, Mine, Holds
  <2>2. r \in Flushed(w)
    <3>1. 1 \in 1..(BundleSize + 1)  BY Counts
    <3>2. Passed(bundle[w], BundleSize + 1) = Of(bundle[w])  BY <2>1, <3>1, PassedFacts
    <3> QED  BY <1>a, <2>1, <3>2 DEF Flushed
  <2>3. CASE sink = "api"
    BY <1>k, <2>0, <2>1, <2>2, <2>3 DEF Accounted
  <2>4. CASE sink = "bigquery"
    <3>1. Streamed(w)  BY <2>0, <2>4 DEF BqInv
    <3>2. r \in rows[Name(w)] \/ r \in rejects[w]  BY <2>2, <3>1 DEF Streamed
    <3>3. CASE r \in rejects[w]
      <4>1. r \in letters'  BY <1>a, <2>4, <3>3 DEF Ack
      <4> QED  BY <4>1 DEF Kept
    <3>4. CASE r \in rows[Name(w)]
      <4>1. stream[w] # None  BY <2>2, <3>1 DEF Streamed
      <4>2. pc[w] = "ack"  BY <1>a, <2>4, <4>1 DEF Ack
      <4>3. delivered[r] > 0  BY <2>1, <2>4, <3>4, <4>2 DEF Accounted
      <4> QED  BY <1>k, <2>0, <4>3 DEF Kept
    <3> QED  BY <3>2, <3>3, <3>4
  <2>5. sink \in {"api", "bigquery"}  BY SinksAssumption DEF TInv, ConfT
  <2> QED  BY <2>3, <2>4, <2>5
<1>1. ASSUME NEW w \in Workers, Acts(w) PROVE AccountInv'
  <2>1. \A v \in Workers : pc'[v] # "idle" => Accounted(v)'  BY <1>1, <1>o, <1>m
  <2>2. ASSUME NEW b \in acked', NEW r \in Of(b) PROVE Kept(r)'
    <3>1. CASE b \in acked
      BY <1>k, <2>2, <3>1 DEF AccountInv, Of
    <3>2. CASE b \notin acked
      <4>1. Ack(w) /\ b = bundle[w]
        BY <1>1, <2>2, <3>2, Control DEF Acts, Starts, Moves, Fails, Ends
      <4> QED  BY <1>a, <2>2, <4>1
    <3> QED  BY <3>1, <3>2
  <2>3. \A b \in acked' : \A r \in Of(b)' : Kept(r)'  BY <2>2 DEF Of
  <2> QED  BY <1>d, <2>1, <2>3 DEF AccountInv
<1>2. ASSUME UNCHANGED vars PROVE AccountInv'
  BY <1>2 DEF vars, AccountInv, Accounted, Flushed, Passed, Name, Kept, Of
<1> QED  BY <1>1, <1>2, StepOf

-----------------------------------------------------------------------------
Inv == TInv /\ BufferBounded /\ Mine /\ BqInv /\ DupInv /\ AccountInv

LEMMA InitInv == Init => Inv
<1> SUFFICES ASSUME Init PROVE Inv  OBVIOUS
<1>1. TInv  BY InitTypes
<1>2. BufferBounded /\ Mine  BY DEF Init, BufferBounded, Mine, Holds
<1>3. \A w \in Workers : pc[w] = "idle" /\ bundle[w] = NoBundle  BY DEF Init
<1>4. BqInv
  BY <1>3 DEF Init, BqInv, Unused, CommitsWholeBundles
<1>5. DupInv
  <2>1. \A b \in Bundles : faults[b] = 0  BY DEF Init
  <2>2. \A r \in Records : delivered[r] = 0  BY DEF Init
  <2>3. \A b \in Bundles : \A r \in Of(b) :
           delivered[r] <= Share(faults[b] + 1) /\ delivered[r] <= Share(faults[b])
    BY <2>1, <2>2, Shares DEF Of
  <2> QED  BY <2>3 DEF DupInv
<1>6. AccountInv  BY <1>3 DEF Init, AccountInv
<1> QED  BY <1>1, <1>2, <1>4, <1>5, <1>6 DEF Inv

LEMMA InvStep == ASSUME Inv, [Next]_vars PROVE Inv'
<1>1. TInv /\ BufferBounded /\ Mine /\ BqInv /\ DupInv /\ AccountInv  BY DEF Inv
<1>2. TInv' /\ BufferBounded' /\ Mine'  BY <1>1, TypesStep, BoundStep, MineStep
<1>3. BqInv' /\ DupInv' /\ AccountInv'  BY <1>1, BqInvStep, DupStep, AccountStep
<1> QED  BY <1>2, <1>3 DEF Inv

(* The invariant of every behaviour. *)
LEMMA Invariance == Spec => []Inv
<1>1. Init => Inv  BY InitInv
<1>2. Inv /\ [Next]_vars => Inv'  BY InvStep
<1> QED  BY <1>1, <1>2, PTL DEF Spec

(* Type correctness of the batching sinks; the sizer of the BigQuery sink  *)
(* stays between the configured batch size and its multiple.               *)
THEOREM Types == Spec => []TypeOK
<1>1. Inv => TypeOK  BY TypesOf DEF Inv
<1> QED  BY <1>1, Invariance, PTL

(* The buffer is below the batch size between two records, and empty when  *)
(* FinishBundle is done with it.                                           *)
THEOREM Bound == Spec => []BufferBounded
<1>1. Inv => BufferBounded  BY DEF Inv
<1> QED  BY <1>1, Invariance, PTL

(* A committed BigQuery stream holds exactly the rows of its bundle that   *)
(* serialise.                                                              *)
THEOREM Commits == Spec => []CommitsWholeBundles
<1>1. Inv => CommitsWholeBundles  BY DEF Inv, BqInv
<1> QED  BY <1>1, Invariance, PTL

(* The service takes a record, for every attempt of its bundle, at most as *)
(* often as HTTPClient.Do sends the POST of one batch; a BigQuery stream   *)
(* shows it at most once for every attempt.                                *)
THEOREM Duplicates == Spec => []DuplicatesOnlyByRetries
<1>1. Inv => DuplicatesOnlyByRetries  BY DEF Inv, DupInv, DuplicatesOnlyByRetries, Share
<1> QED  BY <1>1, Invariance, PTL

(* Every record of a finished bundle was taken or is a dead letter, or the *)
(* sink had no writer or no place for dead letters.                        *)
THEOREM Accounts == Spec => []AckedAccounted
<1>1. Inv => AckedAccounted  BY DEF Inv, AccountInv, AckedAccounted, Kept
<1> QED  BY <1>1, Invariance, PTL
=============================================================================
