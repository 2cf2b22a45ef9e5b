--------------------------- MODULE Records_proofs ---------------------------
(***************************************************************************)
(* Theorems about the way of the records: from what the source emits to    *)
(* the outputs and the counts in the metrics file (RecordFlow), and        *)
(* through the coders between two stages (RecordCoder).                    *)
(***************************************************************************)
EXTENDS RecordFlow, FiniteSetTheorems, SequenceTheorems, WellFoundedInduction, TLAPS

-----------------------------------------------------------------------------
(* The flow of the records.  Each element is counted in one place at a     *)
(* time: by the accumulators of its bundle, by an accumulator of its       *)
(* origin once the bundle is committed, by a summary once all are.         *)

(* Counting.  What an element came out as, and the counts of a set of      *)
(* elements under an origin: an accumulator of OriginCombinerFn.           *)
Src(i) == IF i \in DOMAIN valid THEN validRecordMetricKVFn(valid[i])
          ELSE dlqRecordMetricKVFn(dlq[i])
Under(S, o) == {i \in S : Src(i) = o}
Counts(S) == [total |-> Cardinality(S), valid |-> Cardinality(S \cap DOMAIN valid),
              dlq |-> Cardinality(S \cap DOMAIN dlq)]

(* The elements of a bundle, at most one of them between two stages. *)
Index(b) == {h.i : h \in b.held}
Mine(b) == b.left \cup Index(b) \cup DOMAIN b.out

Shape ==
  /\ input \in Seq(Range(input))
  /\ bundle = [w \in Workers |-> bundle[w]]
  /\ DOMAIN valid \cup DOMAIN dlq \subseteq DOMAIN input /\ DOMAIN valid \cap DOMAIN dlq = {}
  /\ metrics # {} => job # "running"

(* An element is in one place: to be read, between the stages, among the   *)
(* outputs of one bundle, or committed.                                    *)
Apart(b) ==
  /\ b.left \cap Index(b) = {} /\ b.left \cap DOMAIN b.out = {} /\ Index(b) \cap DOMAIN b.out = {}
  /\ \A g, h \in b.held : g = h
  /\ b = Idle \/ Mine(b) # {}
OnePlace ==
  \A w \in Workers :
    /\ Apart(bundle[w]) /\ Mine(bundle[w]) \subseteq DOMAIN input \ Done
    /\ \A u \in Workers : u # w => Mine(bundle[u]) \cap Mine(bundle[w]) = {}

(* A bundle's accumulators count its outputs. *)
From(out, o) == {i \in DOMAIN out : Origin(out[i]) = o}
Routed(out, S, to) == {i \in S : out[i].to = to}
Tallied(b) ==
  /\ \A i \in DOMAIN b.out : b.out[i].to \in {"valid", "dlq"}
  /\ DOMAIN b.accs = {Origin(b.out[i]) : i \in DOMAIN b.out}
  /\ \A o \in DOMAIN b.accs :
       b.accs[o] = [total |-> Cardinality(From(b.out, o)),
                    valid |-> Cardinality(Routed(b.out, From(b.out, o), "valid")),
                    dlq   |-> Cardinality(Routed(b.out, From(b.out, o), "dlq"))]

(* An accumulator counts the elements of the bundles it comes from, two of *)
(* one origin come from different bundles, and none is lost.               *)
PartialsInv ==
  /\ \A p \in partials : p.from \subseteq Done /\ p.acc = Counts(Under(p.from, p.origin))
  /\ \A p, q \in partials : p # q /\ p.origin = q.origin => p.from \cap q.from = {}
  /\ \A i \in Done : \/ \E p \in partials : p.origin = Src(i) /\ i \in p.from
                     \/ \E s \in sums : Src(i) \in DOMAIN s.origins

(* A partial summary counts all elements of its origins; no other summary  *)
(* and no accumulator has one of them.                                     *)
Covered(origins) == {i \in Done : Src(i) \in DOMAIN origins}
Summed(s) ==
  /\ \A o \in DOMAIN s.origins : s.origins[o] = Counts(Under(Done, o))
  /\ [total |-> s.total, valid |-> s.written, dlq |-> s.dead] = Counts(Covered(s.origins))
SumsInv ==
  /\ sums # {} => Done = DOMAIN input
  /\ \A s \in sums : Summed(s)
  /\ \A s \in sums : \A p \in partials : p.origin \notin DOMAIN s.origins
  /\ \A s, t \in sums : s # t => DOMAIN s.origins \cap DOMAIN t.origins = {}

FlowInv == Shape /\ OnePlace /\ (\A w \in Workers : Tallied(bundle[w])) /\ PartialsInv /\ SumsInv

-----------------------------------------------------------------------------
(* Maps.  *)

LEMMA PutFacts ==
  ASSUME NEW f, NEW x, NEW y
  PROVE  /\ DOMAIN Put(f, x, y) = {x} \cup DOMAIN f
         /\ Put(f, x, y)[x] = y
         /\ \A z \in DOMAIN f : z # x => Put(f, x, y)[z] = f[z]
BY DEF Put

(* What a step of worker w leaves in its bundle: b, and the others as they *)
(* were.                                                                   *)
Replaced(w, b) == bundle' = [u \in Workers |-> IF u = w THEN b ELSE bundle[u]]
Ledger == <<input, valid, dlq, partials, sums, metrics>>

LEMMA Replacing ==
  ASSUME Shape, NEW w \in Workers, NEW b, bundle' = [bundle EXCEPT ![w] = b]
  PROVE  Replaced(w, b)
BY DEF Shape, Replaced

LEMMA StartStep ==
  ASSUME Shape, NEW w \in Workers, StartBundle(w)
  PROVE  /\ UNCHANGED Ledger /\ bundle[w] = Idle /\ job' = job
         /\ \E S \in SUBSET (DOMAIN input \ (Done \cup Taken)) :
              S # {} /\ Replaced(w, Bundle(S, {}, <<>>, <<>>))
<1>1. PICK S \in (SUBSET (DOMAIN input \ (Done \cup Taken))) \ {{}} :
         bundle' = [bundle EXCEPT ![w] = Bundle(S, {}, <<>>, <<>>)]
  BY DEF StartBundle
<1>2. Replaced(w, Bundle(S, {}, <<>>, <<>>))  BY <1>1, Replacing
<1> QED  BY <1>1, <1>2 DEF StartBundle, job_vars, outputs, tallies, Ledger

LEMMA EmitStep ==
  ASSUME Shape, NEW w \in Workers, Emit(w)
  PROVE  /\ UNCHANGED Ledger /\ job = "running" /\ bundle[w].held = {}
         /\ \/ Replaced(w, Idle)
            \/ \E i \in bundle[w].left : \E rec :
                 Replaced(w, Bundle(bundle[w].left \ {i}, {[i |-> i, rec |-> rec]},
                                    bundle[w].out, bundle[w].accs))
<1>1. \E i \in bundle[w].left : \E rec : \E b \in {Idle,
          Bundle(bundle[w].left \ {i}, {[i |-> i, rec |-> rec]}, bundle[w].out, bundle[w].accs)} :
        bundle' = [bundle EXCEPT ![w] = b]
  BY DEF Emit, FailBundle
<1>2. UNCHANGED Ledger /\ job = "running" /\ bundle[w].held = {}
  BY DEF Emit, job_vars, outputs, tallies, Ledger
<1> QED  BY <1>1, <1>2, Replacing

(* What the sinks receive of a validated record keeps its route. *)
LEMMA Routes ==
  ASSUME NEW rec, NEW v, v = Validate(rec), Delivered(v).st = "ok"
  PROVE  Delivered(v).val.to \in {"valid", "dlq"}
<1>1. v.to \in {"valid", "dlq"}  BY DEF Validate, Outcome
<1>2. Delivered(v).val.to = v.to
  BY <1>1 DEF Delivered, Outcome, Then, Got
<1> QED  BY <1>1, <1>2

LEMMA ProcessStep ==
  ASSUME Shape, NEW w \in Workers, ProcessElement(w)
  PROVE  /\ UNCHANGED Ledger /\ job = "running"
         /\ \/ Replaced(w, Idle)
            \/ \E h \in bundle[w].held : \E v :
                 /\ v.to \in {"valid", "dlq"}
                 /\ Replaced(w, Bundle(bundle[w].left, {}, Put(bundle[w].out, h.i, v),
                                       Count(bundle[w].accs, v)))
<1>1. PICK h \in bundle[w].held : 
        \/ /\ Delivered(Validate(h.rec)).st = "ok"
           /\ bundle' = [bundle EXCEPT ![w] =
                Bundle(bundle[w].left, {}, Put(bundle[w].out, h.i, Delivered(Validate(h.rec)).val),
                       Count(bundle[w].accs, Delivered(Validate(h.rec)).val))]
        \/ bundle' = [bundle EXCEPT ![w] = Idle]
  BY DEF ProcessElement, FailBundle
<1>2. UNCHANGED Ledger /\ job = "running"
  BY DEF ProcessElement, job_vars, outputs, tallies, Ledger
<1> QED  BY <1>1, <1>2, Replacing, Routes

-----------------------------------------------------------------------------
(* Elements in one place. *)

LEMMA IdleFacts == Apart(Idle) /\ Mine(Idle) = {} /\ Tallied(Idle)
BY DEF Apart, Mine, Index, Tallied, Idle, Bundle

LEMMA PlacesKept ==
  ASSUME Shape, OnePlace, NEW w \in Workers, NEW b, Replaced(w, b), UNCHANGED Ledger,
         Apart(b), Mine(b) \subseteq DOMAIN input \ Done,
         \A u \in Workers : u # w => Mine(bundle[u]) \cap Mine(b) = {}
  PROVE  OnePlace'
<1>1. Done' = Done /\ input' = input  BY DEF Done, Ledger
<1>2. \A u \in Workers : bundle'[u] = IF u = w THEN b ELSE bundle[u]  BY DEF Replaced
<1> SUFFICES ASSUME NEW u \in Workers
             PROVE  /\ Apart(bundle'[u]) /\ Mine(bundle'[u]) \subseteq DOMAIN input \ Done
                    /\ \A t \in Workers : t # u => Mine(bundle'[t]) \cap Mine(bundle'[u]) = {}
  BY <1>1 DEF OnePlace
<1> QED  BY <1>2 DEF OnePlace

LEMMA PlacesReplaced ==
  ASSUME Shape, OnePlace, NEW w \in Workers,
         StartBundle(w) \/ Emit(w) \/ ProcessElement(w) \/ CrashBundle(w)
  PROVE  OnePlace'
<1>0. /\ Apart(bundle[w]) /\ Mine(bundle[w]) \subseteq DOMAIN input \ Done
      /\ \A u \in Workers : u # w => Mine(bundle[u]) \cap Mine(bundle[w]) = {}
  BY DEF OnePlace
<1>1. ASSUME Replaced(w, Idle), UNCHANGED Ledger PROVE OnePlace'
  BY <1>1, IdleFacts, PlacesKept
<1>2. ASSUME NEW b, Replaced(w, b), UNCHANGED Ledger, Apart(b), Mine(b) \subseteq Mine(bundle[w])
      PROVE  OnePlace'
  BY <1>0, <1>2, PlacesKept
<1>3. CASE StartBundle(w)
  <2>1. PICK S \in SUBSET (DOMAIN input \ (Done \cup Taken)) :
          S # {} /\ Replaced(w, Bundle(S, {}, <<>>, <<>>))
    BY <1>3, StartStep
  <2> DEFINE b == Bundle(S, {}, <<>>, <<>>)
  <2>2. Apart(b) /\ Mine(b) = S  BY <2>1 DEF Apart, Mine, Index, Bundle
  <2>3. \A u \in Workers : Mine(bundle[u]) \subseteq Taken  BY DEF Taken, Mine, Index, HeldBy
  <2>4. UNCHANGED Ledger  BY <1>3, StartStep
  <2> HIDE DEF b
  <2> QED  BY <2>1, <2>2, <2>3, <2>4, PlacesKept DEF b
<1>4. CASE Emit(w)
  <2>1. UNCHANGED Ledger /\ bundle[w].held = {}  BY <1>4, EmitStep
  <2>2. ASSUME NEW i \in bundle[w].left, NEW rec,
               Replaced(w, Bundle(bundle[w].left \ {i}, {[i |-> i, rec |-> rec]},
                                  bundle[w].out, bundle[w].accs))
        PROVE  OnePlace'
    <3> DEFINE b == Bundle(bundle[w].left \ {i}, {[i |-> i, rec |-> rec]},
                           bundle[w].out, bundle[w].accs)
    <3>1. b.left = bundle[w].left \ {i} /\ b.held = {[i |-> i, rec |-> rec]}
          /\ b.out = bundle[w].out
      BY DEF Bundle
    <3> HIDE DEF b
    <3>2. Index(b) = {i}
      <4>1. [i |-> i, rec |-> rec].i = i  OBVIOUS
      <4>2. [i |-> i, rec |-> rec] \in b.held /\ \A h \in b.held : h = [i |-> i, rec |-> rec]
        BY <3>1
      <4> HIDE <3>1
      <4>3. \A h \in b.held : h.i = i  BY <4>1, <4>2
      <4> QED  BY <4>1, <4>2, <4>3, Zenon DEF Index
    <3>3. Apart(b) /\ Mine(b) \subseteq Mine(bundle[w])  BY <1>0, <3>1, <3>2 DEF Apart, Mine
    <3> QED  BY <1>2, <2>1, <2>2, <3>3 DEF b
  <2> QED  BY <1>1, <1>4, <2>1, <2>2, EmitStep
<1>5. CASE ProcessElement(w)
  <2>1. UNCHANGED Ledger  BY <1>5, ProcessStep
  <2>2. ASSUME NEW h \in bundle[w].held, NEW v,
               Replaced(w, Bundle(bundle[w].left, {}, Put(bundle[w].out, h.i, v),
                                  Count(bundle[w].accs, v)))
        PROVE  OnePlace'
    <3> DEFINE b == Bundle(bundle[w].left, {}, Put(bundle[w].out, h.i, v),
                           Count(bundle[w].accs, v))
    <3>1. b.left = bundle[w].left /\ b.held = {} /\ DOMAIN b.out = {h.i} \cup DOMAIN bundle[w].out
      BY PutFacts DEF Bundle
    <3>2. Index(b) = {} /\ h.i \in Index(bundle[w])  BY <3>1 DEF Index
    <3> HIDE DEF b
    <3>3. Apart(b) /\ Mine(b) \subseteq Mine(bundle[w])  BY <1>0, <3>1, <3>2 DEF Apart, Mine
    <3> QED  BY <1>2, <2>1, <2>2, <3>3 DEF b
  <2> QED  BY <1>1, <1>5, <2>1, <2>2, ProcessStep
<1>6. CASE CrashBundle(w)
  BY <1>1, <1>6, Replacing DEF CrashBundle, job_vars, outputs, tallies, Ledger
<1> QED  BY <1>3, <1>4, <1>5, <1>6

-----------------------------------------------------------------------------
(* Counts of one bundle. *)

LEMMA InputFinite == ASSUME Shape, NEW S \in SUBSET DOMAIN input PROVE IsFiniteSet(S)
<1>1. Len(input) \in Nat /\ DOMAIN input = 1 .. Len(input)  BY DEF Shape
<1>2. IsFiniteSet(DOMAIN input)  BY <1>1, FS_Interval
<1> QED  BY <1>2, FS_Subset

LEMMA Counting ==
  ASSUME NEW b, Tallied(b), IsFiniteSet(DOMAIN b.out), NEW i, i \notin DOMAIN b.out,
         NEW v, v.to \in {"valid", "dlq"}, NEW left
  PROVE  Tallied(Bundle(left, {}, Put(b.out, i, v), Count(b.accs, v)))
<1> DEFINE out == b.out
           o == Origin(v)
           out2 == Put(out, i, v)
           accs2 == Count(b.accs, v)
<1>1. /\ DOMAIN out2 = {i} \cup DOMAIN out /\ out2[i] = v
      /\ \A j \in DOMAIN out : out2[j] = out[j]
  <2> HIDE DEF out
  <2>1. i \notin DOMAIN out  BY DEF out
  <2> QED  BY <2>1 DEF Put
<1>2. accs2 = Put(b.accs, o, AddOrigin(IF o \in DOMAIN b.accs THEN b.accs[o] ELSE CreateOrigin, v.to = "dlq"))
  BY DEF Count
<1> HIDE DEF out2, accs2
<1>3. /\ DOMAIN accs2 = {o} \cup DOMAIN b.accs
      /\ accs2[o] = AddOrigin(IF o \in DOMAIN b.accs THEN b.accs[o] ELSE CreateOrigin, v.to = "dlq")
      /\ \A q \in DOMAIN b.accs : q # o => accs2[q] = b.accs[q]
  BY <1>2, Zenon DEF Put
<1>4. /\ \A j \in DOMAIN out2 : out2[j].to \in {"valid", "dlq"}
      /\ DOMAIN accs2 = {Origin(out2[j]) : j \in DOMAIN out2}
  <2>1. \A j \in DOMAIN out2 : out2[j].to \in {"valid", "dlq"}  BY <1>1 DEF Tallied
  <2>2. {Origin(out2[j]) : j \in DOMAIN out2} = {o} \cup {Origin(out[j]) : j \in DOMAIN out}
    BY <1>1
  <2>3. DOMAIN b.accs = {Origin(out[j]) : j \in DOMAIN out}  BY DEF Tallied
  <2> QED  BY <1>3, <2>1, <2>2, <2>3
<1>5. From(out2, o) = From(out, o) \cup {i}  BY <1>1 DEF From
<1>6. \A q : q # o => From(out2, q) = From(out, q)  BY <1>1 DEF From
<1>7. \A q : \A to : Routed(out2, From(out, q), to) = Routed(out, From(out, q), to)
  BY <1>1 DEF Routed, From
<1>8. \A to : Routed(out2, From(out2, o), to) =
              IF v.to = to THEN Routed(out, From(out, o), to) \cup {i} ELSE Routed(out, From(out, o), to)
  BY <1>1, <1>5 DEF Routed, From
<1>9. \A to : /\ IsFiniteSet(Routed(out, From(out, o), to)) /\ IsFiniteSet(From(out, o))
              /\ i \notin Routed(out, From(out, o), to) /\ i \notin From(out, o)
  <2>1. \A to : Routed(out, From(out, o), to) \subseteq DOMAIN out /\ From(out, o) \subseteq DOMAIN out
    BY DEF Routed, From
  <2> QED  BY <2>1, FS_Subset
<1> DEFINE n == Cardinality(From(out, o))
           nv == Cardinality(Routed(out, From(out, o), "valid"))
           nd == Cardinality(Routed(out, From(out, o), "dlq"))
<1>10. (IF o \in DOMAIN b.accs THEN b.accs[o] ELSE CreateOrigin) = [total |-> n, valid |-> nv, dlq |-> nd]
  <2>1. CASE o \in DOMAIN b.accs  BY <2>1 DEF Tallied
  <2>2. CASE o \notin DOMAIN b.accs
    <3>1. From(out, o) = {}  BY <2>2 DEF Tallied, From
    <3>2. Routed(out, From(out, o), "valid") = {} /\ Routed(out, From(out, o), "dlq") = {}
      BY <3>1 DEF Routed
    <3>3. n = 0 /\ nv = 0 /\ nd = 0  BY <3>1, <3>2, FS_EmptySet
    <3> QED  BY <2>2, <3>3 DEF CreateOrigin
  <2> QED  BY <2>1, <2>2
<1>11. n \in Nat /\ nv \in Nat /\ nd \in Nat  BY <1>9, FS_CardinalityType
<1>12. Cardinality(From(out2, o)) = n + 1  BY <1>5, <1>9, FS_AddElement
<1>13. Cardinality(Routed(out2, From(out2, o), "valid")) = IF v.to = "dlq" THEN nv ELSE nv + 1
  BY <1>8, <1>9, FS_AddElement
<1>14. Cardinality(Routed(out2, From(out2, o), "dlq")) = IF v.to = "dlq" THEN nd + 1 ELSE nd
  BY <1>8, <1>9, FS_AddElement
<1> HIDE DEF n, nv, nd
<1>15. accs2[o] = [total |-> n + 1, valid |-> IF v.to = "dlq" THEN nv ELSE nv + 1,
                   dlq |-> IF v.to = "dlq" THEN nd + 1 ELSE nd]
  BY <1>3, <1>10 DEF AddOrigin
<1>16. \A q \in DOMAIN accs2 :
         accs2[q] = [total |-> Cardinality(From(out2, q)),
                     valid |-> Cardinality(Routed(out2, From(out2, q), "valid")),
                     dlq   |-> Cardinality(Routed(out2, From(out2, q), "dlq"))]
  <2> SUFFICES ASSUME NEW q \in DOMAIN accs2
               PROVE accs2[q] = [total |-> Cardinality(From(out2, q)),
                     valid |-> Cardinality(Routed(out2, From(out2, q), "valid")),
                     dlq   |-> Cardinality(Routed(out2, From(out2, q), "dlq"))]
    OBVIOUS
  <2>1. CASE q = o  BY <1>12, <1>13, <1>14, <1>15, <2>1
  <2>2. CASE q # o
    <3>1. q \in DOMAIN b.accs /\ accs2[q] = b.accs[q]  BY <1>3, <2>2
    <3>2. From(out2, q) = From(out, q)  BY <1>6, <2>2
    <3>3. b.accs[q] = [total |-> Cardinality(From(out, q)),
                       valid |-> Cardinality(Routed(out, From(out, q), "valid")),
                       dlq   |-> Cardinality(Routed(out, From(out, q), "dlq"))]
      BY <3>1 DEF Tallied
    <3> QED  BY <1>7, <3>1, <3>2, <3>3
  <2> QED  BY <2>1, <2>2
<1>17. /\ Bundle(left, {}, out2, accs2).out = out2 /\ Bundle(left, {}, out2, accs2).accs = accs2
  BY DEF Bundle
<1> QED  BY <1>4, <1>16, <1>17 DEF Tallied, out2, accs2

LEMMA TalliesKept ==
  ASSUME Shape, OnePlace, \A w \in Workers : Tallied(bundle[w]), NEW w \in Workers,
         StartBundle(w) \/ Emit(w) \/ ProcessElement(w) \/ CrashBundle(w)
  PROVE  \A u \in Workers : Tallied(bundle[u])'
<1>1. ASSUME NEW b, Replaced(w, b), Tallied(b) PROVE \A u \in Workers : Tallied(bundle'[u])
  BY <1>1 DEF Replaced
<1>2. ASSUME NEW left, NEW held, Tallied(bundle[w]) 
      PROVE  Tallied(Bundle(left, held, bundle[w].out, bundle[w].accs))
  <2> DEFINE b == Bundle(left, held, bundle[w].out, bundle[w].accs)
  <2>1. b.out = bundle[w].out /\ b.accs = bundle[w].accs  BY DEF Bundle
  <2> HIDE DEF b
  <2>2. Tallied(b)  BY <1>2, <2>1 DEF Tallied
  <2> QED  BY <2>2 DEF b
<1>3. CASE StartBundle(w)
  <2>1. PICK S : Replaced(w, Bundle(S, {}, <<>>, <<>>))  BY <1>3, StartStep
  <2>2. Tallied(Bundle(S, {}, <<>>, <<>>))  BY DEF Tallied, Bundle
  <2> QED  BY <1>1, <2>1, <2>2
<1>4. CASE Emit(w)  BY <1>1, <1>2, <1>4, EmitStep, IdleFacts
<1>5. CASE ProcessElement(w)
  <2>1. ASSUME NEW h \in bundle[w].held, NEW v, v.to \in {"valid", "dlq"},
               Replaced(w, Bundle(bundle[w].left, {}, Put(bundle[w].out, h.i, v),
                                  Count(bundle[w].accs, v)))
        PROVE  \A u \in Workers : Tallied(bundle'[u])
    <3>1. h.i \notin DOMAIN bundle[w].out  BY DEF OnePlace, Apart, Index
    <3>2. IsFiniteSet(DOMAIN bundle[w].out)
      <4>1. DOMAIN bundle[w].out \in SUBSET DOMAIN input  BY DEF OnePlace, Mine
      <4> QED  BY <4>1, InputFinite
    <3>3. Tallied(bundle[w])  OBVIOUS
    <3> QED  BY <1>1, <2>1, <3>1, <3>2, <3>3, Counting
  <2> QED  BY <1>1, <1>5, <2>1, ProcessStep, IdleFacts
<1>6. CASE CrashBundle(w)  BY <1>1, <1>6, Replacing, IdleFacts DEF CrashBundle
<1> QED  BY <1>3, <1>4, <1>5, <1>6

-----------------------------------------------------------------------------
(* A bundle is committed: its elements come out once, where they were      *)
(* routed and under the origin they were counted for.                      *)
LEMMA Committing ==
  ASSUME Shape, OnePlace, \A u \in Workers : Tallied(bundle[u]), NEW w \in Workers, CommitBundle(w)
  PROVE  /\ Replaced(w, Idle) /\ UNCHANGED <<input, sums, metrics, job>> /\ job = "running"
         /\ DOMAIN bundle[w].out # {} /\ DOMAIN bundle[w].out \subseteq DOMAIN input \ Done
         /\ Done' = Done \cup DOMAIN bundle[w].out
         /\ \A i \in Done : /\ Src(i)' = Src(i)
                            /\ i \in DOMAIN valid' <=> i \in DOMAIN valid
                            /\ i \in DOMAIN dlq' <=> i \in DOMAIN dlq
         /\ \A i \in DOMAIN bundle[w].out :
              /\ Src(i)' = Origin(bundle[w].out[i])
              /\ i \in DOMAIN valid' <=> bundle[w].out[i].to = "valid"
              /\ i \in DOMAIN dlq' <=> bundle[w].out[i].to = "dlq"
         /\ partials' = partials \cup Lifted(bundle[w])
         /\ Shape'
<1>1. PICK out : out = bundle[w].out  OBVIOUS
<1>2. /\ Replaced(w, Idle) /\ UNCHANGED <<input, sums, metrics, job>> /\ job = "running"
      /\ partials' = partials \cup Lifted(bundle[w])
      /\ bundle[w] # Idle /\ bundle[w].left = {} /\ Index(bundle[w]) = {}
      /\ valid' = Over(Sent(out, "valid"), valid) /\ dlq' = Over(Sent(out, "dlq"), dlq)
  BY <1>1, Replacing DEF CommitBundle, job_vars, Index, HeldBy
<1>3. DOMAIN out # {} /\ DOMAIN out \subseteq DOMAIN input \ Done
  BY <1>1, <1>2 DEF OnePlace, Apart, Mine
<1>4. \A i \in DOMAIN out : out[i].to \in {"valid", "dlq"}  BY <1>1 DEF Tallied
<1>5. /\ DOMAIN Sent(out, "valid") = {j \in DOMAIN out : out[j].to = "valid"}
      /\ DOMAIN Sent(out, "dlq") = {j \in DOMAIN out : out[j].to = "dlq"}
      /\ \A i \in DOMAIN Sent(out, "valid") : Sent(out, "valid")[i] = out[i].rec
      /\ \A i \in DOMAIN Sent(out, "dlq") : Sent(out, "dlq")[i] = out[i].letter
  BY DEF Sent
<1>6. DOMAIN valid' = {j \in DOMAIN out : out[j].to = "valid"} \cup DOMAIN valid
  BY <1>2, <1>5 DEF Over
<1>7. DOMAIN dlq' = {j \in DOMAIN out : out[j].to = "dlq"} \cup DOMAIN dlq
  BY <1>2, <1>5 DEF Over
<1>8. \A i \in DOMAIN out : /\ i \in DOMAIN valid' <=> out[i].to = "valid"
                            /\ i \in DOMAIN dlq' <=> out[i].to = "dlq"
  BY <1>3, <1>6, <1>7 DEF Done
<1>9. \A i \in Done : /\ i \in DOMAIN valid' <=> i \in DOMAIN valid
                      /\ i \in DOMAIN dlq' <=> i \in DOMAIN dlq
  BY <1>3, <1>6, <1>7 DEF Done
<1>10. Done' = Done \cup DOMAIN out  BY <1>4, <1>6, <1>7 DEF Done
<1>11. ASSUME NEW i \in Done PROVE Src(i)' = Src(i)
  <2>1. i \notin DOMAIN out  BY <1>3
  <2>2. i \in DOMAIN valid => valid'[i] = valid[i]  BY <1>2, <1>5, <2>1 DEF Over
  <2>3. i \in DOMAIN dlq => dlq'[i] = dlq[i]  BY <1>2, <1>5, <2>1 DEF Over
  <2> QED  BY <1>9, <1>11, <2>2, <2>3 DEF Src, Done
<1>12. ASSUME NEW i \in DOMAIN out PROVE Src(i)' = Origin(out[i])
  <2>1. CASE out[i].to = "valid"
    <3>1. i \in DOMAIN valid' /\ valid'[i] = out[i].rec  BY <1>2, <1>5, <1>8, <2>1 DEF Over
    <3> QED  BY <2>1, <3>1 DEF Src, Origin
  <2>2. CASE out[i].to = "dlq"
    <3>1. i \notin DOMAIN valid' /\ dlq'[i] = out[i].letter  BY <1>2, <1>5, <1>8, <2>2 DEF Over
    <3> QED  BY <2>2, <3>1 DEF Src, Origin
  <2> QED  BY <1>4, <2>1, <2>2
<1>13. Shape'
  <2>1. DOMAIN valid' \cup DOMAIN dlq' \subseteq DOMAIN input'  BY <1>2, <1>3, <1>6, <1>7 DEF Shape
  <2>2. DOMAIN valid' \cap DOMAIN dlq' = {}  BY <1>3, <1>4, <1>6, <1>7 DEF Shape, Done
  <2>3. bundle' = [u \in Workers |-> bundle'[u]]  BY <1>2 DEF Replaced
  <2> QED  BY <1>2, <2>1, <2>2, <2>3 DEF Shape
<1> QED  BY <1>1, <1>2, <1>3, <1>8, <1>9, <1>10, <1>11, <1>12, <1>13

LEMMA CommitPlaces ==
  ASSUME Shape, OnePlace, \A u \in Workers : Tallied(bundle[u]), NEW w \in Workers, CommitBundle(w)
  PROVE  OnePlace' /\ \A u \in Workers : Tallied(bundle[u])'
<1>1. \A u \in Workers : bundle'[u] = IF u = w THEN Idle ELSE bundle[u]
  BY Committing DEF Replaced
<1>2. Done' = Done \cup DOMAIN bundle[w].out /\ input' = input  BY Committing
<1>3. DOMAIN bundle[w].out \subseteq Mine(bundle[w])  BY DEF Mine
<1>4. ASSUME NEW u \in Workers
      PROVE  /\ Apart(bundle'[u]) /\ Mine(bundle'[u]) \subseteq DOMAIN input' \ Done'
             /\ \A t \in Workers : t # u => Mine(bundle'[t]) \cap Mine(bundle'[u]) = {}
  BY <1>1, <1>2, <1>3, IdleFacts DEF OnePlace
<1>5. \A u \in Workers : Tallied(bundle'[u])  BY <1>1, IdleFacts
<1> QED  BY <1>4, <1>5 DEF OnePlace

-----------------------------------------------------------------------------
(* The accumulators and the summaries. *)

(* What a step leaves alone when it neither commits nor combines. *)
LEMMA SameCounts ==
  ASSUME UNCHANGED <<valid, dlq>>
  PROVE  /\ Done' = Done /\ \A i : Src(i)' = Src(i)
         /\ \A S : Counts(S)' = Counts(S)
         /\ \A S, o : Under(S, o)' = Under(S, o)
         /\ \A s : Summed(s)' <=> Summed(s)
<1>1. \A i : Src(i)' = Src(i)  BY DEF Src
<1>2. /\ Done' = Done /\ \A S : Counts(S)' = Counts(S)
      /\ \A S, o : Under(S, o)' = Under(S, o)
  BY <1>1 DEF Done, Counts, Under
<1>3. \A f : Covered(f)' = Covered(f)  BY <1>1, <1>2 DEF Covered
<1>4. \A o : Counts(Under(Done, o))' = Counts(Under(Done, o))
  BY <1>1 DEF Done, Counts, Under
<1>5. \A f : Counts(Covered(f))' = Counts(Covered(f))
  BY <1>3 DEF Counts
<1>6. \A s : Summed(s)' <=> Summed(s)  BY <1>4, <1>5 DEF Summed
<1> QED  BY <1>1, <1>2, <1>6

LEMMA LedgerKept ==
  ASSUME PartialsInv, SumsInv, UNCHANGED <<input, valid, dlq, partials, sums>>
  PROVE  PartialsInv' /\ SumsInv'
<1>1. /\ Done' = Done /\ \A i : Src(i)' = Src(i)
      /\ \A S : Counts(S)' = Counts(S)
      /\ \A S, o : Under(S, o)' = Under(S, o)
      /\ \A s : Summed(s)' <=> Summed(s)
  BY SameCounts
<1>2. PartialsInv'  BY <1>1 DEF PartialsInv
<1>3. SumsInv'  BY <1>1 DEF SumsInv
<1> QED  BY <1>2, <1>3

LEMMA CountsAdd ==
  ASSUME Shape, NEW S \in SUBSET DOMAIN input, NEW T \in SUBSET DOMAIN input, S \cap T = {}
  PROVE  /\ Counts(S \cup T) = MergeOrigin(Counts(S), Counts(T))
         /\ Cardinality(S \cup T) = Cardinality(S) + Cardinality(T)
<1>1. \A U \in SUBSET DOMAIN input : IsFiniteSet(U) /\ Cardinality(U) \in Nat
  BY InputFinite, FS_CardinalityType
<1>2. ASSUME NEW U \in SUBSET DOMAIN input, NEW V \in SUBSET DOMAIN input, U \cap V = {}
      PROVE  Cardinality(U \cup V) = Cardinality(U) + Cardinality(V)
  <2>1. Cardinality(U \cup V) = Cardinality(U) + Cardinality(V) - Cardinality(U \cap V)
    BY <1>1, FS_Union
  <2>2. Cardinality(U \cap V) = 0  BY <1>2, FS_EmptySet
  <2>3. Cardinality(U) \in Nat /\ Cardinality(V) \in Nat  BY <1>1
  <2> QED  BY <2>1, <2>2, <2>3
<1>3. Cardinality(S \cup T) = Cardinality(S) + Cardinality(T)  BY <1>2
<1>4. Cardinality((S \cup T) \cap DOMAIN valid) =
        Cardinality(S \cap DOMAIN valid) + Cardinality(T \cap DOMAIN valid)
  <2>1. (S \cup T) \cap DOMAIN valid = (S \cap DOMAIN valid) \cup (T \cap DOMAIN valid)  OBVIOUS
  <2>2. /\ S \cap DOMAIN valid \in SUBSET DOMAIN input /\ T \cap DOMAIN valid \in SUBSET DOMAIN input
        /\ (S \cap DOMAIN valid) \cap (T \cap DOMAIN valid) = {}
    OBVIOUS
  <2> QED  BY <1>2, <2>1, <2>2
<1>5. Cardinality((S \cup T) \cap DOMAIN dlq) =
        Cardinality(S \cap DOMAIN dlq) + Cardinality(T \cap DOMAIN dlq)
  <2>1. (S \cup T) \cap DOMAIN dlq = (S \cap DOMAIN dlq) \cup (T \cap DOMAIN dlq)  OBVIOUS
  <2>2. /\ S \cap DOMAIN dlq \in SUBSET DOMAIN input /\ T \cap DOMAIN dlq \in SUBSET DOMAIN input
        /\ (S \cap DOMAIN dlq) \cap (T \cap DOMAIN dlq) = {}
    OBVIOUS
  <2> QED  BY <1>2, <2>1, <2>2
<1> QED  BY <1>3, <1>4, <1>5 DEF Counts, MergeOrigin

LEMMA CommitLedger ==
  ASSUME Shape, OnePlace, \A u \in Workers : Tallied(bundle[u]), PartialsInv, SumsInv,
         NEW w \in Workers, CommitBundle(w)
  PROVE  PartialsInv' /\ SumsInv'
<1>1. PICK out : out = bundle[w].out  OBVIOUS
<1>2. /\ UNCHANGED <<input, sums>> /\ partials' = partials \cup Lifted(bundle[w])
      /\ DOMAIN out # {} /\ DOMAIN out \subseteq DOMAIN input \ Done /\ Done' = Done \cup DOMAIN out
  BY <1>1, Committing
<1>3. \A i \in Done : /\ Src(i)' = Src(i)
                      /\ i \in DOMAIN valid' <=> i \in DOMAIN valid
                      /\ i \in DOMAIN dlq' <=> i \in DOMAIN dlq
  BY Committing
<1>4. \A i \in DOMAIN out : /\ Src(i)' = Origin(out[i])
                            /\ i \in DOMAIN valid' <=> out[i].to = "valid"
                            /\ i \in DOMAIN dlq' <=> out[i].to = "dlq"
  BY <1>1, Committing
<1>5. sums = {} /\ sums' = {}  BY <1>2 DEF SumsInv
<1>6. ASSUME NEW S \in SUBSET Done, NEW o PROVE Under(S, o)' = Under(S, o) /\ Counts(S)' = Counts(S)
  <2>1. Under(S, o)' = Under(S, o)  BY <1>3, <1>6 DEF Under
  <2>2. S \cap DOMAIN valid' = S \cap DOMAIN valid /\ S \cap DOMAIN dlq' = S \cap DOMAIN dlq
    BY <1>3, <1>6
  <2> QED  BY <2>1, <2>2 DEF Counts
<1>7. ASSUME NEW p \in Lifted(bundle[w])
      PROVE  /\ p.from = DOMAIN out /\ p.acc = Counts(Under(p.from, p.origin))'
             /\ \A q \in Lifted(bundle[w]) : p.origin = q.origin => p = q
  <2>1. PICK o \in DOMAIN bundle[w].accs :
          p = [origin |-> o, from |-> DOMAIN out, acc |-> bundle[w].accs[o]]
    BY <1>1 DEF Lifted
  <2>2. p.from = DOMAIN out /\ p.origin = o /\ p.acc = bundle[w].accs[o]  BY <2>1
  <2>3. bundle[w].accs[o] = [total |-> Cardinality(From(out, o)),
                             valid |-> Cardinality(Routed(out, From(out, o), "valid")),
                             dlq   |-> Cardinality(Routed(out, From(out, o), "dlq"))]
    BY <1>1, <2>1 DEF Tallied
  <2>4. Under(DOMAIN out, o)' = From(out, o)  BY <1>4 DEF Under, From
  <2>5. /\ From(out, o) \cap DOMAIN valid' = Routed(out, From(out, o), "valid")
        /\ From(out, o) \cap DOMAIN dlq' = Routed(out, From(out, o), "dlq")
    BY <1>4 DEF From, Routed
  <2>6. Counts(From(out, o))' = bundle[w].accs[o]  BY <2>3, <2>5 DEF Counts
  <2>7. Counts(Under(p.from, p.origin))' = Counts(From(out, o))'
    BY <2>2, <2>4 DEF Counts
  <2>8. \A q \in Lifted(bundle[w]) : p.origin = q.origin => p = q
    BY <1>1, <2>1 DEF Lifted
  <2> QED  BY <2>2, <2>6, <2>7, <2>8
<1>8. ASSUME NEW p \in partials PROVE p.from \subseteq Done /\ p.acc = Counts(Under(p.from, p.origin))'
  <2>1. p.from \in SUBSET Done /\ p.acc = Counts(Under(p.from, p.origin))  BY DEF PartialsInv
  <2>2. Under(p.from, p.origin)' = Under(p.from, p.origin)  BY <1>6, <2>1
  <2>3. Under(p.from, p.origin) \in SUBSET Done  BY <2>1 DEF Under
  <2>4. Counts(Under(p.from, p.origin))' = Counts(Under(p.from, p.origin))
    BY <1>6, <2>2, <2>3 DEF Counts
  <2> QED  BY <2>1, <2>4
<1>9. ASSUME NEW p \in partials', NEW q \in partials', p # q, p.origin = q.origin
      PROVE  p.from \cap q.from = {}
  BY <1>2, <1>7, <1>8, <1>9 DEF PartialsInv
<1>10. ASSUME NEW i \in Done' PROVE \E p \in partials' : p.origin = Src(i)' /\ i \in p.from
  <2>1. CASE i \in Done  BY <1>2, <1>3, <1>5, <2>1 DEF PartialsInv
  <2>2. CASE i \in DOMAIN out
    <3>1. Origin(out[i]) \in DOMAIN bundle[w].accs  BY <1>1, <2>2 DEF Tallied
    <3> DEFINE p == [origin |-> Origin(out[i]), from |-> DOMAIN out,
                     acc |-> bundle[w].accs[Origin(out[i])]]
    <3>2. p \in Lifted(bundle[w]) /\ p.origin = Origin(out[i]) /\ p.from = DOMAIN out
      BY <1>1, <3>1 DEF Lifted
    <3> QED  BY <1>2, <1>4, <2>2, <3>2
  <2> QED  BY <1>2, <2>1, <2>2
<1>11. PartialsInv'
  <2>1. \A p \in partials' : p.from \subseteq Done' /\ p.acc = Counts(Under(p.from, p.origin))'
    BY <1>2, <1>7, <1>8
  <2> QED  BY <1>9, <1>10, <2>1 DEF PartialsInv
<1>12. SumsInv'  BY <1>5 DEF SumsInv
<1> QED  BY <1>11, <1>12

LEMMA MergeLedger ==
  ASSUME Shape, PartialsInv, SumsInv, MergeAccumulators
  PROVE  PartialsInv' /\ SumsInv'
<1>1. PICK p \in partials, q \in partials :
        /\ p # q /\ p.origin = q.origin
        /\ partials' = (partials \ {p, q}) \cup
             {[origin |-> p.origin, from |-> p.from \cup q.from, acc |-> MergeOrigin(p.acc, q.acc)]}
  BY DEF MergeAccumulators
<1>2. UNCHANGED <<input, valid, dlq, sums>>  BY DEF MergeAccumulators, job_vars, outputs
<1>3. /\ Done' = Done /\ \A i : Src(i)' = Src(i)
      /\ \A S : Counts(S)' = Counts(S)
      /\ \A S, o : Under(S, o)' = Under(S, o)
      /\ \A s : Summed(s)' <=> Summed(s)
  BY <1>2, SameCounts
<1>4. PICK r : r = [origin |-> p.origin, from |-> p.from \cup q.from, acc |-> MergeOrigin(p.acc, q.acc)]
  OBVIOUS
<1>5. r.origin = p.origin /\ r.from = p.from \cup q.from /\ r.acc = MergeOrigin(p.acc, q.acc)
  BY <1>4
<1>6. partials' = (partials \ {p, q}) \cup {r}  BY <1>1, <1>4
<1>7. r.acc = Counts(Under(r.from, r.origin))
  <2>1. /\ p.acc = Counts(Under(p.from, p.origin)) /\ q.acc = Counts(Under(q.from, p.origin))
        /\ p.from \cap q.from = {} /\ p.from \subseteq Done /\ q.from \subseteq Done
    BY <1>1 DEF PartialsInv
  <2>2. Under(r.from, r.origin) = Under(p.from, p.origin) \cup Under(q.from, p.origin)
    BY <1>5 DEF Under
  <2>3. /\ Under(p.from, p.origin) \in SUBSET DOMAIN input /\ Under(q.from, p.origin) \in SUBSET DOMAIN input
        /\ Under(p.from, p.origin) \cap Under(q.from, p.origin) = {}
    BY <2>1 DEF Under, Done, Shape
  <2> QED  BY <1>5, <2>1, <2>2, <2>3, CountsAdd
<1>8. \A x \in partials' : x.from \subseteq Done /\ x.acc = Counts(Under(x.from, x.origin))
  BY <1>1, <1>5, <1>6, <1>7 DEF PartialsInv
<1>9. \A x, y \in partials' : x # y /\ x.origin = y.origin => x.from \cap y.from = {}
  BY <1>1, <1>5, <1>6 DEF PartialsInv
<1>10. \A i \in Done : \/ \E x \in partials' : x.origin = Src(i) /\ i \in x.from
                       \/ \E s \in sums : Src(i) \in DOMAIN s.origins
  BY <1>1, <1>5, <1>6 DEF PartialsInv
<1>11. PartialsInv'  BY <1>2, <1>3, <1>8, <1>9, <1>10 DEF PartialsInv
<1>12. \A s \in sums : \A x \in partials' : x.origin \notin DOMAIN s.origins
  BY <1>1, <1>5, <1>6 DEF SumsInv
<1>13. SumsInv'  BY <1>2, <1>3, <1>12 DEF SumsInv
<1> QED  BY <1>11, <1>13

(* A summary with one more origin, and two summaries of different origins, *)
(* count what they cover.                                                  *)
LEMMA SumAdds ==
  ASSUME Shape, NEW m, Summed(m), NEW o, o \notin DOMAIN m.origins
  PROVE  /\ Summed(AddSummary(m, o, Counts(Under(Done, o))))
         /\ DOMAIN AddSummary(m, o, Counts(Under(Done, o))).origins = {o} \cup DOMAIN m.origins
<1>1. PICK a : a = Counts(Under(Done, o))  OBVIOUS
<1>2. PICK n : n = AddSummary(m, o, a)  OBVIOUS
<1>3. /\ n.total = m.total + a.total /\ n.written = m.written + a.valid /\ n.dead = m.dead + a.dlq
      /\ n.origins = Put(m.origins, o, a)
  BY <1>2 DEF AddSummary
<1>4. /\ DOMAIN n.origins = {o} \cup DOMAIN m.origins /\ n.origins[o] = a
      /\ \A q \in DOMAIN m.origins : n.origins[q] = m.origins[q]
  BY <1>3 DEF Put
<1>5. Covered(n.origins) = Covered(m.origins) \cup Under(Done, o)  BY <1>4 DEF Covered, Under
<1>6. /\ Covered(m.origins) \in SUBSET DOMAIN input /\ Under(Done, o) \in SUBSET DOMAIN input
      /\ Covered(m.origins) \cap Under(Done, o) = {}
  BY DEF Covered, Under, Done, Shape
<1>7. Counts(Covered(n.origins)) = MergeOrigin(Counts(Covered(m.origins)), a)
  BY <1>1, <1>5, <1>6, CountsAdd
<1>8. Counts(Covered(m.origins)) = [total |-> m.total, valid |-> m.written, dlq |-> m.dead]
  BY DEF Summed
<1>9. [total |-> n.total, valid |-> n.written, dlq |-> n.dead] = Counts(Covered(n.origins))
  BY <1>3, <1>7, <1>8 DEF MergeOrigin
<1>10. \A q \in DOMAIN n.origins : n.origins[q] = Counts(Under(Done, q))
  BY <1>1, <1>4 DEF Summed
<1>11. Summed(n)  BY <1>9, <1>10 DEF Summed
<1> QED  BY <1>1, <1>2, <1>4, <1>11

LEMMA SumMerges ==
  ASSUME Shape, NEW s, NEW t, Summed(s), Summed(t), DOMAIN s.origins \cap DOMAIN t.origins = {}
  PROVE  /\ Summed(MergeSummaries(s, t))
         /\ DOMAIN MergeSummaries(s, t).origins = DOMAIN s.origins \cup DOMAIN t.origins
<1>2. PICK n : n = MergeSummaries(s, t)  OBVIOUS
<1>3. /\ n.total = s.total + t.total /\ n.written = s.written + t.written /\ n.dead = s.dead + t.dead
      /\ n.origins = Over(t.origins, s.origins)
  BY <1>2 DEF MergeSummaries
<1>4. /\ DOMAIN n.origins = DOMAIN s.origins \cup DOMAIN t.origins
      /\ \A q \in DOMAIN s.origins : n.origins[q] = s.origins[q]
      /\ \A q \in DOMAIN t.origins : n.origins[q] = t.origins[q]
  BY <1>3 DEF Over
<1>5. Covered(n.origins) = Covered(s.origins) \cup Covered(t.origins)  BY <1>4 DEF Covered
<1>6. /\ Covered(s.origins) \in SUBSET DOMAIN input /\ Covered(t.origins) \in SUBSET DOMAIN input
      /\ Covered(s.origins) \cap Covered(t.origins) = {}
  BY DEF Covered, Done, Shape
<1>7. Counts(Covered(n.origins)) = MergeOrigin(Counts(Covered(s.origins)), Counts(Covered(t.origins)))
  BY <1>5, <1>6, CountsAdd
<1>8. /\ Counts(Covered(s.origins)) = [total |-> s.total, valid |-> s.written, dlq |-> s.dead]
      /\ Counts(Covered(t.origins)) = [total |-> t.total, valid |-> t.written, dlq |-> t.dead]
  BY DEF Summed
<1>9. [total |-> n.total, valid |-> n.written, dlq |-> n.dead] = Counts(Covered(n.origins))
  BY <1>3, <1>7, <1>8 DEF MergeOrigin
<1>10. \A q \in DOMAIN n.origins : n.origins[q] = Counts(Under(Done, q))
  BY <1>4 DEF Summed
<1>11. Summed(n)  BY <1>9, <1>10 DEF Summed
<1> QED  BY <1>2, <1>4, <1>11

(* An origin is summed up when its count is complete. *)
LEMMA SummaryLedger ==
  ASSUME Shape, PartialsInv, SumsInv, ToOriginSummary
  PROVE  PartialsInv' /\ SumsInv'
<1>1. PICK p \in partials :
        /\ \A q \in partials : q.origin = p.origin => q = p
        /\ partials' = partials \ {p}
        /\ \/ sums' = sums \cup {AddSummary(CreateSummary, p.origin, p.acc)}
           \/ \E s \in sums : sums' = (sums \ {s}) \cup {AddSummary(s, p.origin, p.acc)}
  BY DEF ToOriginSummary
<1>2. UNCHANGED <<input, valid, dlq>> /\ Done = DOMAIN input
  BY DEF ToOriginSummary, job_vars, outputs
<1>3. /\ Done' = Done /\ \A i : Src(i)' = Src(i)
      /\ \A S : Counts(S)' = Counts(S)
      /\ \A S, o : Under(S, o)' = Under(S, o)
      /\ \A s : Summed(s)' <=> Summed(s)
  BY <1>2, SameCounts
<1>4. p.acc = Counts(Under(Done, p.origin))
  <2>1. p.from \subseteq Done /\ p.acc = Counts(Under(p.from, p.origin))  BY DEF PartialsInv
  <2>2. \A s \in sums : p.origin \notin DOMAIN s.origins  BY DEF SumsInv
  <2>3. Under(p.from, p.origin) = Under(Done, p.origin)
    BY <1>1, <2>1, <2>2 DEF Under, PartialsInv
  <2> QED  BY <2>1, <2>3
<1>5. Summed(CreateSummary) /\ DOMAIN CreateSummary.origins = {}
  <2>1. /\ CreateSummary.origins = <<>> /\ CreateSummary.total = 0
        /\ CreateSummary.written = 0 /\ CreateSummary.dead = 0
    BY DEF CreateSummary
  <2>2. DOMAIN CreateSummary.origins = {}  BY <2>1
  <2>3. Covered(CreateSummary.origins) = {}  BY <2>2 DEF Covered
  <2>4. Counts(Covered(CreateSummary.origins)) = [total |-> 0, valid |-> 0, dlq |-> 0]
    BY <2>3, FS_EmptySet DEF Counts
  <2> QED  BY <2>1, <2>2, <2>4 DEF Summed
<1> DEFINE Grown(R, m) ==
             /\ sums' = (sums \ R) \cup {AddSummary(m, p.origin, p.acc)}
             /\ Summed(m) /\ p.origin \notin DOMAIN m.origins
             /\ \A o \in DOMAIN m.origins : \E s \in R : o \in DOMAIN s.origins
             /\ \A s \in R : DOMAIN s.origins \subseteq DOMAIN m.origins
<1>a. \E R \in SUBSET sums : \E m : Grown(R, m)
  <2>1. CASE sums' = sums \cup {AddSummary(CreateSummary, p.origin, p.acc)}
    <3>1. sums' = (sums \ {}) \cup {AddSummary(CreateSummary, p.origin, p.acc)}  BY <2>1
    <3>2. Grown({}, CreateSummary)  BY <1>5, <3>1
    <3> QED  BY <3>2
  <2>2. ASSUME NEW s \in sums, sums' = (sums \ {s}) \cup {AddSummary(s, p.origin, p.acc)}
        PROVE  \E R \in SUBSET sums : \E m : Grown(R, m)
    <3>1. Summed(s) /\ p.origin \notin DOMAIN s.origins /\ {s} \in SUBSET sums  BY DEF SumsInv
    <3>2. Grown({s}, s)  BY <2>2, <3>1
    <3> QED  BY <3>1, <3>2
  <2> QED  BY <1>1, <2>1, <2>2
<1>b. PICK R \in SUBSET sums : \E m : Grown(R, m)  BY <1>a
<1>6. PICK m : Grown(R, m)  BY <1>b
<1>7. PICK n : n = AddSummary(m, p.origin, p.acc)  OBVIOUS
<1>8. Summed(n) /\ DOMAIN n.origins = {p.origin} \cup DOMAIN m.origins  BY <1>4, <1>6, <1>7, SumAdds
<1>9. sums' = (sums \ R) \cup {n}  BY <1>6, <1>7
<1>10. PartialsInv'
  <2>1. \A i \in Done : \/ \E x \in partials' : x.origin = Src(i) /\ i \in x.from
                        \/ \E s \in sums' : Src(i) \in DOMAIN s.origins
    <3> SUFFICES ASSUME NEW i \in Done
                 PROVE  \/ \E x \in partials' : x.origin = Src(i) /\ i \in x.from
                        \/ \E s \in sums' : Src(i) \in DOMAIN s.origins
      OBVIOUS
    <3>1. CASE \E x \in partials : x.origin = Src(i) /\ i \in x.from  BY <1>1, <1>8, <1>9, <3>1
    <3>2. CASE \E s \in sums : Src(i) \in DOMAIN s.origins  BY <1>6, <1>8, <1>9, <3>2
    <3> QED  BY <3>1, <3>2 DEF PartialsInv
  <2> QED  BY <1>1, <1>3, <2>1 DEF PartialsInv
<1>11. SumsInv'
  <2>1. \A s \in sums' : Summed(s)  BY <1>8, <1>9 DEF SumsInv
  <2>2. \A s \in sums' : \A q \in partials' : q.origin \notin DOMAIN s.origins
    <3> SUFFICES ASSUME NEW s \in sums', NEW q \in partials' PROVE q.origin \notin DOMAIN s.origins
      OBVIOUS
    <3>1. q \in partials /\ q.origin # p.origin  BY <1>1
    <3>2. \A t \in sums : q.origin \notin DOMAIN t.origins  BY <3>1 DEF SumsInv
    <3> QED  BY <1>6, <1>8, <1>9, <3>1, <3>2
  <2>3. \A s \in sums \ R : DOMAIN s.origins \cap DOMAIN n.origins = {}
    BY <1>6, <1>8 DEF SumsInv
  <2>4. \A s, t \in sums' : s # t => DOMAIN s.origins \cap DOMAIN t.origins = {}
    BY <1>9, <2>3 DEF SumsInv
  <2> QED  BY <1>2, <1>3, <2>1, <2>2, <2>4 DEF SumsInv
<1> QED  BY <1>10, <1>11

LEMMA MergeSumsLedger ==
  ASSUME Shape, PartialsInv, SumsInv, MetricsTransparent, MergeSums
  PROVE  PartialsInv' /\ SumsInv'
<1>1. PICK s \in sums, t \in sums :
        s # t /\ sums' = (sums \ {s, t}) \cup {MergeSummaries(s, t)}
  BY DEF MergeSums, MetricsTransparent
<1>2. UNCHANGED <<input, valid, dlq, partials>>  BY DEF MergeSums, job_vars, outputs
<1>3. /\ Done' = Done /\ \A i : Src(i)' = Src(i)
      /\ \A S : Counts(S)' = Counts(S)
      /\ \A S, o : Under(S, o)' = Under(S, o)
      /\ \A x : Summed(x)' <=> Summed(x)
  BY <1>2, SameCounts
<1>4. Summed(s) /\ Summed(t) /\ DOMAIN s.origins \cap DOMAIN t.origins = {}  BY <1>1 DEF SumsInv
<1>5. PICK n : n = MergeSummaries(s, t)  OBVIOUS
<1>6. Summed(n) /\ DOMAIN n.origins = DOMAIN s.origins \cup DOMAIN t.origins
  BY <1>4, <1>5, SumMerges
<1>7. sums' = (sums \ {s, t}) \cup {n}  BY <1>1, <1>5
<1>8. PartialsInv'
  <2>1. \A i \in Done : (\E x \in sums : Src(i) \in DOMAIN x.origins)
                         => \E x \in sums' : Src(i) \in DOMAIN x.origins
    BY <1>6, <1>7
  <2> QED  BY <1>2, <1>3, <2>1 DEF PartialsInv
<1>9. SumsInv'
  <2>1. \A x \in sums' : Summed(x)  BY <1>6, <1>7 DEF SumsInv
  <2>2. \A x \in sums' : \A q \in partials : q.origin \notin DOMAIN x.origins
    BY <1>6, <1>7 DEF SumsInv
  <2>3. \A x \in sums \ {s, t} : DOMAIN x.origins \cap DOMAIN n.origins = {}
    BY <1>6 DEF SumsInv
  <2>4. \A x, y \in sums' : x # y => DOMAIN x.origins \cap DOMAIN y.origins = {}
    BY <1>7, <2>3 DEF SumsInv
  <2>5. sums' # {} => Done' = DOMAIN input'  BY <1>1, <1>2, <1>3 DEF SumsInv
  <2> QED  BY <1>2, <1>3, <2>1, <2>2, <2>4, <2>5 DEF SumsInv
<1> QED  BY <1>8, <1>9

-----------------------------------------------------------------------------
(* The metrics file. *)

Exact(m, in, v, d) ==
  /\ DOMAIN v \cup DOMAIN d = DOMAIN in
  /\ m.total = Len(in)
  /\ m.written = Cardinality(DOMAIN v) /\ m.dead = Cardinality(DOMAIN d)
  /\ \A i \in DOMAIN v : validRecordMetricKVFn(v[i]) \in DOMAIN m.origins
  /\ \A i \in DOMAIN d : dlqRecordMetricKVFn(d[i]) \in DOMAIN m.origins
  /\ \A o \in DOMAIN m.origins :
       /\ m.origins[o].valid = Cardinality({i \in DOMAIN v : validRecordMetricKVFn(v[i]) = o})
       /\ m.origins[o].dlq = Cardinality({i \in DOMAIN d : dlqRecordMetricKVFn(d[i]) = o})
       /\ m.origins[o].total = m.origins[o].valid + m.origins[o].dlq

LEMMA Written ==
  ASSUME Shape, PartialsInv, SumsInv, MetricsTransparent, WriteMetrics
  PROVE  MetricsExact'
<1>1. PICK s \in sums : sums = {s} /\ metrics' = {s} /\ partials = {} /\ Done = DOMAIN input
  BY DEF WriteMetrics, MetricsTransparent
<1>2. UNCHANGED <<input, valid, dlq>>  BY DEF WriteMetrics, job_vars, outputs
<1>3. \A i \in Done : Src(i) \in DOMAIN s.origins  BY <1>1 DEF PartialsInv
<1>4. Covered(s.origins) = Done  BY <1>3 DEF Covered
<1>5. /\ Done \cap DOMAIN valid = DOMAIN valid /\ Done \cap DOMAIN dlq = DOMAIN dlq
      /\ DOMAIN valid \cap DOMAIN dlq = {}
  BY DEF Done, Shape
<1>6. [total |-> s.total, valid |-> s.written, dlq |-> s.dead] = Counts(Done)
  BY <1>1, <1>4 DEF SumsInv, Summed
<1>7. /\ s.total = Cardinality(Done) /\ s.written = Cardinality(DOMAIN valid)
      /\ s.dead = Cardinality(DOMAIN dlq)
  BY <1>5, <1>6 DEF Counts
<1>8. Cardinality(Done) = Len(input)
  <2>1. Len(input) \in Nat /\ Done = 1 .. Len(input)  BY <1>1 DEF Shape
  <2>2. Cardinality(1 .. Len(input)) = IF 1 > Len(input) THEN 0 ELSE Len(input) - 1 + 1
    BY <2>1, FS_Interval
  <2> QED  BY <2>1, <2>2
<1>9. \A i \in DOMAIN valid : Src(i) = validRecordMetricKVFn(valid[i])  BY DEF Src
<1>10. \A i \in DOMAIN dlq : Src(i) = dlqRecordMetricKVFn(dlq[i])  BY <1>5 DEF Src
<1>11. /\ \A i \in DOMAIN valid : validRecordMetricKVFn(valid[i]) \in DOMAIN s.origins
       /\ \A i \in DOMAIN dlq : dlqRecordMetricKVFn(dlq[i]) \in DOMAIN s.origins
  BY <1>3, <1>9, <1>10 DEF Done
<1>12. ASSUME NEW o \in DOMAIN s.origins
       PROVE  /\ s.origins[o].valid =
                    Cardinality({i \in DOMAIN valid : validRecordMetricKVFn(valid[i]) = o})
              /\ s.origins[o].dlq =
                    Cardinality({i \in DOMAIN dlq : dlqRecordMetricKVFn(dlq[i]) = o})
              /\ s.origins[o].total = s.origins[o].valid + s.origins[o].dlq
  <2>1. s.origins[o] = Counts(Under(Done, o))  BY <1>1 DEF SumsInv, Summed
  <2>2. PICK V, D : V = {i \in DOMAIN valid : Src(i) = o} /\ D = {i \in DOMAIN dlq : Src(i) = o}
    OBVIOUS
  <2>3. /\ Under(Done, o) \cap DOMAIN valid = V /\ Under(Done, o) \cap DOMAIN dlq = D
        /\ Under(Done, o) = V \cup D
    BY <1>5, <2>2 DEF Under, Done
  <2>4. Cardinality(Under(Done, o)) = Cardinality(V) + Cardinality(D)
    <3>1. V \in SUBSET DOMAIN input /\ D \in SUBSET DOMAIN input /\ V \cap D = {}
      BY <1>5, <2>2 DEF Shape
    <3> QED  BY <2>3, <3>1, CountsAdd
  <2>5. {i \in DOMAIN valid : validRecordMetricKVFn(valid[i]) = o} = V  BY <1>9, <2>2
  <2>6. {i \in DOMAIN dlq : dlqRecordMetricKVFn(dlq[i]) = o} = D  BY <1>10, <2>2
  <2> QED  BY <2>1, <2>3, <2>4, <2>5, <2>6 DEF Counts
<1>13. Done' = Done  BY <1>2 DEF Done
<1> QED  BY <1>1, <1>2, <1>7, <1>8, <1>11, <1>12, <1>13, ZenonT(60) DEF MetricsExact, OutOf

LEMMA FlowInitial == FlowInit => FlowInv /\ MetricsExact
<1> SUFFICES ASSUME FlowInit PROVE FlowInv /\ MetricsExact  OBVIOUS
<1>1. /\ bundle = [w \in Workers |-> Idle] /\ valid = <<>> /\ dlq = <<>>
      /\ partials = {} /\ sums = {} /\ metrics = {}
  BY DEF FlowInit
<1>2. input \in Seq(Range(input))  BY FlowAssumption DEF FlowInit, IsSeq
<1>3. DOMAIN valid = {} /\ DOMAIN dlq = {} /\ Done = {}  BY <1>1 DEF Done
<1>4. Shape  BY <1>1, <1>2, <1>3 DEF Shape
<1>5. OnePlace /\ \A w \in Workers : Tallied(bundle[w])  BY <1>1, <1>3, IdleFacts DEF OnePlace
<1>6. PartialsInv /\ SumsInv /\ MetricsExact  BY <1>1, <1>3 DEF PartialsInv, SumsInv, MetricsExact
<1> QED  BY <1>4, <1>5, <1>6 DEF FlowInv

LEMMA FlowStep ==
  FlowInv /\ MetricsExact /\ MetricsTransparent /\ [FlowNext]_flowVars => FlowInv' /\ MetricsExact'
<1> SUFFICES ASSUME FlowInv, MetricsExact, MetricsTransparent, [FlowNext]_flowVars
             PROVE  FlowInv' /\ MetricsExact'
  OBVIOUS
<1>1. /\ Shape /\ OnePlace /\ (\A w \in Workers : Tallied(bundle[w])) /\ PartialsInv /\ SumsInv
  BY DEF FlowInv
<1>2. ASSUME UNCHANGED <<input, bundle, valid, dlq, partials, sums>>, metrics' # {} => job' # "running"
      PROVE  FlowInv'
  <2>1. Shape'  BY <1>1, <1>2 DEF Shape
  <2>2. OnePlace' /\ \A w \in Workers : Tallied(bundle[w])'  BY <1>1, <1>2 DEF OnePlace, Done
  <2>3. PartialsInv' /\ SumsInv'  BY <1>1, <1>2, LedgerKept
  <2> QED  BY <2>1, <2>2, <2>3 DEF FlowInv
<1>3. ASSUME job = "running", metrics' = metrics PROVE MetricsExact'
  <2>1. metrics = {}  BY <1>1, <1>3 DEF Shape
  <2> QED  BY <1>3, <2>1 DEF MetricsExact
<1>4. ASSUME NEW w \in Workers, StartBundle(w) \/ Emit(w) \/ ProcessElement(w) \/ CrashBundle(w)
      PROVE  FlowInv' /\ MetricsExact'
  <2>1. UNCHANGED Ledger /\ job = "running" /\ \E b : Replaced(w, b)
    <3>1. CASE StartBundle(w)  BY <1>1, <3>1, StartStep DEF StartBundle
    <3>2. CASE Emit(w)  BY <1>1, <3>2, EmitStep
    <3>3. CASE ProcessElement(w)  BY <1>1, <3>3, ProcessStep
    <3>4. CASE CrashBundle(w)
      BY <1>1, <3>4, Replacing DEF CrashBundle, job_vars, outputs, tallies, Ledger
    <3> QED  BY <1>4, <3>1, <3>2, <3>3, <3>4
  <2>2. UNCHANGED <<input, valid, dlq, partials, sums, metrics>> /\ metrics = {}
    BY <1>1, <2>1 DEF Ledger, Shape
  <2>3. bundle' = [u \in Workers |-> bundle'[u]]  BY <2>1 DEF Replaced
  <2>4. Shape'  BY <1>1, <2>2, <2>3 DEF Shape
  <2>5. OnePlace' /\ \A u \in Workers : Tallied(bundle[u])'
    BY <1>1, <1>4, PlacesReplaced, TalliesKept
  <2>6. PartialsInv' /\ SumsInv'  BY <1>1, <2>2, LedgerKept
  <2> QED  BY <1>3, <2>1, <2>2, <2>4, <2>5, <2>6 DEF FlowInv
<1>5. ASSUME NEW w \in Workers, CommitBundle(w) PROVE FlowInv' /\ MetricsExact'
  <2>1. Shape' /\ job = "running" /\ metrics' = metrics  BY <1>1, <1>5, Committing
  <2>2. OnePlace' /\ \A u \in Workers : Tallied(bundle[u])'  BY <1>1, <1>5, CommitPlaces
  <2>3. PartialsInv' /\ SumsInv'  BY <1>1, <1>5, CommitLedger
  <2> QED  BY <1>3, <2>1, <2>2, <2>3 DEF FlowInv
<1>6. ASSUME MergeAccumulators \/ ToOriginSummary \/ MergeSums PROVE FlowInv' /\ MetricsExact'
  <2>1. UNCHANGED <<input, bundle, valid, dlq, metrics, job>> /\ job = "running"
    BY <1>6 DEF MergeAccumulators, ToOriginSummary, MergeSums, job_vars, outputs
  <2>2. Shape'  BY <1>1, <2>1 DEF Shape
  <2>3. OnePlace' /\ \A u \in Workers : Tallied(bundle[u])'  BY <1>1, <2>1 DEF OnePlace, Done
  <2>4. PartialsInv' /\ SumsInv'  BY <1>1, <1>6, MergeLedger, SummaryLedger, MergeSumsLedger
  <2> QED  BY <1>3, <2>1, <2>2, <2>3, <2>4 DEF FlowInv
<1>7. CASE WriteMetrics
  <2>1. UNCHANGED <<input, bundle, valid, dlq, partials, sums>> /\ job' # "running"
    BY <1>7 DEF WriteMetrics, job_vars, outputs
  <2> QED  BY <1>1, <1>2, <1>7, <2>1, Written
<1>8. CASE MetricsWriteFails \/ FinishEmpty
  <2>1. UNCHANGED <<input, bundle, valid, dlq, partials, sums, metrics>> /\ job = "running"
    BY <1>8 DEF MetricsWriteFails, FinishEmpty, job_vars, outputs, tallies
  <2>2. metrics' = {}  BY <1>1, <2>1 DEF Shape
  <2> QED  BY <1>2, <1>3, <2>1, <2>2
<1>9. CASE UNCHANGED flowVars
  <2>1. UNCHANGED <<input, bundle, valid, dlq, partials, sums, metrics, job>>  BY <1>9 DEF flowVars
  <2>2. FlowInv'  BY <1>1, <1>2, <2>1 DEF Shape
  <2>3. MetricsExact'
    <3>1. MetricsExact <=> \A m \in metrics : Exact(m, input, valid, dlq)
      BY DEF MetricsExact, Exact, Done, OutOf
    <3>2. MetricsExact' <=> \A m \in metrics' : Exact(m, input', valid', dlq')
      BY DEF MetricsExact, Exact, Done, OutOf
    <3> QED  BY <2>1, <3>1, <3>2
  <2> QED  BY <2>2, <2>3
<1> QED  BY <1>4, <1>5, <1>6, <1>7, <1>8, <1>9 DEF FlowNext, Stopped

-----------------------------------------------------------------------------
(* Induction and sequences.  The library's induction theorems are about an *)
(* operator; this one is about a set.                                      *)
LEMMA Induction ==
  ASSUME NEW P, 0 \in P, \A n \in Nat : n \in P => n + 1 \in P
  PROVE  \A n \in Nat : n \in P
<1> SUFFICES ASSUME Nat \ P # {} PROVE FALSE  OBVIOUS
<1>1. IsWellFoundedOn(OpToRel(<, Nat), Nat)  BY NatLessThanWellFounded
<1>2. PICK x \in Nat \ P : \A y \in Nat \ P : ~(<<y, x>> \in OpToRel(<, Nat))
  <2>1. Nat \ P \subseteq Nat  OBVIOUS
  <2> QED  BY <1>1, <2>1, WFMin
<1>3. x # 0 /\ x - 1 \in Nat /\ x - 1 < x /\ (x - 1) + 1 = x  OBVIOUS
<1>4. x - 1 \in P
  <2>1. <<x - 1, x>> \in OpToRel(<, Nat)  BY <1>3 DEF OpToRel
  <2> QED  BY <1>2, <1>3, <2>1
<1> QED  BY <1>3, <1>4

LEMMA SeqShape ==
  ASSUME NEW s, IsSeq(s)
  PROVE  Len(s) \in Nat /\ DOMAIN s = 1 .. Len(s) /\ s = [i \in 1 .. Len(s) |-> s[i]]
<1>1. s \in Seq(Range(s))  BY DEF IsSeq
<1> QED  BY <1>1

LEMMA FunctionsAreSeqs ==
  ASSUME NEW n \in Nat, NEW T, NEW s \in [1 .. n -> T]
  PROVE  IsSeq(s) /\ Len(s) = n
<1>1. DOMAIN s = 1 .. n  OBVIOUS
<1>2. s \in [1 .. n -> Range(s)]  BY <1>1 DEF Range
<1>3. s \in Seq(Range(s))  BY <1>2
<1>4. Len(s) = n  BY <1>1, <1>3
<1> QED  BY <1>3, <1>4 DEF IsSeq

LEMMA SeqsAre ==
  ASSUME NEW S, NEW s \in Seq(S)
  PROVE  IsSeq(s)
<1>1. Len(s) \in Nat /\ s \in [1 .. Len(s) -> S]  OBVIOUS
<1> QED  BY <1>1, FunctionsAreSeqs

LEMMA SeqConcat ==
  ASSUME NEW u, NEW v, IsSeq(u), IsSeq(v)
  PROVE  /\ IsSeq(u \o v) /\ Len(u \o v) = Len(u) + Len(v) /\ Len(u) \in Nat /\ Len(v) \in Nat
         /\ DOMAIN (u \o v) = 1 .. (Len(u) + Len(v))
         /\ \A i \in 1 .. Len(u) : (u \o v)[i] = u[i]
         /\ \A i \in 1 .. Len(v) : (u \o v)[Len(u) + i] = v[i]
<1>1. PICK S : S = Range(u) \cup Range(v)  OBVIOUS
<1>2. u \in Seq(S) /\ v \in Seq(S)
  <2>1. u \in Seq(Range(u)) /\ v \in Seq(Range(v))  BY DEF IsSeq
  <2>2. Range(u) \subseteq S /\ Range(v) \subseteq S  BY <1>1
  <2> QED  BY <2>1, <2>2
<1>3. /\ u \o v \in Seq(S) /\ Len(u \o v) = Len(u) + Len(v)
      /\ \A i \in 1 .. Len(u) + Len(v) : (u \o v)[i] = IF i <= Len(u) THEN u[i] ELSE v[i - Len(u)]
  BY <1>2, ConcatProperties
<1>4. Len(u) \in Nat /\ Len(v) \in Nat  BY SeqShape
<1>5. ASSUME NEW i \in 1 .. Len(v) PROVE (u \o v)[Len(u) + i] = v[i]
  <2>1. Len(u) + i \in 1 .. Len(u) + Len(v) /\ ~(Len(u) + i <= Len(u)) /\ (Len(u) + i) - Len(u) = i
    BY <1>4
  <2> QED  BY <1>3, <2>1
<1>6. ASSUME NEW i \in 1 .. Len(u) PROVE (u \o v)[i] = u[i]
  <2>1. i \in 1 .. Len(u) + Len(v) /\ i <= Len(u)  BY <1>4
  <2> QED  BY <1>3, <2>1
<1>7. IsSeq(u \o v)  BY <1>3, SeqsAre
<1>8. DOMAIN (u \o v) = 1 .. (Len(u) + Len(v))  BY <1>3
<1> QED  BY <1>3, <1>4, <1>5, <1>6, <1>7, <1>8

LEMMA Joined ==
  ASSUME NEW u, NEW v, IsSeq(u), IsSeq(v)
  PROVE  IsSeq(u \o v) /\ Len(u \o v) = Len(u) + Len(v) /\ Len(u) \in Nat /\ Len(v) \in Nat
BY SeqConcat

LEMMA OneMore ==
  ASSUME NEW u, NEW v, NEW n \in Nat, IsSeq(u), Len(u) = n, IsSeq(v), Len(v) = 1
  PROVE  IsSeq(u \o v) /\ Len(u \o v) = n + 1
<1>1. IsSeq(u \o v) /\ Len(u \o v) = Len(u) + Len(v)  BY Joined
<1> QED  BY <1>1

LEMMA SeqAppend ==
  ASSUME NEW s, IsSeq(s), NEW x
  PROVE  /\ IsSeq(Append(s, x)) /\ Len(Append(s, x)) = Len(s) + 1 /\ Len(s) \in Nat
         /\ \A i \in 1 .. Len(s) : Append(s, x)[i] = s[i]
         /\ Append(s, x)[Len(s) + 1] = x
<1>1. PICK S : S = Range(s) \cup {x}  OBVIOUS
<1>2. s \in Seq(S) /\ x \in S
  <2>1. s \in Seq(Range(s)) /\ Range(s) \subseteq S  BY <1>1 DEF IsSeq
  <2> QED  BY <1>1, <2>1
<1>3. /\ Append(s, x) \in Seq(S) /\ Len(Append(s, x)) = Len(s) + 1
      /\ \A i \in 1 .. Len(s) : Append(s, x)[i] = s[i]
      /\ Append(s, x)[Len(s) + 1] = x
  BY <1>2, AppendProperties
<1>4. Len(s) \in Nat  BY <1>2
<1>5. IsSeq(Append(s, x))  BY <1>3, SeqsAre
<1> QED  BY <1>3, <1>4, <1>5

LEMMA SameSeq ==
  ASSUME NEW s, NEW t, IsSeq(s), IsSeq(t), Len(s) = Len(t), \A i \in 1 .. Len(s) : s[i] = t[i]
  PROVE  s = t
<1>1. PICK S : S = Range(s) \cup Range(t)  OBVIOUS
<1>2. s \in Seq(S) /\ t \in Seq(S)
  <2>1. s \in Seq(Range(s)) /\ t \in Seq(Range(t))  BY DEF IsSeq
  <2>2. Range(s) \subseteq S /\ Range(t) \subseteq S  BY <1>1
  <2> QED  BY <2>1, <2>2
<1>3. s \in [1 .. Len(s) -> S] /\ t \in [1 .. Len(s) -> S]  BY <1>2
<1> QED  BY <1>3

LEMMA Tuples ==
  /\ IsSeq(<<>>) /\ Len(<<>>) = 0
  /\ \A x : IsSeq(<<x>>) /\ Len(<<x>>) = 1 /\ <<x>>[1] = x /\ <<x>> # <<>>
<1>1. \A x : <<x>> \in Seq({x})  OBVIOUS
<1>2. <<>> \in Seq({})  OBVIOUS
<1>3. IsSeq(<<>>)  BY <1>2, SeqsAre
<1>4. \A x : IsSeq(<<x>>)  BY <1>1, SeqsAre
<1> QED  BY <1>3, <1>4

-----------------------------------------------------------------------------
(* The coders.  A stream t holds the tokens u from position at on. *)
Holds(t, at, u) == \A i \in 1 .. Len(u) : at + i - 1 \in DOMAIN t /\ t[at + i - 1] = u[i]

LEMMA HoldsSplit ==
  ASSUME NEW t, NEW at \in Nat, NEW u, NEW v, IsSeq(u), IsSeq(v), Holds(t, at, u \o v)
  PROVE  Holds(t, at, u) /\ Holds(t, at + Len(u), v)
<1>1. /\ Len(u \o v) = Len(u) + Len(v) /\ Len(u) \in Nat /\ Len(v) \in Nat
      /\ \A i \in 1 .. Len(u) : (u \o v)[i] = u[i]
      /\ \A i \in 1 .. Len(v) : (u \o v)[Len(u) + i] = v[i]
  BY SeqConcat
<1>2. ASSUME NEW i \in 1 .. Len(u) PROVE at + i - 1 \in DOMAIN t /\ t[at + i - 1] = u[i]
  <2>1. i \in 1 .. Len(u \o v)  BY <1>1
  <2> QED  BY <1>1, <2>1 DEF Holds
<1>3. ASSUME NEW i \in 1 .. Len(v)
      PROVE  (at + Len(u)) + i - 1 \in DOMAIN t /\ t[(at + Len(u)) + i - 1] = v[i]
  <2>1. Len(u) + i \in 1 .. Len(u \o v) /\ at + (Len(u) + i) - 1 = (at + Len(u)) + i - 1  BY <1>1
  <2> QED  BY <1>1, <2>1 DEF Holds
<1> QED  BY <1>2, <1>3 DEF Holds

LEMMA HoldsOne ==
  ASSUME NEW t, NEW at \in Nat, NEW k, NEW x, Holds(t, at, Token(k, x))
  PROVE  Expect(t, at, k) = Got(x, at + 1)
<1>1. Len(Token(k, x)) = 1 /\ Token(k, x)[1] = [k |-> k, v |-> x]  BY DEF Token
<1>2. 1 \in 1 .. Len(Token(k, x)) /\ at + 1 - 1 = at  BY <1>1
<1>3. at \in DOMAIN t /\ t[at] = [k |-> k, v |-> x]  BY <1>1, <1>2 DEF Holds
<1>4. t[at].k = k /\ t[at].v = x  BY <1>3
<1> QED  BY <1>3, <1>4 DEF Expect

LEMMA OneToken == \A k, x : IsSeq(Token(k, x)) /\ Len(Token(k, x)) = 1
BY Tuples DEF Token

LEMMA HoldsItself == ASSUME NEW u, IsSeq(u) PROVE Holds(u, 1, u)
<1>1. Len(u) \in Nat /\ DOMAIN u = 1 .. Len(u)  BY SeqShape
<1>2. ASSUME NEW i \in 1 .. Len(u) PROVE 1 + i - 1 \in DOMAIN u /\ u[1 + i - 1] = u[i]
  <2>1. 1 + i - 1 = i  BY <1>1
  <2> QED  BY <1>1, <2>1
<1> QED  BY <1>2 DEF Holds

(* FlattenSeq is defined by a local recursive function; this is what it    *)
(* computes.                                                               *)
LEMMA FlattenDef ==
  ASSUME NEW seqs, Len(seqs) \in Nat, Len(seqs) # 0
  PROVE  \E f : /\ f = [i \in 1 .. Len(seqs) |-> IF i = 1 THEN seqs[i] ELSE f[i - 1] \o seqs[i]]
                /\ FlattenSeq(seqs) = f[Len(seqs)]
<1> DEFINE G(f, n) == f = [i \in 1 .. n |-> IF i = 1 THEN seqs[i] ELSE f[i - 1] \o seqs[i]]
           P == {n \in Nat : \E f : G(f, n)}
<1>1. 0 \in P
  <2>1. G(<<>>, 0)  OBVIOUS
  <2> QED  BY <2>1
<1>2. ASSUME NEW n \in Nat, n \in P PROVE n + 1 \in P
  <2>1. PICK f : G(f, n)  BY <1>2
  <2>2. PICK g : g = [i \in 1 .. (n + 1) |->
                        IF i = n + 1 THEN IF i = 1 THEN seqs[i] ELSE f[n] \o seqs[i] ELSE f[i]]
    OBVIOUS
  <2>3. ASSUME NEW i \in 1 .. (n + 1)
        PROVE  g[i] = IF i = 1 THEN seqs[i] ELSE g[i - 1] \o seqs[i]
    <3>1. CASE i = n + 1
      <4>1. CASE i = 1  BY <2>2, <3>1, <4>1
      <4>2. CASE i # 1
        <5>1. i - 1 \in 1 .. (n + 1) /\ i - 1 # n + 1 /\ i - 1 = n  BY <3>1, <4>2
        <5>2. g[i - 1] = f[n]  BY <2>2, <5>1
        <5> QED  BY <2>2, <3>1, <4>2, <5>2
      <4> QED  BY <4>1, <4>2
    <3>2. CASE i # n + 1
      <4>1. i \in 1 .. n /\ (i # 1 => i - 1 \in 1 .. (n + 1) /\ i - 1 # n + 1)  BY <3>2
      <4>2. f[i] = IF i = 1 THEN seqs[i] ELSE f[i - 1] \o seqs[i]  BY <2>1, <4>1
      <4>3. g[i] = f[i]  BY <2>2, <3>2
      <4>4. i # 1 => g[i - 1] = f[i - 1]  BY <2>2, <4>1
      <4> QED  BY <4>2, <4>3, <4>4
    <3> QED  BY <3>1, <3>2
  <2>4. G(g, n + 1)  BY <2>2, <2>3
  <2>5. n + 1 \in Nat  OBVIOUS
  <2> QED  BY <2>4, <2>5
<1>3. Len(seqs) \in P  BY <1>1, <1>2, Induction
<1>4. PICK f : f = CHOOSE g : G(g, Len(seqs))  OBVIOUS
<1>5. G(f, Len(seqs))  BY <1>3, <1>4
<1>6. FlattenSeq(seqs) = f[Len(seqs)]  BY <1>4 DEF FlattenSeq
<1> QED  BY <1>5, <1>6

(* Where each part of a flattened stream starts.                           *)
Starts(t, p, seqs) ==
  /\ DOMAIN p = 0 .. Len(seqs) /\ \A i \in 0 .. Len(seqs) : p[i] \in Nat
  /\ \A i \in 1 .. Len(seqs) : p[i] = p[i - 1] + Len(seqs[i]) /\ Holds(t, p[i - 1], seqs[i])

LEMMA HoldsFlattened ==
  ASSUME NEW seqs, IsSeq(seqs), \A i \in 1 .. Len(seqs) : IsSeq(seqs[i])
  PROVE  /\ IsSeq(FlattenSeq(seqs))
         /\ \A t : \A at \in Nat : Holds(t, at, FlattenSeq(seqs)) =>
              \E p : /\ Starts(t, p, seqs) /\ p[0] = at
                     /\ p[Len(seqs)] = at + Len(FlattenSeq(seqs))
<1>1. Len(seqs) \in Nat  BY SeqShape
<1>2. CASE Len(seqs) = 0
  <2>1. FlattenSeq(seqs) = <<>>  BY <1>2 DEF FlattenSeq
  <2>2. ASSUME NEW t, NEW at \in Nat
        PROVE  \E p : /\ Starts(t, p, seqs) /\ p[0] = at
                      /\ p[Len(seqs)] = at + Len(FlattenSeq(seqs))
    <3>1. PICK p : p = [i \in 0 .. 0 |-> at]  OBVIOUS
    <3>2. DOMAIN p = 0 .. Len(seqs) /\ p[0] = at  BY <1>2, <3>1
    <3>3. Starts(t, p, seqs)  BY <1>2, <3>2 DEF Starts
    <3> QED  BY <1>2, <2>1, <3>2, <3>3, Tuples
  <2> QED  BY <2>1, <2>2, Tuples
<1>3. CASE Len(seqs) # 0
  <2>1. PICK f : /\ f = [i \in 1 .. Len(seqs) |-> IF i = 1 THEN seqs[i] ELSE f[i - 1] \o seqs[i]]
                 /\ FlattenSeq(seqs) = f[Len(seqs)]
    BY <1>1, <1>3, FlattenDef
  <2>2. f[1] = seqs[1] /\ 1 \in 1 .. Len(seqs)  BY <1>1, <1>3, <2>1
  <2>3. ASSUME NEW i \in 1 .. Len(seqs), i # 1
        PROVE  f[i] = f[i - 1] \o seqs[i] /\ i - 1 \in 1 .. Len(seqs)
    <3>1. i - 1 \in 1 .. Len(seqs)  BY <1>1, <2>3
    <3>2. f[i] = IF i = 1 THEN seqs[i] ELSE f[i - 1] \o seqs[i]  BY <2>1
    <3> QED  BY <2>3, <3>1, <3>2
  <2>4. \A i \in 1 .. Len(seqs) : IsSeq(f[i])
    <3> DEFINE P == {n \in Nat : n \in 1 .. Len(seqs) => IsSeq(f[n])}
    <3>1. 0 \in P  OBVIOUS
    <3>2. ASSUME NEW n \in Nat, n \in P PROVE n + 1 \in P
      <4>1. CASE n = 0  BY <2>2, <4>1
      <4>2. CASE n # 0 /\ n + 1 \in 1 .. Len(seqs)
        <5>1. n \in 1 .. Len(seqs) /\ n + 1 # 1 /\ (n + 1) - 1 = n  BY <1>1, <4>2
        <5>2. f[n + 1] = f[n] \o seqs[n + 1]  BY <2>3, <4>2, <5>1
        <5>3. IsSeq(f[n]) /\ IsSeq(seqs[n + 1])  BY <3>2, <4>2, <5>1
        <5>4. IsSeq(f[n + 1])  BY <5>2, <5>3, SeqConcat
        <5> QED  BY <5>4
      <4>3. n + 1 \in Nat  OBVIOUS
      <4> QED  BY <4>1, <4>2, <4>3
    <3>3. \A n \in Nat : n \in P
      <4> HIDE DEF P
      <4> QED  BY <3>1, <3>2, Induction
    <3> QED  BY <1>1, <3>3
  <2>5. ASSUME NEW t, NEW at \in Nat, Holds(t, at, FlattenSeq(seqs))
        PROVE  \E p : /\ Starts(t, p, seqs) /\ p[0] = at
                      /\ p[Len(seqs)] = at + Len(FlattenSeq(seqs))
    <3>1. PICK p : p = [i \in 0 .. Len(seqs) |-> IF i = 0 THEN at ELSE at + Len(f[i])]  OBVIOUS
    <3>2. DOMAIN p = 0 .. Len(seqs) /\ p[0] = at /\ p[Len(seqs)] = at + Len(FlattenSeq(seqs))
          /\ \A i \in 1 .. Len(seqs) : p[i] = at + Len(f[i])
      <4>1. DOMAIN p = 0 .. Len(seqs) /\ p[0] = at  BY <1>1, <3>1
      <4>2. ASSUME NEW i \in 1 .. Len(seqs) PROVE p[i] = at + Len(f[i])
        <5>1. i \in 0 .. Len(seqs) /\ i # 0  BY <1>1
        <5> QED  BY <3>1, <5>1
      <4>3. Len(seqs) \in 1 .. Len(seqs)  BY <1>1, <1>3
      <4> QED  BY <2>1, <4>1, <4>2, <4>3
    <3>3. \A i \in 1 .. Len(seqs) : Len(f[i]) \in Nat /\ Len(seqs[i]) \in Nat  BY <2>4, SeqShape
    <3>4. \A i \in 0 .. Len(seqs) : p[i] \in Nat
      <4> SUFFICES ASSUME NEW i \in 0 .. Len(seqs) PROVE p[i] \in Nat  OBVIOUS
      <4>1. CASE i = 0  BY <3>2, <4>1
      <4>2. CASE i # 0
        <5>1. i \in 1 .. Len(seqs)  BY <1>1, <4>2
        <5> QED  BY <3>2, <3>3, <5>1
      <4> QED  BY <4>1, <4>2
    <3>5. ASSUME NEW i \in 1 .. Len(seqs), Holds(t, at, f[i])
          PROVE  /\ p[i] = p[i - 1] + Len(seqs[i]) /\ Holds(t, p[i - 1], seqs[i])
                 /\ i # 1 => Holds(t, at, f[i - 1])
      <4>1. CASE i = 1
        <5>1. i - 1 = 0  BY <4>1
        <5>2. p[i - 1] = at /\ f[i] = seqs[i]  BY <2>2, <3>2, <4>1, <5>1
        <5> QED  BY <3>2, <3>5, <4>1, <5>2
      <4>2. CASE i # 1
        <5>1. f[i] = f[i - 1] \o seqs[i] /\ i - 1 \in 1 .. Len(seqs)  BY <2>3, <4>2
        <5>2. IsSeq(f[i - 1]) /\ IsSeq(seqs[i])  BY <2>4, <5>1
        <5>3. Holds(t, at, f[i - 1]) /\ Holds(t, at + Len(f[i - 1]), seqs[i])
          BY <3>5, <5>1, <5>2, HoldsSplit
        <5>4. Len(f[i]) = Len(f[i - 1]) + Len(seqs[i])  BY <5>1, <5>2, SeqConcat
        <5>5. p[i - 1] = at + Len(f[i - 1]) /\ p[i] = at + Len(f[i])  BY <3>2, <5>1
        <5>6. Len(f[i - 1]) \in Nat /\ Len(seqs[i]) \in Nat  BY <3>3, <5>1
        <5>7. p[i] = p[i - 1] + Len(seqs[i])
          <6>1. \A x, y \in Nat : at + (x + y) = (at + x) + y  OBVIOUS
          <6> QED  BY <5>4, <5>5, <5>6, <6>1
        <5> QED  BY <5>3, <5>5, <5>7
      <4> QED  BY <4>1, <4>2
    <3>6. \A i \in 1 .. Len(seqs) : Holds(t, at, f[i])
      <4> DEFINE P == {n \in Nat : Len(seqs) - n \in 1 .. Len(seqs) => Holds(t, at, f[Len(seqs) - n])}
      <4>1. 0 \in P
        <5>1. Len(seqs) - 0 = Len(seqs)  BY <1>1
        <5> QED  BY <2>1, <2>5, <5>1
      <4>2. ASSUME NEW n \in Nat, n \in P PROVE n + 1 \in P
        <5>1. CASE Len(seqs) - (n + 1) \in 1 .. Len(seqs)
          <6>1. /\ Len(seqs) - n \in 1 .. Len(seqs) /\ Len(seqs) - n # 1
                /\ (Len(seqs) - n) - 1 = Len(seqs) - (n + 1)
            BY <1>1, <5>1
          <6>2. Holds(t, at, f[Len(seqs) - n])  BY <4>2, <6>1
          <6>3. Holds(t, at, f[(Len(seqs) - n) - 1])  BY <3>5, <6>1, <6>2
          <6>4. Holds(t, at, f[Len(seqs) - (n + 1)])  BY <6>1, <6>3
          <6> QED  BY <6>4
        <5>2. n + 1 \in Nat  OBVIOUS
        <5> QED  BY <5>1, <5>2
      <4>3. \A n \in Nat : n \in P
        <5> HIDE DEF P
        <5> QED  BY <4>1, <4>2, Induction
      <4> SUFFICES ASSUME NEW i \in 1 .. Len(seqs) PROVE Holds(t, at, f[i])  OBVIOUS
      <4>4. Len(seqs) - i \in Nat /\ Len(seqs) - (Len(seqs) - i) = i  BY <1>1
      <4> QED  BY <4>3, <4>4
    <3>7. Starts(t, p, seqs)  BY <3>2, <3>4, <3>5, <3>6 DEF Starts
    <3> QED  BY <3>2, <3>7
  <2>6. IsSeq(FlattenSeq(seqs))
    <3>1. Len(seqs) \in 1 .. Len(seqs)  BY <1>1, <1>3
    <3>2. IsSeq(f[Len(seqs)])  BY <2>4, <3>1
    <3> QED  BY <2>1, <3>2
  <2> QED  BY <2>5, <2>6
<1> QED  BY <1>2, <1>3

LEMMA BytesWritten ==
  ASSUME NEW s, IsSeq(s)
  PROVE  /\ IsSeq(writeBytes(s)) /\ Len(writeBytes(s)) = Len(s) + 1 /\ Len(s) \in Nat
         /\ writeBytes(s)[1] = [k |-> "varint", v |-> Len(s)]
         /\ \A i \in 1 .. Len(s) : writeBytes(s)[i + 1] = [k |-> "char", v |-> s[i]]
<1>1. PICK a, b : /\ a = <<[k |-> "varint", v |-> Len(s)]>>
                  /\ b = [i \in DOMAIN s |-> [k |-> "char", v |-> s[i]]]
  OBVIOUS
<1>2. writeBytes(s) = a \o b  BY <1>1 DEF writeBytes, writeVarint, Token
<1>3. Len(s) \in Nat /\ DOMAIN s = 1 .. Len(s)  BY SeqShape
<1>4. IsSeq(a) /\ Len(a) = 1 /\ a[1] = [k |-> "varint", v |-> Len(s)]  BY <1>1, Tuples
<1>5. IsSeq(b) /\ Len(b) = Len(s)
  <2>1. b \in [1 .. Len(s) -> Range(b)]  BY <1>1, <1>3 DEF Range
  <2> QED  BY <1>3, <2>1, FunctionsAreSeqs
<1>6. /\ IsSeq(a \o b) /\ Len(a \o b) = Len(a) + Len(b) /\ (a \o b)[1] = a[1]
      /\ \A i \in 1 .. Len(b) : (a \o b)[Len(a) + i] = b[i]
  <2>1. 1 \in 1 .. Len(a)  BY <1>4
  <2>0. IsSeq(a) /\ IsSeq(b)  BY <1>4, <1>5
  <2>2. \A i \in 1 .. Len(a) : (a \o b)[i] = a[i]  BY <2>0, SeqConcat
  <2>3. /\ IsSeq(a \o b) /\ Len(a \o b) = Len(a) + Len(b)
        /\ \A i \in 1 .. Len(b) : (a \o b)[Len(a) + i] = b[i]
    BY <2>0, SeqConcat
  <2> QED  BY <2>1, <2>2, <2>3
<1>7. ASSUME NEW i \in 1 .. Len(s) PROVE (a \o b)[i + 1] = [k |-> "char", v |-> s[i]]
  <2>1. i + 1 = Len(a) + i  BY <1>3, <1>4
  <2>2. (a \o b)[i + 1] = b[i]  BY <1>5, <1>6, <2>1
  <2> QED  BY <1>1, <1>3, <2>2
<1>8. Len(a \o b) = Len(s) + 1  BY <1>3, <1>4, <1>5, <1>6
<1> QED  BY <1>2, <1>3, <1>4, <1>6, <1>7, <1>8

LEMMA BytesRead ==
  ASSUME NEW s, IsSeq(s), NEW t, NEW at \in Nat, Holds(t, at, writeBytes(s))
  PROVE  readBytes(t, at) = IF Len(s) <= MaxBytes THEN Got(s, at + Len(s) + 1) ELSE Stop("err")
<1>1. Len(s) \in Nat /\ MaxBytes \in Nat /\ s = [i \in 1 .. Len(s) |-> s[i]]
  BY CoderAssumption, SeqShape
<1>2. /\ Len(writeBytes(s)) = Len(s) + 1
      /\ writeBytes(s)[1] = [k |-> "varint", v |-> Len(s)]
      /\ \A i \in 1 .. Len(s) : writeBytes(s)[i + 1] = [k |-> "char", v |-> s[i]]
  BY BytesWritten
<1>3. at \in DOMAIN t /\ t[at] = [k |-> "varint", v |-> Len(s)]
  <2>1. 1 \in 1 .. Len(writeBytes(s)) /\ at + 1 - 1 = at  BY <1>1, <1>2
  <2> QED  BY <1>2, <2>1 DEF Holds
<1>4. ASSUME NEW i \in 1 .. Len(s) PROVE at + i \in DOMAIN t /\ t[at + i] = [k |-> "char", v |-> s[i]]
  <2>1. i + 1 \in 1 .. Len(writeBytes(s)) /\ at + (i + 1) - 1 = at + i  BY <1>1, <1>2
  <2>2. at + i \in DOMAIN t /\ t[at + i] = writeBytes(s)[i + 1]  BY <2>1 DEF Holds
  <2> QED  BY <1>2, <2>2
<1>5. readVarint(t, at) = Got(Len(s), at + 1)
  BY <1>3 DEF readVarint, Expect
<1>6. readVarint(t, at).st = "ok" /\ readVarint(t, at).val = Len(s)  BY <1>5 DEF Got
<1>7. \A i \in 1 .. Len(s) : Expect(t, at + i, "char").st = "ok" /\ t[at + i].v = s[i]
  <2> SUFFICES ASSUME NEW i \in 1 .. Len(s)
               PROVE  Expect(t, at + i, "char").st = "ok" /\ t[at + i].v = s[i]
    OBVIOUS
  <2>1. at + i \in DOMAIN t /\ t[at + i] = [k |-> "char", v |-> s[i]]  BY <1>4
  <2>2. t[at + i].k = "char" /\ t[at + i].v = s[i]  BY <2>1
  <2> QED  BY <2>1, <2>2 DEF Expect, Got
<1>8. [i \in 1 .. Len(s) |-> t[at + i].v] = s  BY <1>1, <1>7
<1>9. CASE Len(s) > MaxBytes
  <2>1. readBytes(t, at) = Stop("err")  BY <1>6, <1>9 DEF readBytes
  <2> QED  BY <1>1, <1>9, <2>1
<1>10. CASE Len(s) <= MaxBytes
  <2>1. /\ ~(readVarint(t, at).st # "ok" \/ readVarint(t, at).val < -1
             \/ readVarint(t, at).val > MaxBytes)
        /\ readVarint(t, at).val # -1
    BY <1>1, <1>6, <1>10
  <2>2. readBytes(t, at) = Got([i \in 1 .. Len(s) |-> t[at + i].v], at + Len(s) + 1)
    BY <1>6, <1>7, <2>1 DEF readBytes
  <2> QED  BY <1>8, <1>10, <2>2
<1> QED  BY <1>1, <1>9, <1>10

(* The types a field value has, and the values of each (the setters of     *)
(* domain/record.go).                                                      *)
TextTypes == {"string", "bytes", "date", "json"}
Settable(v) ==
  \/ \E n : v = SetInt64(n) \/ v = SetFloat64(n) \/ v = SetTimestamp(n)
  \/ \E b \in BOOLEAN : v = SetBool(b)
  \/ \E n, sc : v = SetDecimal(n, sc)
  \/ \E type \in TextTypes : \E s : IsSeq(s) /\ v = FieldValue(type, 0, 0, s)

LEMMA TypeByte ==
  ASSUME NEW type \in TextTypes \cup {"int64", "float64", "bool", "timestamp", "decimal"}
  PROVE  byteToDataType(dataTypeToByte(type)) = type
<1>1. DOMAIN Codes = {"int64", "float64", "bool", "timestamp", "bytes", "date", "decimal", "json"}
  BY DEF Codes
<1>2. /\ Codes["int64"] = 1 /\ Codes["float64"] = 2 /\ Codes["bool"] = 3 /\ Codes["timestamp"] = 4
      /\ Codes["bytes"] = 5 /\ Codes["date"] = 6 /\ Codes["decimal"] = 7 /\ Codes["json"] = 8
  BY DEF Codes
<1>3. \A x, y \in DOMAIN Codes : Codes[x] = Codes[y] => x = y  BY <1>1, <1>2
<1>4. \A x \in DOMAIN Codes : Codes[x] # 0  BY <1>1, <1>2
<1>5. CASE type = "string"
  <2>1. dataTypeToByte(type) = 0  BY <1>1, <1>5 DEF dataTypeToByte
  <2> QED  BY <1>4, <1>5, <2>1 DEF byteToDataType
<1>6. CASE type # "string"
  <2>1. type \in DOMAIN Codes  BY <1>1, <1>6 DEF TextTypes
  <2>2. dataTypeToByte(type) = Codes[type]  BY <2>1 DEF dataTypeToByte
  <2>3. (CHOOSE x \in DOMAIN Codes : Codes[x] = Codes[type]) = type  BY <1>3, <2>1
  <2> QED  BY <2>1, <2>2, <2>3 DEF byteToDataType
<1> QED  BY <1>5, <1>6

(* A field value that is not null comes out of its coder as it went in,    *)
(* and the reader stops where the next value starts; a text past the limit *)
(* of readBytes is an error (encodeFieldValue, decodeFieldValue and the    *)
(* type bytes of coders.go).                                               *)
THEOREM ValuesTransparent ==
  ASSUME NEW v, Settable(v), NEW t, NEW at \in Nat, Holds(t, at, encodeFieldValue(v))
  PROVE  decodeFieldValue(t, at, byteToDataType(dataTypeToByte(v.type))) =
           IF Len(v.str) > MaxBytes THEN Stop("err")
           ELSE Got(v, at + Len(encodeFieldValue(v)))
<1>1. ASSUME NEW k, NEW x, encodeFieldValue(v) = Token(k, x)
      PROVE  Expect(t, at, k) = Got(x, at + 1) /\ Len(encodeFieldValue(v)) = 1
  BY <1>1, HoldsOne, OneToken
<1>0. \A w : ~(Len(w) > MaxBytes) \/ w # <<>>
  <2>1. Len(<<>>) = 0 /\ ~(0 > MaxBytes)  BY CoderAssumption
  <2> QED  BY <2>1
<1>2. CASE \E n : v = SetInt64(n)
  <2>1. PICK n : v = SetInt64(n)  BY <1>2
  <2>2. v.type = "int64" /\ v.num = n /\ v.str = <<>>  BY <2>1 DEF SetInt64, FieldValue
  <2>3. encodeFieldValue(v) = Token("varint", n)  BY <2>2 DEF encodeFieldValue, writeVarint
  <2>4. byteToDataType(dataTypeToByte(v.type)) = "int64"  BY <2>2, TypeByte
  <2>5. readVarint(t, at) = Got(n, at + 1) /\ Len(encodeFieldValue(v)) = 1  BY <1>1, <2>3 DEF readVarint
  <2>6. decodeFieldValue(t, at, "int64") = Got(SetInt64(n), at + 1)
    BY <2>5 DEF decodeFieldValue, Then, Got
  <2> QED  BY <1>0, <2>1, <2>2, <2>4, <2>5, <2>6
<1>3. CASE \E n : v = SetTimestamp(n)
  <2>1. PICK n : v = SetTimestamp(n)  BY <1>3
  <2>2. v.type = "timestamp" /\ v.num = n /\ v.str = <<>>  BY <2>1 DEF SetTimestamp, FieldValue
  <2>3. encodeFieldValue(v) = Token("varint", n)  BY <2>2 DEF encodeFieldValue, writeVarint
  <2>4. byteToDataType(dataTypeToByte(v.type)) = "timestamp"  BY <2>2, TypeByte
  <2>5. readVarint(t, at) = Got(n, at + 1) /\ Len(encodeFieldValue(v)) = 1  BY <1>1, <2>3 DEF readVarint
  <2>6. decodeFieldValue(t, at, "timestamp") = Got(SetTimestamp(n), at + 1)
    BY <2>5 DEF decodeFieldValue, Then, Got
  <2> QED  BY <1>0, <2>1, <2>2, <2>4, <2>5, <2>6
<1>4. CASE \E n : v = SetFloat64(n)
  <2>1. PICK n : v = SetFloat64(n)  BY <1>4
  <2>2. v.type = "float64" /\ v.num = n /\ v.str = <<>>  BY <2>1 DEF SetFloat64, FieldValue
  <2>3. encodeFieldValue(v) = Token("fixed", n)  BY <2>2 DEF encodeFieldValue
  <2>4. byteToDataType(dataTypeToByte(v.type)) = "float64"  BY <2>2, TypeByte
  <2>5. Expect(t, at, "fixed") = Got(n, at + 1) /\ Len(encodeFieldValue(v)) = 1  BY <1>1, <2>3
  <2>6. decodeFieldValue(t, at, "float64") = Got(SetFloat64(n), at + 1)
    BY <2>5 DEF decodeFieldValue, Then, Got
  <2> QED  BY <1>0, <2>1, <2>2, <2>4, <2>5, <2>6
<1>5. CASE \E b \in BOOLEAN : v = SetBool(b)
  <2>1. PICK b \in BOOLEAN : v = SetBool(b)  BY <1>5
  <2>2. PICK n : n = IF b THEN 1 ELSE 0  OBVIOUS
  <2>3. v.type = "bool" /\ v.num = n /\ v.str = <<>>  BY <2>1, <2>2 DEF SetBool, FieldValue
  <2>4. v = SetBool(n # 0)
    <3>1. (IF n # 0 THEN 1 ELSE 0) = n  BY <2>2
    <3>2. v = FieldValue("bool", n, 0, <<>>)  BY <2>1, <2>2 DEF SetBool
    <3>3. SetBool(n # 0) = FieldValue("bool", n, 0, <<>>)  BY <3>1 DEF SetBool
    <3> QED  BY <3>2, <3>3
  <2>5. encodeFieldValue(v) = Token("fixed", n)  BY <2>3 DEF encodeFieldValue
  <2>6. byteToDataType(dataTypeToByte(v.type)) = "bool"  BY <2>3, TypeByte
  <2>7. Expect(t, at, "fixed") = Got(n, at + 1) /\ Len(encodeFieldValue(v)) = 1  BY <1>1, <2>5
  <2>8. decodeFieldValue(t, at, "bool") = Got(SetBool(n # 0), at + 1)
    BY <2>7 DEF decodeFieldValue, Then, Got
  <2> QED  BY <1>0, <2>3, <2>4, <2>6, <2>7, <2>8
<1>6. CASE \E n, sc : v = SetDecimal(n, sc)
  <2>1. PICK n, sc : v = SetDecimal(n, sc)  BY <1>6
  <2>2. v.type = "decimal" /\ v.num = n /\ v.scale = sc /\ v.str = <<>>  BY <2>1 DEF SetDecimal, FieldValue
  <2>3. encodeFieldValue(v) = <<[k |-> "varint", v |-> n]>> \o <<[k |-> "varint", v |-> sc]>>
    BY <2>2 DEF encodeFieldValue, writeVarint, Token
  <2>4. /\ Len(encodeFieldValue(v)) = 2 /\ encodeFieldValue(v)[1] = [k |-> "varint", v |-> n]
        /\ encodeFieldValue(v)[2] = [k |-> "varint", v |-> sc]
    BY <2>3
  <2>5. at \in DOMAIN t /\ t[at] = [k |-> "varint", v |-> n]
    <3>1. 1 \in 1 .. 2 /\ at + 1 - 1 = at  OBVIOUS
    <3> QED  BY <2>4, <3>1 DEF Holds
  <2>6. at + 1 \in DOMAIN t /\ t[at + 1] = [k |-> "varint", v |-> sc]
    <3>1. 2 \in 1 .. 2 /\ at + 2 - 1 = at + 1  OBVIOUS
    <3> QED  BY <2>4, <3>1 DEF Holds
  <2>7. readVarint(t, at) = Got(n, at + 1)  BY <2>5 DEF readVarint, Expect
  <2>8. readVarint(t, at + 1) = Got(sc, at + 2)
    <3>1. at + 1 + 1 = at + 2  OBVIOUS
    <3> QED  BY <2>6, <3>1 DEF readVarint, Expect
  <2>9. byteToDataType(dataTypeToByte(v.type)) = "decimal"  BY <2>2, TypeByte
  <2>10. decodeFieldValue(t, at, "decimal") = Got(SetDecimal(n, sc), at + 2)
    BY <2>7, <2>8 DEF decodeFieldValue, Then, Got
  <2> QED  BY <1>0, <2>1, <2>2, <2>4, <2>9, <2>10
<1>7. CASE \E type \in TextTypes : \E s : IsSeq(s) /\ v = FieldValue(type, 0, 0, s)
  <2>1. PICK type, s : type \in TextTypes /\ IsSeq(s) /\ v = FieldValue(type, 0, 0, s)  BY <1>7
  <2>2. v.type = type /\ v.str = s  BY <2>1 DEF FieldValue
  <2>3. type \notin {"int64", "timestamp", "float64", "bool", "decimal"}  BY <2>1 DEF TextTypes
  <2>4. encodeFieldValue(v) = writeBytes(s)  BY <2>2, <2>3 DEF encodeFieldValue
  <2>5. Len(encodeFieldValue(v)) = Len(s) + 1 /\ Len(s) \in Nat /\ MaxBytes \in Nat
    <3>1. Len(writeBytes(s)) = Len(s) + 1  BY <2>1, BytesWritten
    <3>2. Len(s) \in Nat  BY <2>1, SeqShape
    <3> QED  BY <2>4, <3>1, <3>2, CoderAssumption
  <2>6. readBytes(t, at) = IF Len(s) <= MaxBytes THEN Got(s, at + Len(s) + 1) ELSE Stop("err")
    BY <2>1, <2>4, BytesRead
  <2>7. byteToDataType(dataTypeToByte(v.type)) = type  BY <2>1, <2>2, TypeByte
  <2>8. decodeFieldValue(t, at, type) =
          Then(readBytes(t, at), LAMBDA x, q : Got(FieldValue(type, 0, 0, x), q))
    BY <2>3 DEF decodeFieldValue
  <2>9. CASE Len(s) <= MaxBytes
    <3>1. readBytes(t, at).st = "ok" /\ readBytes(t, at).val = s
          /\ readBytes(t, at).at = at + Len(s) + 1
      BY <2>6, <2>9 DEF Got
    <3>2. decodeFieldValue(t, at, type) = Got(v, at + Len(s) + 1)  BY <2>1, <2>8, <3>1 DEF Then
    <3>3. at + Len(s) + 1 = at + Len(encodeFieldValue(v)) /\ ~(Len(s) > MaxBytes)  BY <2>5, <2>9
    <3> QED  BY <2>2, <2>7, <3>2, <3>3
  <2>10. CASE ~(Len(s) <= MaxBytes)
    <3>1. readBytes(t, at) = Stop("err") /\ Len(s) > MaxBytes  BY <2>5, <2>6, <2>10
    <3>2. decodeFieldValue(t, at, type) = Stop("err")  BY <2>8, <3>1 DEF Then, Stop
    <3> QED  BY <2>2, <2>7, <3>1, <3>2
  <2> QED  BY <2>9, <2>10
<1> QED  BY <1>2, <1>3, <1>4, <1>5, <1>6, <1>7 DEF Settable

LEMMA EncodedSeq == ASSUME NEW v, Settable(v) PROVE IsSeq(encodeFieldValue(v))
<1>1. CASE \E n : v = SetInt64(n) \/ v = SetTimestamp(n)
  <2>1. v.type \in {"int64", "timestamp"}  BY <1>1 DEF SetInt64, SetTimestamp, FieldValue
  <2> QED  BY <2>1, OneToken DEF encodeFieldValue, writeVarint
<1>2. CASE \E n : v = SetFloat64(n) \/ \E b \in BOOLEAN : v = SetBool(b)
  <2>1. v.type \in {"float64", "bool"}  BY <1>2 DEF SetFloat64, SetBool, FieldValue
  <2> QED  BY <2>1, OneToken DEF encodeFieldValue
<1>3. CASE \E n, sc : v = SetDecimal(n, sc)
  <2>1. v.type = "decimal"  BY <1>3 DEF SetDecimal, FieldValue
  <2>2. encodeFieldValue(v) = writeVarint(v.num) \o writeVarint(v.scale)  BY <2>1 DEF encodeFieldValue
  <2>3. IsSeq(writeVarint(v.num)) /\ IsSeq(writeVarint(v.scale))  BY OneToken DEF writeVarint
  <2> QED  BY <2>2, <2>3, SeqConcat
<1>4. CASE \E type \in TextTypes : \E s : IsSeq(s) /\ v = FieldValue(type, 0, 0, s)
  <2>1. v.type \in TextTypes /\ IsSeq(v.str)  BY <1>4 DEF FieldValue
  <2>2. v.type \notin {"int64", "timestamp", "float64", "bool", "decimal"}  BY <2>1 DEF TextTypes
  <2> QED  BY <2>1, <2>2, BytesWritten DEF encodeFieldValue
<1> QED  BY <1>1, <1>2, <1>3, <1>4 DEF Settable

(* A dead letter comes out of its coder as it went in, for texts of any    *)
(* length up to the limit of readBytes; a longer one is an error, never    *)
(* another letter (EncodeDeadLetterRecord, DecodeDeadLetterRecord).        *)
THEOREM LettersTransparent ==
  ASSUME NEW payload, NEW col, NEW source, IsSeq(payload), IsSeq(col), IsSeq(source)
  PROVE  \E r \in {DecodeDeadLetterRecord(EncodeDeadLetterRecord(
                      [payload |-> payload, col |-> col, source |-> source]))} :
           IF Len(payload) <= MaxBytes /\ Len(col) <= MaxBytes /\ Len(source) <= MaxBytes
           THEN r.st = "ok" /\ r.val = [payload |-> payload, col |-> col, source |-> source]
           ELSE r.st = "err"
<1> DEFINE d == [payload |-> payload, col |-> col, source |-> source]
<1>1. PICK u, v, w, t : /\ u = writeBytes(payload) /\ v = writeBytes(col) /\ w = writeBytes(source)
                        /\ t = (u \o v) \o w
  OBVIOUS
<1>2. EncodeDeadLetterRecord(d) = t
  <2>1. d.payload = payload /\ d.col = col /\ d.source = source  OBVIOUS
  <2> HIDE DEF d
  <2> QED  BY <1>1, <2>1 DEF EncodeDeadLetterRecord
<1>3. IsSeq(u) /\ IsSeq(v) /\ IsSeq(w)  BY <1>1, BytesWritten
<1>4. PICK a, b, c \in Nat : a = Len(payload) /\ b = Len(col) /\ c = Len(source)  BY SeqShape
<1>5. Len(u) = a + 1 /\ Len(v) = b + 1  BY <1>1, <1>4, BytesWritten
<1>6. IsSeq(u \o v) /\ Len(u \o v) = Len(u) + Len(v)  BY <1>3, Joined
<1>7. Holds(t, 1, t)
  <2>1. IsSeq(t)  BY <1>1, <1>3, <1>6, Joined
  <2> QED  BY <2>1, HoldsItself
<1>8. PICK p, q \in Nat : p = 1 + Len(u) /\ q = 1 + (Len(u) + Len(v)) /\ p = 1 + a + 1 /\ q = p + b + 1
  <2>1. 1 + (a + 1) \in Nat /\ 1 + ((a + 1) + (b + 1)) \in Nat
        /\ 1 + (a + 1) = 1 + a + 1 /\ 1 + ((a + 1) + (b + 1)) = (1 + (a + 1)) + b + 1
    OBVIOUS
  <2> QED  BY <1>5, <2>1
<1>9. Holds(t, 1, u \o v) /\ Holds(t, q, w)
  <2>1. 1 \in Nat  OBVIOUS
  <2> QED  BY <1>1, <1>3, <1>6, <1>7, <1>8, <2>1, HoldsSplit
<1>10. Holds(t, 1, u) /\ Holds(t, p, v)
  <2>1. 1 \in Nat  OBVIOUS
  <2> QED  BY <1>3, <1>8, <1>9, <2>1, HoldsSplit
<1>11. readBytes(t, 1) = IF Len(payload) <= MaxBytes THEN Got(payload, p) ELSE Stop("err")
  <2>1. 1 \in Nat  OBVIOUS
  <2> QED  BY <1>1, <1>4, <1>8, <1>10, <2>1, BytesRead
<1>12. readBytes(t, p) = IF Len(col) <= MaxBytes THEN Got(col, q) ELSE Stop("err")
  BY <1>1, <1>4, <1>8, <1>10, BytesRead
<1>13. PICK z : readBytes(t, q) = IF Len(source) <= MaxBytes THEN Got(source, z) ELSE Stop("err")
  BY <1>1, <1>9, BytesRead
<1>14. DecodeDeadLetterRecord(t) =
         IF Len(payload) <= MaxBytes
         THEN IF Len(col) <= MaxBytes
              THEN IF Len(source) <= MaxBytes THEN Got(d, z) ELSE Stop("err")
              ELSE Stop("err")
         ELSE Stop("err")
  BY <1>11, <1>12, <1>13 DEF DecodeDeadLetterRecord, Then, Got, Stop
<1> HIDE DEF d
<1>15. Got(d, z).st = "ok" /\ Got(d, z).val = d  BY DEF Got
<1>16. Stop("err").st = "err"  BY DEF Stop
<1> QED  BY <1>2, <1>14, <1>15, <1>16 DEF d

-----------------------------------------------------------------------------
(* Loops.  A fold over a sequence is a fold over its domain, taken from    *)
(* the largest index down; r[k] is what the loop has after k rounds.       *)
LEMMA LastOf ==
  ASSUME NEW n \in Nat, NEW s \in SUBSET (1 .. (n + 1))
  PROVE  IF n + 1 \in s THEN Max(s) = n + 1 /\ s \ {Max(s)} \in SUBSET (1 .. n)
         ELSE s \in SUBSET (1 .. n)
<1>1. CASE n + 1 \in s
  <2>1. \A x \in s : (\A y \in s : x >= y) <=> x = n + 1  BY <1>1
  <2>2. Max(s) = n + 1  BY <1>1, <2>1 DEF Max
  <2> QED  BY <1>1, <2>2
<1>2. CASE n + 1 \notin s  BY <1>2
<1> QED  BY <1>1, <1>2

LEMMA Upto ==
  ASSUME NEW k \in Nat, k # 0
  PROVE  Max(1 .. k) = k /\ (1 .. k) \ {k} = 1 .. (k - 1)
<1>1. k \in 1 .. k /\ \A y \in 1 .. k : k >= y  OBVIOUS
<1>2. \A x \in 1 .. k : (\A y \in 1 .. k : x >= y) => x = k  BY <1>1
<1>3. Max(1 .. k) = k  BY <1>1, <1>2 DEF Max
<1> QED  BY <1>3

FieldRounds(t, mask, base, q) == FoldLeft(LAMBDA a, x : readField(t, mask, a, x), base, q)
FieldRun(t, mask, base, q, n, r) ==
  /\ r[0] = base /\ FieldRounds(t, mask, base, q) = r[n]
  /\ \A k \in 1 .. n : r[k] = readField(t, mask, r[k - 1], q[k])

LEMMA FieldLoop ==
  ASSUME NEW t, NEW mask, NEW base, NEW q, NEW n \in Nat, DOMAIN q = 1 .. n
  PROVE  \E r : FieldRun(t, mask, base, q, n, r)
<1> DEFINE Fold(f, m) == f = [s \in SUBSET (1 .. m) |->
                                IF s = {} THEN base ELSE readField(t, mask, f[s \ {Max(s)}], q[Max(s)])]
           P == {m \in Nat : \E f : Fold(f, m)}
<1>1. 0 \in P
  <2>1. PICK f : f = [s \in SUBSET (1 .. 0) |-> base]  OBVIOUS
  <2>2. 1 .. 0 = {}  OBVIOUS
  <2>3. Fold(f, 0)  BY <2>1, <2>2
  <2> QED  BY <2>3
<1>2. ASSUME NEW m \in Nat, m \in P PROVE m + 1 \in P
  <2>1. PICK f : Fold(f, m)  BY <1>2
  <2>2. PICK g : g = [s \in SUBSET (1 .. (m + 1)) |->
                        IF m + 1 \in s THEN readField(t, mask, f[s \ {m + 1}], q[m + 1]) ELSE f[s]]
    OBVIOUS
  <2>3. ASSUME NEW s \in SUBSET (1 .. (m + 1))
        PROVE  g[s] = IF s = {} THEN base ELSE readField(t, mask, g[s \ {Max(s)}], q[Max(s)])
    <3>1. CASE m + 1 \in s
      <4>1. Max(s) = m + 1 /\ s \ {m + 1} \in SUBSET (1 .. m)  BY <3>1, LastOf
      <4>2. g[s \ {m + 1}] = f[s \ {m + 1}]
        <5>1. s \ {m + 1} \in SUBSET (1 .. (m + 1)) /\ m + 1 \notin s \ {m + 1}  OBVIOUS
        <5> QED  BY <2>2, <5>1
      <4>3. g[s] = readField(t, mask, f[s \ {m + 1}], q[m + 1])  BY <2>2, <3>1
      <4> QED  BY <3>1, <4>1, <4>2, <4>3
    <3>2. CASE m + 1 \notin s
      <4>1. s \in SUBSET (1 .. m)  BY <3>2
      <4>2. s \ {Max(s)} \in SUBSET (1 .. (m + 1)) /\ m + 1 \notin s \ {Max(s)}  BY <3>2
      <4>3. g[s] = f[s] /\ g[s \ {Max(s)}] = f[s \ {Max(s)}]  BY <2>2, <3>2, <4>2
      <4>4. f[s] = IF s = {} THEN base ELSE readField(t, mask, f[s \ {Max(s)}], q[Max(s)])  BY <2>1, <4>1
      <4> QED  BY <4>3, <4>4
    <3> QED  BY <3>1, <3>2
  <2>4. Fold(g, m + 1)  BY <2>2, <2>3
  <2>5. m + 1 \in Nat  OBVIOUS
  <2> QED  BY <2>4, <2>5
<1>3. n \in P  BY <1>1, <1>2, Induction
<1>4. PICK f : f = CHOOSE g : Fold(g, n)  OBVIOUS
<1>5. Fold(f, n)  BY <1>3, <1>4
<1>6. FieldRounds(t, mask, base, q) = f[1 .. n]
  BY <1>4 DEF FieldRounds, FoldLeft, MapThenFoldSet
<1>7. PICK r : r = [k \in 0 .. n |-> f[1 .. k]]  OBVIOUS
<1>8. ASSUME NEW k \in 1 .. n PROVE r[k] = readField(t, mask, r[k - 1], q[k])
  <2>1. 1 .. k \in SUBSET (1 .. n) /\ 1 .. k # {} /\ k # 0 /\ k - 1 \in 0 .. n /\ k \in 0 .. n
    OBVIOUS
  <2>2. Max(1 .. k) = k /\ (1 .. k) \ {k} = 1 .. (k - 1)  BY <2>1, Upto
  <2>3. f[1 .. k] = readField(t, mask, f[1 .. (k - 1)], q[k])  BY <1>5, <2>1, <2>2
  <2> QED  BY <1>7, <2>1, <2>3
<1>9. r[n] = f[1 .. n] /\ r[0] = base
  <2>1. 1 .. 0 \in SUBSET (1 .. n) /\ 1 .. 0 = {} /\ 0 \in 0 .. n /\ n \in 0 .. n  OBVIOUS
  <2>2. f[1 .. 0] = base  BY <1>5, <2>1
  <2> QED  BY <1>7, <2>1, <2>2
<1>10. FieldRun(t, mask, base, q, n, r)  BY <1>6, <1>8, <1>9 DEF FieldRun
<1> QED  BY <1>10

AuditRounds(t, base, q) == FoldLeft(LAMBDA a, x : readEntry(t, a, LAMBDA z : readBytes(t, z)), base, q)
AuditRun(t, base, q, n, r) ==
  /\ r[0] = base /\ AuditRounds(t, base, q) = r[n]
  /\ \A k \in 1 .. n : r[k] = readEntry(t, r[k - 1], LAMBDA z : readBytes(t, z))

LEMMA AuditLoop ==
  ASSUME NEW t, NEW base, NEW q, NEW n \in Nat, DOMAIN q = 1 .. n
  PROVE  \E r : AuditRun(t, base, q, n, r)
<1> DEFINE Fold(f, m) == f = [s \in SUBSET (1 .. m) |->
                                IF s = {} THEN base ELSE readEntry(t, f[s \ {Max(s)}], LAMBDA z : readBytes(t, z))]
           P == {m \in Nat : \E f : Fold(f, m)}
<1>1. 0 \in P
  <2>1. PICK f : f = [s \in SUBSET (1 .. 0) |-> base]  OBVIOUS
  <2>2. 1 .. 0 = {}  OBVIOUS
  <2>3. Fold(f, 0)  BY <2>1, <2>2
  <2> QED  BY <2>3
<1>2. ASSUME NEW m \in Nat, m \in P PROVE m + 1 \in P
  <2>1. PICK f : Fold(f, m)  BY <1>2
  <2>2. PICK g : g = [s \in SUBSET (1 .. (m + 1)) |->
                        IF m + 1 \in s THEN readEntry(t, f[s \ {m + 1}], LAMBDA z : readBytes(t, z)) ELSE f[s]]
    OBVIOUS
  <2>3. ASSUME NEW s \in SUBSET (1 .. (m + 1))
        PROVE  g[s] = IF s = {} THEN base ELSE readEntry(t, g[s \ {Max(s)}], LAMBDA z : readBytes(t, z))
    <3>1. CASE m + 1 \in s
      <4>1. Max(s) = m + 1 /\ s \ {m + 1} \in SUBSET (1 .. m)  BY <3>1, LastOf
      <4>2. g[s \ {m + 1}] = f[s \ {m + 1}]
        <5>1. s \ {m + 1} \in SUBSET (1 .. (m + 1)) /\ m + 1 \notin s \ {m + 1}  OBVIOUS
        <5> QED  BY <2>2, <5>1
      <4>3. g[s] = readEntry(t, f[s \ {m + 1}], LAMBDA z : readBytes(t, z))  BY <2>2, <3>1
      <4> QED  BY <3>1, <4>1, <4>2, <4>3
    <3>2. CASE m + 1 \notin s
      <4>1. s \in SUBSET (1 .. m)  BY <3>2
      <4>2. s \ {Max(s)} \in SUBSET (1 .. (m + 1)) /\ m + 1 \notin s \ {Max(s)}  BY <3>2
      <4>3. g[s] = f[s] /\ g[s \ {Max(s)}] = f[s \ {Max(s)}]  BY <2>2, <3>2, <4>2
      <4>4. f[s] = IF s = {} THEN base ELSE readEntry(t, f[s \ {Max(s)}], LAMBDA z : readBytes(t, z))  BY <2>1, <4>1
      <4> QED  BY <4>3, <4>4
    <3> QED  BY <3>1, <3>2
  <2>4. Fold(g, m + 1)  BY <2>2, <2>3
  <2>5. m + 1 \in Nat  OBVIOUS
  <2> QED  BY <2>4, <2>5
<1>3. n \in P  BY <1>1, <1>2, Induction
<1>4. PICK f : f = CHOOSE g : Fold(g, n)  OBVIOUS
<1>5. Fold(f, n)  BY <1>3, <1>4
<1>6. AuditRounds(t, base, q) = f[1 .. n]
  BY <1>4 DEF AuditRounds, FoldLeft, MapThenFoldSet
<1>7. PICK r : r = [k \in 0 .. n |-> f[1 .. k]]  OBVIOUS
<1>8. ASSUME NEW k \in 1 .. n PROVE r[k] = readEntry(t, r[k - 1], LAMBDA z : readBytes(t, z))
  <2>1. 1 .. k \in SUBSET (1 .. n) /\ 1 .. k # {} /\ k # 0 /\ k - 1 \in 0 .. n /\ k \in 0 .. n
    OBVIOUS
  <2>2. Max(1 .. k) = k /\ (1 .. k) \ {k} = 1 .. (k - 1)  BY <2>1, Upto
  <2>3. f[1 .. k] = readEntry(t, f[1 .. (k - 1)], LAMBDA z : readBytes(t, z))  BY <1>5, <2>1, <2>2
  <2> QED  BY <1>7, <2>1, <2>3
<1>9. r[n] = f[1 .. n] /\ r[0] = base
  <2>1. 1 .. 0 \in SUBSET (1 .. n) /\ 1 .. 0 = {} /\ 0 \in 0 .. n /\ n \in 0 .. n  OBVIOUS
  <2>2. f[1 .. 0] = base  BY <1>5, <2>1
  <2> QED  BY <1>7, <2>1, <2>2
<1>10. AuditRun(t, base, q, n, r)  BY <1>6, <1>8, <1>9 DEF AuditRun
<1> QED  BY <1>10

OriginRounds(t, base, q) == FoldLeft(LAMBDA a, x : readEntry(t, a, LAMBDA z : readOriginMetric(t, z)), base, q)
OriginRun(t, base, q, n, r) ==
  /\ r[0] = base /\ OriginRounds(t, base, q) = r[n]
  /\ \A k \in 1 .. n : r[k] = readEntry(t, r[k - 1], LAMBDA z : readOriginMetric(t, z))

LEMMA OriginLoop ==
  ASSUME NEW t, NEW base, NEW q, NEW n \in Nat, DOMAIN q = 1 .. n
  PROVE  \E r : OriginRun(t, base, q, n, r)
<1> DEFINE Fold(f, m) == f = [s \in SUBSET (1 .. m) |->
                                IF s = {} THEN base ELSE readEntry(t, f[s \ {Max(s)}], LAMBDA z : readOriginMetric(t, z))]
           P == {m \in Nat : \E f : Fold(f, m)}
<1>1. 0 \in P
  <2>1. PICK f : f = [s \in SUBSET (1 .. 0) |-> base]  OBVIOUS
  <2>2. 1 .. 0 = {}  OBVIOUS
  <2>3. Fold(f, 0)  BY <2>1, <2>2
  <2> QED  BY <2>3
<1>2. ASSUME NEW m \in Nat, m \in P PROVE m + 1 \in P
  <2>1. PICK f : Fold(f, m)  BY <1>2
  <2>2. PICK g : g = [s \in SUBSET (1 .. (m + 1)) |->
                        IF m + 1 \in s THEN readEntry(t, f[s \ {m + 1}], LAMBDA z : readOriginMetric(t, z)) ELSE f[s]]
    OBVIOUS
  <2>3. ASSUME NEW s \in SUBSET (1 .. (m + 1))
        PROVE  g[s] = IF s = {} THEN base ELSE readEntry(t, g[s \ {Max(s)}], LAMBDA z : readOriginMetric(t, z))
    <3>1. CASE m + 1 \in s
      <4>1. Max(s) = m + 1 /\ s \ {m + 1} \in SUBSET (1 .. m)  BY <3>1, LastOf
      <4>2. g[s \ {m + 1}] = f[s \ {m + 1}]
        <5>1. s \ {m + 1} \in SUBSET (1 .. (m + 1)) /\ m + 1 \notin s \ {m + 1}  OBVIOUS
        <5> QED  BY <2>2, <5>1
      <4>3. g[s] = readEntry(t, f[s \ {m + 1}], LAMBDA z : readOriginMetric(t, z))  BY <2>2, <3>1
      <4> QED  BY <3>1, <4>1, <4>2, <4>3
    <3>2. CASE m + 1 \notin s
      <4>1. s \in SUBSET (1 .. m)  BY <3>2
      <4>2. s \ {Max(s)} \in SUBSET (1 .. (m + 1)) /\ m + 1 \notin s \ {Max(s)}  BY <3>2
      <4>3. g[s] = f[s] /\ g[s \ {Max(s)}] = f[s \ {Max(s)}]  BY <2>2, <3>2, <4>2
      <4>4. f[s] = IF s = {} THEN base ELSE readEntry(t, f[s \ {Max(s)}], LAMBDA z : readOriginMetric(t, z))  BY <2>1, <4>1
      <4> QED  BY <4>3, <4>4
    <3> QED  BY <3>1, <3>2
  <2>4. Fold(g, m + 1)  BY <2>2, <2>3
  <2>5. m + 1 \in Nat  OBVIOUS
  <2> QED  BY <2>4, <2>5
<1>3. n \in P  BY <1>1, <1>2, Induction
<1>4. PICK f : f = CHOOSE g : Fold(g, n)  OBVIOUS
<1>5. Fold(f, n)  BY <1>3, <1>4
<1>6. OriginRounds(t, base, q) = f[1 .. n]
  BY <1>4 DEF OriginRounds, FoldLeft, MapThenFoldSet
<1>7. PICK r : r = [k \in 0 .. n |-> f[1 .. k]]  OBVIOUS
<1>8. ASSUME NEW k \in 1 .. n PROVE r[k] = readEntry(t, r[k - 1], LAMBDA z : readOriginMetric(t, z))
  <2>1. 1 .. k \in SUBSET (1 .. n) /\ 1 .. k # {} /\ k # 0 /\ k - 1 \in 0 .. n /\ k \in 0 .. n
    OBVIOUS
  <2>2. Max(1 .. k) = k /\ (1 .. k) \ {k} = 1 .. (k - 1)  BY <2>1, Upto
  <2>3. f[1 .. k] = readEntry(t, f[1 .. (k - 1)], LAMBDA z : readOriginMetric(t, z))  BY <1>5, <2>1, <2>2
  <2> QED  BY <1>7, <2>1, <2>3
<1>9. r[n] = f[1 .. n] /\ r[0] = base
  <2>1. 1 .. 0 \in SUBSET (1 .. n) /\ 1 .. 0 = {} /\ 0 \in 0 .. n /\ n \in 0 .. n  OBVIOUS
  <2>2. f[1 .. 0] = base  BY <1>5, <2>1
  <2> QED  BY <1>7, <2>1, <2>2
<1>10. OriginRun(t, base, q, n, r)  BY <1>6, <1>8, <1>9 DEF OriginRun
<1> QED  BY <1>10

DigitRounds(base, q) == FoldLeft(LAMBDA a, x : DigitStep(a, x), base, q)
DigitRun(base, q, n, r) ==
  /\ r[0] = base /\ DigitRounds(base, q) = r[n]
  /\ \A k \in 1 .. n : r[k] = DigitStep(r[k - 1], q[k])

LEMMA DigitLoop ==
  ASSUME NEW base, NEW q, NEW n \in Nat, DOMAIN q = 1 .. n
  PROVE  \E r : DigitRun(base, q, n, r)
<1> DEFINE Fold(f, m) == f = [s \in SUBSET (1 .. m) |->
                                IF s = {} THEN base ELSE DigitStep(f[s \ {Max(s)}], q[Max(s)])]
           P == {m \in Nat : \E f : Fold(f, m)}
<1>1. 0 \in P
  <2>1. PICK f : f = [s \in SUBSET (1 .. 0) |-> base]  OBVIOUS
  <2>2. 1 .. 0 = {}  OBVIOUS
  <2>3. Fold(f, 0)  BY <2>1, <2>2
  <2> QED  BY <2>3
<1>2. ASSUME NEW m \in Nat, m \in P PROVE m + 1 \in P
  <2>1. PICK f : Fold(f, m)  BY <1>2
  <2>2. PICK g : g = [s \in SUBSET (1 .. (m + 1)) |->
                        IF m + 1 \in s THEN DigitStep(f[s \ {m + 1}], q[m + 1]) ELSE f[s]]
    OBVIOUS
  <2>3. ASSUME NEW s \in SUBSET (1 .. (m + 1))
        PROVE  g[s] = IF s = {} THEN base ELSE DigitStep(g[s \ {Max(s)}], q[Max(s)])
    <3>1. CASE m + 1 \in s
      <4>1. Max(s) = m + 1 /\ s \ {m + 1} \in SUBSET (1 .. m)  BY <3>1, LastOf
      <4>2. g[s \ {m + 1}] = f[s \ {m + 1}]
        <5>1. s \ {m + 1} \in SUBSET (1 .. (m + 1)) /\ m + 1 \notin s \ {m + 1}  OBVIOUS
        <5> QED  BY <2>2, <5>1
      <4>3. g[s] = DigitStep(f[s \ {m + 1}], q[m + 1])  BY <2>2, <3>1
      <4> QED  BY <3>1, <4>1, <4>2, <4>3
    <3>2. CASE m + 1 \notin s
      <4>1. s \in SUBSET (1 .. m)  BY <3>2
      <4>2. s \ {Max(s)} \in SUBSET (1 .. (m + 1)) /\ m + 1 \notin s \ {Max(s)}  BY <3>2
      <4>3. g[s] = f[s] /\ g[s \ {Max(s)}] = f[s \ {Max(s)}]  BY <2>2, <3>2, <4>2
      <4>4. f[s] = IF s = {} THEN base ELSE DigitStep(f[s \ {Max(s)}], q[Max(s)])  BY <2>1, <4>1
      <4> QED  BY <4>3, <4>4
    <3> QED  BY <3>1, <3>2
  <2>4. Fold(g, m + 1)  BY <2>2, <2>3
  <2>5. m + 1 \in Nat  OBVIOUS
  <2> QED  BY <2>4, <2>5
<1>3. n \in P  BY <1>1, <1>2, Induction
<1>4. PICK f : f = CHOOSE g : Fold(g, n)  OBVIOUS
<1>5. Fold(f, n)  BY <1>3, <1>4
<1>6. DigitRounds(base, q) = f[1 .. n]
  BY <1>4 DEF DigitRounds, FoldLeft, MapThenFoldSet
<1>7. PICK r : r = [k \in 0 .. n |-> f[1 .. k]]  OBVIOUS
<1>8. ASSUME NEW k \in 1 .. n PROVE r[k] = DigitStep(r[k - 1], q[k])
  <2>1. 1 .. k \in SUBSET (1 .. n) /\ 1 .. k # {} /\ k # 0 /\ k - 1 \in 0 .. n /\ k \in 0 .. n
    OBVIOUS
  <2>2. Max(1 .. k) = k /\ (1 .. k) \ {k} = 1 .. (k - 1)  BY <2>1, Upto
  <2>3. f[1 .. k] = DigitStep(f[1 .. (k - 1)], q[k])  BY <1>5, <2>1, <2>2
  <2> QED  BY <1>7, <2>1, <2>3
<1>9. r[n] = f[1 .. n] /\ r[0] = base
  <2>1. 1 .. 0 \in SUBSET (1 .. n) /\ 1 .. 0 = {} /\ 0 \in 0 .. n /\ n \in 0 .. n  OBVIOUS
  <2>2. f[1 .. 0] = base  BY <1>5, <2>1
  <2> QED  BY <1>7, <2>1, <2>2
<1>10. DigitRun(base, q, n, r)  BY <1>6, <1>8, <1>9 DEF DigitRun
<1> QED  BY <1>10

FloatRounds(base, q) == FoldLeft(LAMBDA a, x : FloatStep(a, x), base, q)
FloatRun(base, q, n, r) ==
  /\ r[0] = base /\ FloatRounds(base, q) = r[n]
  /\ \A k \in 1 .. n : r[k] = FloatStep(r[k - 1], q[k])

LEMMA FloatLoop ==
  ASSUME NEW base, NEW q, NEW n \in Nat, DOMAIN q = 1 .. n
  PROVE  \E r : FloatRun(base, q, n, r)
<1> DEFINE Fold(f, m) == f = [s \in SUBSET (1 .. m) |->
                                IF s = {} THEN base ELSE FloatStep(f[s \ {Max(s)}], q[Max(s)])]
           P == {m \in Nat : \E f : Fold(f, m)}
<1>1. 0 \in P
  <2>1. PICK f : f = [s \in SUBSET (1 .. 0) |-> base]  OBVIOUS
  <2>2. 1 .. 0 = {}  OBVIOUS
  <2>3. Fold(f, 0)  BY <2>1, <2>2
  <2> QED  BY <2>3
<1>2. ASSUME NEW m \in Nat, m \in P PROVE m + 1 \in P
  <2>1. PICK f : Fold(f, m)  BY <1>2
  <2>2. PICK g : g = [s \in SUBSET (1 .. (m + 1)) |->
                        IF m + 1 \in s THEN FloatStep(f[s \ {m + 1}], q[m + 1]) ELSE f[s]]
    OBVIOUS
  <2>3. ASSUME NEW s \in SUBSET (1 .. (m + 1))
        PROVE  g[s] = IF s = {} THEN base ELSE FloatStep(g[s \ {Max(s)}], q[Max(s)])
    <3>1. CASE m + 1 \in s
      <4>1. Max(s) = m + 1 /\ s \ {m + 1} \in SUBSET (1 .. m)  BY <3>1, LastOf
      <4>2. g[s \ {m + 1}] = f[s \ {m + 1}]
        <5>1. s \ {m + 1} \in SUBSET (1 .. (m + 1)) /\ m + 1 \notin s \ {m + 1}  OBVIOUS
        <5> QED  BY <2>2, <5>1
      <4>3. g[s] = FloatStep(f[s \ {m + 1}], q[m + 1])  BY <2>2, <3>1
      <4> QED  BY <3>1, <4>1, <4>2, <4>3
    <3>2. CASE m + 1 \notin s
      <4>1. s \in SUBSET (1 .. m)  BY <3>2
      <4>2. s \ {Max(s)} \in SUBSET (1 .. (m + 1)) /\ m + 1 \notin s \ {Max(s)}  BY <3>2
      <4>3. g[s] = f[s] /\ g[s \ {Max(s)}] = f[s \ {Max(s)}]  BY <2>2, <3>2, <4>2
      <4>4. f[s] = IF s = {} THEN base ELSE FloatStep(f[s \ {Max(s)}], q[Max(s)])  BY <2>1, <4>1
      <4> QED  BY <4>3, <4>4
    <3> QED  BY <3>1, <3>2
  <2>4. Fold(g, m + 1)  BY <2>2, <2>3
  <2>5. m + 1 \in Nat  OBVIOUS
  <2> QED  BY <2>4, <2>5
<1>3. n \in P  BY <1>1, <1>2, Induction
<1>4. PICK f : f = CHOOSE g : Fold(g, n)  OBVIOUS
<1>5. Fold(f, n)  BY <1>3, <1>4
<1>6. FloatRounds(base, q) = f[1 .. n]
  BY <1>4 DEF FloatRounds, FoldLeft, MapThenFoldSet
<1>7. PICK r : r = [k \in 0 .. n |-> f[1 .. k]]  OBVIOUS
<1>8. ASSUME NEW k \in 1 .. n PROVE r[k] = FloatStep(r[k - 1], q[k])
  <2>1. 1 .. k \in SUBSET (1 .. n) /\ 1 .. k # {} /\ k # 0 /\ k - 1 \in 0 .. n /\ k \in 0 .. n
    OBVIOUS
  <2>2. Max(1 .. k) = k /\ (1 .. k) \ {k} = 1 .. (k - 1)  BY <2>1, Upto
  <2>3. f[1 .. k] = FloatStep(f[1 .. (k - 1)], q[k])  BY <1>5, <2>1, <2>2
  <2> QED  BY <1>7, <2>1, <2>3
<1>9. r[n] = f[1 .. n] /\ r[0] = base
  <2>1. 1 .. 0 \in SUBSET (1 .. n) /\ 1 .. 0 = {} /\ 0 \in 0 .. n /\ n \in 0 .. n  OBVIOUS
  <2>2. f[1 .. 0] = base  BY <1>5, <2>1
  <2> QED  BY <1>7, <2>1, <2>2
<1>10. FloatRun(base, q, n, r)  BY <1>6, <1>8, <1>9 DEF FloatRun
<1> QED  BY <1>10

DecimalRounds(sc, ov, base, q) == FoldLeft(LAMBDA a, x : DecimalStep(sc, ov, a, x), base, q)
DecimalRun(sc, ov, base, q, n, r) ==
  /\ r[0] = base /\ DecimalRounds(sc, ov, base, q) = r[n]
  /\ \A k \in 1 .. n : r[k] = DecimalStep(sc, ov, r[k - 1], q[k])

LEMMA DecimalLoop ==
  ASSUME NEW sc, NEW ov, NEW base, NEW q, NEW n \in Nat, DOMAIN q = 1 .. n
  PROVE  \E r : DecimalRun(sc, ov, base, q, n, r)
<1> DEFINE Fold(f, m) == f = [s \in SUBSET (1 .. m) |->
                                IF s = {} THEN base ELSE DecimalStep(sc, ov, f[s \ {Max(s)}], q[Max(s)])]
           P == {m \in Nat : \E f : Fold(f, m)}
<1>1. 0 \in P
  <2>1. PICK f : f = [s \in SUBSET (1 .. 0) |-> base]  OBVIOUS
  <2>2. 1 .. 0 = {}  OBVIOUS
  <2>3. Fold(f, 0)  BY <2>1, <2>2
  <2> QED  BY <2>3
<1>2. ASSUME NEW m \in Nat, m \in P PROVE m + 1 \in P
  <2>1. PICK f : Fold(f, m)  BY <1>2
  <2>2. PICK g : g = [s \in SUBSET (1 .. (m + 1)) |->
                        IF m + 1 \in s THEN DecimalStep(sc, ov, f[s \ {m + 1}], q[m + 1]) ELSE f[s]]
    OBVIOUS
  <2>3. ASSUME NEW s \in SUBSET (1 .. (m + 1))
        PROVE  g[s] = IF s = {} THEN base ELSE DecimalStep(sc, ov, g[s \ {Max(s)}], q[Max(s)])
    <3>1. CASE m + 1 \in s
      <4>1. Max(s) = m + 1 /\ s \ {m + 1} \in SUBSET (1 .. m)  BY <3>1, LastOf
      <4>2. g[s \ {m + 1}] = f[s \ {m + 1}]
        <5>1. s \ {m + 1} \in SUBSET (1 .. (m + 1)) /\ m + 1 \notin s \ {m + 1}  OBVIOUS
        <5> QED  BY <2>2, <5>1
      <4>3. g[s] = DecimalStep(sc, ov, f[s \ {m + 1}], q[m + 1])  BY <2>2, <3>1
      <4> QED  BY <3>1, <4>1, <4>2, <4>3
    <3>2. CASE m + 1 \notin s
      <4>1. s \in SUBSET (1 .. m)  BY <3>2
      <4>2. s \ {Max(s)} \in SUBSET (1 .. (m + 1)) /\ m + 1 \notin s \ {Max(s)}  BY <3>2
      <4>3. g[s] = f[s] /\ g[s \ {Max(s)}] = f[s \ {Max(s)}]  BY <2>2, <3>2, <4>2
      <4>4. f[s] = IF s = {} THEN base ELSE DecimalStep(sc, ov, f[s \ {Max(s)}], q[Max(s)])  BY <2>1, <4>1
      <4> QED  BY <4>3, <4>4
    <3> QED  BY <3>1, <3>2
  <2>4. Fold(g, m + 1)  BY <2>2, <2>3
  <2>5. m + 1 \in Nat  OBVIOUS
  <2> QED  BY <2>4, <2>5
<1>3. n \in P  BY <1>1, <1>2, Induction
<1>4. PICK f : f = CHOOSE g : Fold(g, n)  OBVIOUS
<1>5. Fold(f, n)  BY <1>3, <1>4
<1>6. DecimalRounds(sc, ov, base, q) = f[1 .. n]
  BY <1>4 DEF DecimalRounds, FoldLeft, MapThenFoldSet
<1>7. PICK r : r = [k \in 0 .. n |-> f[1 .. k]]  OBVIOUS
<1>8. ASSUME NEW k \in 1 .. n PROVE r[k] = DecimalStep(sc, ov, r[k - 1], q[k])
  <2>1. 1 .. k \in SUBSET (1 .. n) /\ 1 .. k # {} /\ k # 0 /\ k - 1 \in 0 .. n /\ k \in 0 .. n
    OBVIOUS
  <2>2. Max(1 .. k) = k /\ (1 .. k) \ {k} = 1 .. (k - 1)  BY <2>1, Upto
  <2>3. f[1 .. k] = DecimalStep(sc, ov, f[1 .. (k - 1)], q[k])  BY <1>5, <2>1, <2>2
  <2> QED  BY <1>7, <2>1, <2>3
<1>9. r[n] = f[1 .. n] /\ r[0] = base
  <2>1. 1 .. 0 \in SUBSET (1 .. n) /\ 1 .. 0 = {} /\ 0 \in 0 .. n /\ n \in 0 .. n  OBVIOUS
  <2>2. f[1 .. 0] = base  BY <1>5, <2>1
  <2> QED  BY <1>7, <2>1, <2>2
<1>10. DecimalRun(sc, ov, base, q, n, r)  BY <1>6, <1>8, <1>9 DEF DecimalRun
<1> QED  BY <1>10

-----------------------------------------------------------------------------
(* The fields of a record: what is written of one, and what is read back.  *)
Storable(v) == (\E type : v = SetNull(type)) \/ Settable(v)
Stored(v) == IF v.null THEN SetNull("") ELSE v
Part(v) == IF v.null THEN <<>> ELSE Token("type", dataTypeToByte(v.type)) \o encodeFieldValue(v)

LEMMA NullOrSet ==
  ASSUME NEW v, Storable(v)
  PROVE  \/ v.null = TRUE /\ v.str = <<>> /\ Len(v.str) = 0 /\ Stored(v) = SetNull("") /\ Part(v) = <<>>
         \/ /\ v.null = FALSE /\ Settable(v) /\ Stored(v) = v
            /\ Part(v) = Token("type", dataTypeToByte(v.type)) \o encodeFieldValue(v)
<1>1. CASE \E type : v = SetNull(type)
  <2>1. v.null = TRUE /\ v.str = <<>>  BY <1>1 DEF SetNull
  <2> QED  BY <2>1, Tuples DEF Stored, Part
<1>2. CASE Settable(v)
  <2>1. v.null = FALSE
    BY <1>2 DEF Settable, SetInt64, SetFloat64, SetTimestamp, SetBool, SetDecimal, FieldValue
  <2> QED  BY <1>2, <2>1 DEF Stored, Part
<1> QED  BY <1>1, <1>2 DEF Storable

LEMMA PartSeq == ASSUME NEW v, Storable(v) PROVE IsSeq(Part(v))
<1>1. CASE Part(v) = <<>>  BY <1>1, Tuples
<1>2. CASE Settable(v) /\ Part(v) = Token("type", dataTypeToByte(v.type)) \o encodeFieldValue(v)
  <2>1. IsSeq(Token("type", dataTypeToByte(v.type)))  BY OneToken
  <2>2. IsSeq(encodeFieldValue(v))  BY <1>2, EncodedSeq
  <2> QED  BY <1>2, <2>1, <2>2, SeqConcat
<1> QED  BY <1>1, <1>2, NullOrSet

LEMMA PartRead ==
  ASSUME NEW v, Storable(v), NEW t, NEW p \in Nat, Holds(t, p, Part(v)),
         NEW vals, NEW mask, NEW i, IF v.null THEN i \in mask ELSE i \notin mask
  PROVE  readField(t, mask, Got(vals, p), i) =
           IF Len(v.str) > MaxBytes THEN Stop("err")
           ELSE Got(Append(vals, Stored(v)), p + Len(Part(v)))
<1> DEFINE r == Got(vals, p)
<1>1. r.st = "ok" /\ r.val = vals /\ r.at = p  BY DEF Got
<1>2. CASE v.null = TRUE /\ Len(v.str) = 0 /\ Stored(v) = SetNull("") /\ Part(v) = <<>>
  <2>1. i \in mask  BY <1>2
  <2>2. p + Len(Part(v)) = p /\ ~(Len(v.str) > MaxBytes)
    <3>1. Len(Part(v)) = 0  BY <1>2, Tuples
    <3>2. p + 0 = p /\ ~(0 > MaxBytes)  BY CoderAssumption
    <3> QED  BY <1>2, <3>1, <3>2
  <2>3. readField(t, mask, r, i) = Got(Append(vals, SetNull("")), p)
    <3> HIDE DEF r
    <3> QED  BY <1>1, <2>1 DEF readField, Then
  <2> QED  BY <1>2, <2>2, <2>3
<1>3. CASE /\ v.null = FALSE /\ Settable(v) /\ Stored(v) = v
           /\ Part(v) = Token("type", dataTypeToByte(v.type)) \o encodeFieldValue(v)
  <2>1. i \notin mask  BY <1>3
  <2>2. PICK b : b = dataTypeToByte(v.type)  OBVIOUS
  <2>3. IsSeq(Token("type", b)) /\ Len(Token("type", b)) = 1 /\ IsSeq(encodeFieldValue(v))
    BY <1>3, OneToken, EncodedSeq
  <2>4. Holds(t, p, Token("type", b) \o encodeFieldValue(v))  BY <1>3, <2>2
  <2>5. Holds(t, p, Token("type", b)) /\ Holds(t, p + 1, encodeFieldValue(v))
    BY <2>3, <2>4, HoldsSplit
  <2>6. Len(Part(v)) = 1 + Len(encodeFieldValue(v)) /\ Len(encodeFieldValue(v)) \in Nat
    <3>1. PICK u, w : u = Token("type", b) /\ w = encodeFieldValue(v)  OBVIOUS
    <3>2. IsSeq(u) /\ IsSeq(w)  BY <2>3, <3>1
    <3>3. Len(u \o w) = Len(u) + Len(w) /\ Len(w) \in Nat  BY <3>2, SeqConcat
    <3> QED  BY <1>3, <2>2, <2>3, <3>1, <3>3
  <2>7. Expect(t, p, "type") = Got(b, p + 1)  BY <2>5, HoldsOne
  <2>8. PICK d : d = decodeFieldValue(t, p + 1, byteToDataType(b))  OBVIOUS
  <2>9. p + 1 \in Nat /\ (p + 1) + Len(encodeFieldValue(v)) = p + Len(Part(v))  BY <2>6
  <2>10. d = IF Len(v.str) > MaxBytes THEN Stop("err") ELSE Got(v, p + Len(Part(v)))
    BY <1>3, <2>2, <2>5, <2>8, <2>9, ValuesTransparent
  <2>11. readField(t, mask, r, i) = Then(d, LAMBDA x, q2 : Got(Append(vals, x), q2))
    <3> DEFINE e == Expect(t, p, "type")
    <3>1. e.st = "ok" /\ e.val = b /\ e.at = p + 1  BY <2>7 DEF Got
    <3> HIDE DEF r, e
    <3>2. readField(t, mask, r, i) =
            Then(e, LAMBDA c, q : Then(decodeFieldValue(t, q, byteToDataType(c)), LAMBDA x, q2 :
                 Got(Append(vals, x), q2)))
      BY <1>1, <2>1 DEF readField, Then, e
    <3> QED  BY <2>8, <3>1, <3>2 DEF Then
  <2>12. CASE Len(v.str) > MaxBytes
    <3>1. d.st # "ok" /\ d = Stop("err")  BY <2>10, <2>12 DEF Stop
    <3> QED  BY <2>11, <2>12, <3>1 DEF Then
  <2>13. CASE ~(Len(v.str) > MaxBytes)
    <3>1. d.st = "ok" /\ d.val = v /\ d.at = p + Len(Part(v))  BY <2>10, <2>13 DEF Got
    <3> QED  BY <1>3, <2>11, <2>13, <3>1 DEF Then
  <2> QED  BY <2>12, <2>13
<1> QED  BY <1>2, <1>3, NullOrSet

LEMMA FieldsRead ==
  ASSUME NEW values, IsSeq(values), \A i \in 1 .. Len(values) : Storable(values[i]),
         NEW t, NEW at \in Nat, Holds(t, at, writeFieldValues(values)),
         NEW mask, mask = {i \in DOMAIN values : values[i].null}
  PROVE  \E r \in {readFieldValues(t, at, Len(values), mask)} :
           IF \A i \in 1 .. Len(values) : Len(values[i].str) <= MaxBytes
           THEN r = Got([i \in 1 .. Len(values) |-> Stored(values[i])],
                        at + Len(writeFieldValues(values)))
           ELSE r = Stop("err")
<1>1. Len(values) \in Nat /\ DOMAIN values = 1 .. Len(values)  BY SeqShape
<1>2. PICK seqs : seqs = [i \in 1 .. Len(values) |-> Part(values[i])]  OBVIOUS
<1>3. IsSeq(seqs) /\ Len(seqs) = Len(values)
  <2>1. seqs \in [1 .. Len(values) -> Range(seqs)]  BY <1>2 DEF Range
  <2> QED  BY <1>1, <2>1, FunctionsAreSeqs
<1>4. \A i \in 1 .. Len(seqs) : IsSeq(seqs[i])  BY <1>2, <1>3, PartSeq
<1>5. writeFieldValues(values) = FlattenSeq(seqs)  BY <1>1, <1>2 DEF writeFieldValues, Part
<1>6. PICK p : Starts(t, p, seqs) /\ p[0] = at /\ p[Len(seqs)] = at + Len(FlattenSeq(seqs))
  <2>1. Holds(t, at, FlattenSeq(seqs))  BY <1>5
  <2> QED  BY <1>3, <1>4, <2>1, HoldsFlattened
<1>7. PICK r : /\ r[0] = Got(<<>>, at)
               /\ readFieldValues(t, at, Len(values), mask) = r[Len(values)]
               /\ \A k \in 1 .. Len(values) : r[k] = readField(t, mask, r[k - 1], k)
  <2>1. PICK q, base : q = [i \in 1 .. Len(values) |-> i] /\ base = Got(<<>>, at)  OBVIOUS
  <2>2. DOMAIN q = 1 .. Len(values) /\ \A k \in 1 .. Len(values) : q[k] = k  BY <2>1
  <2>3. PICK r : FieldRun(t, mask, base, q, Len(values), r)  BY <1>1, <2>2, FieldLoop
  <2>4. readFieldValues(t, at, Len(values), mask) = r[Len(values)]
    BY <2>1, <2>3 DEF FieldRun, readFieldValues, FieldRounds
  <2> QED  BY <2>1, <2>2, <2>3, <2>4 DEF FieldRun
<1> DEFINE Fitting(k) == \A i \in 1 .. k : Len(values[i].str) <= MaxBytes
           Vals(k) == [i \in 1 .. k |-> Stored(values[i])]
           P == {k \in Nat : k <= Len(values) =>
                   r[k] = IF Fitting(k) THEN Got(Vals(k), p[k]) ELSE Stop("err")}
<1>8. 0 \in P
  <2>1. Fitting(0) /\ Vals(0) = <<>>  OBVIOUS
  <2>2. r[0] = Got(<<>>, at)  BY <1>1, <1>7
  <2> QED  BY <1>6, <2>1, <2>2
<1>9. ASSUME NEW k \in Nat, k \in P, k + 1 <= Len(values) 
      PROVE  r[k + 1] = IF Fitting(k + 1) THEN Got(Vals(k + 1), p[k + 1]) ELSE Stop("err")
  <2>1. k <= Len(values) /\ k + 1 \in 1 .. Len(values) /\ k + 1 \in 0 .. Len(values) /\ k + 1 # 0
        /\ (k + 1) - 1 = k /\ k \in 0 .. Len(seqs)
    BY <1>1, <1>3, <1>9
  <2>2. r[k + 1] = readField(t, mask, r[k], k + 1)  BY <1>7, <2>1
  <2>3. PICK v : v = values[k + 1]  OBVIOUS
  <2>4. Storable(v)  BY <2>1, <2>3
  <2>5. seqs[k + 1] = Part(v)  BY <1>2, <2>1, <2>3
  <2>6. p[k] \in Nat /\ Holds(t, p[k], Part(v)) /\ p[k + 1] = p[k] + Len(Part(v))
    BY <1>3, <1>6, <2>1, <2>5 DEF Starts
  <2>7. IF v.null THEN k + 1 \in mask ELSE k + 1 \notin mask
    <3>1. v.null \in BOOLEAN  BY <2>4, NullOrSet
    <3>2. k + 1 \in mask <=> v.null  BY <1>1, <2>1, <2>3
    <3> QED  BY <3>1, <3>2
  <2>8. Fitting(k + 1) <=> Fitting(k) /\ Len(v.str) <= MaxBytes
    <3>1. \A i : i \in 1 .. (k + 1) <=> i \in 1 .. k \/ i = k + 1  OBVIOUS
    <3> QED  BY <2>3, <3>1
  <2>9. Len(v.str) \in Nat /\ MaxBytes \in Nat
    <3>1. IsSeq(v.str)
      <4>1. CASE v.str = <<>>  BY <4>1, Tuples
      <4>2. CASE Settable(v)
        BY <4>2, Tuples DEF Settable, SetInt64, SetFloat64, SetTimestamp, SetBool, SetDecimal, FieldValue
      <4> QED  BY <2>4, <4>1, <4>2, NullOrSet
    <3> QED  BY <3>1, SeqShape, CoderAssumption
  <2>10. r[k] = IF Fitting(k) THEN Got(Vals(k), p[k]) ELSE Stop("err")  BY <1>9, <2>1
  <2>11. CASE ~Fitting(k)
    <3>1. r[k] = Stop("err") /\ r[k].st # "ok"  BY <2>10, <2>11 DEF Stop
    <3>2. r[k + 1] = Stop("err")  BY <2>2, <3>1 DEF readField, Then
    <3> QED  BY <2>8, <2>11, <3>2
  <2>12. CASE Fitting(k)
    <3>1. r[k + 1] = IF Len(v.str) > MaxBytes THEN Stop("err")
                     ELSE Got(Append(Vals(k), Stored(v)), p[k] + Len(Part(v)))
      <4> HIDE DEF Fitting, Vals, P
      <4>1. r[k + 1] = readField(t, mask, Got(Vals(k), p[k]), k + 1)  BY <2>2, <2>10, <2>12
      <4>2. PICK w : w = Vals(k)  OBVIOUS
      <4>3. PICK x \in Nat : x = p[k]  BY <2>6
      <4>4. PICK j : j = k + 1  OBVIOUS
      <4>5. Holds(t, x, Part(v)) /\ IF v.null THEN j \in mask ELSE j \notin mask  BY <2>6, <2>7, <4>3, <4>4
      <4>6. readField(t, mask, Got(w, x), j) =
              IF Len(v.str) > MaxBytes THEN Stop("err")
              ELSE Got(Append(w, Stored(v)), x + Len(Part(v)))
        BY <2>4, <4>5, PartRead
      <4> QED  BY <4>1, <4>2, <4>3, <4>4, <4>6
    <3>2. Append(Vals(k), Stored(v)) = Vals(k + 1)
      <4>1. PICK w, w1 : w = Vals(k) /\ w1 = Vals(k + 1)  OBVIOUS
      <4>2. IsSeq(w) /\ Len(w) = k
        <5>1. w \in [1 .. k -> Range(w)]  BY <4>1 DEF Range
        <5> QED  BY <5>1, FunctionsAreSeqs
      <4>3. IsSeq(w1) /\ Len(w1) = k + 1
        <5>1. w1 \in [1 .. (k + 1) -> Range(w1)] /\ k + 1 \in Nat  BY <4>1 DEF Range
        <5> QED  BY <5>1, FunctionsAreSeqs
      <4>4. PICK a : a = Append(w, Stored(v))  OBVIOUS
      <4>5. IsSeq(a) /\ Len(a) = k + 1 /\ (\A i \in 1 .. k : a[i] = w[i]) /\ a[k + 1] = Stored(v)
        BY <4>2, <4>4, SeqAppend
      <4>6. ASSUME NEW i \in 1 .. (k + 1) PROVE a[i] = w1[i]
        <5>1. CASE i = k + 1  BY <2>3, <4>1, <4>5, <5>1
        <5>2. CASE i # k + 1
          <6>1. i \in 1 .. k  BY <5>2
          <6> QED  BY <4>1, <4>5, <6>1
        <5> QED  BY <5>1, <5>2
      <4>7. a = w1  BY <4>3, <4>5, <4>6, SameSeq
      <4> QED  BY <4>1, <4>4, <4>7
    <3>3. Len(v.str) > MaxBytes <=> ~(Len(v.str) <= MaxBytes)  BY <2>9
    <3> HIDE DEF Fitting, Vals
    <3> QED  BY <2>6, <2>8, <2>12, <3>1, <3>2, <3>3
  <2> QED  BY <2>11, <2>12
<1>10. \A k \in Nat : k \in P
  <2>1. \A k \in Nat : k \in P => k + 1 \in P
    <3> HIDE DEF Fitting, Vals
    <3>1. \A k \in Nat : k + 1 \in Nat  OBVIOUS
    <3> QED  BY <1>9, <3>1
  <2> HIDE DEF P
  <2> QED  BY <1>8, <2>1, Induction
<1>11. r[Len(values)] = IF Fitting(Len(values)) THEN Got(Vals(Len(values)), p[Len(values)]) ELSE Stop("err")
  <2>1. Len(values) \in P  BY <1>1, <1>10
  <2> HIDE DEF Fitting, Vals
  <2> QED  BY <1>1, <2>1
<1>12. p[Len(values)] = at + Len(writeFieldValues(values))  BY <1>3, <1>5, <1>6
<1> QED  BY <1>7, <1>11, <1>12

-----------------------------------------------------------------------------
(* Maps: the keys in the order SetToSeq chose, and the map of the first k. *)
Short(s) == IsSeq(s) /\ Len(s) <= MaxBytes
Firsts(m, keys, k) == [x \in {keys[i] : i \in 1 .. k} |-> m[x]]
AuditBytes(m) == writeMap(m, writeBytes)
OriginBytes(o) == writeVarint(o.total) \o writeVarint(o.valid) \o writeVarint(o.dlq)
OriginsBytes(m) ==
  writeMap(m, LAMBDA o : writeVarint(o.total) \o writeVarint(o.valid) \o writeVarint(o.dlq))
AuditEntry(t, r) == readEntry(t, r, LAMBDA z : readBytes(t, z))
OriginEntry(t, r) == readEntry(t, r, LAMBDA z : readOriginMetric(t, z))
IsOrigin(o) == o = [total |-> o.total, valid |-> o.valid, dlq |-> o.dlq]

LEMMA KeysInOrder ==
  ASSUME NEW S, IsFiniteSet(S)
  PROVE  \E keys : /\ keys = SetToSeq(S) /\ IsSeq(keys) /\ DOMAIN keys = 1 .. Len(keys)
                   /\ Len(keys) \in Nat /\ {keys[i] : i \in 1 .. Len(keys)} = S
<1>1. PICK n \in Nat : n = Cardinality(S)  BY FS_CardinalityType
<1>2. PICK g : g \in Bijection(1 .. n, S)  BY <1>1, FS_CardinalityType DEF ExistsBijection
<1>3. g \in [1 .. n -> S] /\ IsInjective(g)  BY <1>2 DEF Bijection, Injection
<1>4. PICK keys : keys = SetToSeq(S)  OBVIOUS
<1>5. keys \in [1 .. n -> S] /\ IsInjective(keys)
  <2>1. keys = CHOOSE f \in [1 .. n -> S] : IsInjective(f)  BY <1>1, <1>4 DEF SetToSeq
  <2> HIDE DEF IsInjective
  <2> QED  BY <1>3, <2>1
<1>6. keys \in Injection(1 .. n, S)  BY <1>5 DEF Injection
<1>7. IsFiniteSet(1 .. n) /\ Cardinality(1 .. n) = Cardinality(S)
  <2>1. IsFiniteSet(1 .. n) /\ Cardinality(1 .. n) = IF 1 > n THEN 0 ELSE n - 1 + 1  BY FS_Interval
  <2> QED  BY <1>1, <2>1
<1>8. keys \in Surjection(1 .. n, S)  BY <1>6, <1>7, FS_Injection
<1>9. \A x \in S : \E i \in 1 .. n : keys[i] = x  BY <1>8 DEF Surjection
<1>10. IsSeq(keys) /\ Len(keys) = n  BY <1>5, FunctionsAreSeqs
<1>11. {keys[i] : i \in 1 .. n} = S  BY <1>5, <1>9
<1>12. DOMAIN keys = 1 .. n  BY <1>5
<1> QED  BY <1>4, <1>10, <1>11, <1>12

LEMMA FirstsGrow ==
  ASSUME NEW m, NEW keys, NEW k \in Nat
  PROVE  /\ Put(Firsts(m, keys, k), keys[k + 1], m[keys[k + 1]]) = Firsts(m, keys, k + 1)
         /\ Firsts(m, keys, 0) = <<>>
<1>1. PICK D, E : D = {keys[i] : i \in 1 .. k} /\ E = {keys[i] : i \in 1 .. (k + 1)}  OBVIOUS
<1>2. E = {keys[k + 1]} \cup D
  <2>1. \A i : i \in 1 .. (k + 1) <=> i \in 1 .. k \/ i = k + 1  OBVIOUS
  <2> QED  BY <1>1, <2>1
<1>3. PICK f : f = [x \in D |-> m[x]]  OBVIOUS
<1>4. Put(f, keys[k + 1], m[keys[k + 1]]) = [x \in E |-> m[x]]
  <2>1. DOMAIN f = D /\ \A x \in D : f[x] = m[x]  BY <1>3
  <2> QED  BY <1>2, <2>1 DEF Put
<1>5. Firsts(m, keys, k) = f /\ Firsts(m, keys, k + 1) = [x \in E |-> m[x]]  BY <1>1, <1>3 DEF Firsts
<1>6. Firsts(m, keys, 0) = <<>>
  <2>1. {keys[i] : i \in 1 .. 0} = {}  OBVIOUS
  <2>2. Firsts(m, keys, 0) = [x \in {} |-> m[x]]  BY <2>1 DEF Firsts
  <2> QED  BY <2>2
<1> QED  BY <1>4, <1>5, <1>6

LEMMA ShortRead ==
  ASSUME NEW s, Short(s), NEW t, NEW at \in Nat, Holds(t, at, writeBytes(s))
  PROVE  readBytes(t, at) = Got(s, at + Len(writeBytes(s)))
<1>1. readBytes(t, at) = Got(s, at + Len(s) + 1)  BY BytesRead DEF Short
<1>2. Len(writeBytes(s)) = Len(s) + 1 /\ Len(s) \in Nat  BY BytesWritten DEF Short
<1>3. \A x \in Nat : at + (x + 1) = at + x + 1  OBVIOUS
<1> QED  BY <1>1, <1>2, <1>3

LEMMA OriginSeq == ASSUME NEW o PROVE IsSeq(OriginBytes(o)) /\ Len(OriginBytes(o)) = 3
<1>1. PICK a, b, c : a = writeVarint(o.total) /\ b = writeVarint(o.valid) /\ c = writeVarint(o.dlq)
  OBVIOUS
<1>2. IsSeq(a) /\ Len(a) = 1 /\ IsSeq(b) /\ Len(b) = 1 /\ IsSeq(c) /\ Len(c) = 1
  BY <1>1, OneToken DEF writeVarint
<1>3. IsSeq(a \o b) /\ Len(a \o b) = 2
  <2>1. 1 \in Nat /\ 1 + 1 = 2  OBVIOUS
  <2> QED  BY <1>2, <2>1, OneMore
<1>4. IsSeq((a \o b) \o c) /\ Len((a \o b) \o c) = 3
  <2>1. 2 \in Nat /\ 2 + 1 = 3  OBVIOUS
  <2> QED  BY <1>2, <1>3, <2>1, OneMore
<1> QED  BY <1>1, <1>4 DEF OriginBytes

LEMMA OriginRead ==
  ASSUME NEW o, IsOrigin(o), NEW t, NEW at \in Nat, Holds(t, at, OriginBytes(o))
  PROVE  readOriginMetric(t, at) = Got(o, at + Len(OriginBytes(o)))
<1>1. PICK a, b, c : a = writeVarint(o.total) /\ b = writeVarint(o.valid) /\ c = writeVarint(o.dlq)
  OBVIOUS
<1>2. IsSeq(a) /\ Len(a) = 1 /\ IsSeq(b) /\ Len(b) = 1 /\ IsSeq(c) /\ Len(c) = 1
  BY <1>1, OneToken DEF writeVarint
<1>3. IsSeq(a \o b) /\ Len(a \o b) = 2
  <2>1. 1 \in Nat /\ 1 + 1 = 2  OBVIOUS
  <2> QED  BY <1>2, <2>1, OneMore
<1>4. Holds(t, at, (a \o b) \o c)  BY <1>1 DEF OriginBytes
<1>5. Holds(t, at, a \o b) /\ Holds(t, at + 2, c)  BY <1>2, <1>3, <1>4, HoldsSplit
<1>6. Holds(t, at, a) /\ Holds(t, at + 1, b)  BY <1>2, <1>5, HoldsSplit
<1>7. readVarint(t, at) = Got(o.total, at + 1)  BY <1>1, <1>6, HoldsOne DEF readVarint, writeVarint
<1>8. readVarint(t, at + 1) = Got(o.valid, at + 2)
  <2>1. at + 1 \in Nat /\ at + 1 + 1 = at + 2  OBVIOUS
  <2> QED  BY <1>1, <1>6, <2>1, HoldsOne DEF readVarint, writeVarint
<1>9. readVarint(t, at + 2) = Got(o.dlq, at + 3)
  <2>1. at + 2 \in Nat /\ at + 2 + 1 = at + 3  OBVIOUS
  <2> QED  BY <1>1, <1>5, <2>1, HoldsOne DEF readVarint, writeVarint
<1>10. readOriginMetric(t, at) = Got([total |-> o.total, valid |-> o.valid, dlq |-> o.dlq], at + 3)
  BY <1>7, <1>8, <1>9 DEF readOriginMetric, Then, Got
<1> QED  BY <1>10, OriginSeq DEF IsOrigin

LEMMA AuditEntryRead ==
  ASSUME NEW key, Short(key), NEW x, Short(x), NEW t, NEW p \in Nat,
         Holds(t, p, writeBytes(key) \o writeBytes(x)), NEW m
  PROVE  AuditEntry(t, Got(m, p)) =
           Got(Put(m, key, x), p + Len(writeBytes(key) \o writeBytes(x)))
<1>1. PICK u, w : u = writeBytes(key) /\ w = writeBytes(x)  OBVIOUS
<1>2. IsSeq(u) /\ IsSeq(w)  BY <1>1, BytesWritten, OriginSeq DEF Short
<1>3. Holds(t, p, u) /\ Holds(t, p + Len(u), w)  BY <1>1, <1>2, HoldsSplit
<1>4. Len(u) \in Nat /\ Len(w) \in Nat /\ Len(u \o w) = Len(u) + Len(w)  BY <1>2, SeqConcat
<1>5. readBytes(t, p) = Got(key, p + Len(u))  BY <1>1, <1>3, ShortRead
<1>6. PICK q \in Nat : q = p + Len(u)  BY <1>4
<1>7. readBytes(t, q) = Got(x, q + Len(w))  BY <1>1, <1>3, <1>6, ShortRead
<1>8. q + Len(w) = p + Len(u \o w)
  <2>1. \A a, b \in Nat : (p + a) + b = p + (a + b)  OBVIOUS
  <2> QED  BY <1>4, <1>6, <2>1
<1> DEFINE r == Got(m, p)
           e == readBytes(t, p)
           d == readBytes(t, q)
<1>9. r.st = "ok" /\ r.val = m /\ r.at = p  BY DEF Got
<1>10. e.st = "ok" /\ e.val = key /\ e.at = q  BY <1>5, <1>6 DEF Got
<1>11. d.st = "ok" /\ d.val = x /\ d.at = q + Len(w)  BY <1>7 DEF Got
<1> HIDE DEF r
<1>12. readEntry(t, r, LAMBDA z : readBytes(t, z)) =
         Then(e, LAMBDA c, y : Then(readBytes(t, y), LAMBDA v, q2 : Got(Put(m, c, v), q2)))
  BY <1>9 DEF readEntry, Then
<1> HIDE DEF e
<1>13. readEntry(t, r, LAMBDA z : readBytes(t, z)) = Then(d, LAMBDA v, q2 : Got(Put(m, key, v), q2))
  BY <1>10, <1>12 DEF Then
<1> HIDE DEF d
<1>14. readEntry(t, r, LAMBDA z : readBytes(t, z)) = Got(Put(m, key, x), q + Len(w))
  BY <1>11, <1>13 DEF Then
<1> QED  BY <1>1, <1>8, <1>14 DEF r, AuditEntry

LEMMA AuditRead ==
  ASSUME NEW m, m = [x \in DOMAIN m |-> m[x]], IsFiniteSet(DOMAIN m),
         \A x \in DOMAIN m : Short(x) /\ Short(m[x])
  PROVE  /\ IsSeq(AuditBytes(m))
         /\ \A t : \A at \in Nat : Holds(t, at, AuditBytes(m)) =>
              readAuditFields(t, at) = Got(m, at + Len(AuditBytes(m)))
<1>1. PICK keys : /\ keys = SetToSeq(DOMAIN m) /\ IsSeq(keys) /\ DOMAIN keys = 1 .. Len(keys)
                  /\ Len(keys) \in Nat /\ {keys[i] : i \in 1 .. Len(keys)} = DOMAIN m
  BY KeysInOrder
<1>2. PICK n \in Nat : n = Len(keys)  BY <1>1
<1>3. PICK seqs : seqs = [i \in 1 .. n |-> writeBytes(keys[i]) \o writeBytes(m[keys[i]])]  OBVIOUS
<1>4. IsSeq(seqs) /\ Len(seqs) = n
  <2>1. seqs \in [1 .. n -> Range(seqs)]  BY <1>3 DEF Range
  <2> QED  BY <2>1, FunctionsAreSeqs
<1>5. \A i \in 1 .. n : keys[i] \in DOMAIN m  BY <1>1, <1>2
<1>6. \A i \in 1 .. n : Short(keys[i]) /\ Short(m[keys[i]])  BY <1>5
<1>7. \A i \in 1 .. Len(seqs) : IsSeq(seqs[i])
  <2> SUFFICES ASSUME NEW i \in 1 .. n PROVE IsSeq(seqs[i])  BY <1>4
  <2>1. IsSeq(writeBytes(keys[i])) /\ IsSeq(writeBytes(m[keys[i]]))
    BY <1>6, BytesWritten, OriginSeq DEF Short
  <2> QED  BY <1>3, <2>1, SeqConcat
<1>8. PICK a, b : a = writeVarint(n) /\ b = FlattenSeq(seqs)  OBVIOUS
<1>9. AuditBytes(m) = a \o b
  <2>1. AuditBytes(m) = writeVarint(Len(keys)) \o
          FlattenSeq([i \in DOMAIN keys |-> writeBytes(keys[i]) \o writeBytes(m[keys[i]])])
    BY <1>1 DEF AuditBytes, writeMap
  <2>2. seqs = [i \in DOMAIN keys |-> writeBytes(keys[i]) \o writeBytes(m[keys[i]])]  BY <1>1, <1>2, <1>3
  <2> QED  BY <1>2, <1>8, <2>1, <2>2
<1>10. IsSeq(a) /\ Len(a) = 1 /\ IsSeq(b)
  BY <1>4, <1>7, <1>8, OneToken, HoldsFlattened DEF writeVarint
<1>11. IsSeq(AuditBytes(m)) /\ Len(AuditBytes(m)) = 1 + Len(b) /\ Len(b) \in Nat  BY <1>9, <1>10, Joined
<1>12. ASSUME NEW t, NEW at \in Nat, Holds(t, at, AuditBytes(m))
       PROVE  readAuditFields(t, at) = Got(m, at + Len(AuditBytes(m)))
  <2>1. Holds(t, at, a) /\ Holds(t, at + 1, b)  BY <1>9, <1>10, <1>12, HoldsSplit
  <2>2. readVarint(t, at) = Got(n, at + 1)  BY <1>8, <2>1, HoldsOne DEF readVarint, writeVarint
  <2>3. PICK s \in Nat : s = at + 1  OBVIOUS
  <2>4. PICK p : Starts(t, p, seqs) /\ p[0] = s /\ p[n] = s + Len(b)
    BY <1>4, <1>7, <1>8, <2>1, <2>3, HoldsFlattened
  <2>5. PICK q, base : q = [i \in 1 .. n |-> i] /\ base = Got(<<>>, s)  OBVIOUS
  <2>6. DOMAIN q = 1 .. n  BY <2>5
  <2>7. PICK r : AuditRun(t, base, q, n, r)  BY <2>6, AuditLoop
  <2>8. r[0] = base /\ \A k \in 1 .. n : r[k] = AuditEntry(t, r[k - 1])
    BY <2>7 DEF AuditRun, AuditEntry
  <2>9. readAuditFields(t, at) = r[n]
    <3> DEFINE v == readVarint(t, at)
    <3>1. v.st = "ok" /\ v.val = n /\ v.at = s  BY <2>2, <2>3 DEF Got
    <3>2. r[n] = FoldLeft(LAMBDA c, i : readEntry(t, c, LAMBDA z : readBytes(t, z)), Got(<<>>, s),
                          [i \in 1 .. n |-> i])
      BY <2>5, <2>7 DEF AuditRun, AuditRounds
    <3> HIDE DEF v
    <3>3. readAuditFields(t, at) = Then(v, LAMBDA nn, pp :
            FoldLeft(LAMBDA c, i : readEntry(t, c, LAMBDA z : readBytes(t, z)), Got(<<>>, pp),
                     [i \in 1 .. nn |-> i]))
      BY DEF readAuditFields, v
    <3> QED  BY <3>1, <3>2, <3>3 DEF Then
  <2> DEFINE P == {k \in Nat : k <= n => r[k] = Got(Firsts(m, keys, k), p[k])}
  <2>10. 0 \in P
    <3>1. r[0] = Got(Firsts(m, keys, 0), p[0])  BY <2>4, <2>5, <2>8, FirstsGrow
    <3> QED  BY <3>1
  <2>11. ASSUME NEW k \in Nat, k \in P PROVE k + 1 \in P
    <3> SUFFICES ASSUME k + 1 <= n PROVE r[k + 1] = Got(Firsts(m, keys, k + 1), p[k + 1])
      <4>1. k + 1 \in Nat  OBVIOUS
      <4> QED  BY <4>1
    <3>1. PICK j : j = k + 1  OBVIOUS
    <3>2. j \in 1 .. n /\ j - 1 = k /\ k <= n /\ k \in 0 .. n  BY <3>1
    <3>3. PICK pk \in Nat : pk = p[k]  BY <1>4, <2>4, <3>2 DEF Starts
    <3>4. PICK key, x : key = keys[j] /\ x = m[keys[j]]  OBVIOUS
    <3>5. Short(key) /\ Short(x)  BY <1>6, <3>2, <3>4
    <3>6. seqs[j] = writeBytes(key) \o writeBytes(x)  BY <1>3, <3>2, <3>4
    <3>7. Holds(t, pk, writeBytes(key) \o writeBytes(x))
          /\ p[j] = pk + Len(writeBytes(key) \o writeBytes(x))
      BY <1>4, <2>4, <3>2, <3>3, <3>6 DEF Starts
    <3>8. PICK mk : mk = Firsts(m, keys, k)  OBVIOUS
    <3>9. r[k] = Got(mk, pk)  BY <2>11, <3>2, <3>3, <3>8
    <3>10. r[j] = AuditEntry(t, Got(mk, pk))  BY <2>8, <3>2, <3>9
    <3>11. AuditEntry(t, Got(mk, pk)) =
             Got(Put(mk, key, x), pk + Len(writeBytes(key) \o writeBytes(x)))
      BY <3>5, <3>7, AuditEntryRead
    <3>12. Put(mk, key, x) = Firsts(m, keys, j)  BY <3>1, <3>4, <3>8, FirstsGrow
    <3> QED  BY <3>1, <3>7, <3>10, <3>11, <3>12
  <2>12. \A k \in Nat : k \in P
    <3> HIDE DEF P
    <3> QED  BY <2>10, <2>11, Induction
  <2>13. r[n] = Got(Firsts(m, keys, n), p[n])  BY <2>12
  <2>14. Firsts(m, keys, n) = m  BY <1>1, <1>2 DEF Firsts
  <2>15. s + Len(b) = at + Len(AuditBytes(m))
    <3>1. \A y \in Nat : (at + 1) + y = at + (1 + y)  OBVIOUS
    <3> QED  BY <1>11, <2>3, <3>1
  <2> QED  BY <2>4, <2>9, <2>13, <2>14, <2>15
<1> QED  BY <1>11, <1>12

LEMMA OriginEntryRead ==
  ASSUME NEW key, Short(key), NEW x, IsOrigin(x), NEW t, NEW p \in Nat,
         Holds(t, p, writeBytes(key) \o OriginBytes(x)), NEW m
  PROVE  OriginEntry(t, Got(m, p)) =
           Got(Put(m, key, x), p + Len(writeBytes(key) \o OriginBytes(x)))
<1>1. PICK u, w : u = writeBytes(key) /\ w = OriginBytes(x)  OBVIOUS
<1>2. IsSeq(u) /\ IsSeq(w)  BY <1>1, BytesWritten, OriginSeq DEF Short
<1>3. Holds(t, p, u) /\ Holds(t, p + Len(u), w)  BY <1>1, <1>2, HoldsSplit
<1>4. Len(u) \in Nat /\ Len(w) \in Nat /\ Len(u \o w) = Len(u) + Len(w)  BY <1>2, SeqConcat
<1>5. readBytes(t, p) = Got(key, p + Len(u))  BY <1>1, <1>3, ShortRead
<1>6. PICK q \in Nat : q = p + Len(u)  BY <1>4
<1>7. readOriginMetric(t, q) = Got(x, q + Len(w))  BY <1>1, <1>3, <1>6, OriginRead
<1>8. q + Len(w) = p + Len(u \o w)
  <2>1. \A a, b \in Nat : (p + a) + b = p + (a + b)  OBVIOUS
  <2> QED  BY <1>4, <1>6, <2>1
<1> DEFINE r == Got(m, p)
           e == readBytes(t, p)
           d == readOriginMetric(t, q)
<1>9. r.st = "ok" /\ r.val = m /\ r.at = p  BY DEF Got
<1>10. e.st = "ok" /\ e.val = key /\ e.at = q  BY <1>5, <1>6 DEF Got
<1>11. d.st = "ok" /\ d.val = x /\ d.at = q + Len(w)  BY <1>7 DEF Got
<1> HIDE DEF r
<1>12. readEntry(t, r, LAMBDA z : readOriginMetric(t, z)) =
         Then(e, LAMBDA c, y : Then(readOriginMetric(t, y), LAMBDA v, q2 : Got(Put(m, c, v), q2)))
  BY <1>9 DEF readEntry, Then
<1> HIDE DEF e
<1>13. readEntry(t, r, LAMBDA z : readOriginMetric(t, z)) = Then(d, LAMBDA v, q2 : Got(Put(m, key, v), q2))
  BY <1>10, <1>12 DEF Then
<1> HIDE DEF d
<1>14. readEntry(t, r, LAMBDA z : readOriginMetric(t, z)) = Got(Put(m, key, x), q + Len(w))
  BY <1>11, <1>13 DEF Then
<1> QED  BY <1>1, <1>8, <1>14 DEF r, OriginEntry

LEMMA OriginsRead ==
  ASSUME NEW m, m = [x \in DOMAIN m |-> m[x]], IsFiniteSet(DOMAIN m),
         \A x \in DOMAIN m : Short(x) /\ IsOrigin(m[x])
  PROVE  /\ IsSeq(OriginsBytes(m))
         /\ \A t : \A at \in Nat : Holds(t, at, OriginsBytes(m)) =>
              readOriginMetrics(t, at) = Got(m, at + Len(OriginsBytes(m)))
<1>1. PICK keys : /\ keys = SetToSeq(DOMAIN m) /\ IsSeq(keys) /\ DOMAIN keys = 1 .. Len(keys)
                  /\ Len(keys) \in Nat /\ {keys[i] : i \in 1 .. Len(keys)} = DOMAIN m
  BY KeysInOrder
<1>2. PICK n \in Nat : n = Len(keys)  BY <1>1
<1>3. PICK seqs : seqs = [i \in 1 .. n |-> writeBytes(keys[i]) \o OriginBytes(m[keys[i]])]  OBVIOUS
<1>4. IsSeq(seqs) /\ Len(seqs) = n
  <2>1. seqs \in [1 .. n -> Range(seqs)]  BY <1>3 DEF Range
  <2> QED  BY <2>1, FunctionsAreSeqs
<1>5. \A i \in 1 .. n : keys[i] \in DOMAIN m  BY <1>1, <1>2
<1>6. \A i \in 1 .. n : Short(keys[i]) /\ IsOrigin(m[keys[i]])  BY <1>5
<1>7. \A i \in 1 .. Len(seqs) : IsSeq(seqs[i])
  <2> SUFFICES ASSUME NEW i \in 1 .. n PROVE IsSeq(seqs[i])  BY <1>4
  <2>1. IsSeq(writeBytes(keys[i])) /\ IsSeq(OriginBytes(m[keys[i]]))
    BY <1>6, BytesWritten, OriginSeq DEF Short
  <2> QED  BY <1>3, <2>1, SeqConcat
<1>8. PICK a, b : a = writeVarint(n) /\ b = FlattenSeq(seqs)  OBVIOUS
<1>9. OriginsBytes(m) = a \o b
  <2>1. OriginsBytes(m) = writeVarint(Len(keys)) \o
          FlattenSeq([i \in DOMAIN keys |-> writeBytes(keys[i]) \o OriginBytes(m[keys[i]])])
    BY <1>1 DEF OriginsBytes, writeMap, OriginBytes
  <2>2. seqs = [i \in DOMAIN keys |-> writeBytes(keys[i]) \o OriginBytes(m[keys[i]])]  BY <1>1, <1>2, <1>3
  <2> QED  BY <1>2, <1>8, <2>1, <2>2
<1>10. IsSeq(a) /\ Len(a) = 1 /\ IsSeq(b)
  BY <1>4, <1>7, <1>8, OneToken, HoldsFlattened DEF writeVarint
<1>11. IsSeq(OriginsBytes(m)) /\ Len(OriginsBytes(m)) = 1 + Len(b) /\ Len(b) \in Nat  BY <1>9, <1>10, Joined
<1>12. ASSUME NEW t, NEW at \in Nat, Holds(t, at, OriginsBytes(m))
       PROVE  readOriginMetrics(t, at) = Got(m, at + Len(OriginsBytes(m)))
  <2>1. Holds(t, at, a) /\ Holds(t, at + 1, b)  BY <1>9, <1>10, <1>12, HoldsSplit
  <2>2. readVarint(t, at) = Got(n, at + 1)  BY <1>8, <2>1, HoldsOne DEF readVarint, writeVarint
  <2>3. PICK s \in Nat : s = at + 1  OBVIOUS
  <2>4. PICK p : Starts(t, p, seqs) /\ p[0] = s /\ p[n] = s + Len(b)
    BY <1>4, <1>7, <1>8, <2>1, <2>3, HoldsFlattened
  <2>5. PICK q, base : q = [i \in 1 .. n |-> i] /\ base = Got(<<>>, s)  OBVIOUS
  <2>6. DOMAIN q = 1 .. n  BY <2>5
  <2>7. PICK r : OriginRun(t, base, q, n, r)  BY <2>6, OriginLoop
  <2>8. r[0] = base /\ \A k \in 1 .. n : r[k] = OriginEntry(t, r[k - 1])
    BY <2>7 DEF OriginRun, OriginEntry
  <2>9. readOriginMetrics(t, at) = r[n]
    <3> DEFINE v == readVarint(t, at)
    <3>1. v.st = "ok" /\ v.val = n /\ v.at = s  BY <2>2, <2>3 DEF Got
    <3>2. r[n] = FoldLeft(LAMBDA c, i : readEntry(t, c, LAMBDA z : readOriginMetric(t, z)), Got(<<>>, s),
                          [i \in 1 .. n |-> i])
      BY <2>5, <2>7 DEF OriginRun, OriginRounds
    <3> HIDE DEF v
    <3>3. readOriginMetrics(t, at) = Then(v, LAMBDA nn, pp :
            FoldLeft(LAMBDA c, i : readEntry(t, c, LAMBDA z : readOriginMetric(t, z)), Got(<<>>, pp),
                     [i \in 1 .. nn |-> i]))
      BY DEF readOriginMetrics, v
    <3> QED  BY <3>1, <3>2, <3>3 DEF Then
  <2> DEFINE P == {k \in Nat : k <= n => r[k] = Got(Firsts(m, keys, k), p[k])}
  <2>10. 0 \in P
    <3>1. r[0] = Got(Firsts(m, keys, 0), p[0])  BY <2>4, <2>5, <2>8, FirstsGrow
    <3> QED  BY <3>1
  <2>11. ASSUME NEW k \in Nat, k \in P PROVE k + 1 \in P
    <3> SUFFICES ASSUME k + 1 <= n PROVE r[k + 1] = Got(Firsts(m, keys, k + 1), p[k + 1])
      <4>1. k + 1 \in Nat  OBVIOUS
      <4> QED  BY <4>1
    <3>1. PICK j : j = k + 1  OBVIOUS
    <3>2. j \in 1 .. n /\ j - 1 = k /\ k <= n /\ k \in 0 .. n  BY <3>1
    <3>3. PICK pk \in Nat : pk = p[k]  BY <1>4, <2>4, <3>2 DEF Starts
    <3>4. PICK key, x : key = keys[j] /\ x = m[keys[j]]  OBVIOUS
    <3>5. Short(key) /\ IsOrigin(x)  BY <1>6, <3>2, <3>4
    <3>6. seqs[j] = writeBytes(key) \o OriginBytes(x)  BY <1>3, <3>2, <3>4
    <3>7. Holds(t, pk, writeBytes(key) \o OriginBytes(x))
          /\ p[j] = pk + Len(writeBytes(key) \o OriginBytes(x))
      BY <1>4, <2>4, <3>2, <3>3, <3>6 DEF Starts
    <3>8. PICK mk : mk = Firsts(m, keys, k)  OBVIOUS
    <3>9. r[k] = Got(mk, pk)  BY <2>11, <3>2, <3>3, <3>8
    <3>10. r[j] = OriginEntry(t, Got(mk, pk))  BY <2>8, <3>2, <3>9
    <3>11. OriginEntry(t, Got(mk, pk)) =
             Got(Put(mk, key, x), pk + Len(writeBytes(key) \o OriginBytes(x)))
      BY <3>5, <3>7, OriginEntryRead
    <3>12. Put(mk, key, x) = Firsts(m, keys, j)  BY <3>1, <3>4, <3>8, FirstsGrow
    <3> QED  BY <3>1, <3>7, <3>10, <3>11, <3>12
  <2>12. \A k \in Nat : k \in P
    <3> HIDE DEF P
    <3> QED  BY <2>10, <2>11, Induction
  <2>13. r[n] = Got(Firsts(m, keys, n), p[n])  BY <2>12
  <2>14. Firsts(m, keys, n) = m  BY <1>1, <1>2 DEF Firsts
  <2>15. s + Len(b) = at + Len(OriginsBytes(m))
    <3>1. \A y \in Nat : (at + 1) + y = at + (1 + y)  OBVIOUS
    <3> QED  BY <1>11, <2>3, <3>1
  <2> QED  BY <2>4, <2>9, <2>13, <2>14, <2>15
<1> QED  BY <1>11, <1>12

-----------------------------------------------------------------------------
(* A record as the sources and the validation make them. *)
ShortMap(m) ==
  /\ m = [x \in DOMAIN m |-> m[x]] /\ IsFiniteSet(DOMAIN m)
  /\ \A x \in DOMAIN m : Short(x) /\ Short(m[x])
WellMade(rec) ==
  /\ rec = Record(rec.schema, rec.values, rec.audit)
  /\ Short(rec.schema) /\ ShortMap(rec.audit)
  /\ IsSeq(rec.values) /\ \A i \in 1 .. Len(rec.values) : Storable(rec.values[i])

LEMMA FieldsSeq ==
  ASSUME NEW values, IsSeq(values), \A i \in 1 .. Len(values) : Storable(values[i])
  PROVE  IsSeq(writeFieldValues(values))
<1>1. Len(values) \in Nat /\ DOMAIN values = 1 .. Len(values)  BY SeqShape
<1>2. PICK seqs : seqs = [i \in 1 .. Len(values) |-> Part(values[i])]  OBVIOUS
<1>3. IsSeq(seqs) /\ Len(seqs) = Len(values)
  <2>1. seqs \in [1 .. Len(values) -> Range(seqs)]  BY <1>2 DEF Range
  <2> QED  BY <1>1, <2>1, FunctionsAreSeqs
<1>4. \A i \in 1 .. Len(seqs) : IsSeq(seqs[i])  BY <1>2, <1>3, PartSeq
<1>5. writeFieldValues(values) = FlattenSeq(seqs)  BY <1>1, <1>2 DEF writeFieldValues, Part
<1> QED  BY <1>3, <1>4, <1>5, HoldsFlattened

(* A record comes out of its coder as it went in, except that a null field *)
(* has lost its type; a record with too many fields or too long a text is  *)
(* an error, never another record (EncodeGenericRecord and                 *)
(* DecodeGenericRecord of coders.go).                                      *)
THEOREM RecordsTransparent ==
  ASSUME NEW rec, WellMade(rec)
  PROVE  \E r \in {DecodeGenericRecord(EncodeGenericRecord(rec))} :
           IF Sizeable(rec) THEN r.st = "ok" /\ r.val = Typeless(rec) ELSE r.st = "err"
<1>1. PICK values, audit, id, nf :
        /\ values = rec.values /\ audit = rec.audit /\ id = rec.schema /\ nf = Len(rec.values)
  OBVIOUS
<1>2. rec = Record(id, values, audit)  BY <1>1 DEF WellMade
<1>3. rec.nil = FALSE  BY <1>2 DEF Record
<1>4. /\ Short(id) /\ IsSeq(id) /\ ShortMap(audit) /\ IsSeq(values) /\ nf = Len(values) /\ nf \in Nat
      /\ DOMAIN values = 1 .. nf /\ \A i \in 1 .. nf : Storable(values[i])
  BY <1>1, SeqShape DEF WellMade, Short
<1>5. PICK mask : mask = {i \in DOMAIN values : values[i].null}  OBVIOUS
<1>6. PICK a, b, c, d, e, t :
        /\ a = writeBytes(id) /\ b = writeVarint(nf) /\ c = Token("mask", mask)
        /\ d = writeFieldValues(values) /\ e = AuditBytes(audit)
        /\ t = (((a \o b) \o c) \o d) \o e
  OBVIOUS
<1>7. EncodeGenericRecord(rec) = t
  BY <1>1, <1>3, <1>5, <1>6 DEF EncodeGenericRecord, AuditBytes, writeNullMask
<1>8. /\ IsSeq(a) /\ IsSeq(b) /\ IsSeq(c) /\ IsSeq(d) /\ IsSeq(e) /\ Len(b) = 1 /\ Len(c) = 1
      /\ Len(a) \in Nat /\ Len(d) \in Nat
  <2>1. IsSeq(a)  BY <1>4, <1>6, BytesWritten
  <2>2. IsSeq(b) /\ Len(b) = 1 /\ IsSeq(c) /\ Len(c) = 1  BY <1>6, OneToken DEF writeVarint
  <2>3. IsSeq(d)  BY <1>4, <1>6, FieldsSeq
  <2>4. IsSeq(e)  BY <1>4, <1>6, AuditRead DEF ShortMap
  <2> QED  BY <2>1, <2>2, <2>3, <2>4, SeqShape
<1>9. IsSeq(a \o b) /\ Len(a \o b) = Len(a) + 1  BY <1>8, Joined
<1>10. IsSeq((a \o b) \o c) /\ Len((a \o b) \o c) = Len(a) + 2
  <2>1. IsSeq((a \o b) \o c) /\ Len((a \o b) \o c) = Len(a \o b) + Len(c)  BY <1>8, <1>9, Joined
  <2> QED  BY <1>8, <1>9, <2>1
<1>11. IsSeq(((a \o b) \o c) \o d) /\ Len(((a \o b) \o c) \o d) = (Len(a) + 2) + Len(d)
  BY <1>8, <1>10, Joined
<1>12. Holds(t, 1, t)
  <2>1. IsSeq(t)  BY <1>6, <1>8, <1>11, Joined
  <2> QED  BY <2>1, HoldsItself
<1>13. PICK x, y \in Nat : x = Len(a) /\ y = Len(d)  BY <1>8
<1> DEFINE p1 == 1 + x
           p2 == p1 + 1
           p3 == p2 + 1
           p4 == p3 + y
<1>13a. /\ p1 \in Nat /\ p2 \in Nat /\ p3 \in Nat /\ p4 \in Nat /\ p1 = 1 + x
      /\ p2 = 1 + (x + 1) /\ p3 = 1 + (x + 2) /\ p4 = 1 + ((x + 2) + y)
      /\ p2 = p1 + 1 /\ p3 = p2 + 1 /\ p4 = p3 + y
  OBVIOUS
<1> HIDE DEF p1, p2, p3, p4
<1>13b. 1 \in Nat  OBVIOUS
<1>14. Holds(t, 1, ((a \o b) \o c) \o d) /\ Holds(t, p4, e)
  <2>1. PICK u : u = ((a \o b) \o c) \o d  OBVIOUS
  <2>2. IsSeq(u) /\ Len(u) = (x + 2) + y /\ Holds(t, 1, u \o e)  BY <1>6, <1>11, <1>12, <1>13, <2>1
  <2>3. Holds(t, 1, u) /\ Holds(t, 1 + Len(u), e)  BY <1>8, <1>13b, <2>2, HoldsSplit
  <2> QED  BY <1>13a, <2>1, <2>2, <2>3
<1>15. Holds(t, 1, (a \o b) \o c) /\ Holds(t, p3, d)
  <2>1. PICK u : u = (a \o b) \o c  OBVIOUS
  <2>2. IsSeq(u) /\ Len(u) = x + 2 /\ Holds(t, 1, u \o d)  BY <1>10, <1>13, <1>14, <2>1
  <2>3. Holds(t, 1, u) /\ Holds(t, 1 + Len(u), d)  BY <1>8, <1>13b, <2>2, HoldsSplit
  <2> QED  BY <1>13a, <2>1, <2>2, <2>3
<1>16. Holds(t, 1, a \o b) /\ Holds(t, p2, c)
  <2>1. PICK u : u = a \o b  OBVIOUS
  <2>2. IsSeq(u) /\ Len(u) = x + 1 /\ Holds(t, 1, u \o c)  BY <1>9, <1>13, <1>15, <2>1
  <2>3. Holds(t, 1, u) /\ Holds(t, 1 + Len(u), c)  BY <1>8, <1>13b, <2>2, HoldsSplit
  <2> QED  BY <1>13a, <2>1, <2>2, <2>3
<1>17. Holds(t, 1, a) /\ Holds(t, p1, b)
  <2>1. Holds(t, 1, a) /\ Holds(t, 1 + Len(a), b)  BY <1>8, <1>13b, <1>16, HoldsSplit
  <2> QED  BY <1>13a, <1>13, <2>1
<1>18. readBytes(t, 1) = Got(id, p1)  BY <1>4, <1>6, <1>13, <1>13a, <1>13b, <1>17, ShortRead
<1>19. readVarint(t, p1) = Got(nf, p2)
  BY <1>6, <1>13a, <1>17, HoldsOne DEF readVarint, writeVarint
<1>20. Expect(t, p2, "mask") = Got(mask, p3)  BY <1>6, <1>13a, <1>16, HoldsOne
<1>21. PICK f : f = readFieldValues(t, p3, nf, mask)  OBVIOUS
<1>22. IF \A i \in 1 .. nf : Len(values[i].str) <= MaxBytes
       THEN f = Got([i \in 1 .. nf |-> Stored(values[i])], p4) ELSE f = Stop("err")
  <2>1. IsSeq(values) /\ \A i \in 1 .. Len(values) : Storable(values[i])  BY <1>4
  <2>2. Holds(t, p3, writeFieldValues(values)) /\ p3 \in Nat  BY <1>6, <1>13a, <1>15
  <2>3. \E r \in {readFieldValues(t, p3, Len(values), mask)} :
           IF \A i \in 1 .. Len(values) : Len(values[i].str) <= MaxBytes
           THEN r = Got([i \in 1 .. Len(values) |-> Stored(values[i])],
                        p3 + Len(writeFieldValues(values)))
           ELSE r = Stop("err")
    BY <1>5, <2>1, <2>2, FieldsRead
  <2>4. p3 + Len(writeFieldValues(values)) = p4  BY <1>6, <1>13, <1>13a
  <2> QED  BY <1>4, <1>21, <2>3, <2>4
<1>23. PICK q : readAuditFields(t, p4) = Got(audit, q)
  <2>1. \A u : \A at \in Nat : Holds(u, at, AuditBytes(audit)) =>
          readAuditFields(u, at) = Got(audit, at + Len(AuditBytes(audit)))
    BY <1>4, AuditRead DEF ShortMap
  <2> QED  BY <1>6, <1>14, <1>13a, <2>1
<1>24. Sizeable(rec) <=> nf <= MaxRecordFields /\ \A i \in 1 .. nf : Len(values[i].str) <= MaxBytes
  BY <1>1, <1>4 DEF Sizeable
<1> DEFINE R1 == readBytes(t, 1)
           R2 == readVarint(t, R1.at)
           R3 == Expect(t, R2.at, "mask")
           R4 == readFieldValues(t, R3.at, R2.val, R3.val)
           R5 == readAuditFields(t, R4.at)
<1>25. R1.st = "ok" /\ R1.val = id /\ R1.at = p1  BY <1>18 DEF Got
<1>26. R2.st = "ok" /\ R2.val = nf /\ R2.at = p2  BY <1>19, <1>25 DEF Got
<1>27. R3.st = "ok" /\ R3.val = mask /\ R3.at = p3  BY <1>20, <1>26 DEF Got
<1>28. R4 = f  BY <1>21, <1>26, <1>27
<1>29. DecodeGenericRecord(t) =
         IF R1.st = "nil" THEN Got(Nil, 0)
         ELSE IF R1.st # "ok" \/ R2.st # "ok" THEN Stop("err")
         ELSE IF R2.val < 0 \/ R2.val > MaxRecordFields THEN Stop("err")
         ELSE IF R3.st # "ok" \/ R4.st # "ok" \/ R5.st # "ok" THEN Stop("err")
         ELSE Got(Record(R1.val, R4.val, R5.val), R5.at)
  BY DEF DecodeGenericRecord
<1> HIDE DEF R1, R2, R3, R4, R5
<1>30. DecodeGenericRecord(t) =
         IF nf > MaxRecordFields THEN Stop("err")
         ELSE IF f.st # "ok" \/ R5.st # "ok" THEN Stop("err")
         ELSE Got(Record(id, f.val, R5.val), R5.at)
  <2>1. ~(nf < 0)  BY <1>4
  <2> QED  BY <1>25, <1>26, <1>27, <1>28, <1>29, <2>1
<1>31. Stop("err").st = "err"  BY DEF Stop
<1>32. CASE Sizeable(rec)
  <2>1. ~(nf > MaxRecordFields) /\ f = Got([i \in 1 .. nf |-> Stored(values[i])], p4)
    BY <1>4, <1>22, <1>24, <1>32, CoderAssumption
  <2>2. f.st = "ok" /\ f.val = [i \in 1 .. nf |-> Stored(values[i])] /\ f.at = p4  BY <2>1 DEF Got
  <2>3. R5 = Got(audit, q)  BY <1>23, <1>28, <2>2 DEF R5
  <2>4. R5.st = "ok" /\ R5.val = audit  BY <2>3 DEF Got
  <2>5. DecodeGenericRecord(t) = Got(Record(id, f.val, audit), R5.at)  BY <1>30, <2>1, <2>2, <2>4
  <2>6. Typeless(rec) = Record(id, f.val, audit)
    <3>1. [i \in DOMAIN rec.values |-> IF rec.values[i].null THEN SetNull("") ELSE rec.values[i]]
          = f.val
      BY <1>1, <1>4, <2>2 DEF Stored
    <3> QED  BY <1>1, <1>3, <3>1 DEF Typeless, Record
  <2>7. \A g, h : Got(g, h).st = "ok" /\ Got(g, h).val = g  BY DEF Got
  <2> QED  BY <1>7, <1>32, <2>5, <2>6, <2>7
<1>33. CASE ~Sizeable(rec)
  <2>1. nf > MaxRecordFields \/ f = Stop("err")
    BY <1>4, <1>22, <1>24, <1>33, CoderAssumption
  <2>2. DecodeGenericRecord(t) = Stop("err")  BY <1>30, <1>31, <2>1
  <2> QED  BY <1>7, <1>31, <1>33, <2>2
<1> QED  BY <1>32, <1>33

(* Partial metrics come out of their coder as they went in.                *)
MetricsMade(m) ==
  /\ m = [total |-> m.total, written |-> m.written, dead |-> m.dead, origins |-> m.origins]
  /\ m.origins = [x \in DOMAIN m.origins |-> m.origins[x]] /\ IsFiniteSet(DOMAIN m.origins)
  /\ \A x \in DOMAIN m.origins : Short(x) /\ IsOrigin(m.origins[x])

(* The partial metrics of any number of origins come out of their coder as *)
(* they went in (EncodePipelineMetrics, DecodePipelineMetrics).            *)
THEOREM SummariesTransparent ==
  ASSUME NEW m, MetricsMade(m)
  PROVE  \E r \in {DecodePipelineMetrics(EncodePipelineMetrics(m))} : r.st = "ok" /\ r.val = m
<1>1. PICK a, b, c, d, t : /\ a = writeVarint(m.total) /\ b = writeVarint(m.written)
                           /\ c = writeVarint(m.dead) /\ d = OriginsBytes(m.origins)
                           /\ t = ((a \o b) \o c) \o d
  OBVIOUS
<1>2. EncodePipelineMetrics(m) = t  BY <1>1 DEF EncodePipelineMetrics, OriginsBytes
<1>3. IsSeq(a) /\ IsSeq(b) /\ IsSeq(c) /\ IsSeq(d) /\ Len(a) = 1 /\ Len(b) = 1 /\ Len(c) = 1
  <2>1. IsSeq(a) /\ IsSeq(b) /\ IsSeq(c) /\ Len(a) = 1 /\ Len(b) = 1 /\ Len(c) = 1
    BY <1>1, OneToken DEF writeVarint
  <2>2. IsSeq(d)  BY <1>1, OriginsRead DEF MetricsMade
  <2> QED  BY <2>1, <2>2
<1>4. IsSeq(a \o b) /\ Len(a \o b) = 2
  <2>1. 1 \in Nat /\ 1 + 1 = 2  OBVIOUS
  <2> QED  BY <1>3, <2>1, OneMore
<1>5. IsSeq((a \o b) \o c) /\ Len((a \o b) \o c) = 3
  <2>1. 2 \in Nat /\ 2 + 1 = 3  OBVIOUS
  <2> QED  BY <1>3, <1>4, <2>1, OneMore
<1>6. Holds(t, 1, t)
  <2>1. IsSeq(t)  BY <1>1, <1>3, <1>5, Joined
  <2> QED  BY <2>1, HoldsItself
<1>7. Holds(t, 1, (a \o b) \o c) /\ Holds(t, 4, d)
  <2>1. 1 \in Nat /\ 1 + 3 = 4  OBVIOUS
  <2> QED  BY <1>1, <1>3, <1>5, <1>6, <2>1, HoldsSplit
<1>8. Holds(t, 1, a \o b) /\ Holds(t, 3, c)
  <2>1. 1 \in Nat /\ 1 + 2 = 3  OBVIOUS
  <2> QED  BY <1>3, <1>4, <1>7, <2>1, HoldsSplit
<1>9. Holds(t, 1, a) /\ Holds(t, 2, b)
  <2>1. 1 \in Nat /\ 1 + 1 = 2  OBVIOUS
  <2> QED  BY <1>3, <1>8, <2>1, HoldsSplit
<1>10. /\ readVarint(t, 1) = Got(m.total, 2) /\ readVarint(t, 2) = Got(m.written, 3)
       /\ readVarint(t, 3) = Got(m.dead, 4)
  <2>1. 1 \in Nat /\ 2 \in Nat /\ 3 \in Nat /\ 1 + 1 = 2 /\ 2 + 1 = 3 /\ 3 + 1 = 4  OBVIOUS
  <2> QED  BY <1>1, <1>8, <1>9, <2>1, HoldsOne DEF readVarint, writeVarint
<1>11. PICK q : readOriginMetrics(t, 4) = Got(m.origins, q)
  <2>1. 4 \in Nat  OBVIOUS
  <2> QED  BY <1>1, <1>7, <2>1, OriginsRead DEF MetricsMade
<1>12. DecodePipelineMetrics(t) =
         Got([total |-> m.total, written |-> m.written, dead |-> m.dead, origins |-> m.origins], q)
  BY <1>10, <1>11 DEF DecodePipelineMetrics, Then, Got
<1>13. \A x, y : Got(x, y).st = "ok" /\ Got(x, y).val = x  BY DEF Got
<1> QED  BY <1>2, <1>12, <1>13 DEF MetricsMade

-----------------------------------------------------------------------------
(* The texts: what is written for a value is a sequence of characters.     *)

LEMMA SubSeqSeq ==
  ASSUME NEW s, NEW m \in Int, NEW n \in Int
  PROVE  IsSeq(SubSeq(s, m, n))
<1>1. PICK u : u = SubSeq(s, m, n)  OBVIOUS
<1>2. u = [i \in 1 .. (1 + n - m) |-> s[i + m - 1]]  BY <1>1
<1>3. PICK k \in Nat : 1 .. k = 1 .. (1 + n - m)
  <2>1. CASE 1 + n - m \in Nat  BY <2>1
  <2>2. CASE 1 + n - m \notin Nat
    <3>1. 1 .. 0 = 1 .. (1 + n - m)  BY <2>2
    <3> QED  BY <3>1
  <2> QED  BY <2>1, <2>2
<1>4. u \in [1 .. k -> Range(u)]  BY <1>2, <1>3 DEF Range
<1> QED  BY <1>1, <1>4, FunctionsAreSeqs

LEMMA Extremes ==
  ASSUME NEW n \in Nat, NEW S \in SUBSET (1 .. n), S # {}
  PROVE  Min(S) \in S /\ Max(S) \in S /\ \A y \in S : Min(S) <= y /\ Max(S) >= y
<1> DEFINE Ends(U) == (\E x \in U : \A y \in U : x <= y) /\ (\E x \in U : \A y \in U : x >= y)
           P == {k \in Nat : \A U \in SUBSET (1 .. k) : U # {} => Ends(U)}
<1>1. 0 \in P
  <2>1. \A U \in SUBSET (1 .. 0) : U = {}  OBVIOUS
  <2> QED  BY <2>1
<1>2. ASSUME NEW k \in Nat, k \in P PROVE k + 1 \in P
  <2>1. ASSUME NEW U \in SUBSET (1 .. (k + 1)), U # {} PROVE Ends(U)
    <3>1. PICK V : V = U \ {k + 1}  OBVIOUS
    <3>2. V \in SUBSET (1 .. k)  BY <3>1
    <3>3. CASE V = {}
      <4>1. U = {k + 1}  BY <2>1, <3>1, <3>3
      <4>2. k + 1 \in U /\ \A y \in U : k + 1 <= y /\ k + 1 >= y  BY <4>1
      <4> QED  BY <4>2
    <3>4. CASE V # {}
      <4>1. Ends(V)  BY <1>2, <3>2, <3>4
      <4>2. PICK a \in V : \A y \in V : a <= y  BY <4>1
      <4>3. PICK b \in V : \A y \in V : b >= y  BY <4>1
      <4>4. a \in U /\ b \in U /\ a <= k + 1 /\ \A y \in U : y \in V \/ y = k + 1  BY <3>1, <3>2
      <4>5. \A y \in U : a <= y  BY <4>2, <4>4
      <4>6. CASE k + 1 \in U
        <5>1. \A y \in U : k + 1 >= y  OBVIOUS
        <5> QED  BY <4>4, <4>5, <4>6, <5>1
      <4>7. CASE k + 1 \notin U
        <5>1. \A y \in U : b >= y  BY <4>3, <4>4, <4>7
        <5> QED  BY <4>4, <4>5, <5>1
      <4> QED  BY <4>6, <4>7
    <3> QED  BY <3>3, <3>4
  <2>2. k + 1 \in Nat  OBVIOUS
  <2> HIDE DEF Ends
  <2> QED  BY <2>1, <2>2
<1>3. \A k \in Nat : k \in P
  <2> HIDE DEF P
  <2> QED  BY <1>1, <1>2, Induction
<1>4. Ends(S)  BY <1>3
<1>5. Min(S) \in S /\ \A y \in S : Min(S) <= y  BY <1>4 DEF Min
<1>6. Max(S) \in S /\ \A y \in S : Max(S) >= y  BY <1>4 DEF Max
<1> QED  BY <1>5, <1>6

LEMMA TrimmedSeq == ASSUME NEW s, IsSeq(s) PROVE IsSeq(TrimSpace(s))
<1>1. Len(s) \in Nat /\ DOMAIN s = 1 .. Len(s)  BY SeqShape
<1>2. PICK kept : kept = {i \in DOMAIN s : s[i] # " "}  OBVIOUS
<1>3. CASE kept = {}
  <2>1. TrimSpace(s) = <<>>  BY <1>2, <1>3 DEF TrimSpace
  <2> QED  BY <2>1, Tuples
<1>4. CASE kept # {}
  <2>1. kept \in SUBSET (1 .. Len(s))  BY <1>1, <1>2
  <2>2. Min(kept) \in kept /\ Max(kept) \in kept  BY <1>1, <1>4, <2>1, Extremes
  <2>3. Min(kept) \in Int /\ Max(kept) \in Int
    <3>1. \A x \in 1 .. Len(s) : x \in Int  OBVIOUS
    <3> QED  BY <2>1, <2>2, <3>1
  <2>4. TrimSpace(s) = SubSeq(s, Min(kept), Max(kept))  BY <1>2, <1>4 DEF TrimSpace
  <2> QED  BY <2>3, <2>4, SubSeqSeq
<1> QED  BY <1>3, <1>4

LEMMA Numerals ==
  /\ DOMAIN Digits = 1 .. 10
  /\ \A c : IsDigit(c) => DigitVal(c) \in 0 .. 9
<1>1. DOMAIN Digits = 1 .. 10  BY DEF Digits
<1>2. ASSUME NEW c, IsDigit(c) PROVE DigitVal(c) \in 0 .. 9
  <2>1. PICK i : i = CHOOSE j \in DOMAIN Digits : Digits[j] = c  OBVIOUS
  <2>2. i \in 1 .. 10  BY <1>1, <1>2, <2>1 DEF IsDigit
  <2>3. DigitVal(c) = i - 1  BY <2>1 DEF DigitVal
  <2> QED  BY <2>2, <2>3
<1> QED  BY <1>1, <1>2

(* The recursion of FormatUint has a solution.                             *)
Written10(f, n) == IF n < 10 THEN <<Digits[n + 1]>>
                   ELSE Append(f[n \div 10], Digits[(n % 10) + 1])
FormatsTo(f, m) == \A n \in 0 .. m : f[n] = Written10(f, n)

LEMMA FormatUintDef == \A n \in Nat : FormatUint[n] = Written10(FormatUint, n)
<1>1. \A m \in Nat : \E f : FormatsTo(f, m)
  <2> DEFINE P == {m \in Nat : \E f : FormatsTo(f, m)}
  <2>1. 0 \in P
    <3>1. PICK f : f = [i \in 0 .. 0 |-> <<Digits[i + 1]>>]  OBVIOUS
    <3>2. \A n \in 0 .. 0 : f[n] = <<Digits[n + 1]>> /\ n < 10  BY <3>1
    <3>3. FormatsTo(f, 0)  BY <3>2 DEF FormatsTo, Written10
    <3> QED  BY <3>3
  <2>2. ASSUME NEW m \in Nat, m \in P PROVE m + 1 \in P
    <3>1. PICK f : FormatsTo(f, m)  BY <2>2
    <3>2. PICK g : g = [i \in 0 .. (m + 1) |-> IF i = m + 1 THEN Written10(f, i) ELSE f[i]]  OBVIOUS
    <3>3. ASSUME NEW n \in 0 .. (m + 1) PROVE g[n] = Written10(g, n)
      <4>1. n >= 10 => n \div 10 \in 0 .. (m + 1) /\ n \div 10 # m + 1  OBVIOUS
      <4>2. n >= 10 => g[n \div 10] = f[n \div 10]  BY <3>2, <4>1
      <4>3. Written10(g, n) = Written10(f, n)  BY <4>2 DEF Written10
      <4>4. CASE n = m + 1  BY <3>2, <4>3, <4>4
      <4>5. CASE n # m + 1
        <5>1. n \in 0 .. m  BY <4>5
        <5>2. f[n] = Written10(f, n)  BY <3>1, <5>1 DEF FormatsTo
        <5> QED  BY <3>2, <4>3, <4>5, <5>2
      <4> QED  BY <4>4, <4>5
    <3>4. FormatsTo(g, m + 1) /\ m + 1 \in Nat  BY <3>3 DEF FormatsTo
    <3> QED  BY <3>4
  <2>3. \A m \in Nat : m \in P
    <3> HIDE DEF P
    <3> QED  BY <2>1, <2>2, Induction
  <2> QED  BY <2>3
<1>2. ASSUME NEW f, NEW g, NEW a \in Nat, NEW b \in Nat, FormatsTo(f, a), FormatsTo(g, b)
      PROVE  \A n \in Nat : n <= a /\ n <= b => f[n] = g[n]
  <2> DEFINE P == {m \in Nat : \A n \in 0 .. m : n <= a /\ n <= b => f[n] = g[n]}
  <2>1. ASSUME NEW n \in Nat, n <= a, n <= b, \A i \in 0 .. (n - 1) : f[i] = g[i]
        PROVE  f[n] = g[n]
    <3>1. f[n] = Written10(f, n) /\ g[n] = Written10(g, n)  BY <1>2, <2>1 DEF FormatsTo
    <3>2. n >= 10 => n \div 10 \in 0 .. (n - 1)  OBVIOUS
    <3>3. n >= 10 => f[n \div 10] = g[n \div 10]  BY <2>1, <3>2
    <3>4. Written10(f, n) = Written10(g, n)  BY <3>3 DEF Written10
    <3> QED  BY <3>1, <3>4
  <2>2. 0 \in P
    <3>1. 0 <= a /\ 0 <= b /\ \A i \in 0 .. (0 - 1) : f[i] = g[i]  OBVIOUS
    <3>2. f[0] = g[0]  BY <2>1, <3>1
    <3>3. \A n \in 0 .. 0 : n = 0  OBVIOUS
    <3> QED  BY <3>2, <3>3
  <2>3. ASSUME NEW m \in Nat, m \in P PROVE m + 1 \in P
    <3>1. ASSUME NEW n \in 0 .. (m + 1), n <= a, n <= b PROVE f[n] = g[n]
      <4>1. CASE n = m + 1
        <5>1. \A i \in 0 .. (n - 1) : i \in 0 .. m /\ i <= a /\ i <= b  BY <3>1, <4>1
        <5>2. \A i \in 0 .. (n - 1) : f[i] = g[i]  BY <2>3, <5>1
        <5>3. n \in Nat  OBVIOUS
        <5> QED  BY <2>1, <3>1, <5>2, <5>3
      <4>2. CASE n # m + 1
        <5>1. n \in 0 .. m  BY <4>2
        <5> QED  BY <2>3, <3>1, <5>1
      <4> QED  BY <4>1, <4>2
    <3>2. m + 1 \in Nat  OBVIOUS
    <3> QED  BY <3>1, <3>2
  <2>4. \A m \in Nat : m \in P
    <3> HIDE DEF P
    <3> QED  BY <2>2, <2>3, Induction
  <2> SUFFICES ASSUME NEW n \in Nat, n <= a, n <= b PROVE f[n] = g[n]  OBVIOUS
  <2>5. n \in P /\ n \in 0 .. n  BY <2>4
  <2> QED  BY <2>5
<1> DEFINE Pick(m) == CHOOSE f : FormatsTo(f, m)
<1>3. \A m \in Nat : FormatsTo(Pick(m), m)  BY <1>1
<1> HIDE DEF Pick
<1>4. PICK F : F = [n \in Nat |-> Pick(n)[n]]  OBVIOUS
<1>5. ASSUME NEW n \in Nat PROVE F[n] = Written10(F, n)
  <2>1. F[n] = Pick(n)[n] /\ n \in 0 .. n  BY <1>4
  <2>2. Pick(n)[n] = Written10(Pick(n), n)  BY <1>3, <2>1 DEF FormatsTo
  <2>3. ASSUME n >= 10 PROVE F[n \div 10] = Pick(n)[n \div 10]
    <3>1. n \div 10 \in Nat /\ n \div 10 <= n  BY <2>3
    <3>2. PICK k \in Nat : k = n \div 10  BY <3>1
    <3>3. F[k] = Pick(k)[k]  BY <1>4
    <3>4. FormatsTo(Pick(k), k) /\ FormatsTo(Pick(n), n) /\ k <= k /\ k <= n  BY <1>3, <3>1, <3>2
    <3>5. Pick(k)[k] = Pick(n)[k]  BY <1>2, <3>4
    <3> QED  BY <3>2, <3>3, <3>5
  <2>4. Written10(F, n) = Written10(Pick(n), n)  BY <2>3 DEF Written10
  <2> QED  BY <2>1, <2>2, <2>4
<1>6. F = [n \in Nat |-> IF n < 10 THEN <<Digits[n + 1]>>
                         ELSE Append(F[n \div 10], Digits[(n % 10) + 1])]
  BY <1>4, <1>5 DEF Written10
<1>7. FormatUint = CHOOSE f : f = [n \in Nat |-> IF n < 10 THEN <<Digits[n + 1]>>
                                  ELSE Append(f[n \div 10], Digits[(n % 10) + 1])]
  BY DEF FormatUint
<1>8. FormatUint = [n \in Nat |-> IF n < 10 THEN <<Digits[n + 1]>>
                                  ELSE Append(FormatUint[n \div 10], Digits[(n % 10) + 1])]
  BY <1>6, <1>7
<1> QED  BY <1>8 DEF Written10

LEMMA FormatUintSeq == ASSUME NEW n \in Nat PROVE IsSeq(FormatUint[n])
<1> DEFINE P == {m \in Nat : \A k \in 0 .. m : IsSeq(FormatUint[k])}
<1>1. ASSUME NEW k \in Nat, \A i \in 0 .. (k - 1) : IsSeq(FormatUint[i]) PROVE IsSeq(FormatUint[k])
  <2>1. FormatUint[k] = Written10(FormatUint, k)  BY FormatUintDef
  <2>2. CASE k < 10
    <3>1. FormatUint[k] = <<Digits[k + 1]>>  BY <2>1, <2>2 DEF Written10
    <3> QED  BY <3>1, Tuples
  <2>3. CASE ~(k < 10)
    <3>1. FormatUint[k] = Append(FormatUint[k \div 10], Digits[(k % 10) + 1])
      BY <2>1, <2>3 DEF Written10
    <3>2. k \div 10 \in 0 .. (k - 1)  BY <2>3
    <3>3. IsSeq(FormatUint[k \div 10])  BY <1>1, <3>2
    <3> QED  BY <3>1, <3>3, SeqAppend
  <2> QED  BY <2>2, <2>3
<1>2. 0 \in P
  <2>1. \A i \in 0 .. (0 - 1) : IsSeq(FormatUint[i])  OBVIOUS
  <2>2. IsSeq(FormatUint[0])  BY <1>1, <2>1
  <2>3. \A k \in 0 .. 0 : k = 0  OBVIOUS
  <2> QED  BY <2>2, <2>3
<1>3. ASSUME NEW m \in Nat, m \in P PROVE m + 1 \in P
  <2>1. \A i \in 0 .. ((m + 1) - 1) : IsSeq(FormatUint[i])
    <3>1. (m + 1) - 1 = m  OBVIOUS
    <3> QED  BY <1>3, <3>1
  <2>2. m + 1 \in Nat  OBVIOUS
  <2>3. IsSeq(FormatUint[m + 1])  BY <1>1, <2>1, <2>2
  <2>4. \A k \in 0 .. (m + 1) : k \in 0 .. m \/ k = m + 1  OBVIOUS
  <2> QED  BY <1>3, <2>2, <2>3, <2>4
<1>4. \A m \in Nat : m \in P
  <2> HIDE DEF P
  <2> QED  BY <1>2, <1>3, Induction
<1>5. n \in P /\ n \in 0 .. n  BY <1>4
<1> QED  BY <1>5

LEMMA SignedSeq == ASSUME NEW n, NEW s, IsSeq(s) PROVE IsSeq(Signed(n, s))
<1>1. IsSeq(<<"-">>)  BY Tuples
<1>2. IsSeq(<<"-">> \o s)  BY <1>1, Joined
<1> QED  BY <1>2 DEF Signed

LEMMA FormatIntSeq == ASSUME NEW n \in Int PROVE IsSeq(FormatInt(n))
<1>1. Abs(n) \in Nat  BY DEF Abs
<1> QED  BY <1>1, FormatUintSeq, SignedSeq DEF FormatInt

LEMMA FormatDecimalSeq == ASSUME NEW m \in Int, NEW scale \in Int PROVE IsSeq(FormatDecimal(m, scale))
<1>1. CASE scale <= 0  BY <1>1, FormatIntSeq DEF FormatDecimal
<1>2. CASE ~(scale <= 0)
  <2>1. Abs(m) \in Nat  BY DEF Abs
  <2>2. PICK w : w = FormatUint[Abs(m)]  OBVIOUS
  <2>3. IsSeq(w)  BY <2>1, <2>2, FormatUintSeq
  <2>4. PICK k \in Int : k = (scale + 1) - Len(w)
    <3>1. Len(w) \in Nat  BY <2>3, SeqShape
    <3> QED  BY <3>1
  <2>5. PICK z : z = [i \in 1 .. k |-> "0"]  OBVIOUS
  <2>6. IsSeq(z)
    <3>1. PICK j \in Nat : 1 .. j = 1 .. k
      <4>1. CASE k \in Nat  BY <4>1
      <4>2. CASE k \notin Nat
        <5>1. 1 .. 0 = 1 .. k  BY <4>2
        <5> QED  BY <5>1
      <4> QED  BY <4>1, <4>2
    <3>2. z \in [1 .. j -> {"0"}]  BY <2>5, <3>1
    <3> QED  BY <3>2, FunctionsAreSeqs
  <2>7. PICK s : s = z \o w  OBVIOUS
  <2>8. Padded(Abs(m), scale + 1) = s  BY <2>2, <2>4, <2>5, <2>7 DEF Padded
  <2>9. IsSeq(s) /\ Len(s) \in Nat
    <3>1. IsSeq(s)  BY <2>3, <2>6, <2>7, Joined
    <3> QED  BY <3>1, SeqShape
  <2>10. PICK dot \in Int : dot = Len(s) - scale  BY <2>9
  <2>11. PICK a, b, c : a = SubSeq(s, 1, dot) /\ b = <<".">> /\ c = SubSeq(s, dot + 1, Len(s))  OBVIOUS
  <2>12. IsSeq(a) /\ IsSeq(b) /\ IsSeq(c)
    <3>1. 1 \in Int /\ dot + 1 \in Int /\ Len(s) \in Int  BY <2>9
    <3> QED  BY <2>11, <3>1, SubSeqSeq, Tuples
  <2>13. IsSeq(a \o b)  BY <2>12, Joined
  <2>14. IsSeq((a \o b) \o c)  BY <2>12, <2>13, Joined
  <2>15. FormatDecimal(m, scale) = Signed(m, (a \o b) \o c)
    BY <1>2, <2>8, <2>10, <2>11 DEF FormatDecimal
  <2> QED  BY <2>14, <2>15, SignedSeq
<1> QED  BY <1>1, <1>2

-----------------------------------------------------------------------------
(* Powers of ten and sums.  A linear recurrence has a solution.            *)
Solves(f, a, b, g, m) == f[0] = b /\ \A n \in Nat : n < m => f[n + 1] = a * f[n] + g[n + 1]

LEMMA Recurrence ==
  ASSUME NEW a \in Int, NEW b \in Int, NEW g \in [Nat -> Int]
  PROVE  \E f \in [Nat -> Int] : f[0] = b /\ \A n \in Nat : f[n + 1] = a * f[n] + g[n + 1]
<1> DEFINE P == {m \in Nat : \E f \in [Nat -> Int] : Solves(f, a, b, g, m)}
<1>1. 0 \in P
  <2>1. PICK f \in [Nat -> Int] : \A n \in Nat : f[n] = b
    <3>1. [n \in Nat |-> b] \in [Nat -> Int] /\ \A n \in Nat : [k \in Nat |-> b][n] = b  OBVIOUS
    <3> QED  BY <3>1
  <2>2. Solves(f, a, b, g, 0)  BY <2>1 DEF Solves
  <2> QED  BY <2>2
<1>2. ASSUME NEW m \in Nat, m \in P PROVE m + 1 \in P
  <2>1. PICK f \in [Nat -> Int] : Solves(f, a, b, g, m)  BY <1>2
  <2>2. PICK x \in Int : x = a * f[m] + g[m + 1]
    <3>1. f[m] \in Int /\ g[m + 1] \in Int  OBVIOUS
    <3>2. a * f[m] + g[m + 1] \in Int  BY <3>1
    <3> QED  BY <3>2
  <2>3. PICK h : h = [k \in Nat |-> IF k = m + 1 THEN x ELSE f[k]]  OBVIOUS
  <2>4. h \in [Nat -> Int]  BY <2>3
  <2>5. h[0] = b  BY <2>1, <2>3 DEF Solves
  <2>6. ASSUME NEW n \in Nat, n < m + 1 PROVE h[n + 1] = a * h[n] + g[n + 1]
    <3>1. h[n] = f[n]  BY <2>3, <2>6
    <3>2. CASE n = m  BY <2>2, <2>3, <3>1, <3>2
    <3>3. CASE n # m
      <4>1. n < m /\ n + 1 \in Nat /\ n + 1 # m + 1  BY <2>6, <3>3
      <4>2. h[n + 1] = f[n + 1]  BY <2>3, <4>1
      <4> QED  BY <2>1, <3>1, <4>1, <4>2 DEF Solves
    <3> QED  BY <3>2, <3>3
  <2>7. Solves(h, a, b, g, m + 1) /\ m + 1 \in Nat  BY <2>5, <2>6 DEF Solves
  <2> QED  BY <2>4, <2>7
<1>3. \A m \in Nat : \E f \in [Nat -> Int] : Solves(f, a, b, g, m)
  <2>1. \A m \in Nat : m \in P
    <3> HIDE DEF P
    <3> QED  BY <1>1, <1>2, Induction
  <2> QED  BY <2>1
<1>4. ASSUME NEW f, NEW h, NEW k \in Nat, NEW m \in Nat, k <= m,
             Solves(f, a, b, g, k), Solves(h, a, b, g, m)
      PROVE  f[k] = h[k]
  <2> DEFINE Q == {n \in Nat : n <= k => f[n] = h[n]}
  <2>1. 0 \in Q  BY <1>4 DEF Solves
  <2>2. ASSUME NEW n \in Nat, n \in Q PROVE n + 1 \in Q
    <3>1. ASSUME n + 1 <= k PROVE f[n + 1] = h[n + 1]
      <4>1. n <= k /\ n < k /\ n < m  BY <1>4, <3>1
      <4>2. f[n + 1] = a * f[n] + g[n + 1] /\ h[n + 1] = a * h[n] + g[n + 1]
        BY <1>4, <4>1 DEF Solves
      <4> QED  BY <2>2, <4>1, <4>2
    <3> QED  BY <3>1
  <2>3. \A n \in Nat : n \in Q
    <3> HIDE DEF Q
    <3> QED  BY <2>1, <2>2, Induction
  <2>4. k \in Q /\ k <= k  BY <2>3
  <2> QED  BY <2>4
<1> DEFINE Pick(m) == CHOOSE f \in [Nat -> Int] : Solves(f, a, b, g, m)
<1>5. \A m \in Nat : Pick(m) \in [Nat -> Int] /\ Solves(Pick(m), a, b, g, m)  BY <1>3
<1> HIDE DEF Pick
<1>6. PICK F : F = [n \in Nat |-> Pick(n)[n]]  OBVIOUS
<1>7. F \in [Nat -> Int]
  <2>1. \A n \in Nat : Pick(n)[n] \in Int  BY <1>5
  <2> QED  BY <1>6, <2>1
<1>8. F[0] = b  BY <1>5, <1>6 DEF Solves
<1>9. ASSUME NEW n \in Nat PROVE F[n + 1] = a * F[n] + g[n + 1]
  <2>1. PICK m \in Nat : m = n + 1 /\ n < m /\ n <= m  OBVIOUS
  <2>2. F[m] = Pick(m)[m] /\ F[n] = Pick(n)[n]  BY <1>6
  <2>3. Solves(Pick(n), a, b, g, n) /\ Solves(Pick(m), a, b, g, m)  BY <1>5
  <2>4. Pick(n)[n] = Pick(m)[n]  BY <1>4, <2>1, <2>3
  <2>5. Pick(m)[n + 1] = a * Pick(m)[n] + g[n + 1]  BY <2>1, <2>3 DEF Solves
  <2> QED  BY <2>1, <2>2, <2>4, <2>5
<1> QED  BY <1>7, <1>8, <1>9

LEMMA Powers ==
  /\ Pow10[0] = 1
  /\ \A n \in Nat : Pow10[n] \in Nat \ {0} /\ Pow10[n + 1] = 10 * Pow10[n]
<1>1. PICK g \in [Nat -> Int] : \A n \in Nat : g[n] = 0
  <2>1. [n \in Nat |-> 0] \in [Nat -> Int] /\ \A n \in Nat : [k \in Nat |-> 0][n] = 0  OBVIOUS
  <2> QED  BY <2>1
<1>2. PICK f \in [Nat -> Int] : f[0] = 1 /\ \A n \in Nat : f[n + 1] = 10 * f[n] + g[n + 1]
  <2>1. PICK a, b \in Int : a = 10 /\ b = 1  OBVIOUS
  <2>2. PICK f \in [Nat -> Int] : f[0] = b /\ \A n \in Nat : f[n + 1] = a * f[n] + g[n + 1]
    BY Recurrence
  <2> QED  BY <2>1, <2>2
<1>3. ASSUME NEW n \in Nat PROVE f[n] = IF n = 0 THEN 1 ELSE 10 * f[n - 1]
  <2>1. CASE n = 0  BY <1>2, <2>1
  <2>2. CASE n # 0
    <3>1. PICK k \in Nat : k = n - 1 /\ k + 1 = n  BY <2>2
    <3>2. f[k + 1] = 10 * f[k] + g[k + 1] /\ g[k + 1] = 0 /\ f[k] \in Int  BY <1>1, <1>2
    <3> QED  BY <2>2, <3>1, <3>2
  <2> QED  BY <2>1, <2>2
<1>4. f = [n \in Nat |-> IF n = 0 THEN 1 ELSE 10 * f[n - 1]]  BY <1>3
<1>5. Pow10 = CHOOSE h : h = [n \in Nat |-> IF n = 0 THEN 1 ELSE 10 * h[n - 1]]  BY DEF Pow10
<1>6. Pow10 = [n \in Nat |-> IF n = 0 THEN 1 ELSE 10 * Pow10[n - 1]]  BY <1>4, <1>5
<1>7. Pow10[0] = 1  BY <1>6
<1>8. ASSUME NEW n \in Nat PROVE Pow10[n + 1] = 10 * Pow10[n]
  <2>1. n + 1 \in Nat /\ n + 1 # 0 /\ (n + 1) - 1 = n  OBVIOUS
  <2> QED  BY <1>6, <2>1
<1> DEFINE P == {n \in Nat : Pow10[n] \in Nat \ {0}}
<1>9. 0 \in P  BY <1>7
<1>10. ASSUME NEW n \in Nat, n \in P PROVE n + 1 \in P
  <2>1. Pow10[n + 1] = 10 * Pow10[n] /\ Pow10[n] \in Nat \ {0}  BY <1>8, <1>10
  <2> QED  BY <2>1
<1>11. \A n \in Nat : n \in P
  <2> HIDE DEF P
  <2> QED  BY <1>9, <1>10, Induction
<1> QED  BY <1>7, <1>8, <1>11

LEMMA FloatUnits == FloatDigits \in 0 .. 9 /\ Pow10[FloatDigits] = FloatUnit /\ FloatUnit \in Nat \ {0}
<1>1. FloatDigits \in 0 .. 9 /\ Pow10[FloatDigits] = FloatUnit  BY CastAssumption DEF FloatDigits
<1>2. FloatDigits \in Nat  BY <1>1
<1> QED  BY <1>1, <1>2, Powers

LEMMA FracDigitsOf ==
  ASSUME NEW x \in Int, NEW fd, fd = FloatDigits, NEW c, c = FracDigits(x)
  PROVE  /\ c \in 0 .. fd /\ fd - c \in Nat /\ c \in Int
         /\ x % Pow10[fd - c] = 0
         /\ \A e \in 0 .. (c - 1) : x % Pow10[fd - e] # 0
<1> fd \in 0 .. 9  BY FloatUnits
<1> DEFINE Divides(d) == x % Pow10[fd - d] = 0
<1>2. PICK d \in 0 .. fd : Divides(d) /\ \A e \in 0 .. (d - 1) : ~Divides(e)
  <2>1. Divides(fd)
    <3>1. fd - fd = 0 /\ x % 1 = 0  OBVIOUS
    <3> QED  BY <3>1, Powers
  <2> DEFINE P == {m \in Nat : \A i \in 0 .. m : i <= fd =>
                     (Divides(i) => \E d \in 0 .. i : Divides(d) /\ \A e \in 0 .. (d - 1) : ~Divides(e))}
  <2> HIDE DEF Divides
  <2>2. 0 \in P
    <3>1. \A i \in 0 .. 0 : i = 0  OBVIOUS
    <3>2. 0 \in 0 .. 0 /\ \A e \in 0 .. (0 - 1) : ~Divides(e)  OBVIOUS
    <3> QED  BY <3>1, <3>2
  <2>3. ASSUME NEW m \in Nat, m \in P PROVE m + 1 \in P
    <3>1. m + 1 \in Nat /\ \A i \in 0 .. (m + 1) : i \in 0 .. m \/ i = m + 1  OBVIOUS
    <3>2. ASSUME m + 1 <= fd, Divides(m + 1)
          PROVE  \E d \in 0 .. (m + 1) : Divides(d) /\ \A e \in 0 .. (d - 1) : ~Divides(e)
      <4>1. CASE \E e \in 0 .. m : Divides(e)
        <5>1. PICK e \in 0 .. m : Divides(e)  BY <4>1
        <5>2. e <= fd  BY <3>2
        <5>3. PICK d \in 0 .. e : Divides(d) /\ \A y \in 0 .. (d - 1) : ~Divides(y)  BY <2>3, <5>1, <5>2
        <5>4. d \in 0 .. (m + 1)  OBVIOUS
        <5> QED  BY <5>3, <5>4
      <4>2. CASE \A e \in 0 .. m : ~Divides(e)
        <5>1. m + 1 \in 0 .. (m + 1) /\ (m + 1) - 1 = m  OBVIOUS
        <5> QED  BY <3>2, <4>2, <5>1
      <4> QED  BY <4>1, <4>2
    <3> QED  BY <2>3, <3>1, <3>2
  <2>4. \A m \in Nat : m \in P
    <3> HIDE DEF P
    <3> QED  BY <2>2, <2>3, Induction
  <2>5. fd \in P /\ fd \in 0 .. fd /\ fd <= fd  BY <2>4
  <2> QED  BY <2>1, <2>5
<1>3. c \in 0 .. fd /\ Divides(c) /\ \A e \in 0 .. (c - 1) : ~Divides(e)  BY <1>2 DEF FracDigits
<1> QED  BY <1>3

LEMMA FormatFloatSeq == ASSUME NEW x \in Int PROVE IsSeq(FormatFloat(x))
<1>1. PICK c : c = FracDigits(x)  OBVIOUS
<1>2. FloatDigits - c \in Nat /\ c \in Int  BY <1>1, FracDigitsOf
<1>3. PICK k \in Nat \ {0} : k = Pow10[FloatDigits - c]  BY <1>2, Powers
<1>4. PICK m \in Int : m = IF x < 0 THEN - (Abs(x) \div k) ELSE x \div k
  <2>1. Abs(x) \in Int  BY DEF Abs
  <2>2. Abs(x) \div k \in Int /\ x \div k \in Int  BY <2>1
  <2>3. - (Abs(x) \div k) \in Int  BY <2>2
  <2> QED  BY <2>2, <2>3
<1>5. FormatFloat(x) = FormatDecimal(m, c)  BY <1>1, <1>3, <1>4 DEF FormatFloat
<1> QED  BY <1>2, <1>5, FormatDecimalSeq

LEMMA LiteralSeq ==
  /\ \A b : IsSeq(Spelling(b))
  /\ \A x \in Int : IsSeq(FormatV(x))
<1>1. \A b : IsSeq(Spelling(b))
  <2>1. <<"t", "r", "u", "e">> \in Seq({"t", "r", "u", "e"})  OBVIOUS
  <2>2. <<"f", "a", "l", "s", "e">> \in Seq({"f", "a", "l", "s", "e"})  OBVIOUS
  <2> QED  BY <2>1, <2>2, SeqsAre DEF Spelling
<1>2. ASSUME NEW x \in Int PROVE IsSeq(FormatV(x))
  <2>1. <<Digits[1], "e", "+">> \in Seq({Digits[1], "e", "+"})  OBVIOUS
  <2>2. IsSeq(<<Digits[1], "e", "+">>)  BY <2>1, SeqsAre
  <2>3. IsSeq(Signed(x, <<Digits[1], "e", "+">>))  BY <2>2, SignedSeq
  <2> QED  BY <2>3, FormatFloatSeq DEF FormatV
<1> QED  BY <1>1, <1>2

(* A value as a source makes it: its text is a sequence.                   *)
Textual(v) ==
  \/ \E type : v = SetNull(type)
  \/ \E n \in Int : v = SetInt64(n) \/ v = SetFloat64(n)
  \/ \E n : v = SetTimestamp(n)
  \/ \E b \in BOOLEAN : v = SetBool(b)
  \/ \E n, sc \in Int : v = SetDecimal(n, sc)
  \/ \E s : IsSeq(s) /\ (v = SetString(s) \/ v = SetBytes(s))

LEMMA TextualFacts == ASSUME NEW v, Textual(v) PROVE IsSeq(String(v)) /\ Storable(v)
<1>1. CASE \E type : v = SetNull(type)
  <2>1. v.null = TRUE  BY <1>1 DEF SetNull
  <2>2. String(v) = <<>>  BY <2>1 DEF String
  <2> QED  BY <1>1, <2>2, Tuples DEF Storable
<1>2. CASE \E n \in Int : v = SetInt64(n)
  <2>1. v.null = FALSE /\ v.type = "int64" /\ v.num \in Int  BY <1>2 DEF SetInt64, FieldValue
  <2>2. String(v) = FormatInt(v.num)  BY <2>1 DEF String
  <2> QED  BY <1>2, <2>1, <2>2, FormatIntSeq DEF Storable, Settable
<1>3. CASE \E n \in Int : v = SetFloat64(n)
  <2>1. v.null = FALSE /\ v.type = "float64" /\ v.num \in Int  BY <1>3 DEF SetFloat64, FieldValue
  <2>2. String(v) = FormatFloat(v.num)  BY <2>1 DEF String
  <2> QED  BY <1>3, <2>1, <2>2, FormatFloatSeq DEF Storable, Settable
<1>4. CASE \E n : v = SetTimestamp(n)
  <2>1. v.null = FALSE /\ v.type = "timestamp"  BY <1>4 DEF SetTimestamp, FieldValue
  <2>2. PICK c : String(v) = <<c>>  BY <2>1 DEF String
  <2> QED  BY <1>4, <2>2, Tuples DEF Storable, Settable
<1>5. CASE \E b \in BOOLEAN : v = SetBool(b)
  <2>1. v.null = FALSE /\ v.type = "bool"  BY <1>5 DEF SetBool, FieldValue
  <2>2. String(v) = Spelling(v.num = 1)  BY <2>1 DEF String
  <2> QED  BY <1>5, <2>2, LiteralSeq DEF Storable, Settable
<1>6. CASE \E n, sc \in Int : v = SetDecimal(n, sc)
  <2>1. v.null = FALSE /\ v.type = "decimal" /\ v.num \in Int /\ v.scale \in Int
    BY <1>6 DEF SetDecimal, FieldValue
  <2>2. String(v) = FormatDecimal(v.num, v.scale)  BY <2>1 DEF String
  <2> QED  BY <1>6, <2>1, <2>2, FormatDecimalSeq DEF Storable, Settable
<1>7. CASE \E s : IsSeq(s) /\ (v = SetString(s) \/ v = SetBytes(s))
  <2>1. v.null = FALSE /\ v.type \in {"string", "bytes"} /\ IsSeq(v.str)
        /\ v = FieldValue(v.type, 0, 0, v.str)
    BY <1>7 DEF SetString, SetBytes, FieldValue
  <2>2. String(v) = v.str  BY <2>1 DEF String
  <2>3. v.type \in TextTypes  BY <2>1 DEF TextTypes
  <2>4. Settable(v)  BY <2>1, <2>3 DEF Settable
  <2> QED  BY <2>1, <2>2, <2>4 DEF Storable
<1> QED  BY <1>1, <1>2, <1>3, <1>4, <1>5, <1>6, <1>7 DEF Textual

(* What the parsers return.                                                *)
IntParsed(p) == p = Refused \/ \E n \in Int : p = Parsed(n)
FloatMade(n) == \E ok, dot, digits \in BOOLEAN : \E val, factor \in Int :
                   n = FloatAcc(ok, val, dot, digits, factor)
DecimalMade(n) == \E ok, dot, up \in BOOLEAN : \E m, dec \in Int : n = DecimalAcc(ok, m, dot, dec, up)

LEMMA AccsMade ==
  /\ \A ok, dot, digits \in BOOLEAN, val, factor \in Int : FloatMade(FloatAcc(ok, val, dot, digits, factor))
  /\ \A ok, dot, up \in BOOLEAN, m, dec \in Int : DecimalMade(DecimalAcc(ok, m, dot, dec, up))
BY DEF FloatMade, DecimalMade

LEMMA Widths == MaxUint64 + 1 \in Nat \ {0} /\ MaxInt64 \in Nat /\ MaxUint64 \in Nat
BY CastAssumption DEF MaxUint64

LEMMA RestSeq ==
  ASSUME NEW s, IsSeq(s)
  PROVE  IsSeq(Rest(s)) /\ extractSign(s)[1] \in BOOLEAN
<1>1. PICK k, b : k = extractSign(s)[2] /\ b = extractSign(s)[1]  OBVIOUS
<1>2. k \in {0, 1} /\ b \in BOOLEAN
  <2>1. CASE s[1] = "-"  BY <1>1, <2>1 DEF extractSign
  <2>2. CASE s[1] # "-" /\ s[1] = "+"  BY <1>1, <2>2 DEF extractSign
  <2>3. CASE s[1] # "-" /\ s[1] # "+"  BY <1>1, <2>3 DEF extractSign
  <2> QED  BY <2>1, <2>2, <2>3
<1>3. Len(s) \in Int /\ k + 1 \in Int
  <2>1. Len(s) \in Nat  BY SeqShape
  <2> QED  BY <1>2, <2>1
<1>4. Rest(s) = SubSeq(s, k + 1, Len(s))  BY <1>1 DEF Rest
<1> QED  BY <1>1, <1>2, <1>3, <1>4, SubSeqSeq

LEMMA DigitsParsed == ASSUME NEW s, IsSeq(s) PROVE IntParsed(parseDigitsUint64(s))
<1>1. PICK n \in Nat : n = Len(s) /\ DOMAIN s = 1 .. n  BY SeqShape
<1>2. PICK base : base = Parsed(0)  OBVIOUS
<1>3. PICK r : DigitRun(base, s, n, r)  BY <1>1, DigitLoop
<1>4. parseDigitsUint64(s) = r[n]  BY <1>2, <1>3 DEF DigitRun, DigitRounds, parseDigitsUint64
<1>5. ASSUME NEW a, IntParsed(a), NEW c PROVE IntParsed(DigitStep(a, c))
  <2>1. CASE DigitStep(a, c) = Refused  BY <2>1 DEF IntParsed
  <2>2. CASE DigitStep(a, c) # Refused
    <3>1. a.ok /\ IsDigit(c) /\ DigitStep(a, c) = Parsed(a.val * 10 + DigitVal(c))
      BY <2>2 DEF DigitStep
    <3>2. DigitVal(c) \in 0 .. 9  BY <3>1, Numerals
    <3>3. a # Refused  BY <3>1 DEF Refused
    <3>4. a.val \in Int  BY <1>5, <3>3 DEF IntParsed, Parsed
    <3>5. a.val * 10 + DigitVal(c) \in Int  BY <3>2, <3>4
    <3> QED  BY <3>1, <3>5 DEF IntParsed
  <2> QED  BY <2>1, <2>2
<1> DEFINE P == {k \in Nat : k <= n => IntParsed(r[k])}
<1>6. 0 \in P
  <2>1. r[0] = Parsed(0)  BY <1>2, <1>3 DEF DigitRun
  <2>2. IntParsed(r[0])  BY <2>1 DEF IntParsed
  <2> QED  BY <2>2
<1>7. ASSUME NEW k \in Nat, k \in P PROVE k + 1 \in P
  <2>1. k + 1 \in Nat  OBVIOUS
  <2>2. ASSUME k + 1 <= n PROVE IntParsed(r[k + 1])
    <3>1. k <= n /\ k + 1 \in 1 .. n /\ (k + 1) - 1 = k  BY <2>2
    <3>2. r[k + 1] = DigitStep(r[k], s[k + 1])  BY <1>3, <3>1 DEF DigitRun
    <3> QED  BY <1>5, <1>7, <3>1, <3>2
  <2> QED  BY <2>1, <2>2
<1>8. \A k \in Nat : k \in P
  <2> HIDE DEF P
  <2> QED  BY <1>6, <1>7, Induction
<1>9. IntParsed(r[n])  BY <1>8
<1> QED  BY <1>4, <1>9

LEMMA Int64Parsed == ASSUME NEW str, IsSeq(str) PROVE IntParsed(CoerceInt64Fast(str))
<1>1. PICK s : s = TrimSpace(str)  OBVIOUS
<1>2. IsSeq(s)  BY <1>1, TrimmedSeq
<1>3. PICK n : n = parseDigitsUint64(Rest(s))  OBVIOUS
<1>4. IntParsed(n)  BY <1>2, <1>3, RestSeq, DigitsParsed
<1>5. CASE CoerceInt64Fast(str) = Refused  BY <1>5 DEF IntParsed
<1>6. CASE CoerceInt64Fast(str) # Refused
  <2>1. n.ok /\ (CoerceInt64Fast(str) = Parsed(- n.val) \/ CoerceInt64Fast(str) = Parsed(n.val))
    BY <1>1, <1>3, <1>6 DEF CoerceInt64Fast
  <2>2. n # Refused  BY <2>1 DEF Refused
  <2>3. n.val \in Int  BY <1>4, <2>2 DEF IntParsed, Parsed
  <2>4. - n.val \in Int  BY <2>3
  <2> QED  BY <2>1, <2>3, <2>4 DEF IntParsed
<1> QED  BY <1>5, <1>6

LEMMA TwoPowers == \A k \in Nat : 2 ^ k \in Nat \ {0}
<1> SUFFICES ASSUME NEW k \in Nat PROVE 2 ^ k \in Nat \ {0}  OBVIOUS
<1>1. IsFiniteSet(1 .. k) /\ Cardinality(1 .. k) = k
  <2>1. CASE k = 0
    <3>1. 1 .. k = {}  BY <2>1
    <3> QED  BY <2>1, <3>1, FS_EmptySet
  <2>2. CASE k # 0
    <3>1. 1 \in Int /\ k \in Int /\ ~(1 > k) /\ k - 1 + 1 = k  BY <2>2
    <3> QED  BY <3>1, FS_Interval
  <2> QED  BY <2>1, <2>2
<1>2. IsFiniteSet(SUBSET (1 .. k)) /\ Cardinality(SUBSET (1 .. k)) = 2 ^ k  BY <1>1, FS_SUBSET
<1>3. 2 ^ k \in Nat  BY <1>2, FS_CardinalityType
<1>4. SUBSET (1 .. k) # {}  OBVIOUS
<1>5. Cardinality(SUBSET (1 .. k)) # 0  BY <1>2, <1>4, FS_EmptySet
<1> QED  BY <1>2, <1>3, <1>5

(* Rounding to a float64 gives a whole number of units.                    *)
LEMMA CoarseInt == ASSUME NEW n \in Int, NEW max \in Int PROVE Coarse(n, max) \in Int
<1>1. PICK S : S = {k \in 0 .. (Bits - 1) : Abs(n) > max * 2 ^ k}  OBVIOUS
<1>2. PICK b \in Nat \ {0} : b = Bits  BY CastAssumption
<1>3. 0 \in Int /\ b - 1 \in Int  OBVIOUS
<1>4. IsFiniteSet(0 .. (b - 1))  BY <1>3, FS_Interval
<1>5. S \subseteq 0 .. (b - 1)  BY <1>1, <1>2
<1>6. IsFiniteSet(S)  BY <1>4, <1>5, FS_Subset
<1>7. Cardinality(S) \in Nat  BY <1>6, FS_CardinalityType
<1>8. PICK e \in Nat : e = Cardinality(S)  BY <1>7
<1>9. PICK p \in Nat \ {0} : p = 2 ^ Cardinality(S)  BY <1>8, TwoPowers
<1>10. PICK q \in Int : q = n \div p  OBVIOUS
<1>11. PICK m \in Int : m = IF 2 * (n % p) > p \/ (2 * (n % p) = p /\ q % 2 = 1) THEN q + 1 ELSE q
  OBVIOUS
<1>12. m * p \in Int  OBVIOUS
<1> QED  BY <1>1, <1>9, <1>10, <1>11, <1>12 DEF Coarse

LEMMA NearestInt == \A x \in Int : Nearest(x) \in Int
<1> SUFFICES ASSUME NEW x \in Int PROVE Nearest(x) \in Int  OBVIOUS
<1>1. PICK u \in Nat \ {0} : u = FloatUnit  BY FloatUnits
<1>2. MaxWhole \in Int /\ MaxUnits \in Int  BY CastAssumption
<1>3. x \div u \in Int  OBVIOUS
<1>4. PICK a, b \in Int : a = Coarse(x \div u, MaxWhole) /\ b = Coarse(x, MaxUnits)
  BY <1>2, <1>3, CoarseInt
<1>5. a * u \in Int  OBVIOUS
<1> QED  BY <1>1, <1>4, <1>5 DEF Nearest

LEMMA FloatStepMade == ASSUME NEW n, FloatMade(n), NEW c PROVE FloatMade(FloatStep(n, c))
<1>1. PICK ok, dot, digits \in BOOLEAN, val, factor \in Int : n = FloatAcc(ok, val, dot, digits, factor)
  BY DEF FloatMade
<1>2. n.ok = ok /\ n.val = val /\ n.dot = dot /\ n.digits = digits /\ n.factor = factor
  BY <1>1 DEF FloatAcc
<1>3. CASE ~n.ok  BY <1>3 DEF FloatStep
<1>4. CASE n.ok /\ c = "." /\ ~n.dot
  <2>1. PICK x \in Int : x = Nearest(val)  BY NearestInt
  <2>2. FloatStep(n, c) = FloatAcc(TRUE, x, TRUE, digits, factor)  BY <1>2, <1>4, <2>1 DEF FloatStep
  <2> QED  BY <2>2 DEF FloatMade
<1>5. CASE n.ok /\ ~(c = "." /\ ~n.dot) /\ ~IsDigit(c)
  <2>1. FloatStep(n, c) = FloatAcc(FALSE, val, dot, digits, factor)  BY <1>2, <1>5 DEF FloatStep
  <2> QED  BY <2>1 DEF FloatMade
<1>6. CASE n.ok /\ ~(c = "." /\ ~n.dot) /\ IsDigit(c)
  <2>1. PICK v \in Int : v = DigitVal(c)
    <3>1. DigitVal(c) \in 0 .. 9  BY <1>6, Numerals
    <3> QED  BY <3>1
  <2>2. CASE n.dot
    <3>1. val + v * factor \in Int /\ factor \div 10 \in Int  OBVIOUS
    <3>2. PICK x \in Int : x = Nearest(val + v * factor)  BY <3>1, NearestInt
    <3>3. FloatStep(n, c) = FloatAcc(TRUE, x, TRUE, TRUE, factor \div 10)
      BY <1>2, <1>6, <2>1, <2>2, <3>2 DEF FloatStep
    <3> QED  BY <3>1, <3>3 DEF FloatMade
  <2>3. CASE ~n.dot
    <3>1. FloatStep(n, c) = FloatAcc(TRUE, (((val \div FloatUnit) * 10 + v) % (MaxUint64 + 1)) * FloatUnit,
                                     FALSE, TRUE, factor)
      BY <1>2, <1>6, <2>1, <2>3 DEF FloatStep
    <3>2. PICK u \in Nat \ {0}, w \in Nat \ {0} : u = FloatUnit /\ w = MaxUint64 + 1
      BY FloatUnits, Widths
    <3>3. val \div u \in Int  OBVIOUS
    <3>4. (val \div u) * 10 + v \in Int  BY <3>3
    <3>5. ((val \div u) * 10 + v) % w \in Int  BY <3>4
    <3>6. (((val \div u) * 10 + v) % w) * u \in Int  BY <3>5
    <3> QED  BY <3>1, <3>2, <3>6 DEF FloatMade
  <2> QED  BY <2>2, <2>3
<1> QED  BY <1>3, <1>4, <1>5, <1>6

LEMMA Float64Parsed == ASSUME NEW str, IsSeq(str) PROVE IntParsed(CoerceFloat64Fast(str))
<1>1. PICK s : s = TrimSpace(str)  OBVIOUS
<1>2. PICK q : q = Rest(s)  OBVIOUS
<1>3. IsSeq(q) /\ extractSign(s)[1] \in BOOLEAN  BY <1>1, <1>2, TrimmedSeq, RestSeq
<1>4. PICK m \in Nat : m = Len(q) /\ DOMAIN q = 1 .. m  BY <1>3, SeqShape
<1>5. PICK base : base = FloatAcc(TRUE, 0, FALSE, FALSE, FloatUnit \div 10)  OBVIOUS
<1>6. PICK r : FloatRun(base, q, m, r)  BY <1>4, FloatLoop
<1> DEFINE P == {k \in Nat : k <= m => FloatMade(r[k])}
<1>7. 0 \in P
  <2>1. r[0] = FloatAcc(TRUE, 0, FALSE, FALSE, FloatUnit \div 10)  BY <1>5, <1>6 DEF FloatRun
  <2>2. PICK u \in Nat \ {0} : u = FloatUnit  BY FloatUnits
  <2>3. u \div 10 \in Int  OBVIOUS
  <2>4. PICK f \in Int : f = FloatUnit \div 10  BY <2>2, <2>3
  <2>5. TRUE \in BOOLEAN /\ FALSE \in BOOLEAN /\ 0 \in Int  OBVIOUS
  <2>6. FloatMade(r[0])  BY <2>1, <2>4, <2>5, AccsMade
  <2> QED  BY <2>6
<1>8. ASSUME NEW k \in Nat, k \in P PROVE k + 1 \in P
  <2>1. k + 1 \in Nat  OBVIOUS
  <2>2. ASSUME k + 1 <= m PROVE FloatMade(r[k + 1])
    <3>1. k <= m /\ k + 1 \in 1 .. m /\ (k + 1) - 1 = k  BY <2>2
    <3>2. r[k + 1] = FloatStep(r[k], q[k + 1])  BY <1>6, <3>1 DEF FloatRun
    <3> QED  BY <1>8, <3>1, <3>2, FloatStepMade
  <2> QED  BY <2>1, <2>2
<1>9. \A k \in Nat : k \in P
  <2> HIDE DEF P
  <2> QED  BY <1>7, <1>8, Induction
<1>10. PICK n : n = r[m]  OBVIOUS
<1>11. FloatMade(n)  BY <1>9, <1>10
<1>12. PICK v \in Int : v = IF n.dot THEN n.val ELSE Nearest(n.val)
  <2>1. n.val \in Int  BY <1>11 DEF FloatMade, FloatAcc
  <2> QED  BY <2>1, NearestInt
<1>13. n = FoldLeft(LAMBDA a, c : FloatStep(a, c),
                    FloatAcc(TRUE, 0, FALSE, FALSE, FloatUnit \div 10), q)
  BY <1>5, <1>6, <1>10 DEF FloatRun, FloatRounds
<1>14. CoerceFloat64Fast(str) =
         IF s = <<>> THEN Refused
         ELSE IF ~n.ok \/ ~n.digits THEN Refused
         ELSE Parsed(IF extractSign(s)[1] THEN - v ELSE v)
  BY <1>1, <1>2, <1>12, <1>13 DEF CoerceFloat64Fast
<1>15. PICK x \in Int : x = IF extractSign(s)[1] THEN - v ELSE v
  <2>1. - v \in Int  OBVIOUS
  <2> QED  BY <1>3, <2>1
<1> QED  BY <1>14, <1>15 DEF IntParsed

LEMMA DecimalStepMade ==
  ASSUME NEW sc, NEW ov, NEW n, DecimalMade(n), NEW c
  PROVE  DecimalMade(DecimalStep(sc, ov, n, c))
<1>1. PICK ok, dot, up \in BOOLEAN, m, dec \in Int : n = DecimalAcc(ok, m, dot, dec, up)
  BY DEF DecimalMade
<1>2. n.ok = ok /\ n.m = m /\ n.dot = dot /\ n.dec = dec /\ n.up = up  BY <1>1 DEF DecimalAcc
<1>3. CASE DecimalStep(sc, ov, n, c) = n  BY <1>3
<1>4. CASE DecimalStep(sc, ov, n, c) = DecimalAcc(~n.dot, n.m, TRUE, n.dec, n.up)
  <2>1. (~dot) \in BOOLEAN  OBVIOUS
  <2> QED  BY <1>2, <1>4, <2>1 DEF DecimalMade
<1>5. CASE DecimalStep(sc, ov, n, c) = DecimalAcc(FALSE, n.m, n.dot, n.dec, n.up)
  BY <1>2, <1>5 DEF DecimalMade
<1>6. CASE IsDigit(c) /\ DecimalStep(sc, ov, n, c) =
             DecimalAcc(TRUE, (n.m * 10 + DigitVal(c)) % (MaxUint64 + 1), n.dot,
                        IF n.dot THEN n.dec + 1 ELSE n.dec, n.up)
  <2>1. PICK v \in Int : v = DigitVal(c)
    <3>1. DigitVal(c) \in 0 .. 9  BY <1>6, Numerals
    <3> QED  BY <3>1
  <2>2. PICK w \in Nat \ {0} : w = MaxUint64 + 1  BY Widths
  <2>3. PICK x \in Int : x = (m * 10 + v) % w
    <3>1. m * 10 + v \in Int  OBVIOUS
    <3>2. (m * 10 + v) % w \in Int  BY <3>1
    <3> QED  BY <3>2
  <2>4. PICK y \in Int : y = IF dot THEN dec + 1 ELSE dec  OBVIOUS
  <2>5. DecimalStep(sc, ov, n, c) = DecimalAcc(TRUE, x, dot, y, up)  BY <1>2, <1>6, <2>1, <2>2, <2>3, <2>4
  <2> QED  BY <2>5 DEF DecimalMade
<1>7. CASE IsDigit(c) /\ DecimalStep(sc, ov, n, c) =
             DecimalAcc(ov # "fail", n.m, n.dot, n.dec + 1, DigitVal(c) >= 5)
  <2>1. PICK a \in BOOLEAN, b \in BOOLEAN : a = (ov # "fail") /\ b = (DigitVal(c) >= 5)
    <3>1. (ov # "fail") \in BOOLEAN  OBVIOUS
    <3>2. (DigitVal(c) >= 5) \in BOOLEAN  OBVIOUS
    <3> QED  BY <3>1, <3>2, Zenon
  <2>2. PICK y \in Int : y = dec + 1  OBVIOUS
  <2>3. DecimalStep(sc, ov, n, c) = DecimalAcc(a, m, dot, y, b)  BY <1>2, <1>7, <2>1, <2>2
  <2> QED  BY <2>3 DEF DecimalMade
<1> QED  BY <1>3, <1>4, <1>5, <1>6, <1>7 DEF DecimalStep

LEMMA DecimalParsed ==
  ASSUME NEW str, IsSeq(str), NEW sc \in Int, NEW ov
  PROVE  IntParsed(CoerceDecimalFast(str, sc, ov))
<1>1. PICK s : s = TrimSpace(str)  OBVIOUS
<1>2. PICK q : q = Rest(s)  OBVIOUS
<1>3. IsSeq(q) /\ extractSign(s)[1] \in BOOLEAN  BY <1>1, <1>2, TrimmedSeq, RestSeq
<1>4. PICK k0 \in Nat : k0 = Len(q) /\ DOMAIN q = 1 .. k0  BY <1>3, SeqShape
<1>5. PICK base : base = DecimalAcc(TRUE, 0, FALSE, 0, FALSE)  OBVIOUS
<1>6. PICK r : DecimalRun(sc, ov, base, q, k0, r)  BY <1>4, DecimalLoop
<1> DEFINE P == {k \in Nat : k <= k0 => DecimalMade(r[k])}
<1>7. 0 \in P
  <2>1. r[0] = DecimalAcc(TRUE, 0, FALSE, 0, FALSE)  BY <1>5, <1>6 DEF DecimalRun
  <2>2. TRUE \in BOOLEAN /\ FALSE \in BOOLEAN /\ 0 \in Int  OBVIOUS
  <2>3. DecimalMade(r[0])  BY <2>1, <2>2, AccsMade
  <2> QED  BY <2>3
<1>8. ASSUME NEW k \in Nat, k \in P PROVE k + 1 \in P
  <2>1. k + 1 \in Nat  OBVIOUS
  <2>2. ASSUME k + 1 <= k0 PROVE DecimalMade(r[k + 1])
    <3>1. k <= k0 /\ k + 1 \in 1 .. k0 /\ (k + 1) - 1 = k  BY <2>2
    <3>2. r[k + 1] = DecimalStep(sc, ov, r[k], q[k + 1])  BY <1>6, <3>1 DEF DecimalRun
    <3> QED  BY <1>8, <3>1, <3>2, DecimalStepMade
  <2> QED  BY <2>1, <2>2
<1>9. \A k \in Nat : k \in P
  <2> HIDE DEF P
  <2> QED  BY <1>7, <1>8, Induction
<1>10. PICK n : n = r[k0]  OBVIOUS
<1>11. DecimalMade(n)  BY <1>9, <1>10
<1>12. n.m \in Int /\ n.dec \in Int  BY <1>11 DEF DecimalMade, DecimalAcc
<1>13. n = FoldLeft(LAMBDA a, c : DecimalStep(sc, ov, a, c), DecimalAcc(TRUE, 0, FALSE, 0, FALSE), q)
  BY <1>5, <1>6, <1>10 DEF DecimalRun, DecimalRounds
<1>14. PICK w \in Nat \ {0} : w = MaxUint64 + 1  BY Widths
<1>15. PICK e \in Int : e = Pow10[Max({0, sc - n.dec})]
  <2>1. PICK d \in Int : d = sc - n.dec  BY <1>12
  <2>2. Max({0, d}) \in Nat
    <3>1. CASE d <= 0
      <4>1. \A x \in {0, d} : (\A y \in {0, d} : x >= y) <=> x = 0  BY <3>1
      <4>2. Max({0, d}) = 0  BY <4>1 DEF Max
      <4> QED  BY <4>2
    <3>2. CASE d > 0
      <4>1. \A x \in {0, d} : (\A y \in {0, d} : x >= y) <=> x = d  BY <3>2
      <4>2. Max({0, d}) = d  BY <4>1 DEF Max
      <4> QED  BY <3>2, <4>2
    <3> QED  BY <3>1, <3>2
  <2>3. \A j \in Nat : Pow10[j] \in Int  BY Powers
  <2> QED  BY <2>1, <2>2, <2>3
<1>16. PICK filled \in Int : filled = (n.m * e) % w
  <2>1. n.m * e \in Int  BY <1>12
  <2>2. (n.m * e) % w \in Int  BY <2>1
  <2> QED  BY <2>2
<1>17. PICK one \in Int : one = IF n.up THEN 1 ELSE 0  OBVIOUS
<1>18. PICK x \in Int : x = (filled + one) % w
  <2>1. filled + one \in Int  OBVIOUS
  <2>2. (filled + one) % w \in Int  BY <2>1
  <2> QED  BY <2>2
<1>19. PICK m \in Int : m = ToInt64(x)
  <2>1. ToInt64(x) \in Int  BY Widths DEF ToInt64
  <2> QED  BY <2>1
<1>20. PICK z \in Int : z = IF extractSign(s)[1] THEN - m ELSE m  BY <1>3
<1>21. CoerceDecimalFast(str, sc, ov) =
         IF s = <<>> THEN Parsed(0)
         ELSE IF q = <<>> \/ ~n.ok THEN Refused
         ELSE Parsed(IF extractSign(s)[1] THEN - m ELSE m)
  BY <1>1, <1>2, <1>13, <1>14, <1>15, <1>16, <1>17, <1>18, <1>19 DEF CoerceDecimalFast
<1> QED  BY <1>20, <1>21 DEF IntParsed

LEMMA BoolParsed ==
  ASSUME NEW str
  PROVE  CoerceBoolFast(str) = Refused \/ \E b \in BOOLEAN : CoerceBoolFast(str) = Parsed(b)
<1>1. PICK s : s = TrimSpace(str)  OBVIOUS
<1>2. ASSUME s \in DOMAIN BoolStrings PROVE BoolStrings[s] \in BOOLEAN
  <2> DEFINE yes == {Spelling(TRUE), <<"t">>, <<"1">>}
  <2>1. BoolStrings[s] = (s \in yes)  BY <1>2 DEF BoolStrings
  <2> HIDE DEF yes
  <2>2. (s \in yes) \in BOOLEAN  OBVIOUS
  <2> QED  BY <2>1, <2>2
<1> QED  BY <1>1, <1>2 DEF CoerceBoolFast

-----------------------------------------------------------------------------
(* What the mappers of the sources make of a cell.                         *)
CellMade(p) == p = Refused \/ \E v : Textual(v) /\ p = Parsed(v)

LEMMA TextualMade ==
  /\ \A type : Textual(SetNull(type))
  /\ \A n \in Int : Textual(SetInt64(n)) /\ Textual(SetFloat64(n))
  /\ \A n : Textual(SetTimestamp(n))
  /\ \A b \in BOOLEAN : Textual(SetBool(b))
  /\ \A n, sc \in Int : Textual(SetDecimal(n, sc))
  /\ \A s : IsSeq(s) => Textual(SetString(s)) /\ Textual(SetBytes(s))
<1>1. \A type : Textual(SetNull(type))  BY DEF Textual
<1>2. \A n \in Int : Textual(SetInt64(n)) /\ Textual(SetFloat64(n))  BY DEF Textual
<1>3. \A n : Textual(SetTimestamp(n))  BY DEF Textual
<1>4. \A b \in BOOLEAN : Textual(SetBool(b))  BY DEF Textual
<1>5. \A n, sc \in Int : Textual(SetDecimal(n, sc))  BY DEF Textual
<1>6. \A s : IsSeq(s) => Textual(SetString(s)) /\ Textual(SetBytes(s))  BY DEF Textual
<1> QED  BY <1>1, <1>2, <1>3, <1>4, <1>5, <1>6

LEMMA FlagMade == \A x : Textual(SetBool(x = 1))
<1> SUFFICES ASSUME NEW x PROVE Textual(SetBool(x = 1))  OBVIOUS
<1>1. PICK b \in BOOLEAN : b = (x = 1)
  <2>1. (x = 1) \in BOOLEAN  OBVIOUS
  <2> QED  BY <2>1, Zenon
<1>2. Textual(SetBool(b))  BY TextualMade
<1> QED  BY <1>1, <1>2, Zenon

LEMMA TruncateInt == \A x \in Int : Truncate(x) \in Int
<1> SUFFICES ASSUME NEW x \in Int PROVE Truncate(x) \in Int  OBVIOUS
<1>1. PICK u \in Nat \ {0} : u = FloatUnit  BY FloatUnits
<1>2. PICK a \in Int : a = Abs(x)  BY DEF Abs
<1>3. a \div u \in Int /\ x \div u \in Int  OBVIOUS
<1>4. PICK w \in Int : w = IF x < 0 THEN - (a \div u) ELSE x \div u
  <2>1. - (a \div u) \in Int  BY <1>3
  <2> QED  BY <1>3, <2>1
<1>5. PICK L \in Nat : L = MaxInt64  BY CastAssumption
<1>6. - L - 1 \in Int  OBVIOUS
<1> QED  BY <1>1, <1>2, <1>4, <1>5, <1>6 DEF Truncate

LEMMA SprintSeq ==
  ASSUME NEW c, c.k \in {"text", "number", "bool", "time"}, c.n \in Int, IsSeq(c.s)
  PROVE  IsSeq(Sprint(c))
<1>1. CASE c.k = "text"
  <2>1. Sprint(c) = c.s  BY <1>1 DEF Sprint
  <2> QED  BY <2>1
<1>2. CASE c.k = "number"
  <2>1. Sprint(c) = FormatV(c.n)  BY <1>2 DEF Sprint
  <2> QED  BY <2>1, LiteralSeq
<1>3. CASE c.k = "bool"
  <2>1. Sprint(c) = Spelling(c.n = 1)  BY <1>3 DEF Sprint
  <2> QED  BY <2>1, LiteralSeq
<1>4. CASE c.k = "time"
  <2>1. PICK t \in Int : t = 500 * c.n  OBVIOUS
  <2>2. Sprint(c) = FormatInt(t)  BY <1>4, <2>1 DEF Sprint
  <2> QED  BY <2>2, FormatIntSeq
<1> QED  BY <1>1, <1>2, <1>3, <1>4

LEMMA MadeOf == ASSUME NEW v, Textual(v) PROVE CellMade(Parsed(v))
BY DEF CellMade

LEMMA FlagParsed == \A x : CellMade(Parsed(SetBool(x = 1)))
BY FlagMade, MadeOf

(* A parse that succeeded gave a number (or a truth value).                *)
LEMMA ParsesMade ==
  ASSUME NEW s, IsSeq(s), NEW sc \in Int, NEW ov
  PROVE  /\ CoerceInt64Fast(s).ok => CoerceInt64Fast(s).val \in Int
         /\ CoerceFloat64Fast(s).ok => CoerceFloat64Fast(s).val \in Int
         /\ CoerceDecimalFast(s, sc, ov).ok => CoerceDecimalFast(s, sc, ov).val \in Int
         /\ CoerceBoolFast(s).ok => CoerceBoolFast(s).val \in BOOLEAN
<1>1. ASSUME NEW p, IntParsed(p) PROVE p.ok => p.val \in Int
  BY <1>1 DEF IntParsed, Parsed, Refused
<1>2. IntParsed(CoerceInt64Fast(s))  BY Int64Parsed
<1>3. IntParsed(CoerceFloat64Fast(s))  BY Float64Parsed
<1>4. IntParsed(CoerceDecimalFast(s, sc, ov))  BY DecimalParsed
<1>5. PICK p : p = CoerceBoolFast(s)  OBVIOUS
<1>6. p.ok => p.val \in BOOLEAN  BY <1>5, BoolParsed DEF Parsed, Refused
<1> QED  BY <1>1, <1>2, <1>3, <1>4, <1>5, <1>6

LEMMA CellTextual ==
  ASSUME NEW src \in Sources, NEW f, f.scale \in Int,
         NEW c, c.k \in Kinds(src), c.n \in Int, IsSeq(c.s)
  PROVE  CellMade(MapCell(src, f, c))
<1>1. CASE src = "csv"
  <2>1. MapCell(src, f, c) = CSVCell(f, c)  BY <1>1 DEF MapCell
  <2>2. IsSeq(TrimSpace(c.s))  BY TrimmedSeq
  <2> QED  BY <2>1, <2>2, TextualMade, MadeOf DEF CSVCell
<1>2. CASE src = "jsonl"
  <2>1. MapCell(src, f, c) = JSONCell(f, c)  BY <1>2 DEF MapCell
  <2>2. c.k \in {"null", "text", "number", "bool"}  BY <1>2 DEF Kinds
  <2>3. CASE c.k = "null"
    <3>1. JSONCell(f, c) = Parsed(SetNull(f.type))  BY <2>3 DEF JSONCell
    <3> QED  BY <2>1, <3>1, TextualMade, MadeOf
  <2>4. CASE c.k = "text"
    <3>1. JSONCell(f, c) = Parsed(SetString(c.s))  BY <2>4 DEF JSONCell
    <3> QED  BY <2>1, <3>1, TextualMade, MadeOf
  <2>5. CASE c.k = "number"
    <3>1. JSONCell(f, c) = Parsed(SetFloat64(c.n))  BY <2>5 DEF JSONCell
    <3> QED  BY <2>1, <3>1, TextualMade, MadeOf
  <2>6. CASE c.k = "bool"
    <3>1. JSONCell(f, c) = Parsed(SetBool(c.n = 1))  BY <2>6 DEF JSONCell
    <3> QED  BY <2>1, <3>1, FlagMade, MadeOf
  <2> QED  BY <2>2, <2>3, <2>4, <2>5, <2>6
<1>3. CASE src = "api"
  <2>1. MapCell(src, f, c) = APICell(f, c)  BY <1>3 DEF MapCell
  <2>2. CASE c.k = "null"
    <3>1. APICell(f, c) = Parsed(SetNull(f.type))  BY <2>2 DEF APICell
    <3> QED  BY <2>1, <3>1, TextualMade, MadeOf
  <2>3. CASE c.k # "null"
    <3>1. APICell(f, c) = Parsed(SetString(Sprint(c)))  BY <2>3 DEF APICell
    <3>2. c.k \in {"text", "number", "bool"}  BY <1>3, <2>3 DEF Kinds
    <3> QED  BY <2>1, <3>1, <3>2, SprintSeq, TextualMade, MadeOf
  <2> QED  BY <2>2, <2>3
<1>4. CASE src = "sql"
  <2>1. MapCell(src, f, c) = SQLCell(f, c)  BY <1>4 DEF MapCell
  <2>2. Truncate(c.n) \in Int /\ Nearest(c.n) \in Int  BY TruncateInt, NearestInt
  <2>3. \/ SQLCell(f, c) = Refused
        \/ SQLCell(f, c) = Parsed(SetNull(IF f.type = "decimal" THEN "string" ELSE f.type))
        \/ SQLCell(f, c) = Parsed(SetInt64(Truncate(c.n)))
        \/ SQLCell(f, c) = Parsed(SetFloat64(Nearest(c.n)))
        \/ SQLCell(f, c) = Parsed(SetBool(c.n = 1))
        \/ SQLCell(f, c) = Parsed(SetTimestamp(c.n))
        \/ SQLCell(f, c) = Parsed(SetBytes(c.s))
        \/ SQLCell(f, c) = Parsed(SetString(c.s))
    BY DEF SQLCell
  <2>4. CASE SQLCell(f, c) = Refused  BY <2>1, <2>4 DEF CellMade
  <2>5. /\ CellMade(Parsed(SetNull(IF f.type = "decimal" THEN "string" ELSE f.type)))
        /\ CellMade(Parsed(SetInt64(Truncate(c.n)))) /\ CellMade(Parsed(SetFloat64(Nearest(c.n))))
        /\ CellMade(Parsed(SetTimestamp(c.n)))
        /\ CellMade(Parsed(SetBytes(c.s))) /\ CellMade(Parsed(SetString(c.s)))
    BY <2>2, TextualMade, MadeOf
  <2>6. CellMade(Parsed(SetBool(c.n = 1)))  BY FlagParsed
  <2> QED  BY <2>1, <2>3, <2>4, <2>5, <2>6
<1>5. CASE src = "mongo"
  <2>1. MapCell(src, f, c) = MongoCell(f, c)  BY <1>5 DEF MapCell
  <2>2. Truncate(c.n) \in Int /\ Nearest(c.n) \in Int  BY TruncateInt, NearestInt
  <2>3. ASSUME c.k # "null" PROVE IsSeq(Sprint(c))
    <3>1. c.k \in {"text", "number", "bool", "time"}  BY <1>5, <2>3 DEF Kinds
    <3> QED  BY <3>1, SprintSeq
  <2>4. CASE MongoCell(f, c) = Refused  BY <2>1, <2>4 DEF CellMade
  <2>5. CASE \/ MongoCell(f, c) = Parsed(SetNull(f.type))
             \/ MongoCell(f, c) = Parsed(SetInt64(Truncate(c.n)))
             \/ MongoCell(f, c) = Parsed(SetFloat64(Nearest(c.n)))
             \/ MongoCell(f, c) = Parsed(SetBool(c.n = 1))
             \/ MongoCell(f, c) = Parsed(SetTimestamp(c.n))
             \/ c.k # "null" /\ MongoCell(f, c) = Parsed(SetString(Sprint(c)))
    <3>1. /\ CellMade(Parsed(SetNull(f.type))) /\ CellMade(Parsed(SetTimestamp(c.n)))
          /\ CellMade(Parsed(SetInt64(Truncate(c.n)))) /\ CellMade(Parsed(SetFloat64(Nearest(c.n))))
      BY <2>2, TextualMade, MadeOf
    <3>2. CellMade(Parsed(SetBool(c.n = 1)))  BY FlagParsed
    <3>3. c.k # "null" => CellMade(Parsed(SetString(Sprint(c))))
      BY <2>3, TextualMade, MadeOf
    <3> QED  BY <2>1, <2>5, <3>1, <3>2, <3>3
  <2>6. CASE \/ CoerceInt64Fast(c.s).ok /\ MongoCell(f, c) = Parsed(SetInt64(CoerceInt64Fast(c.s).val))
             \/ CoerceFloat64Fast(c.s).ok /\ MongoCell(f, c) = Parsed(SetFloat64(CoerceFloat64Fast(c.s).val))
             \/ CoerceBoolFast(c.s).ok /\ MongoCell(f, c) = Parsed(SetBool(CoerceBoolFast(c.s).val))
             \/ MongoCell(f, c) = Parsed(SetTimestamp(CoerceTimestampFast(c.s).val))
    BY <2>1, <2>6, ParsesMade, TextualMade, MadeOf
  <2>7. CASE /\ c.k # "null"
             /\ CoerceDecimalFast(Sprint(c), f.scale, f.onOverflow).ok
             /\ MongoCell(f, c) =
                  Parsed(SetDecimal(CoerceDecimalFast(Sprint(c), f.scale, f.onOverflow).val, f.scale))
    <3>1. CoerceDecimalFast(Sprint(c), f.scale, f.onOverflow).val \in Int
      BY <2>3, <2>7, ParsesMade
    <3> QED  BY <2>1, <2>7, <3>1, TextualMade, MadeOf
  <2> QED  BY <2>4, <2>5, <2>6, <2>7 DEF MongoCell, Via
<1> QED  BY <1>1, <1>2, <1>3, <1>4, <1>5 DEF Sources

-----------------------------------------------------------------------------
(* What the plan of a field makes of a value.                              *)
PlanMade(p) == (\E v : Storable(v) /\ p = Kept(v)) \/ \E why : p = Failed(why)

LEMMA StorableMade ==
  /\ \A type : Storable(SetNull(type))
  /\ \A n : Storable(SetInt64(n)) /\ Storable(SetFloat64(n)) /\ Storable(SetTimestamp(n))
  /\ \A b \in BOOLEAN : Storable(SetBool(b))
  /\ \A n, sc : Storable(SetDecimal(n, sc))
  /\ \A s : IsSeq(s) => Storable(SetString(s)) /\ Storable(SetBytes(s))
<1>1. \A type : Storable(SetNull(type))  BY DEF Storable
<1>2. \A n : Storable(SetInt64(n)) /\ Storable(SetFloat64(n)) /\ Storable(SetTimestamp(n))
  BY DEF Storable, Settable
<1>3. \A b \in BOOLEAN : Storable(SetBool(b))  BY DEF Storable, Settable
<1>4. \A n, sc : Storable(SetDecimal(n, sc))  BY DEF Storable, Settable
<1>5. ASSUME NEW s, IsSeq(s) PROVE Storable(SetString(s)) /\ Storable(SetBytes(s))
  <2>1. "string" \in TextTypes /\ "bytes" \in TextTypes  BY DEF TextTypes
  <2>2. SetString(s) = FieldValue("string", 0, 0, s) /\ SetBytes(s) = FieldValue("bytes", 0, 0, s)
    BY DEF SetString, SetBytes
  <2>3. Settable(SetString(s)) /\ Settable(SetBytes(s))  BY <1>5, <2>1, <2>2 DEF Settable
  <2> QED  BY <2>3 DEF Storable
<1> QED  BY <1>1, <1>2, <1>3, <1>4, <1>5

LEMMA KeptMade ==
  /\ \A v : Storable(v) => PlanMade(Kept(v))
  /\ \A why : PlanMade(Failed(why))
  /\ \A f : PlanMade(NullCase(f))
<1>1. (\A v : Storable(v) => PlanMade(Kept(v))) /\ \A why : PlanMade(Failed(why))  BY DEF PlanMade
<1>2. \A f : PlanMade(NullCase(f))  BY <1>1, StorableMade DEF NullCase
<1> QED  BY <1>1, <1>2

(* The plan of a field keeps a value the coders can carry, or refuses.     *)
LEMMA PlansMade ==
  ASSUME NEW f, NEW raw, Textual(raw)
  PROVE  PlanMade(compileFieldPlan(f, raw))
<1>1. Storable(raw) /\ IsSeq(String(raw))  BY TextualFacts
<1>2. PICK s : s = String(raw)  OBVIOUS
<1>3. PlanMade(CastInt64(f, raw))
  <2>1. \/ CastInt64(f, raw) = NullCase(f) \/ CastInt64(f, raw) = Kept(raw)
        \/ \E n : CastInt64(f, raw) = Kept(SetInt64(n)) \/ CastInt64(f, raw) = Failed("cast")
    BY DEF CastInt64, FromText, Cast
  <2> QED  BY <1>1, <2>1, StorableMade, KeptMade
<1>4. PlanMade(CastDecimal(f, raw))
  <2>1. \/ CastDecimal(f, raw) = NullCase(f) \/ CastDecimal(f, raw) = Kept(raw)
        \/ \E n, sc : CastDecimal(f, raw) = Kept(SetDecimal(n, sc))
        \/ CastDecimal(f, raw) = Failed("cast")
    BY DEF CastDecimal, FromText, Cast
  <2> QED  BY <1>1, <2>1, StorableMade, KeptMade
<1>5. PlanMade(CastFloat64(f, raw))
  <2>1. \/ CastFloat64(f, raw) = NullCase(f) \/ CastFloat64(f, raw) = Kept(raw)
        \/ \E n : CastFloat64(f, raw) = Kept(SetFloat64(n)) \/ CastFloat64(f, raw) = Failed("cast")
    BY DEF CastFloat64, FromText, Cast
  <2> QED  BY <1>1, <2>1, StorableMade, KeptMade
<1>6. PlanMade(CastBool(f, raw))
  <2>1. CoerceBoolFast(s).ok => CoerceBoolFast(s).val \in BOOLEAN  BY BoolParsed DEF Parsed, Refused
  <2>2. \/ CastBool(f, raw) = NullCase(f) \/ CastBool(f, raw) = Kept(raw)
        \/ CoerceBoolFast(s).ok /\ CastBool(f, raw) = Kept(SetBool(CoerceBoolFast(s).val))
        \/ CastBool(f, raw) = Failed("cast")
    BY <1>2 DEF CastBool, FromText, Cast
  <2> QED  BY <1>1, <2>1, <2>2, StorableMade, KeptMade
<1>7. PlanMade(CastTimestamp(f, raw))
  <2>1. \/ CastTimestamp(f, raw) = NullCase(f) \/ CastTimestamp(f, raw) = Kept(raw)
        \/ \E n : CastTimestamp(f, raw) = Kept(SetTimestamp(n)) \/ CastTimestamp(f, raw) = Failed("cast")
    BY DEF CastTimestamp, FromText, Cast
  <2> QED  BY <1>1, <2>1, StorableMade, KeptMade
<1>8. PlanMade(CastBytes(f, raw))
  BY <1>1, StorableMade, KeptMade DEF CastBytes
<1>9. PlanMade(CastString(f, raw))
  BY <1>1, StorableMade, KeptMade DEF CastString
<1> QED  BY <1>3, <1>4, <1>5, <1>6, <1>7, <1>8, <1>9 DEF compileFieldPlan

(* Nor does it look at the type of a null.                                 *)
LEMMA PlansTypeless ==
  ASSUME NEW f, NEW raw, Storable(raw)
  PROVE  compileFieldPlan(f, Stored(raw)) = compileFieldPlan(f, raw) /\ String(Stored(raw)) = String(raw)
<1>1. CASE raw.null = FALSE /\ Stored(raw) = raw  BY <1>1
<1>2. CASE raw.null = TRUE /\ Stored(raw) = SetNull("")
  <2>1. PICK x : x = SetNull("")  OBVIOUS
  <2>2. x.null = TRUE  BY <2>1 DEF SetNull
  <2>3. /\ CastInt64(f, x) = CastInt64(f, raw) /\ CastDecimal(f, x) = CastDecimal(f, raw)
        /\ CastFloat64(f, x) = CastFloat64(f, raw) /\ CastBool(f, x) = CastBool(f, raw)
    BY <1>2, <2>2 DEF CastInt64, CastDecimal, CastFloat64, CastBool
  <2>4. /\ CastTimestamp(f, x) = CastTimestamp(f, raw) /\ CastBytes(f, x) = CastBytes(f, raw)
        /\ CastString(f, x) = CastString(f, raw)
    BY <1>2, <2>2 DEF CastTimestamp, CastBytes, CastString
  <2>5. compileFieldPlan(f, x) = compileFieldPlan(f, raw)  BY <2>3, <2>4 DEF compileFieldPlan
  <2>6. String(x) = String(raw)  BY <1>2, <2>2 DEF String
  <2> QED  BY <1>2, <2>1, <2>5, <2>6
<1> QED  BY <1>1, <1>2, NullOrSet

(* A record as a source emits it.                                          *)
FromSource(rec) ==
  /\ WellMade(rec) /\ \A i \in 1 .. Len(rec.values) : Textual(rec.values[i])

LEMMA ShortTexts == (\A x : Short(<<x>>)) /\ Short(<<>>)
<1>1. MaxBytes \in Nat \ {0}  BY CoderAssumption
<1>2. 1 <= MaxBytes /\ 0 <= MaxBytes  BY <1>1
<1> QED  BY <1>2, Tuples DEF Short

LEMMA ShortMaps ==
  /\ ShortMap(<<>>)
  /\ \A m, x, y : ShortMap(m) /\ Short(x) /\ Short(y) => ShortMap(Put(m, x, y))
<1>1. ShortMap(<<>>)
  <2>1. DOMAIN <<>> = {} /\ <<>> = [x \in {} |-> <<>>[x]]  OBVIOUS
  <2>2. IsFiniteSet({})  BY FS_EmptySet
  <2> QED  BY <2>1, <2>2 DEF ShortMap
<1>2. ASSUME NEW m, NEW x, NEW y, ShortMap(m), Short(x), Short(y) PROVE ShortMap(Put(m, x, y))
  <2>1. PICK g : g = Put(m, x, y)  OBVIOUS
  <2>2. /\ g = [z \in DOMAIN g |-> g[z]] /\ DOMAIN g = {x} \cup DOMAIN m
        /\ \A z \in DOMAIN g : g[z] = IF z = x THEN y ELSE m[z]
    BY <2>1 DEF Put
  <2>3. IsFiniteSet({x} \cup DOMAIN m)
    <3>1. IsFiniteSet({x})  BY FS_Singleton
    <3> QED  BY <1>2, <3>1, FS_Union DEF ShortMap
  <2> QED  BY <1>2, <2>1, <2>2, <2>3 DEF ShortMap
<1> QED  BY <1>1, <1>2

LEMMA EmittedMade ==
  ASSUME NEW e, e.src \in Sources, IsSeq(schema), \A j \in DOMAIN schema : schema[j].scale \in Int,
         \A j \in DOMAIN schema : /\ e.cells[j].k \in Kinds(e.src) /\ e.cells[j].n \in Int
                                  /\ IsSeq(e.cells[j].s)
  PROVE  Emitted(e).st = "ok" => FromSource(Emitted(e).val)
<1>1. PICK mapped : mapped = [i \in DOMAIN schema |-> MapCell(e.src, schema[i], e.cells[i])]  OBVIOUS
<1>2. SUFFICES ASSUME Emitted(e).st = "ok" PROVE FromSource(Emitted(e).val)  OBVIOUS
<1>3. PICK values, id, audit :
        values = [i \in DOMAIN schema |-> mapped[i].val] /\ id = SchemaID(e.src) /\ audit = AuditFields(e.src)
  OBVIOUS
<1>4. /\ \A i \in DOMAIN schema : mapped[i].ok
      /\ Emitted(e) = Got(Record(id, values, audit), 0)
  BY <1>1, <1>2, <1>3 DEF Emitted, Stop
<1>5. PICK n \in Nat : n = Len(schema) /\ DOMAIN schema = 1 .. n  BY SeqShape
<1>6. IsSeq(values) /\ Len(values) = n
  <2>1. values \in [1 .. n -> Range(values)]  BY <1>3, <1>5 DEF Range
  <2> QED  BY <2>1, FunctionsAreSeqs
<1>7. ASSUME NEW i \in 1 .. n PROVE Textual(values[i])
  <2>1. CellMade(MapCell(e.src, schema[i], e.cells[i]))
    <3>1. PICK f, c : f = schema[i] /\ c = e.cells[i]  OBVIOUS
    <3>2. f.scale \in Int /\ c.k \in Kinds(e.src) /\ c.n \in Int /\ IsSeq(c.s)  BY <1>5, <3>1
    <3> QED  BY <3>1, <3>2, CellTextual
  <2>2. CellMade(mapped[i]) /\ mapped[i].ok /\ values[i] = mapped[i].val  BY <1>1, <1>3, <1>4, <1>5, <2>1
  <2>3. PICK m : m = mapped[i]  OBVIOUS
  <2>4. m # Refused  BY <2>2, <2>3 DEF Refused
  <2>5. PICK v : Textual(v) /\ m = Parsed(v)  BY <2>2, <2>3, <2>4 DEF CellMade
  <2>6. m.val = v  BY <2>5 DEF Parsed
  <2> QED  BY <2>2, <2>3, <2>5, <2>6
<1>8. Short(id)
  BY <1>3, ShortTexts DEF SchemaID, FromFile, Sources
<1>9. ShortMap(audit)
  <2>1. /\ ShortMap(Put(<<>>, SourceFile, <<e.src>>))
        /\ ShortMap(Put(<<>>, IngestedAt, <<"then">>))
    BY ShortTexts, ShortMaps DEF SourceFile, IngestedAt
  <2> QED  BY <1>3, <2>1, ShortMaps DEF AuditFields
<1>10. PICK rec : rec = Record(id, values, audit)  OBVIOUS
<1>11. rec.values = values /\ rec.schema = id /\ rec.audit = audit  BY <1>10 DEF Record
<1>12. \A i \in 1 .. Len(values) : Storable(values[i]) /\ Textual(values[i])  BY <1>6, <1>7, TextualFacts
<1>13. FromSource(rec)  BY <1>6, <1>8, <1>9, <1>10, <1>11, <1>12 DEF FromSource, WellMade
<1> QED  BY <1>4, <1>10, <1>13 DEF Got

LEMMA TypelessFacts ==
  ASSUME NEW rec, WellMade(rec)
  PROVE  /\ DOMAIN Typeless(rec).values = DOMAIN rec.values
         /\ \A i \in DOMAIN rec.values : Typeless(rec).values[i] = Stored(rec.values[i])
         /\ Typeless(rec).schema = rec.schema /\ Typeless(rec).audit = rec.audit
         /\ Typeless(rec).nil = FALSE /\ rec.nil = FALSE
         /\ Typeless(Typeless(rec)) = Typeless(rec)
<1>1. PICK t : t = Typeless(rec)  OBVIOUS
<1>2. /\ t.values = [i \in DOMAIN rec.values |-> Stored(rec.values[i])]
      /\ t.schema = rec.schema /\ t.audit = rec.audit /\ t.nil = rec.nil
  BY <1>1 DEF Typeless, Stored
<1>3. rec.nil = FALSE  BY DEF WellMade, Record
<1>4. DOMAIN t.values = DOMAIN rec.values /\ \A i \in DOMAIN rec.values : t.values[i] = Stored(rec.values[i])
  BY <1>2
<1>5. ASSUME NEW x PROVE Stored(Stored(x)) = Stored(x)
  <2>1. SetNull("").null = TRUE  BY DEF SetNull
  <2>2. CASE x.null  BY <2>1, <2>2 DEF Stored
  <2>3. CASE ~x.null  BY <2>3 DEF Stored
  <2> QED  BY <2>2, <2>3
<1>6. [i \in DOMAIN t.values |-> Stored(t.values[i])] = t.values
  <2>1. \A i \in DOMAIN t.values : Stored(t.values[i]) = t.values[i]  BY <1>4, <1>5
  <2> QED  BY <1>2, <2>1
<1>7. Typeless(t) = [schema |-> t.schema, audit |-> t.audit, nil |-> t.nil,
                     values |-> [i \in DOMAIN t.values |-> Stored(t.values[i])]]
  BY DEF Typeless, Stored
<1>8. t = [schema |-> t.schema, audit |-> t.audit, nil |-> t.nil, values |-> t.values]
  BY <1>1 DEF Typeless
<1>9. Typeless(t) = t  BY <1>6, <1>7, <1>8
<1> QED  BY <1>1, <1>2, <1>3, <1>4, <1>9

(* Validation does not look at the type of a null.                         *)
LEMMA ValidateTypeless ==
  ASSUME NEW rec, FromSource(rec)
  PROVE  Validate(Typeless(rec)) = Validate(rec)
<1>1. PICK t : t = Typeless(rec)  OBVIOUS
<1>2. PICK n \in Nat : n = Len(rec.values) /\ DOMAIN rec.values = 1 .. n
  BY SeqShape DEF FromSource, WellMade
<1>3. /\ DOMAIN t.values = DOMAIN rec.values
      /\ \A i \in DOMAIN rec.values : t.values[i] = Stored(rec.values[i])
      /\ t.schema = rec.schema /\ t.audit = rec.audit
  BY <1>1, TypelessFacts DEF FromSource
<1>4. \A i \in DOMAIN rec.values : Storable(rec.values[i])  BY <1>2 DEF FromSource, WellMade
<1>5. \A i : PlanResult(t, i) = PlanResult(rec, i)
  <2> SUFFICES ASSUME NEW i PROVE PlanResult(t, i) = PlanResult(rec, i)  OBVIOUS
  <2>1. CASE i \in DOMAIN rec.values
    <3>1. PICK x, f : x = rec.values[i] /\ f = schema[i]  OBVIOUS
    <3>2. compileFieldPlan(f, Stored(x)) = compileFieldPlan(f, x)  BY <1>4, <2>1, <3>1, PlansTypeless
    <3>3. PlanResult(t, i) = compileFieldPlan(f, Stored(x))  BY <1>3, <2>1, <3>1 DEF PlanResult
    <3>4. PlanResult(rec, i) = compileFieldPlan(f, x)  BY <2>1, <3>1 DEF PlanResult
    <3> QED  BY <3>2, <3>3, <3>4
  <2>2. CASE i \notin DOMAIN rec.values  BY <1>3, <2>2 DEF PlanResult
  <2> QED  BY <2>1, <2>2
<1>6. \A i : DeadLetter(t, i) = DeadLetter(rec, i)
  <2>1. \A j \in DOMAIN rec.values : String(t.values[j]) = String(rec.values[j])
    BY <1>3, <1>4, PlansTypeless
  <2>2. [j \in DOMAIN t.values |-> String(t.values[j])] = [j \in DOMAIN rec.values |-> String(rec.values[j])]
    BY <1>3, <2>1
  <2> QED  BY <1>3, <2>2 DEF DeadLetter
<1>7. Enriched(t) = Enriched(rec)  BY <1>3 DEF Enriched
<1>8. {i \in DOMAIN schema : ~PlanResult(t, i).ok} = {i \in DOMAIN schema : ~PlanResult(rec, i).ok}
  BY <1>5
<1>9. [i \in DOMAIN schema |-> PlanResult(t, i).val] = [i \in DOMAIN schema |-> PlanResult(rec, i).val]
  BY <1>5
<1> QED  BY <1>1, <1>3, <1>6, <1>7, <1>8, <1>9 DEF Validate

(* What validation makes of a record of a source: a record or a dead       *)
(* letter the coders can carry.                                            *)
LEMMA Validated ==
  ASSUME NEW rec, FromSource(rec), IsSeq(schema)
  PROVE  \E v \in {Validate(rec)} :
           \/ v.to = "valid" /\ WellMade(v.rec)
           \/ /\ v.to = "dlq" /\ IsSeq(v.letter.payload) /\ Short(v.letter.col) /\ Short(v.letter.source)
              /\ v.letter = [payload |-> v.letter.payload, col |-> v.letter.col, source |-> v.letter.source]
<1>1. PICK v : v = Validate(rec)  OBVIOUS
<1>2. PICK bad, values : /\ bad = {i \in DOMAIN schema : ~PlanResult(rec, i).ok}
                         /\ values = [i \in DOMAIN schema |-> PlanResult(rec, i).val]
  OBVIOUS
<1>3. PICK n \in Nat : n = Len(schema) /\ DOMAIN schema = 1 .. n  BY SeqShape
<1>4. PICK k \in Nat : k = Len(rec.values) /\ DOMAIN rec.values = 1 .. k
  BY SeqShape DEF FromSource, WellMade
<1>5. CASE bad = {}
  <2>1. v.to = "valid" /\ v.rec = Record(rec.schema, values, Enriched(rec))
    <3>1. \E events : v = Outcome("valid", Record(rec.schema, values, Enriched(rec)), NoLetter, events)
      BY <1>1, <1>2, <1>5 DEF Validate
    <3> QED  BY <3>1 DEF Outcome
  <2>2. IsSeq(values) /\ Len(values) = n
    <3>1. values \in [1 .. n -> Range(values)]  BY <1>2, <1>3 DEF Range
    <3> QED  BY <3>1, FunctionsAreSeqs
  <2>3. ASSUME NEW i \in 1 .. n PROVE Storable(values[i])
    <3>1. PICK x : x = IF i \in DOMAIN rec.values THEN rec.values[i] ELSE SetNull("")  OBVIOUS
    <3>2. Textual(x)  BY <1>4, <3>1, TextualMade DEF FromSource
    <3>3. PICK p : p = PlanResult(rec, i)  OBVIOUS
    <3>4. p = compileFieldPlan(schema[i], x)  BY <3>1, <3>3 DEF PlanResult
    <3>5. PlanMade(p)  BY <3>2, <3>4, PlansMade
    <3>6. p.ok  BY <1>2, <1>3, <1>5, <3>3
    <3>7. \A why : p # Failed(why)  BY <3>6 DEF Failed
    <3>8. PICK y : Storable(y) /\ p = Kept(y)  BY <3>5, <3>7 DEF PlanMade
    <3>9. p.val = y  BY <3>8 DEF Kept
    <3>10. values[i] = p.val  BY <1>2, <1>3, <3>3
    <3> QED  BY <3>8, <3>9, <3>10
  <2>4. Short(rec.schema) /\ ShortMap(Enriched(rec))
    BY ShortTexts, ShortMaps DEF Enriched, IngestedAt, FromSource, WellMade
  <2>5. /\ v.rec.schema = rec.schema /\ v.rec.values = values /\ v.rec.audit = Enriched(rec)
    BY <2>1 DEF Record
  <2>6. WellMade(v.rec)  BY <2>1, <2>2, <2>3, <2>4, <2>5 DEF WellMade
  <2> QED  BY <1>1, <2>1, <2>6
<1>6. CASE bad # {}
  <2>1. v = Outcome("dlq", Nil, DeadLetter(rec, Min(bad)), 1)  BY <1>1, <1>2, <1>6 DEF Validate
  <2>2. PICK d : d = DeadLetter(rec, Min(bad))  OBVIOUS
  <2>3. v.to = "dlq" /\ v.letter = d  BY <2>1, <2>2 DEF Outcome
  <2>4. PICK texts, source :
          /\ texts = [j \in DOMAIN rec.values |-> String(rec.values[j])]
          /\ source = IF SourceFile \in DOMAIN rec.audit THEN rec.audit[SourceFile] ELSE <<>>
    OBVIOUS
  <2>5. PICK col : col = <<schema[Min(bad)].name>>  OBVIOUS
  <2>6. d = [payload |-> FlattenSeq(texts), col |-> col, source |-> source]
    BY <2>2, <2>4, <2>5 DEF DeadLetter
  <2>7. IsSeq(texts) /\ Len(texts) = k /\ \A j \in 1 .. k : IsSeq(texts[j])
    <3>1. texts \in [1 .. k -> Range(texts)]  BY <1>4, <2>4 DEF Range
    <3>2. \A j \in 1 .. k : IsSeq(texts[j])  BY <1>4, <2>4, TextualFacts DEF FromSource
    <3> QED  BY <3>1, <3>2, FunctionsAreSeqs
  <2>8. IsSeq(FlattenSeq(texts))  BY <2>7, HoldsFlattened
  <2>9. Short(source)  BY <2>4, ShortTexts DEF FromSource, WellMade, ShortMap
  <2>10. Short(col)  BY <2>5, ShortTexts
  <2>11. PICK payload : payload = FlattenSeq(texts)  OBVIOUS
  <2>12. d = [payload |-> payload, col |-> col, source |-> source] /\ d.payload = payload
         /\ d.col = col /\ d.source = source
    BY <2>6, <2>11
  <2> QED  BY <1>1, <2>3, <2>8, <2>9, <2>10, <2>11, <2>12
<1> QED  BY <1>5, <1>6

(* What the sinks and the metrics receive of a record is what validation   *)
(* made, up to the type of a null; only an encoded record can be lost, and *)
(* only to a limit of the reader.                                          *)
SameOutput(o, v) ==
  /\ o.to = v.to
  /\ v.to = "valid" => o.rec \in {v.rec, Typeless(v.rec)}
  /\ v.to = "dlq" => o.letter = v.letter
TooLarge(rec, v) == ~Sizeable(rec) \/ ~Sizeable(v.rec) \/ Len(v.letter.payload) > MaxBytes

LEMMA RecordCrossed ==
  ASSUME NEW rec, WellMade(rec)
  PROVE  \E r \in {CrossRecord(rec)} :
           \/ r.st = "ok" /\ r.val \in {rec, Typeless(rec)}
           \/ r.st # "ok" /\ ~fused /\ ~Sizeable(rec)
<1>1. PICK r : r = CrossRecord(rec)  OBVIOUS
<1>2. CASE fused
  <2>1. r = Got(rec, 0)  BY <1>1, <1>2 DEF CrossRecord
  <2>2. r.st = "ok" /\ r.val = rec  BY <2>1 DEF Got
  <2> QED  BY <1>1, <2>2
<1>3. CASE ~fused
  <2>1. r = DecodeGenericRecord(EncodeGenericRecord(rec))  BY <1>1, <1>3 DEF CrossRecord
  <2>2. IF Sizeable(rec) THEN r.st = "ok" /\ r.val = Typeless(rec) ELSE r.st = "err"
    BY <2>1, RecordsTransparent
  <2> QED  BY <1>1, <1>3, <2>2
<1> QED  BY <1>2, <1>3

LEMMA OutputCrossed ==
  ASSUME NEW rec, FromSource(rec), IsSeq(schema)
  PROVE  \E v \in {Validate(rec)} : \E d \in {Delivered(v)} :
           \/ d.st = "ok" /\ SameOutput(d.val, v)
           \/ d.st # "ok" /\ ~fused /\ TooLarge(rec, v)
<1>1. PICK v : v = Validate(rec)  OBVIOUS
<1>2. PICK d : d = Delivered(v)  OBVIOUS
<1>3. CASE v.to = "valid" /\ WellMade(v.rec)
  <2>1. PICK r : r = CrossRecord(v.rec)  OBVIOUS
  <2>2. \/ r.st = "ok" /\ r.val \in {v.rec, Typeless(v.rec)}
        \/ r.st # "ok" /\ ~fused /\ ~Sizeable(v.rec)
    BY <1>3, <2>1, RecordCrossed
  <2>3. d = IF r.st = "ok" THEN Got(Outcome(v.to, r.val, v.letter, v.audits), 0) ELSE r
    BY <1>2, <1>3, <2>1 DEF Delivered, Then
  <2>4. CASE r.st = "ok"
    <3>1. PICK o : o = Outcome(v.to, r.val, v.letter, v.audits)  OBVIOUS
    <3>2. d = Got(o, 0)  BY <2>3, <2>4, <3>1
    <3>3. d.st = "ok" /\ d.val = o  BY <3>2 DEF Got
    <3>4. o.to = v.to /\ o.rec = r.val  BY <3>1 DEF Outcome
    <3>5. SameOutput(o, v)  BY <1>3, <2>2, <2>4, <3>4 DEF SameOutput
    <3> QED  BY <1>1, <1>2, <3>3, <3>5
  <2>5. CASE r.st # "ok"
    <3>1. d.st # "ok" /\ ~fused /\ TooLarge(rec, v)  BY <2>2, <2>3, <2>5 DEF TooLarge
    <3> QED  BY <1>1, <1>2, <3>1
  <2> QED  BY <2>4, <2>5
<1>4. CASE /\ v.to = "dlq" /\ IsSeq(v.letter.payload) /\ Short(v.letter.col) /\ Short(v.letter.source)
           /\ v.letter = [payload |-> v.letter.payload, col |-> v.letter.col, source |-> v.letter.source]
  <2>1. PICK x, payload, col, source :
          x = v.letter /\ payload = v.letter.payload /\ col = v.letter.col /\ source = v.letter.source
    OBVIOUS
  <2>2. PICK r : r = CrossLetter(x)  OBVIOUS
  <2>3. d = IF r.st = "ok" THEN Got(Outcome(v.to, v.rec, r.val, v.audits), 0) ELSE r
    BY <1>2, <1>4, <2>1, <2>2 DEF Delivered, Then
  <2>4. /\ IsSeq(payload) /\ IsSeq(col) /\ IsSeq(source) /\ Len(col) <= MaxBytes /\ Len(source) <= MaxBytes
        /\ x = [payload |-> payload, col |-> col, source |-> source]
    BY <1>4, <2>1 DEF Short
  <2>5. \/ r.st = "ok" /\ r.val = x
        \/ r.st # "ok" /\ ~fused /\ Len(payload) > MaxBytes
    <3>1. CASE fused
      <4>1. r = Got(x, 0)  BY <2>2, <3>1 DEF CrossLetter
      <4> QED  BY <4>1 DEF Got
    <3>2. CASE ~fused
      <4>1. r = DecodeDeadLetterRecord(EncodeDeadLetterRecord(x))  BY <2>2, <3>2 DEF CrossLetter
      <4>2. IF Len(payload) <= MaxBytes /\ Len(col) <= MaxBytes /\ Len(source) <= MaxBytes
            THEN r.st = "ok" /\ r.val = x ELSE r.st = "err"
        BY <2>4, <4>1, LettersTransparent
      <4>3. Len(payload) \in Nat /\ MaxBytes \in Nat  BY <2>4, SeqShape, CoderAssumption
      <4> QED  BY <2>4, <3>2, <4>2, <4>3
    <3> QED  BY <3>1, <3>2
  <2>6. CASE r.st = "ok"
    <3>1. PICK o : o = Outcome(v.to, v.rec, r.val, v.audits)  OBVIOUS
    <3>2. d = Got(o, 0)  BY <2>3, <2>6, <3>1
    <3>3. d.st = "ok" /\ d.val = o  BY <3>2 DEF Got
    <3>4. o.to = v.to /\ o.letter = r.val  BY <3>1 DEF Outcome
    <3>5. SameOutput(o, v)  BY <1>4, <2>1, <2>5, <2>6, <3>4 DEF SameOutput
    <3> QED  BY <1>1, <1>2, <3>3, <3>5
  <2>7. CASE r.st # "ok"
    <3>1. d.st # "ok" /\ ~fused /\ TooLarge(rec, v)  BY <2>1, <2>3, <2>5, <2>7 DEF TooLarge
    <3> QED  BY <1>1, <1>2, <3>1
  <2> QED  BY <2>6, <2>7
<1> QED  BY <1>1, <1>3, <1>4, Validated

-----------------------------------------------------------------------------
(* The flow of the records through the coders.  What the source emits of   *)
(* an element, and what enrichment and validation make of it.              *)
Raw(i) == Emitted(input[i])
Ideal(i) == Validate(Raw(i).val)

CaseInv == \E c \in Cases : schema = c.schema /\ input = c.input

(* In a bundle, the record between two stages is the one the source        *)
(* emitted and the outputs are the validated ones, up to the types of      *)
(* nulls.                                                                  *)
Faithful(b) ==
  /\ \A h \in b.held : Raw(h.i).st = "ok" /\ h.rec \in {Raw(h.i).val, Typeless(Raw(h.i).val)}
  /\ \A i \in DOMAIN b.out : Raw(i).st = "ok" /\ SameOutput(b.out[i], Ideal(i))
(* So are the committed outputs.                                           *)
OutputsInv ==
  /\ \A i \in DOMAIN valid : /\ Raw(i).st = "ok" /\ Ideal(i).to = "valid"
                             /\ valid[i] \in {Ideal(i).rec, Typeless(Ideal(i).rec)}
  /\ \A i \in DOMAIN dlq : Raw(i).st = "ok" /\ Ideal(i).to = "dlq" /\ dlq[i] = Ideal(i).letter
(* An element failed because the source refused it or it is too large.     *)
ErrorsInv == \A i \in errors : Raw(i).st = "ok" => ~fused /\ TooLarge(Raw(i).val, Ideal(i))
(* The origins are names the coder can carry.                              *)
OriginsInv == (\A p \in partials : Short(p.origin)) /\ \A s \in sums : MetricsMade(s)

CoderInv ==
  CaseInv /\ (\A w \in Workers : Faithful(bundle[w])) /\ OutputsInv /\ ErrorsInv /\ OriginsInv

LEMMA RawMade ==
  ASSUME CaseInv
  PROVE  IsSeq(schema) /\ \A i \in DOMAIN input : Raw(i).st = "ok" => FromSource(Raw(i).val)
<1>1. PICK c \in Cases : schema = c.schema /\ input = c.input  BY DEF CaseInv
<1>2. IsSeq(schema) /\ \A j \in DOMAIN schema : schema[j].scale \in Int  BY <1>1, FlowAssumption
<1>3. ASSUME NEW i \in DOMAIN input PROVE Raw(i).st = "ok" => FromSource(Raw(i).val)
  <2>1. PICK e : e = input[i]  OBVIOUS
  <2>2. e.src \in Sources  BY <1>1, <2>1, FlowAssumption
  <2>3. \A j \in DOMAIN schema : /\ e.cells[j].k \in Kinds(e.src) /\ e.cells[j].n \in Int
                                 /\ IsSeq(e.cells[j].s)
    BY <1>1, <2>1, FlowAssumption
  <2> QED  BY <1>2, <2>1, <2>2, <2>3, EmittedMade DEF Raw
<1> QED  BY <1>2, <1>3

LEMMA OriginShort ==
  ASSUME NEW rec, FromSource(rec), IsSeq(schema), NEW o, SameOutput(o, Validate(rec))
  PROVE  Short(Origin(o))
<1>1. PICK v : v = Validate(rec)  OBVIOUS
<1>2. SameOutput(o, v)  BY <1>1
<1>3. CASE v.to = "valid" /\ WellMade(v.rec)
  <2>1. PICK r : r = o.rec  OBVIOUS
  <2>2. o.to = "valid" /\ r \in {v.rec, Typeless(v.rec)}  BY <1>2, <1>3, <2>1 DEF SameOutput
  <2>3. r.schema = v.rec.schema /\ r.audit = v.rec.audit  BY <1>3, <2>2, TypelessFacts
  <2>4. Short(r.schema) /\ \A x \in DOMAIN r.audit : Short(r.audit[x])
    BY <1>3, <2>3 DEF WellMade, ShortMap
  <2>5. Short(validRecordMetricKVFn(r))  BY <2>4, ShortTexts DEF validRecordMetricKVFn
  <2> QED  BY <2>1, <2>2, <2>5 DEF Origin
<1>4. CASE v.to = "dlq" /\ Short(v.letter.source)
  <2>1. o.to = "dlq" /\ o.letter = v.letter  BY <1>2, <1>4 DEF SameOutput
  <2>2. Short(dlqRecordMetricKVFn(v.letter))  BY <1>4, ShortTexts DEF dlqRecordMetricKVFn
  <2> QED  BY <2>1, <2>2 DEF Origin
<1> QED  BY <1>1, <1>3, <1>4, Validated

LEMMA Frame == ASSUME [FlowNext]_flowVars PROVE UNCHANGED <<schema, input, fused>>
BY DEF FlowNext, flowVars, job_vars, StartBundle, Emit, ProcessElement, CrashBundle, CommitBundle,
       MergeAccumulators, ToOriginSummary, MergeSums, WriteMetrics, MetricsWriteFails,
       FinishEmpty, Stopped

LEMMA Fixed ==
  ASSUME UNCHANGED <<schema, input>>
  PROVE  /\ \A i : Raw(i)' = Raw(i) /\ Ideal(i)' = Ideal(i)
         /\ \A b : Faithful(b)' <=> Faithful(b)
<1>1. \A i : Raw(i)' = Raw(i)  BY DEF Raw, Emitted
<1>2. \A rec : Validate(rec)' = Validate(rec)
  <2>1. \A rec, i : PlanResult(rec, i)' = PlanResult(rec, i)  BY DEF PlanResult
  <2>2. \A rec, i : DeadLetter(rec, i)' = DeadLetter(rec, i)  BY DEF DeadLetter
  <2> QED  BY <2>1, <2>2 DEF Validate
<1>3. \A i : Ideal(i)' = Ideal(i)  BY <1>1, <1>2 DEF Ideal
<1>4. \A b : Faithful(b)' <=> Faithful(b)  BY <1>1, <1>3 DEF Faithful
<1> QED  BY <1>1, <1>3, <1>4

LEMMA EmitOf ==
  ASSUME Shape, NEW w \in Workers, Emit(w)
  PROVE  \E i \in bundle[w].left :
           \E r \in {IF Raw(i).st = "ok" THEN CrossRecord(Raw(i).val) ELSE Raw(i)} :
             \/ /\ r.st = "ok" /\ errors' = errors
                /\ Replaced(w, Bundle(bundle[w].left \ {i}, {[i |-> i, rec |-> r.val]},
                                      bundle[w].out, bundle[w].accs))
             \/ r.st # "ok" /\ errors' = errors \cup {i} /\ Replaced(w, Idle)
<1>1. PICK i \in bundle[w].left :
        \E r \in {Then(Emitted(input[i]), LAMBDA raw, p : CrossRecord(raw))} :
           \/ /\ r.st = "ok" /\ errors' = errors
              /\ bundle' = [bundle EXCEPT ![w] = Bundle(bundle[w].left \ {i},
                               {[i |-> i, rec |-> r.val]}, bundle[w].out, bundle[w].accs)]
           \/ r.st # "ok" /\ errors' = errors \cup {i} /\ bundle' = [bundle EXCEPT ![w] = Idle]
  BY DEF Emit, FailBundle
<1>2. PICK r : r = IF Raw(i).st = "ok" THEN CrossRecord(Raw(i).val) ELSE Raw(i)  OBVIOUS
<1>3. Then(Emitted(input[i]), LAMBDA raw, p : CrossRecord(raw)) = r  BY <1>2 DEF Then, Raw
<1>4. \/ /\ r.st = "ok" /\ errors' = errors
         /\ bundle' = [bundle EXCEPT ![w] = Bundle(bundle[w].left \ {i},
                          {[i |-> i, rec |-> r.val]}, bundle[w].out, bundle[w].accs)]
      \/ r.st # "ok" /\ errors' = errors \cup {i} /\ bundle' = [bundle EXCEPT ![w] = Idle]
  BY <1>1, <1>3
<1> QED  BY <1>2, <1>4, Replacing

LEMMA ProcessOf ==
  ASSUME Shape, NEW w \in Workers, ProcessElement(w)
  PROVE  \E h \in bundle[w].held : \E r \in {Delivered(Validate(h.rec))} :
             \/ /\ r.st = "ok" /\ errors' = errors
                /\ Replaced(w, Bundle(bundle[w].left, {}, Put(bundle[w].out, h.i, r.val),
                                      Count(bundle[w].accs, r.val)))
             \/ r.st # "ok" /\ errors' = errors \cup {h.i} /\ Replaced(w, Idle)
<1>1. PICK h \in bundle[w].held :
        \/ /\ Delivered(Validate(h.rec)).st = "ok" /\ errors' = errors
           /\ bundle' = [bundle EXCEPT ![w] =
                Bundle(bundle[w].left, {}, Put(bundle[w].out, h.i, Delivered(Validate(h.rec)).val),
                       Count(bundle[w].accs, Delivered(Validate(h.rec)).val))]
        \/ /\ Delivered(Validate(h.rec)).st # "ok" /\ errors' = errors \cup {h.i}
           /\ bundle' = [bundle EXCEPT ![w] = Idle]
  BY DEF ProcessElement, FailBundle
<1>2. PICK r : r = Delivered(Validate(h.rec))  OBVIOUS
<1> QED  BY <1>1, <1>2, Replacing

(* A step that replaces one bundle keeps what the ledger says.             *)
LEMMA BundleReplaced ==
  ASSUME CoderInv, NEW w \in Workers, NEW b, Replaced(w, b), Faithful(b),
         UNCHANGED Ledger, UNCHANGED <<schema, input, fused>>,
         \A i \in errors' \ errors : Raw(i).st = "ok" => ~fused /\ TooLarge(Raw(i).val, Ideal(i))
  PROVE  CoderInv'
<1>1. /\ \A i : Raw(i)' = Raw(i) /\ Ideal(i)' = Ideal(i)
      /\ \A x : Faithful(x)' <=> Faithful(x)
  BY Fixed
<1>2. CaseInv'  BY DEF CoderInv, CaseInv
<1>3. \A u \in Workers : Faithful(bundle[u])'
  <2>1. \A u \in Workers : bundle'[u] = IF u = w THEN b ELSE bundle[u]  BY DEF Replaced
  <2>2. \A u \in Workers : Faithful(bundle'[u])  BY <2>1 DEF CoderInv
  <2> SUFFICES ASSUME NEW u \in Workers PROVE Faithful(bundle[u])'  OBVIOUS
  <2>3. Faithful(bundle'[u])  BY <2>2
  <2>4. PICK x : x = bundle'[u]  OBVIOUS
  <2> QED  BY <1>1, <2>3 DEF Faithful
<1>4. OutputsInv'  BY <1>1 DEF CoderInv, OutputsInv, Ledger
<1>5. ErrorsInv'
  <2>1. \A i \in errors' : Raw(i).st = "ok" => ~fused /\ TooLarge(Raw(i).val, Ideal(i))
    BY DEF CoderInv, ErrorsInv
  <2> QED  BY <1>1, <2>1 DEF ErrorsInv
<1>6. OriginsInv'  BY DEF CoderInv, OriginsInv, Ledger
<1> QED  BY <1>2, <1>3, <1>4, <1>5, <1>6 DEF CoderInv

LEMMA EmptyFaithful == \A left : Faithful(Bundle(left, {}, <<>>, <<>>)) /\ Faithful(Idle)
BY DEF Faithful, Idle, Bundle

LEMMA BundleSteps ==
  ASSUME CoderInv, Shape, OnePlace, NEW w \in Workers, UNCHANGED <<schema, input, fused>>,
         StartBundle(w) \/ Emit(w) \/ ProcessElement(w) \/ CrashBundle(w)
  PROVE  CoderInv'
<1>1. Faithful(bundle[w]) /\ IsSeq(schema)  BY RawMade DEF CoderInv
<1>2. bundle[w].left \cup Index(bundle[w]) \subseteq DOMAIN input  BY DEF OnePlace, Mine
<1>3. \A i \in DOMAIN input : Raw(i).st = "ok" => FromSource(Raw(i).val)  BY RawMade DEF CoderInv
<1>4. CASE StartBundle(w)
  <2>1. PICK S : Replaced(w, Bundle(S, {}, <<>>, <<>>))  BY <1>4, StartStep
  <2>2. UNCHANGED Ledger /\ errors' = errors  BY <1>4, StartStep DEF StartBundle
  <2> QED  BY <2>1, <2>2, EmptyFaithful, BundleReplaced
<1>5. CASE Emit(w)
  <2>1. PICK i, r :
          /\ i \in bundle[w].left
          /\ r = IF Raw(i).st = "ok" THEN CrossRecord(Raw(i).val) ELSE Raw(i)
          /\ \/ /\ r.st = "ok" /\ errors' = errors
                /\ Replaced(w, Bundle(bundle[w].left \ {i}, {[i |-> i, rec |-> r.val]},
                                      bundle[w].out, bundle[w].accs))
             \/ r.st # "ok" /\ errors' = errors \cup {i} /\ Replaced(w, Idle)
    BY <1>5, EmitOf
  <2>2. UNCHANGED Ledger  BY <1>5, EmitStep
  <2>3. Raw(i).st = "ok" => FromSource(Raw(i).val)  BY <1>2, <1>3, <2>1
  <2>4. Raw(i).st = "ok" => \/ r.st = "ok" /\ r.val \in {Raw(i).val, Typeless(Raw(i).val)}
                            \/ r.st # "ok" /\ ~fused /\ ~Sizeable(Raw(i).val)
    BY <2>1, <2>3, RecordCrossed DEF FromSource
  <2>5. CASE r.st = "ok"
    <3>1. Raw(i).st = "ok"  BY <2>1, <2>5
    <3>2. PICK b : b = Bundle(bundle[w].left \ {i}, {[i |-> i, rec |-> r.val]},
                              bundle[w].out, bundle[w].accs)
      OBVIOUS
    <3>3. b.held = {[i |-> i, rec |-> r.val]} /\ b.out = bundle[w].out  BY <3>2 DEF Bundle
    <3>4. \A h \in b.held : h.i = i /\ h.rec = r.val  BY <3>3
    <3>5. Faithful(b)  BY <1>1, <2>4, <2>5, <3>1, <3>3, <3>4 DEF Faithful
    <3> QED  BY <2>1, <2>2, <2>5, <3>2, <3>5, BundleReplaced
  <2>6. CASE r.st # "ok"
    <3>1. \A j \in errors' \ errors : Raw(j).st = "ok" => ~fused /\ TooLarge(Raw(j).val, Ideal(j))
      BY <2>1, <2>4, <2>6 DEF TooLarge
    <3> QED  BY <2>1, <2>2, <2>6, <3>1, EmptyFaithful, BundleReplaced
  <2> QED  BY <2>5, <2>6
<1>6. CASE ProcessElement(w)
  <2>1. PICK h, r :
          /\ h \in bundle[w].held
          /\ r = Delivered(Validate(h.rec))
          /\ \/ /\ r.st = "ok" /\ errors' = errors
                /\ Replaced(w, Bundle(bundle[w].left, {}, Put(bundle[w].out, h.i, r.val),
                                      Count(bundle[w].accs, r.val)))
             \/ r.st # "ok" /\ errors' = errors \cup {h.i} /\ Replaced(w, Idle)
    BY <1>6, ProcessOf
  <2>2. UNCHANGED Ledger  BY <1>6, ProcessStep
  <2>3. PICK i, raw : i = h.i /\ raw = Raw(i).val  OBVIOUS
  <2>4. i \in DOMAIN input /\ Raw(i).st = "ok" /\ h.rec \in {raw, Typeless(raw)}
    BY <1>1, <1>2, <2>1, <2>3 DEF Faithful, Index
  <2>5. FromSource(raw)  BY <1>3, <2>3, <2>4
  <2>6. Validate(h.rec) = Ideal(i)  BY <2>3, <2>4, <2>5, ValidateTypeless DEF Ideal
  <2>7. \/ r.st = "ok" /\ SameOutput(r.val, Ideal(i))
        \/ r.st # "ok" /\ ~fused /\ TooLarge(raw, Ideal(i))
    <3>1. Ideal(i) = Validate(raw) /\ r = Delivered(Validate(raw))  BY <2>1, <2>3, <2>6 DEF Ideal
    <3> QED  BY <1>1, <2>5, <3>1, OutputCrossed
  <2>8. CASE r.st = "ok"
    <3>1. PICK b : b = Bundle(bundle[w].left, {}, Put(bundle[w].out, i, r.val),
                              Count(bundle[w].accs, r.val))
      OBVIOUS
    <3>2. b.held = {} /\ b.out = Put(bundle[w].out, i, r.val)  BY <3>1 DEF Bundle
    <3>3. \A j \in DOMAIN b.out : \/ j = i /\ b.out[j] = r.val
                                  \/ j \in DOMAIN bundle[w].out /\ b.out[j] = bundle[w].out[j]
      BY <3>2 DEF Put
    <3>4. Faithful(b)  BY <1>1, <2>4, <2>7, <2>8, <3>2, <3>3 DEF Faithful
    <3> QED  BY <2>1, <2>2, <2>3, <2>8, <3>1, <3>4, BundleReplaced
  <2>9. CASE r.st # "ok"
    <3>1. \A j \in errors' \ errors : Raw(j).st = "ok" => ~fused /\ TooLarge(Raw(j).val, Ideal(j))
      BY <2>1, <2>3, <2>7, <2>9
    <3> QED  BY <2>1, <2>2, <2>9, <3>1, EmptyFaithful, BundleReplaced
  <2> QED  BY <2>8, <2>9
<1>7. CASE CrashBundle(w)
  <2>1. Replaced(w, Idle) /\ UNCHANGED Ledger /\ errors' = errors
    BY <1>7, Replacing DEF CrashBundle, job_vars, outputs, tallies, Ledger
  <2> QED  BY <2>1, EmptyFaithful, BundleReplaced
<1> QED  BY <1>4, <1>5, <1>6, <1>7

LEMMA CommitStep ==
  ASSUME CoderInv, Shape, OnePlace, \A u \in Workers : Tallied(bundle[u]), NEW w \in Workers,
         CommitBundle(w), UNCHANGED <<schema, input, fused>>
  PROVE  CoderInv'
<1>1. PICK out : out = bundle[w].out  OBVIOUS
<1>2. /\ Replaced(w, Idle) /\ partials' = partials \cup Lifted(bundle[w])
      /\ sums' = sums /\ errors' = errors
      /\ valid' = Over(Sent(out, "valid"), valid) /\ dlq' = Over(Sent(out, "dlq"), dlq)
  BY <1>1, Replacing DEF CommitBundle
<1>3. /\ \A i : Raw(i)' = Raw(i) /\ Ideal(i)' = Ideal(i)
      /\ \A x : Faithful(x)' <=> Faithful(x)
  BY Fixed
<1>4. \A i \in DOMAIN out : Raw(i).st = "ok" /\ SameOutput(out[i], Ideal(i))
  BY <1>1 DEF CoderInv, Faithful
<1>5. CaseInv'  BY DEF CoderInv, CaseInv
<1>6. \A u \in Workers : Faithful(bundle[u])'
  <2> SUFFICES ASSUME NEW u \in Workers PROVE Faithful(bundle[u])'  OBVIOUS
  <2>1. bundle'[u] = IF u = w THEN Idle ELSE bundle[u]  BY <1>2 DEF Replaced
  <2>2. Faithful(bundle'[u])  BY <2>1, EmptyFaithful DEF CoderInv
  <2> QED  BY <1>3, <2>2 DEF Faithful
<1>7. OutputsInv'
  <2>1. ASSUME NEW i \in DOMAIN valid'
        PROVE  /\ Raw(i).st = "ok" /\ Ideal(i).to = "valid"
               /\ valid'[i] \in {Ideal(i).rec, Typeless(Ideal(i).rec)}
    <3>1. CASE i \in DOMAIN Sent(out, "valid")
      <4>1. i \in DOMAIN out /\ out[i].to = "valid" /\ valid'[i] = out[i].rec
        BY <1>2, <3>1 DEF Over, Sent
      <4> QED  BY <1>4, <4>1 DEF SameOutput
    <3>2. CASE i \notin DOMAIN Sent(out, "valid")
      <4>1. i \in DOMAIN valid /\ valid'[i] = valid[i]  BY <1>2, <2>1, <3>2 DEF Over
      <4> QED  BY <4>1 DEF CoderInv, OutputsInv
    <3> QED  BY <3>1, <3>2
  <2>2. ASSUME NEW i \in DOMAIN dlq'
        PROVE  Raw(i).st = "ok" /\ Ideal(i).to = "dlq" /\ dlq'[i] = Ideal(i).letter
    <3>1. CASE i \in DOMAIN Sent(out, "dlq")
      <4>1. i \in DOMAIN out /\ out[i].to = "dlq" /\ dlq'[i] = out[i].letter
        BY <1>2, <3>1 DEF Over, Sent
      <4> QED  BY <1>4, <4>1 DEF SameOutput
    <3>2. CASE i \notin DOMAIN Sent(out, "dlq")
      <4>1. i \in DOMAIN dlq /\ dlq'[i] = dlq[i]  BY <1>2, <2>2, <3>2 DEF Over
      <4> QED  BY <4>1 DEF CoderInv, OutputsInv
    <3> QED  BY <3>1, <3>2
  <2> QED  BY <1>3, <2>1, <2>2 DEF OutputsInv
<1>8. ErrorsInv'  BY <1>2, <1>3 DEF CoderInv, ErrorsInv
<1>9. OriginsInv'
  <2>1. ASSUME NEW p \in Lifted(bundle[w]) PROVE Short(p.origin)
    <3>1. p.origin \in DOMAIN bundle[w].accs  BY <2>1 DEF Lifted
    <3>2. PICK i \in DOMAIN out : p.origin = Origin(out[i])  BY <1>1, <3>1 DEF Tallied
    <3>3. i \in DOMAIN input  BY <1>1 DEF OnePlace, Mine
    <3>4. IsSeq(schema) /\ FromSource(Raw(i).val)  BY <1>4, <3>3, RawMade DEF CoderInv
    <3>5. SameOutput(out[i], Validate(Raw(i).val))  BY <1>4 DEF Ideal
    <3> QED  BY <3>2, <3>4, <3>5, OriginShort
  <2> QED  BY <1>2, <2>1 DEF CoderInv, OriginsInv
<1> QED  BY <1>5, <1>6, <1>7, <1>8, <1>9 DEF CoderInv

(* Partial metrics are made of short origins.                              *)
LEMMA MetricsAdd ==
  /\ MetricsMade(CreateSummary)
  /\ \A m, o, a : MetricsMade(m) /\ Short(o) /\ IsOrigin(a) => MetricsMade(AddSummary(m, o, a))
  /\ \A m, n : MetricsMade(m) /\ MetricsMade(n) => MetricsMade(MergeSummaries(m, n))
<1>1. MetricsMade(CreateSummary)
  <2>1. DOMAIN <<>> = {} /\ <<>> = [x \in {} |-> <<>>[x]]  OBVIOUS
  <2>2. IsFiniteSet({})  BY FS_EmptySet
  <2>3. PICK m : m = CreateSummary  OBVIOUS
  <2>4. m.origins = <<>> /\ m = [total |-> m.total, written |-> m.written, dead |-> m.dead, origins |-> m.origins]
    BY <2>3 DEF CreateSummary
  <2> QED  BY <2>1, <2>2, <2>3, <2>4 DEF MetricsMade
<1>2. ASSUME NEW m, NEW o, NEW a, MetricsMade(m), Short(o), IsOrigin(a) PROVE MetricsMade(AddSummary(m, o, a))
  <2>1. PICK s, g : s = AddSummary(m, o, a) /\ g = Put(m.origins, o, a)  OBVIOUS
  <2>2. s.origins = g /\ s = [total |-> s.total, written |-> s.written, dead |-> s.dead, origins |-> s.origins]
    BY <2>1 DEF AddSummary
  <2>3. /\ g = [z \in DOMAIN g |-> g[z]] /\ DOMAIN g = {o} \cup DOMAIN m.origins
        /\ \A z \in DOMAIN g : g[z] = IF z = o THEN a ELSE m.origins[z]
    BY <2>1 DEF Put
  <2>4. IsFiniteSet({o} \cup DOMAIN m.origins)
    <3>1. IsFiniteSet({o})  BY FS_Singleton
    <3> QED  BY <1>2, <3>1, FS_Union DEF MetricsMade
  <2>5. \A z \in DOMAIN g : Short(z) /\ IsOrigin(g[z])  BY <1>2, <2>3 DEF MetricsMade
  <2> QED  BY <2>1, <2>2, <2>3, <2>4, <2>5 DEF MetricsMade
<1>3. ASSUME NEW m, NEW n, MetricsMade(m), MetricsMade(n) PROVE MetricsMade(MergeSummaries(m, n))
  <2>1. PICK s, g : s = MergeSummaries(m, n) /\ g = Over(n.origins, m.origins)  OBVIOUS
  <2>2. s.origins = g /\ s = [total |-> s.total, written |-> s.written, dead |-> s.dead, origins |-> s.origins]
    BY <2>1 DEF MergeSummaries
  <2>3. /\ g = [z \in DOMAIN g |-> g[z]] /\ DOMAIN g = DOMAIN n.origins \cup DOMAIN m.origins
        /\ \A z \in DOMAIN g : g[z] = IF z \in DOMAIN n.origins THEN n.origins[z] ELSE m.origins[z]
    BY <2>1 DEF Over
  <2>4. IsFiniteSet(DOMAIN n.origins \cup DOMAIN m.origins)  BY <1>3, FS_Union DEF MetricsMade
  <2>5. \A z \in DOMAIN g : Short(z) /\ IsOrigin(g[z])  BY <1>3, <2>3 DEF MetricsMade
  <2> QED  BY <2>1, <2>2, <2>3, <2>4, <2>5 DEF MetricsMade
<1> QED  BY <1>1, <1>2, <1>3

LEMMA MetricsCross ==
  ASSUME OriginsInv
  PROVE  \A s \in sums : CrossMetrics(s).st = "ok" /\ CrossMetrics(s).val = s
<1> SUFFICES ASSUME NEW s \in sums PROVE CrossMetrics(s).st = "ok" /\ CrossMetrics(s).val = s  OBVIOUS
<1>1. PICK r : r = CrossMetrics(s)  OBVIOUS
<1>2. CASE fused
  <2>1. r = Got(s, 0)  BY <1>1, <1>2 DEF CrossMetrics
  <2> QED  BY <1>1, <2>1 DEF Got
<1>3. CASE ~fused
  <2>1. r = DecodePipelineMetrics(EncodePipelineMetrics(s))  BY <1>1, <1>3 DEF CrossMetrics
  <2>2. MetricsMade(s)  BY DEF OriginsInv
  <2> QED  BY <1>1, <2>1, <2>2, SummariesTransparent
<1> QED  BY <1>2, <1>3

LEMMA TallySteps ==
  ASSUME OriginsInv, PartialsInv, MergeAccumulators \/ ToOriginSummary \/ MergeSums
  PROVE  OriginsInv'
<1>1. \A p \in partials : Short(p.origin) /\ IsOrigin(p.acc)
  <2>1. \A S : IsOrigin(Counts(S))
    <3> SUFFICES ASSUME NEW S PROVE IsOrigin(Counts(S))  OBVIOUS
    <3>1. PICK o : o = Counts(S)  OBVIOUS
    <3>2. o = [total |-> o.total, valid |-> o.valid, dlq |-> o.dlq]  BY <3>1 DEF Counts
    <3> QED  BY <3>1, <3>2 DEF IsOrigin
  <2> QED  BY <2>1 DEF PartialsInv, OriginsInv
<1>2. \A s \in sums : MetricsMade(s)  BY DEF OriginsInv
<1>3. CASE MergeAccumulators
  <2>1. PICK p, q, x :
          /\ p \in partials /\ q \in partials
          /\ x = [origin |-> p.origin, from |-> p.from \cup q.from, acc |-> MergeOrigin(p.acc, q.acc)]
          /\ partials' = (partials \ {p, q}) \cup {x} /\ sums' = sums
    BY <1>3 DEF MergeAccumulators
  <2>2. x.origin = p.origin  BY <2>1
  <2>3. \A y \in partials' : Short(y.origin)  BY <1>1, <2>1, <2>2
  <2> QED  BY <1>2, <2>1, <2>3 DEF OriginsInv
<1>4. CASE ToOriginSummary
  <2>1. PICK p \in partials :
          /\ partials' = partials \ {p}
          /\ \/ sums' = sums \cup {AddSummary(CreateSummary, p.origin, p.acc)}
             \/ \E s \in sums : sums' = (sums \ {s}) \cup {AddSummary(s, p.origin, p.acc)}
    BY <1>4 DEF ToOriginSummary
  <2>2. Short(p.origin) /\ IsOrigin(p.acc)  BY <1>1
  <2>3. MetricsMade(AddSummary(CreateSummary, p.origin, p.acc))
        /\ \A s \in sums : MetricsMade(AddSummary(s, p.origin, p.acc))
    BY <1>2, <2>2, MetricsAdd
  <2>4. \A s \in sums' : MetricsMade(s)  BY <1>2, <2>1, <2>3
  <2>5. \A y \in partials' : Short(y.origin)  BY <1>1, <2>1
  <2> QED  BY <2>4, <2>5 DEF OriginsInv
<1>5. CASE MergeSums
  <2>1. PICK s \in sums, t \in sums :
          sums' = (sums \ {s, t}) \cup {MergeSummaries(CrossMetrics(s).val, CrossMetrics(t).val)}
    BY <1>5 DEF MergeSums
  <2>2. CrossMetrics(s).val = s /\ CrossMetrics(t).val = t  BY MetricsCross
  <2>3. MetricsMade(MergeSummaries(s, t))  BY <1>2, MetricsAdd
  <2>4. \A x \in sums' : MetricsMade(x)  BY <1>2, <2>1, <2>2, <2>3
  <2>5. partials' = partials  BY <1>5 DEF MergeSums
  <2> QED  BY <1>1, <2>4, <2>5 DEF OriginsInv
<1> QED  BY <1>3, <1>4, <1>5

LEMMA CoderStep == FlowInv /\ CoderInv /\ [FlowNext]_flowVars => CoderInv'
<1> SUFFICES ASSUME FlowInv, CoderInv, [FlowNext]_flowVars PROVE CoderInv'  OBVIOUS
<1>1. UNCHANGED <<schema, input, fused>>  BY Frame
<1>2. Shape /\ OnePlace /\ (\A w \in Workers : Tallied(bundle[w])) /\ PartialsInv  BY DEF FlowInv
<1>3. ASSUME UNCHANGED <<bundle, valid, dlq, errors>>, OriginsInv' PROVE CoderInv'
  <2>1. /\ \A i : Raw(i)' = Raw(i) /\ Ideal(i)' = Ideal(i)
        /\ \A x : Faithful(x)' <=> Faithful(x)
    BY <1>1, Fixed
  <2>2. CaseInv'  BY <1>1 DEF CoderInv, CaseInv
  <2>3. \A u \in Workers : Faithful(bundle[u])'
    <3> SUFFICES ASSUME NEW u \in Workers PROVE Faithful(bundle[u])'  OBVIOUS
    <3>1. Faithful(bundle[u]) /\ bundle'[u] = bundle[u]  BY <1>3 DEF CoderInv
    <3> QED  BY <2>1, <3>1 DEF Faithful
  <2>4. OutputsInv'  BY <1>3, <2>1 DEF CoderInv, OutputsInv
  <2>5. ErrorsInv'  BY <1>1, <1>3, <2>1 DEF CoderInv, ErrorsInv
  <2> QED  BY <1>3, <2>2, <2>3, <2>4, <2>5 DEF CoderInv
<1>4. ASSUME NEW w \in Workers, StartBundle(w) \/ Emit(w) \/ ProcessElement(w) \/ CrashBundle(w)
      PROVE  CoderInv'
  BY <1>1, <1>2, <1>4, BundleSteps
<1>5. ASSUME NEW w \in Workers, CommitBundle(w) PROVE CoderInv'
  BY <1>1, <1>2, <1>5, CommitStep
<1>6. CASE MergeAccumulators \/ ToOriginSummary \/ MergeSums
  <2>1. UNCHANGED <<bundle, valid, dlq, errors>>
    BY <1>6 DEF MergeAccumulators, ToOriginSummary, MergeSums, outputs
  <2>2. OriginsInv'  BY <1>2, <1>6, TallySteps DEF CoderInv
  <2> QED  BY <1>3, <2>1, <2>2
<1>7. CASE WriteMetrics \/ MetricsWriteFails \/ FinishEmpty \/ UNCHANGED flowVars
  <2>1. UNCHANGED <<bundle, valid, dlq, errors, partials, sums>>
    BY <1>7 DEF WriteMetrics, MetricsWriteFails, FinishEmpty, outputs, tallies, flowVars
  <2>2. OriginsInv'  BY <2>1 DEF CoderInv, OriginsInv
  <2> QED  BY <1>3, <2>1, <2>2
<1> QED  BY <1>4, <1>5, <1>6, <1>7 DEF FlowNext, Stopped

LEMMA CoderInitial == FlowInit => CoderInv
<1> SUFFICES ASSUME FlowInit PROVE CoderInv  OBVIOUS
<1>1. /\ bundle = [w \in Workers |-> Idle] /\ valid = <<>> /\ dlq = <<>>
      /\ partials = {} /\ sums = {} /\ errors = {} /\ CaseInv
  BY DEF FlowInit, CaseInv
<1>2. DOMAIN valid = {} /\ DOMAIN dlq = {}  BY <1>1
<1> QED  BY <1>1, <1>2, EmptyFaithful DEF CoderInv, OutputsInv, ErrorsInv, OriginsInv

LEMMA CoderMetrics == CoderInv => MetricsTransparent
BY MetricsCross DEF CoderInv, MetricsTransparent

LEMMA FlowInvariance == FlowSpec => [](FlowInv /\ CoderInv /\ MetricsExact)
BY FlowInitial, FlowStep, CoderInitial, CoderStep, CoderMetrics, PTL DEF FlowSpec

(* The metrics file counts every element exactly once, for any input, any  *)
(* bundles, failures and retries, any order of combining, and whether the  *)
(* stages are fused or exchange encoded metrics (OriginCombinerFn,         *)
(* MetricsSummaryCombinerFn, MetricsSinkDoFn and the coder of the          *)
(* metrics).                                                               *)
THEOREM CountedOnce == FlowSpec => []MetricsExact
BY FlowInvariance, PTL

(* Encoding between the stages changes nothing, for any schema, any input  *)
(* of the five sources, any bundles and retries and any limits of the      *)
(* coders: committed records and dead letters are those of enrichment and  *)
(* validation up to the type of a null, and an element fails only if its   *)
(* source refused it or if it exceeds a limit of the readers.              *)
THEOREM CodersChangeNothing == FlowSpec => []CodersTransparent
<1>1. FlowInv /\ CoderInv => CodersTransparent
  <2> SUFFICES ASSUME FlowInv, CoderInv PROVE CodersTransparent  OBVIOUS
  <2>1. MetricsTransparent  BY CoderMetrics
  <2>2. ASSUME NEW i \in Done
        PROVE  \E v \in {Validate(Emitted(input[i]).val)} :
                 /\ v.to = "valid" => i \in DOMAIN valid /\ Typeless(valid[i]) = Typeless(v.rec)
                 /\ v.to = "dlq" => i \in DOMAIN dlq /\ dlq[i] = v.letter
    <3>1. PICK v : v = Ideal(i)  OBVIOUS
    <3>2. v = Validate(Emitted(input[i]).val)  BY <3>1 DEF Ideal, Raw
    <3>3. CASE i \in DOMAIN valid
      <4>1. /\ Raw(i).st = "ok" /\ v.to = "valid" /\ valid[i] \in {v.rec, Typeless(v.rec)}
        BY <3>1, <3>3 DEF CoderInv, OutputsInv
      <4>2. i \in DOMAIN input  BY <3>3 DEF FlowInv, Shape
      <4>3. IsSeq(schema) /\ FromSource(Raw(i).val)  BY <4>1, <4>2, RawMade DEF CoderInv
      <4>4. WellMade(v.rec)  BY <3>1, <4>1, <4>3, Validated DEF Ideal
      <4>5. Typeless(Typeless(v.rec)) = Typeless(v.rec)  BY <4>4, TypelessFacts
      <4> QED  BY <3>2, <3>3, <4>1, <4>5
    <3>4. CASE i \in DOMAIN dlq
      <4>1. v.to = "dlq" /\ dlq[i] = v.letter  BY <3>1, <3>4 DEF CoderInv, OutputsInv
      <4> QED  BY <3>2, <3>4, <4>1
    <3> QED  BY <3>3, <3>4 DEF Done
  <2>3. ASSUME NEW i \in errors
        PROVE  \E raw \in {Emitted(input[i])} : raw.st = "ok" =>
                 /\ ~fused
                 /\ \E v \in {Validate(raw.val)} : \/ ~Sizeable(raw.val) \/ ~Sizeable(v.rec)
                                                   \/ Len(v.letter.payload) > MaxBytes
    BY DEF CoderInv, ErrorsInv, TooLarge, Raw, Ideal
  <2> QED  BY <2>1, <2>2, <2>3 DEF CodersTransparent
<1> QED  BY <1>1, FlowInvariance, PTL

=============================================================================
