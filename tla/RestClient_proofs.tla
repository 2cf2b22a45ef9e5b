-------------------------- MODULE RestClient_proofs --------------------------
(***************************************************************************)
(* Proofs about the circuit breaker and the client that sends through it.  *)
(*                                                                         *)
(* First, for any callers and settings, the safety properties of           *)
(* CircuitBreaker.  The inductive invariant adds to CountersCurrent what   *)
(* ties the code's counters and timestamp to the history they stand for.   *)
(*                                                                         *)
(* Then, for any number of pages, retries and tokens, that the client uses *)
(* the breaker as the breaker expects (every step of HTTPClient.Do is a    *)
(* step of CircuitBreaker or leaves it alone), so that what is proved of   *)
(* the breaker holds under the client, and that retries are shielded.      *)
(***************************************************************************)
EXTENDS RestClient, FiniteSetTheorems, TLAPS

(* In the half-open state the counted successes came in a row. *)
SuccessesInARow == state = "HalfOpen" => okRun >= successes

(* Late failures only move lastStateChg forward. *)
OpenedBefore == state = "Open" => sinceOpen >= age

(* While the circuit is open every call that is out may still fail. *)
FailuresLeft ==
  state = "Open" => failures + Cardinality(Out) < maxFailures + Cardinality(Callers)

IInv ==
  /\ TypeOK /\ CountersCurrent
  /\ SuccessesInARow /\ OpenedBefore /\ FailuresLeft

(* The settings NewCircuitBreaker fills in are positive. *)
LEMMA Defaults ==
  /\ maxFailures \in Nat \ {0} /\ halfOpenLimit \in Nat \ {0} /\ timeout \in Nat \ {0}
  /\ Expired \in Nat /\ Expired > timeout
  BY SettingsAssumption DEF maxFailures, halfOpenLimit, timeout, OrOne, Expired

(* The calls that are out are callers, finitely many. *)
LEMMA OutFinite ==
  /\ IsFiniteSet(Out) /\ Cardinality(Out) \in Nat
  /\ Cardinality(Callers) \in Nat \ {0}
  /\ Cardinality(Out) <= Cardinality(Callers)
<1>1. Out \subseteq Callers  BY DEF Out
<1>2. IsFiniteSet(Out) /\ Cardinality(Out) <= Cardinality(Callers)
  BY <1>1, CallersAssumption, FS_Subset
<1>3. Cardinality(Out) \in Nat /\ Cardinality(Callers) \in Nat
  BY <1>2, CallersAssumption, FS_CardinalityType
<1>4. Cardinality(Callers) # 0  BY CallersAssumption, FS_EmptySet
<1> QED  BY <1>2, <1>3, <1>4

(* A call that returns leaves one call less out. *)
LEMMA ReturnedFacts ==
  ASSUME TypeOK, NEW c \in Callers, Returned(c)
  PROVE  /\ pc' \in [Callers -> {"idle", "call"}]
         /\ Cardinality(Out') \in Nat
         /\ Cardinality(Out') = Cardinality(Out) - 1
         /\ Cardinality(Out') < Cardinality(Callers)
<1>1. pc' \in [Callers -> {"idle", "call"}]  BY DEF TypeOK, Returned
<1>2. c \in Out /\ Out' = Out \ {c}  BY DEF Out, Returned, TypeOK
<1>3. Cardinality(Out') = Cardinality(Out) - 1
  <2> HIDE DEF Out
  <2> QED  BY <1>2, OutFinite, FS_RemoveElement
<1>4. Cardinality(Out) # 0
  <2> HIDE DEF Out
  <2> QED  BY <1>2, OutFinite, FS_EmptySet
<1> QED
  <2> HIDE DEF Out
  <2> QED  BY <1>1, <1>3, <1>4, OutFinite

(* The invariant holds of a new breaker. *)
LEMMA Initial == Init => IInv
<1> SUFFICES ASSUME Init PROVE IInv  OBVIOUS
<1> USE Defaults DEF Init, NewCircuitBreaker
<1>1. TypeOK  BY DEF TypeOK
<1>2. CountersCurrent /\ SuccessesInARow /\ OpenedBefore /\ FailuresLeft
  BY DEF CountersCurrent, SuccessesInARow, OpenedBefore, FailuresLeft
<1> QED  BY <1>1, <1>2 DEF IInv

(* What checkStateTransition leaves keeps the invariant while no call      *)
(* starts or returns.                                                      *)
LEMMA StateInv == ASSUME IInv, State PROVE IInv'
<1> USE Defaults
<1>0. Out' = Out  BY DEF Out, State
<1>1. CASE state = "Open" /\ TimedOut
  <2>1. state' = "HalfOpen" /\ failures' = 0 /\ successes' = 0 /\ age' = 0
    BY <1>1 DEF State, Become, checkStateTransition
  <2>2. TypeOK'  BY <2>1 DEF IInv, TypeOK, State, history
  <2> QED
    BY <2>1, <2>2 DEF IInv, TypeOK, CountersCurrent, SuccessesInARow, OpenedBefore,
                      FailuresLeft, State, history
<1>2. CASE ~(state = "Open" /\ TimedOut)
  <2>1. UNCHANGED vars
    BY <1>2 DEF State, Become, checkStateTransition, vars, breaker
  <2> QED
    BY <1>0, <2>1 DEF IInv, TypeOK, CountersCurrent, SuccessesInARow, OpenedBefore,
                      FailuresLeft, vars, breaker, history
<1> QED  BY <1>1, <1>2

(* The three outcomes of asking to be admitted. *)
LEMMA AdmitCases ==
  ASSUME TypeOK, NEW c \in Callers, Admit(c)
  PROVE  \/ /\ state = "Open" /\ TimedOut
            /\ state' = "HalfOpen" /\ failures' = 0 /\ successes' = 0 /\ age' = 0
            /\ UNCHANGED <<healthy, history>>
            /\ pc' = [pc EXCEPT ![c] = "call"]
         \/ /\ state = "Open" /\ UNCHANGED vars
         \/ /\ state # "Open"
            /\ UNCHANGED <<breaker, healthy, history>>
            /\ pc' = [pc EXCEPT ![c] = "call"]
  BY DEF TypeOK, Admit, Become, checkStateTransition, vars, breaker

(* Admitting a call keeps the invariant: in the open state nothing starts. *)
LEMMA AdmitInv == ASSUME IInv, NEW c \in Callers, Admit(c) PROVE IInv'
<1> USE Defaults
<1>0. TypeOK  BY DEF IInv
<1>1. CASE /\ state = "Open" /\ TimedOut
           /\ state' = "HalfOpen" /\ failures' = 0 /\ successes' = 0 /\ age' = 0
           /\ UNCHANGED <<healthy, history>>
           /\ pc' = [pc EXCEPT ![c] = "call"]
  <2>1. TypeOK'  BY <1>0, <1>1 DEF TypeOK, history
  <2> QED
    BY <1>0, <1>1, <2>1 DEF IInv, TypeOK, CountersCurrent, SuccessesInARow, OpenedBefore,
                      FailuresLeft, history
<1>2. CASE UNCHANGED vars
  <2>1. Out' = Out  BY <1>2 DEF Out, vars
  <2> QED
    BY <1>2, <2>1 DEF IInv, TypeOK, CountersCurrent, SuccessesInARow, OpenedBefore,
                      FailuresLeft, vars, breaker, history
<1>3. CASE /\ state # "Open"
           /\ UNCHANGED <<breaker, healthy, history>>
           /\ pc' = [pc EXCEPT ![c] = "call"]
  <2>1. TypeOK'  BY <1>0, <1>3 DEF TypeOK, breaker, history
  <2> QED
    BY <1>3, <2>1 DEF IInv, CountersCurrent, SuccessesInARow, OpenedBefore,
                      FailuresLeft, breaker, history
<1> QED  BY <1>0, <1>1, <1>2, <1>3, AdmitCases

(* A failure keeps it: it opens the circuit, or there is room for another, *)
(* or the circuit is open and one call less is out.                        *)
LEMMA FailedInv == ASSUME IInv, NEW c \in Callers, Failed(c) PROVE IInv'
<1> USE Defaults
<1>0. TypeOK /\ Returned(c)  BY DEF IInv, Failed
<1>1. /\ Cardinality(Out) \in Nat /\ Cardinality(Out') \in Nat
      /\ Cardinality(Callers) \in Nat
      /\ Cardinality(Out') = Cardinality(Out) - 1
      /\ Cardinality(Out') < Cardinality(Callers)
  BY <1>0, ReturnedFacts, OutFinite
<1>2. TypeOK'
  <2>1. pc' \in [Callers -> {"idle", "call"}]  BY <1>0, ReturnedFacts
  <2> QED  BY <1>0, <2>1 DEF Failed, TypeOK, CapAt
<1>3. CountersCurrent' /\ SuccessesInARow'
  BY <1>0 DEF IInv, TypeOK, CountersCurrent, SuccessesInARow, Failed
<1>4. OpenedBefore'
  BY <1>0 DEF IInv, TypeOK, OpenedBefore, Failed
<1>5. FailuresLeft'
  BY <1>0, <1>1 DEF IInv, TypeOK, CountersCurrent, FailuresLeft, Failed
<1> QED  BY <1>2, <1>3, <1>4, <1>5 DEF IInv

(* A success keeps it: it closes the circuit or counts one more in a row. *)
LEMMA SucceededInv == ASSUME IInv, NEW c \in Callers, Succeeded(c) PROVE IInv'
<1> USE Defaults
<1>0. TypeOK /\ Returned(c)  BY DEF IInv, Succeeded
<1>1. /\ Cardinality(Out) \in Nat /\ Cardinality(Out') \in Nat
      /\ Cardinality(Callers) \in Nat
      /\ Cardinality(Out') = Cardinality(Out) - 1
  BY <1>0, ReturnedFacts, OutFinite
<1>2. TypeOK'
  <2>1. pc' \in [Callers -> {"idle", "call"}]  BY <1>0, ReturnedFacts
  <2> QED  BY <1>0, <2>1 DEF Succeeded, TypeOK, CapAt, Close, breaker
<1>3. CountersCurrent'
  BY <1>0 DEF IInv, TypeOK, CountersCurrent, Succeeded, Close, breaker
<1>4. SuccessesInARow'
  BY <1>0 DEF IInv, TypeOK, CountersCurrent, SuccessesInARow, Succeeded, Close, breaker, CapAt
<1>5. OpenedBefore' /\ FailuresLeft'
  BY <1>0, <1>1 DEF IInv, TypeOK, OpenedBefore, FailuresLeft, Succeeded, Close, breaker
<1> QED  BY <1>2, <1>3, <1>4, <1>5 DEF IInv

(* The clock, the service and stuttering keep it. *)
LEMMA OutsideInv == ASSUME IInv, Tick \/ Service \/ UNCHANGED vars PROVE IInv'
<1> USE Defaults
<1>0. Out' = Out  BY DEF Out, Tick, Service, vars
<1>1. CASE Tick
  BY <1>0, <1>1 DEF IInv, TypeOK, CountersCurrent, SuccessesInARow, OpenedBefore,
                    FailuresLeft, Tick, CapAt
<1>2. CASE Service
  BY <1>0, <1>2 DEF IInv, TypeOK, CountersCurrent, SuccessesInARow, OpenedBefore,
                    FailuresLeft, Service, breaker, history
<1>3. CASE UNCHANGED vars
  BY <1>0, <1>3 DEF IInv, TypeOK, CountersCurrent, SuccessesInARow, OpenedBefore,
                    FailuresLeft, vars, breaker, history
<1> QED  BY <1>1, <1>2, <1>3

(* The invariant is inductive. *)
LEMMA Invariance == Spec => []IInv
<1>1. IInv /\ [Next]_vars => IInv'
  <2> SUFFICES ASSUME IInv, [Next]_vars PROVE IInv'  OBVIOUS
  <2> QED  BY StateInv, AdmitInv, FailedInv, SucceededInv, OutsideInv DEF Next
<1> QED  BY Initial, <1>1, PTL DEF Spec

(* The breaker's counters, clocks and callers keep their types. *)
THEOREM TypeCorrect == Spec => []TypeOK
<1>1. IInv => TypeOK  BY DEF IInv
<1> QED  BY Invariance, <1>1, PTL

(* The counters belong to the present state under every interleaving of    *)
(* callers, late answers and the clock.                                    *)
THEOREM CountersOfState == Spec => []CountersCurrent
<1>1. IInv => CountersCurrent  BY DEF IInv
<1> QED  BY Invariance, <1>1, PTL

(* The failure counter stays below maxFailures plus the number of callers. *)
THEOREM NoRunaway == Spec => []FailuresBounded
<1>1. IInv => FailuresBounded
  BY Defaults, OutFinite
     DEF IInv, TypeOK, CountersCurrent, FailuresLeft, FailuresBounded
<1> QED  BY Invariance, <1>1, PTL

(* No circuit closes before halfOpenLimit successes in a row. *)
THEOREM ClosingEarned == Spec => ClosesOnSuccesses
<1>1. IInv /\ [Next]_vars
        => [state # "Closed" /\ state' = "Closed" => okRun' >= halfOpenLimit]_vars
  <2> SUFFICES ASSUME IInv, Next, state # "Closed", state' = "Closed"
               PROVE  okRun' >= halfOpenLimit
    OBVIOUS
  <2>1. ASSUME NEW c \in Callers, Admit(c) PROVE FALSE
    BY <2>1, AdmitCases DEF IInv, vars, breaker
  <2>2. ASSUME NEW c \in Callers, Failed(c) PROVE FALSE
    BY <2>2 DEF Failed
  <2>3. ASSUME NEW c \in Callers, Succeeded(c) PROVE okRun' >= halfOpenLimit
    BY <2>3, Defaults
       DEF IInv, TypeOK, SuccessesInARow, Succeeded, Close, breaker, CapAt
  <2>4. ~(State \/ Tick \/ Service)
    BY DEF State, Become, checkStateTransition, Tick, Service, breaker
  <2> QED  BY <2>1, <2>2, <2>3, <2>4 DEF Next
<1> QED  BY Invariance, <1>1, PTL DEF Spec, ClosesOnSuccesses

(* No call of fn starts in an open circuit before its timeout has passed. *)
THEOREM Shielded == Spec => OpenShields
<1> DEFINE A == \A c \in Callers : state = "Open" /\ pc[c] = "idle" /\ pc'[c] # "idle"
                                     => sinceOpen > timeout
<1>1. IInv /\ [Next]_vars => [A]_vars
  <2> SUFFICES ASSUME IInv, Next, NEW d \in Callers,
                      state = "Open", pc[d] = "idle", pc'[d] # "idle"
               PROVE  sinceOpen > timeout
    BY DEF A
  <2>1. ASSUME NEW c \in Callers, Admit(c) PROVE sinceOpen > timeout
    <3>1. TimedOut  BY <2>1, AdmitCases DEF IInv, vars
    <3> QED  BY <3>1, Defaults DEF IInv, TypeOK, OpenedBefore, TimedOut
  <2>2. ASSUME NEW c \in Callers, Returned(c) PROVE FALSE
    BY <2>2 DEF IInv, TypeOK, Returned
  <2>3. ~(State \/ Tick \/ Service)
    BY DEF State, Tick, Service
  <2> QED  BY <2>1, <2>2, <2>3 DEF Next, Failed, Succeeded
<1> QED  BY Invariance, <1>1, PTL DEF Spec, OpenShields

-----------------------------------------------------------------------------
(* The client. *)

(* Safety of the breaker alone. *)
BreakerSpec == Init /\ [][Next]_vars

(* A call that sleeps has a retry left. *)
RetryLeft == \A c \in Pages : where[c] = "sleeping" => attempt[c] < MaxRetries

ClientInv == IInv /\ ClientTypeOK /\ RetryLeft

(* A step of the client is a step of the breaker, or none at all. *)
LEMMA StepsOfBreaker == [ClientNext]_clientVars => [Next]_vars
<1> SUFFICES ASSUME [ClientNext]_clientVars PROVE [Next]_vars  OBVIOUS
<1>1. ASSUME NEW c \in Pages, Do(c) PROVE Next
  BY <1>1 DEF Do, State, Next
<1>2. ASSUME NEW c \in Pages, Wait(c) \/ Wake(c) \/ Cancelled(c) PROVE UNCHANGED vars
  BY <1>2 DEF Wait, Wake, Cancelled
<1>3. ASSUME NEW c \in Pages, Send(c) PROVE Next
  BY <1>3 DEF Send, Next, Pages
<1>4. ASSUME NEW c \in Pages, Transient(c) PROVE Next
  BY <1>4 DEF Transient, Next, Pages
<1>5. ASSUME NEW c \in Pages, Answer(c) PROVE Next
  BY <1>5 DEF Answer, Next, Pages
<1>6. ClientTick \/ ClientService => Next
  BY DEF ClientTick, ClientService, Next
<1>7. UNCHANGED clientVars => UNCHANGED vars
  BY DEF clientVars
<1> QED  BY <1>1, <1>2, <1>3, <1>4, <1>5, <1>6, <1>7 DEF ClientNext

(* The breaker's invariant is kept by its own steps. *)
LEMMA BreakerInv == ASSUME IInv, [Next]_vars PROVE IInv'
  BY StateInv, AdmitInv, FailedInv, SucceededInv, OutsideInv DEF Next

(* The client and its breaker keep in step: a request is out exactly when  *)
(* the breaker runs it, and no call is retried more than MaxRetries times. *)
LEMMA ClientStep == ASSUME ClientInv, [ClientNext]_clientVars PROVE ClientInv'
<1> DEFINE Labels == {"idle", "waiting", "sending", "out", "sleeping", "read"}
<1>0. IInv' /\ TypeOK'
  BY StepsOfBreaker, BreakerInv DEF ClientInv, IInv
<1>t. /\ where \in [Pages -> Labels] /\ attempt \in [Pages -> 0..MaxRetries]
      /\ refill \in 0..Interval /\ pc \in [Pages -> {"idle", "call"}]
      /\ \A c \in Pages : where[c] = "out" <=> pc[c] = "call"
      /\ \A c \in Pages : where[c] = "sleeping" => attempt[c] < MaxRetries
      /\ MaxRetries \in Nat /\ Interval \in Nat
  BY RetriesAssumption, IntervalAssumption DEF ClientInv, ClientTypeOK, TypeOK, Pages, RetryLeft
<1> DEFINE Shape == /\ where' \in [Pages -> Labels]
                    /\ attempt' \in [Pages -> 0..MaxRetries]
                    /\ refill' \in 0..Interval
                    /\ \A c \in Pages : where'[c] = "out" <=> pc'[c] = "call"
                    /\ \A c \in Pages : where'[c] = "sleeping" => attempt'[c] < MaxRetries
<1> HIDE DEF Labels
<1> SUFFICES Shape  BY <1>0 DEF ClientInv, ClientTypeOK, RetryLeft, Labels
<1>1. ASSUME NEW c \in Pages, Do(c) PROVE Shape
  BY <1>1, <1>t DEF Do, client, Move, Labels
<1>2. ASSUME NEW c \in Pages, Wait(c) PROVE Shape
  BY <1>2, <1>t DEF Wait, vars, Move, Labels
<1>3. ASSUME NEW c \in Pages, Send(c) PROVE Shape
  BY <1>3, <1>t DEF Send, Admit, AfterFailure, Move, Labels
<1>4. ASSUME NEW c \in Pages, Transient(c) PROVE Shape
  BY <1>4, <1>t DEF Transient, Failed, Returned, AfterFailure, Move, Labels
<1>5. ASSUME NEW c \in Pages, Answer(c) PROVE Shape
  BY <1>5, <1>t DEF Answer, Succeeded, Returned, Move, Labels
<1>6. ASSUME NEW c \in Pages, Cancelled(c) PROVE Shape
  BY <1>6, <1>t DEF Cancelled, vars, Move, Labels
<1>7. ASSUME ClientTick PROVE Shape
  BY <1>7, <1>t DEF ClientTick, Tick, CapAt
<1>8. ASSUME ClientService PROVE Shape
  BY <1>8, <1>t DEF ClientService, Service, client
<1>9. ASSUME UNCHANGED clientVars PROVE Shape
  BY <1>9, <1>t DEF clientVars, client, vars
<1>10. ASSUME NEW c \in Pages, Wake(c) PROVE Shape
  BY <1>10, <1>t DEF Wake, vars, Move, Labels
<1> QED
  BY <1>1, <1>2, <1>3, <1>4, <1>5, <1>6, <1>7, <1>8, <1>9, <1>10 DEF ClientNext

LEMMA ClientInvariance == ClientSpec => []ClientInv
<1>1. ClientInit => ClientInv
  <2> SUFFICES ASSUME ClientInit PROVE ClientInv  OBVIOUS
  <2>1. IInv  BY Initial DEF ClientInit
  <2>2. ClientTypeOK /\ RetryLeft
    BY <2>1, RetriesAssumption, IntervalAssumption
       DEF ClientInit, Init, IInv, ClientTypeOK, RetryLeft, Pages
  <2> QED  BY <2>1, <2>2 DEF ClientInv
<1>2. ClientInv /\ [ClientNext]_clientVars => ClientInv'  BY ClientStep
<1> QED  BY <1>1, <1>2, PTL DEF ClientSpec

(* The client's variables keep their types, and a request is out exactly   *)
(* when the breaker runs fn for it.                                        *)
THEOREM ClientTypes == ClientSpec => []ClientTypeOK
<1>1. ClientInv => ClientTypeOK  BY DEF ClientInv
<1> QED  BY ClientInvariance, <1>1, PTL

(* The client implements the breaker's specification (without fairness):   *)
(* HTTPClient.Do changes the breaker only as Execute and State() do, so    *)
(* the safety theorems on the breaker hold of it behind the client.        *)
THEOREM UsesBreaker == ClientSpec => BreakerSpec
<1>1. ClientInit => Init  BY DEF ClientInit
<1> QED  BY <1>1, StepsOfBreaker, PTL DEF ClientSpec, BreakerSpec

(* No request, first or retried, leaves for the service in an open circuit *)
(* before the timeout since it opened has passed.                          *)
THEOREM Retries == ClientSpec => RetriesShielded
<1> DEFINE A == \A c \in Pages : state = "Open" /\ where[c] = "sending" /\ where'[c] = "out"
                                   => sinceOpen > timeout
<1>1. ClientInv /\ [ClientNext]_clientVars => [A]_clientVars
  <2> SUFFICES ASSUME ClientInv, ClientNext, NEW d \in Pages,
                      state = "Open", where[d] = "sending", where'[d] = "out"
               PROVE  sinceOpen > timeout
    BY DEF A
  <2>0. where \in [Pages -> {"idle", "waiting", "sending", "out", "sleeping", "read"}]
    BY DEF ClientInv, ClientTypeOK
  <2>1. ASSUME NEW c \in Pages, Send(c) PROVE sinceOpen > timeout
    <3>1. c = d  BY <2>0, <2>1 DEF Send, Move, AfterFailure
    <3>2. pc'[d] = "call" /\ pc[d] = "idle"
      BY <2>0, <2>1, <3>1 DEF Send, Admit, Move, AfterFailure
    <3>3. state' # "Open"  BY <2>1, <3>1, <3>2 DEF Send, Admit
    <3>4. TimedOut  BY <2>1, <3>3 DEF Send, Admit, Become, checkStateTransition
    <3> QED  BY <3>4, Defaults DEF ClientInv, IInv, TypeOK, OpenedBefore, TimedOut
  <2>2. ASSUME NEW c \in Pages,
               Do(c) \/ Wait(c) \/ Transient(c) \/ Answer(c) \/ Wake(c) \/ Cancelled(c)
        PROVE  FALSE
    BY <2>0, <2>2
       DEF Do, Wait, Transient, Answer, Wake, Cancelled, AfterFailure, Move, client
  <2>3. ~(ClientTick \/ ClientService)
    BY DEF ClientTick, ClientService, client
  <2> QED  BY <2>1, <2>2, <2>3 DEF ClientNext
<1> QED  BY ClientInvariance, <1>1, PTL DEF ClientSpec, RetriesShielded
=============================================================================
