--------------------------- MODULE CircuitBreaker ---------------------------
(***************************************************************************)
(* The circuit breaker that guards the REST client and the SQL source.     *)
(* Execute takes the lock twice, to admit the call and to account for its  *)
(* outcome; fn runs in between without it, so that other callers, the      *)
(* clock and State() move on while a call is out.                          *)
(*                                                                         *)
(* Time counts in ticks; age is time.Since(lastStateChg), of which the     *)
(* code only asks whether it exceeds the timeout, and stops counting there.*)
(***************************************************************************)
EXTENDS Integers, FiniteSets

CONSTANTS Callers,
          MaxFailures, HalfOpenLimit, Timeout   \* Settings; 0 takes a default

ASSUME CallersAssumption  == Callers # {} /\ IsFiniteSet(Callers)
ASSUME SettingsAssumption ==
  MaxFailures \in Nat /\ HalfOpenLimit \in Nat /\ Timeout \in Nat

(* NewCircuitBreaker: zero means 1, for the timeout too (in seconds). *)
OrOne(setting) == IF setting = 0 THEN 1 ELSE setting
maxFailures   == OrOne(MaxFailures)
halfOpenLimit == OrOne(HalfOpenLimit)
timeout       == OrOne(Timeout)

VARIABLES
  state,      \* "Closed", "HalfOpen" or "Open"
  failures,   \* the failure counter
  successes,  \* the success counter
  age,        \* how long ago lastStateChg was set
  pc,         \* of each caller: "idle", or fn runs: "call"
  healthy,    \* the service behind fn; an unhealthy one may fail
  \* History, which no step reads.
  okRun,      \* the calls that came back in a row with success
  sinceOpen   \* how long ago the circuit last opened

breaker == <<state, failures, successes, age>>
history == <<okRun, sinceOpen>>
vars == <<breaker, pc, healthy, history>>

Expired == timeout + 1           \* ages are capped here
CapAt(n, cap) == IF n > cap THEN cap ELSE n

NewCircuitBreaker ==
  /\ state = "Closed" /\ failures = 0 /\ successes = 0 /\ age = 0

Init ==
  /\ NewCircuitBreaker
  /\ pc = [c \in Callers |-> "idle"]
  /\ healthy \in BOOLEAN
  /\ okRun = 0 /\ sinceOpen = 0

-----------------------------------------------------------------------------
(* time.Since(lastStateChg) > timeout *)
TimedOut == age > timeout

(* The transition without the reset of the failure counter. *)
TransitionKeepsFailures ==
  IF state = "Open" /\ TimedOut
    THEN [state |-> "HalfOpen", failures |-> failures, successes |-> 0, age |-> 0]
    ELSE [state |-> state, failures |-> failures, successes |-> successes, age |-> age]

(* The transition without the reset of the success counter. *)
TransitionKeepsSuccesses ==
  IF state = "Open" /\ TimedOut
    THEN [state |-> "HalfOpen", failures |-> 0, successes |-> successes, age |-> 0]
    ELSE [state |-> state, failures |-> failures, successes |-> successes, age |-> age]

(* The breaker as checkStateTransition leaves it. *)
checkStateTransition ==
  IF state = "Open" /\ TimedOut
    THEN [state |-> "HalfOpen", failures |-> 0, successes |-> 0, age |-> 0]
    ELSE [state |-> state, failures |-> failures, successes |-> successes, age |-> age]

Become(b) ==
  /\ state' = b.state /\ failures' = b.failures
  /\ successes' = b.successes /\ age' = b.age

(* State(): a caller that only looks also moves an open breaker on. *)
State ==
  /\ Become(checkStateTransition)
  /\ UNCHANGED <<pc, healthy, history>>

(* Execute that calls fn in the open state too. *)
AdmitWhenOpen(c) ==
  /\ pc[c] = "idle"
  /\ Become(checkStateTransition)
  /\ pc' = [pc EXCEPT ![c] = "call"]
  /\ UNCHANGED <<healthy, history>>

(* The first half of Execute: ErrCircuitOpen, or fn is called. *)
Admit(c) ==
  /\ pc[c] = "idle"
  /\ Become(checkStateTransition)
  /\ IF state' = "Open" THEN UNCHANGED pc ELSE pc' = [pc EXCEPT ![c] = "call"]
  /\ UNCHANGED <<healthy, history>>

Returned(c) == pc[c] # "idle" /\ pc' = [pc EXCEPT ![c] = "idle"]

(* Failed that leaves lastStateChg alone when it opens the circuit. *)
FailedKeepsAge(c) ==
  /\ Returned(c)
  /\ ~healthy
  /\ failures' = failures + 1
  /\ IF state = "HalfOpen" \/ failures + 1 >= maxFailures
       THEN state' = "Open"
       ELSE UNCHANGED state
  /\ okRun' = 0
  /\ sinceOpen' = IF state # "Open" /\ state' = "Open" THEN 0 ELSE sinceOpen
  /\ UNCHANGED <<age, successes, healthy>>

(* The second half of Execute, after fn returned an error. *)
Failed(c) ==
  /\ Returned(c)
  /\ ~healthy
  /\ failures' = failures + 1
  /\ IF state = "HalfOpen" \/ failures + 1 >= maxFailures
       THEN state' = "Open" /\ age' = 0
       ELSE UNCHANGED <<state, age>>
  /\ okRun' = 0
  /\ sinceOpen' = IF state # "Open" /\ state' = "Open" THEN 0 ELSE sinceOpen
  /\ UNCHANGED <<successes, healthy>>

Close == state' = "Closed" /\ failures' = 0 /\ successes' = 0 /\ age' = 0

(* Succeeded that counts in the half-open state but never closes. *)
SucceededNeverCloses(c) ==
  /\ Returned(c)
  /\ successes' = IF state = "HalfOpen" /\ successes + 1 < halfOpenLimit
                    THEN successes + 1 ELSE successes
  /\ okRun' = CapAt(okRun + 1, halfOpenLimit)
  /\ UNCHANGED <<state, failures, age, healthy, sinceOpen>>

(* Succeeded that lets the failure counter decay. *)
SucceededDecays(c) ==
  /\ Returned(c)
  /\ failures' = failures - 1
  /\ okRun' = CapAt(okRun + 1, halfOpenLimit)
  /\ UNCHANGED <<state, successes, age, healthy, sinceOpen>>

(* The second half of Execute, after fn returned nil. *)
Succeeded(c) ==
  /\ Returned(c)
  /\ \/ state # "HalfOpen" /\ UNCHANGED breaker
     \/ /\ state = "HalfOpen" /\ successes + 1 < halfOpenLimit
        /\ successes' = successes + 1
        /\ UNCHANGED <<state, failures, age>>
     \/ state = "HalfOpen" /\ successes + 1 >= halfOpenLimit /\ Close
  /\ okRun' = CapAt(okRun + 1, halfOpenLimit)
  /\ UNCHANGED <<healthy, sinceOpen>>

-----------------------------------------------------------------------------
(* External: the clock, and the service going down and coming back. *)

Tick ==
  /\ age' = CapAt(age + 1, Expired)
  /\ sinceOpen' = CapAt(sinceOpen + 1, Expired)
  /\ UNCHANGED <<state, failures, successes, pc, healthy, okRun>>

Service ==
  /\ healthy' = ~healthy
  /\ UNCHANGED <<breaker, pc, history>>

Next ==
  \/ \E c \in Callers : Admit(c) \/ Failed(c) \/ Succeeded(c)
  \/ State \/ Tick \/ Service

(* Time passes, callers keep calling and every call of fn returns (the     *)
(* HTTP client and the database driver have timeouts of their own).        *)
Fairness ==
  /\ WF_vars(Tick)
  /\ \A c \in Callers : WF_vars(Admit(c)) /\ WF_vars(Failed(c) \/ Succeeded(c))

Spec == Init /\ [][Next]_vars /\ Fairness

-----------------------------------------------------------------------------
(* The counters, the clocks and the callers stay in shape. *)
TypeOK ==
  /\ state \in {"Closed", "HalfOpen", "Open"}
  /\ failures \in Nat /\ successes \in Nat
  /\ age \in 0..Expired /\ sinceOpen \in 0..Expired
  /\ pc \in [Callers -> {"idle", "call"}]
  /\ healthy \in BOOLEAN
  /\ okRun \in 0..halfOpenLimit

(* The counters always belong to the present state, whichever calls of an  *)
(* earlier one are still out: a closed circuit has room for a failure and  *)
(* no leftover successes, a half-open one starts from no failure and has   *)
(* not yet enough successes (Execute, checkStateTransition).               *)
CountersCurrent ==
  /\ state = "Closed" => failures < maxFailures /\ successes = 0
  /\ state = "HalfOpen" => failures = 0 /\ successes < halfOpenLimit

(* The calls that are out: fn is running. *)
Out == {c \in Callers : pc[c] # "idle"}

(* The failure counter does not run away while the circuit is open: only   *)
(* the calls that were out when it opened can still add to it, so a uint32 *)
(* never wraps (Execute).                                                  *)
FailuresBounded == failures < maxFailures + Cardinality(Callers)

(* The circuit closes only after halfOpenLimit calls in a row succeeded:   *)
(* no failure between them, whatever late answers come in.                 *)
ClosesOnSuccesses ==
  [][state # "Closed" /\ state' = "Closed" => okRun' >= halfOpenLimit]_vars

(* An open circuit shields the service: fn is not called before the        *)
(* timeout since it opened has passed, late failures or not.               *)
OpenShields ==
  [][\A c \in Callers : state = "Open" /\ pc[c] = "idle" /\ pc'[c] # "idle"
        => sinceOpen > timeout]_vars

(* The breaker recovers: once the service stays healthy, it closes and     *)
(* stays closed (checkStateTransition, Execute).                           *)
Recovers == <>[]healthy => <>[](state = "Closed")
=============================================================================
