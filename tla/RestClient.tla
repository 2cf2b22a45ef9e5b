----------------------------- MODULE RestClient -----------------------------
(***************************************************************************)
(* HTTPClient.Do, composed with the circuit breaker it sends through and   *)
(* the token bucket it waits at: the calls of the pages of one worker,     *)
(* which share one client, the retries of a call, and the runner's retries *)
(* of the page behind it.  Callers of the breaker are the pages.           *)
(*                                                                         *)
(* Every sleep, jittered or asked for by Retry-After, is a wait of any     *)
(* length.  "healthy" covers what can make a request fail: the service and *)
(* a cancelled context, whose requests the breaker counts as failures too. *)
(***************************************************************************)
EXTENDS CircuitBreaker

CONSTANTS MaxRetries,   \* retries of one call of Do
          Interval      \* ticks per token, 1 / RateLimitRPS

ASSUME RetriesAssumption  == MaxRetries \in Nat
ASSUME IntervalAssumption == Interval \in Nat

VARIABLES
  where,    \* of each page: where its call of Do stands
  attempt,  \* the loop variable of Do
  refill    \* ticks since the bucket was emptied

client == <<where, attempt, refill>>
clientVars == <<vars, client>>

Pages == Callers

ClientInit ==
  /\ Init
  /\ where = [c \in Pages |-> "idle"] /\ attempt = [c \in Pages |-> 0]
  /\ refill = Interval

Move(c, label) == where' = [where EXCEPT ![c] = label]

-----------------------------------------------------------------------------
(* Do that looks at the breaker's state as it was last left. *)
DoOnStaleState(c) ==
  /\ where[c] = "idle"
  /\ state # "Open"
  /\ Move(c, "waiting")
  /\ attempt' = [attempt EXCEPT ![c] = 0]
  /\ UNCHANGED <<vars, refill>>

(* The runner reads a page: Do fails at once when the circuit is open. *)
Do(c) ==
  /\ where[c] = "idle"
  /\ Become(checkStateTransition)
  /\ IF state' = "Open"
       THEN UNCHANGED client
       ELSE /\ Move(c, "waiting")
            /\ attempt' = [attempt EXCEPT ![c] = 0]
            /\ UNCHANGED refill
  /\ UNCHANGED <<pc, healthy, history>>

(* TokenBucket.Wait: the bucket holds one token at most, refilled once per *)
(* interval, whoever waits for it.                                         *)
Wait(c) ==
  /\ where[c] = "waiting"
  /\ refill >= Interval
  /\ refill' = 0
  /\ Move(c, "sending")
  /\ UNCHANGED <<vars, attempt>>

(* After a failed or refused request: sleep and retry, or give up. *)
AfterFailure(c) ==
  Move(c, IF attempt[c] < MaxRetries THEN "sleeping" ELSE "idle")

(* A send around the breaker: the request goes out whatever its state. *)
SendDirectly(c) ==
  /\ where[c] = "sending"
  /\ Become(checkStateTransition)
  /\ pc' = [pc EXCEPT ![c] = "call"]
  /\ Move(c, "out")
  /\ UNCHANGED <<healthy, history, attempt, refill>>

(* sendWithCircuitBreaker: admitted by Execute, or refused.  A refusal is  *)
(* one more failed attempt; the loop goes on.                              *)
Send(c) ==
  /\ where[c] = "sending"
  /\ Admit(c)
  /\ IF pc'[c] = "call"
       THEN Move(c, "out")
       ELSE AfterFailure(c)
  /\ UNCHANGED <<attempt, refill>>

(* An error, or a status of 429 or 5xx. *)
Transient(c) ==
  /\ where[c] = "out"
  /\ Failed(c)
  /\ AfterFailure(c)
  /\ UNCHANGED <<attempt, refill>>

(* Any other status: the breaker takes it for a success.  ReadPage accepts *)
(* 2xx only; with the rest the page fails and the runner reads it again.   *)
Answer(c) ==
  /\ where[c] = "out"
  /\ Succeeded(c)
  /\ Move(c, "read") \/ (~healthy /\ Move(c, "idle"))
  /\ UNCHANGED <<attempt, refill>>

(* A retry that does not count when the circuit refused the attempt. *)
WakeUncounted(c) ==
  /\ where[c] = "sleeping"
  /\ attempt' = [attempt EXCEPT ![c] = IF state = "Open" THEN @ ELSE @ + 1]
  /\ Move(c, "waiting")
  /\ UNCHANGED <<vars, refill>>

Wake(c) ==
  /\ where[c] = "sleeping"
  /\ attempt' = [attempt EXCEPT ![c] = @ + 1]
  /\ Move(c, "waiting")
  /\ UNCHANGED <<vars, refill>>

(* A cancelled context ends the two waits with an error. *)
Cancelled(c) ==
  /\ where[c] \in {"waiting", "sleeping"}
  /\ ~healthy
  /\ Move(c, "idle")
  /\ UNCHANGED <<vars, attempt, refill>>

ClientTick ==
  /\ Tick
  /\ refill' = CapAt(refill + 1, Interval)
  /\ UNCHANGED <<where, attempt>>

ClientService == Service /\ UNCHANGED client

ClientNext ==
  \/ \E c \in Pages : Do(c) \/ Wait(c) \/ Send(c) \/ Transient(c) \/ Answer(c)
                        \/ Wake(c) \/ Cancelled(c)
  \/ ClientTick \/ ClientService

(* Time passes, timers fire, requests are answered or time out, and the    *)
(* runner reads a failed page again.  Nothing is said of who gets a token. *)
ClientFairness ==
  /\ WF_clientVars(ClientTick)
  /\ \A c \in Pages :
       /\ WF_clientVars(Do(c)) /\ WF_clientVars(Send(c)) /\ WF_clientVars(Wake(c))
       /\ WF_clientVars(Transient(c) \/ Answer(c))
       /\ WF_clientVars(Wait(c))

ClientSpec == ClientInit /\ [][ClientNext]_clientVars /\ ClientFairness

-----------------------------------------------------------------------------
(* The client's variables keep their shape, and a request is out exactly   *)
(* when the breaker runs fn for it.                                        *)
ClientTypeOK ==
  /\ TypeOK
  /\ where \in [Pages -> {"idle", "waiting", "sending", "out", "sleeping", "read"}]
  /\ attempt \in [Pages -> 0..MaxRetries]
  /\ refill \in 0..Interval
  /\ \A c \in Pages : where[c] = "out" <=> pc[c] = "call"

(* While the circuit is open, nothing reaches the service before the       *)
(* timeout has passed: neither new calls nor the retries of calls that     *)
(* entered their loop while it was closed.                                 *)
RetriesShielded ==
  [][\A c \in Pages : state = "Open" /\ where[c] = "sending" /\ where'[c] = "out"
        => sinceOpen > timeout]_clientVars

(* A call that the bucket does not starve ends, however the breaker and    *)
(* the service behave: no retry loop waits for a circuit to close, or      *)
(* turns for ever on refusals.                                             *)
DoReturns ==
  \A c \in Pages :
    []<>(where[c] # "waiting") => (where[c] = "sending" ~> where[c] \in {"idle", "read"})

(* Once the service stays healthy, every page is read: the runner's        *)
(* retries, the client's retries, the bucket and the breaker that has to   *)
(* probe and close do not starve each other.                               *)
AllPagesRead == <>[]healthy => <>(\A c \in Pages : where[c] = "read")
=============================================================================
