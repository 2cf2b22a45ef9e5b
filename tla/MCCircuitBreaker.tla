-------------------------- MODULE MCCircuitBreaker --------------------------
(* Small instances of CircuitBreaker.  Recovers is a liveness property, so *)
(* the callers are not declared symmetric.                                 *)
EXTENDS CircuitBreaker
=============================================================================
