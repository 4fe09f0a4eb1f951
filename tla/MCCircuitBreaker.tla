-------------------------- MODULE MCCircuitBreaker --------------------------
(* A breaker with one half-open slot and two successes to close, the       *)
(* defaults of the code, and a failure threshold of two instead of five.   *)
EXTENDS CircuitBreaker
CONSTANTS c1, c2, c3
MCCallers == {c1, c2, c3}
=============================================================================
