-------------------------- MODULE MCCircuitBreaker --------------------------
(***************************************************************************)
(* Model values for the instances of CircuitBreaker.                       *)
(***************************************************************************)
EXTENDS CircuitBreaker
CONSTANTS r1, r2
=============================================================================
