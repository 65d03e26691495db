-------------------------- MODULE MCCircuitBreaker --------------------------
(* TLC instances of CircuitBreaker: see the .cfg files of the same prefix.   *)
EXTENDS CircuitBreaker

CONSTANTS c1, c2, c3
=============================================================================
