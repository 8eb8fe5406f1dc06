-------------------------- MODULE MCCircuitBreaker --------------------------
(* CircuitBreaker for TLC: requests are interchangeable. *)
EXTENDS CircuitBreaker, TLC

Symmetry == Permutations(Requests)
=============================================================================
