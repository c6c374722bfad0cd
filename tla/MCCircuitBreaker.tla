-------------------------- MODULE MCCircuitBreaker --------------------------
(* Instances of CircuitBreaker for TLC. *)
EXTENDS CircuitBreaker, TLC

(* Runs without a liveness property may permute the callers. *)
Symmetry == Permutations(Callers)
=============================================================================
