-------------------------- MODULE MCCircuitBreaker --------------------------
(* Small instances of CircuitBreaker for TLC. *)
EXTENDS CircuitBreaker, TLC

\* Requests are interchangeable: nothing but a history variable names one.
RequestSymmetry == Permutations(Requests)

=============================================================================
