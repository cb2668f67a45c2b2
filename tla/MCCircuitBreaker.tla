-------------------------- MODULE MCCircuitBreaker --------------------------
(* Instances of CircuitBreaker for TLC.                                    *)
EXTENDS CircuitBreaker, TLC

\* Two failures in a row, or half of at least two samples.
TwoPolicies ==
    {[kind |-> "consecutive", threshold |-> 2],
     [kind |-> "rate", num |-> 1, den |-> 2, min_samples |-> 2]}

Symmetry == Permutations(Caller)
=============================================================================
