---------------------------- MODULE MCIsrServing ----------------------------
(* Instances of IsrServing for TLC.                                        *)
EXTENDS IsrServing

CONSTANT replica

\* Both connections reach one replica; the store is shared with others anyway.
OneReplica == [r \in Request |-> replica]
=============================================================================
