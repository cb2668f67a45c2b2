--------------------------- MODULE MCMemoryStore ----------------------------
(* Instances of MemoryStore for TLC.                                       *)
EXTENDS MemoryStore, TLC

\* Keys and tasks are interchangeable.
Symmetry == Permutations(Key) \cup Permutations(Task)
=============================================================================
