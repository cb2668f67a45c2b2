----------------------------- MODULE MCSignals ------------------------------
(* Instances of Signals for TLC.                                           *)
EXTENDS Signals, TLC

CONSTANTS a, b, m, e1, e2

\* A signal read directly and through a memo, and two effects that write what
\* the other reads: a diamond and a cycle.
DiamondDeps == (m :> {a}) @@ (e1 :> {a, m}) @@ (e2 :> {b})
CrossWrites == (e1 :> {b}) @@ (e2 :> {a})
=============================================================================
