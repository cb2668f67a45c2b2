---------------------------- MODULE MCSupervisor ----------------------------
(* Instances of Supervisor for TLC.                                        *)
EXTENDS Supervisor, TLC

CONSTANTS auth, users, frontend

\* The frontend needs both, the users service needs auth.
Chain == <<auth, users, frontend>>
ChainDeps == (auth :> {}) @@ (users :> {auth}) @@ (frontend :> {auth, users})
=============================================================================
