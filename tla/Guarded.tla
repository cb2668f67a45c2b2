------------------------------ MODULE Guarded -------------------------------
(***************************************************************************)
(* The generation-guarded run that an Action's dispatch and a Resource's   *)
(* fetch share (krab_core/src/action.rs, run_on_executor; resource.rs), as *)
(* it behaves in the browser, where a panic traps and does not unwind.     *)
(*                                                                         *)
(* One action or resource.  `pending` and `failed` are the signals of the  *)
(* same names of an Action; for a Resource they are the states Pending and *)
(* Error, and Ready is neither.  An input is what an action is dispatched  *)
(* with or what a resource's source returns; a successful run answers with *)
(* its input.                                                              *)
(*                                                                         *)
(* `wanted` and `lost` are history variables: the input asked for last,    *)
(* and whether a panic has swallowed that call.                            *)
(***************************************************************************)
EXTENDS Integers

CONSTANTS
    Inputs,      \* what an action or a resource may be asked for
    FirstInput   \* what a resource's source returns at first

NoInput == "nothing"

ASSUME GuardedAssumption == FirstInput \in Inputs /\ NoInput \notin Inputs

VARIABLES
    runGen,   \* generation
    runs,     \* futures on the executor
    pending,  \* set by begin, cleared by apply
    failed,   \* the error of the latest run
    value,    \* the latest answer
    wanted,   \* the input asked for last
    lost      \* whether a panic swallowed that call

guardedVars == <<runGen, runs, pending, failed, value, wanted, lost>>

GuardedTypeOK ==
    /\ runGen \in Nat
    /\ runs \subseteq [gen : Nat, input : Inputs]
    /\ pending \in BOOLEAN
    /\ failed \in BOOLEAN
    /\ value \in Inputs \cup {NoInput}
    /\ wanted \in Inputs \cup {NoInput}
    /\ lost \in BOOLEAN

\* create_action: nothing runs until it is dispatched.
CreateAction ==
    /\ runGen' = 0
    /\ runs' = {}
    /\ pending' = FALSE
    /\ failed' = FALSE
    /\ value' = NoInput
    /\ wanted' = NoInput
    /\ lost' = FALSE

\* create_resource: the effect that tracks the source fetches at once.
CreateResource ==
    /\ runGen' = 1
    /\ runs' = {[gen |-> 1, input |-> FirstInput]}
    /\ pending' = TRUE
    /\ failed' = FALSE
    /\ value' = NoInput
    /\ wanted' = FirstInput
    /\ lost' = FALSE

\* create_resource_with_initial: ready with the server's value; the first run
\* of the effect only tracks the source.
CreateSeeded ==
    /\ runGen' = 0
    /\ runs' = {}
    /\ pending' = FALSE
    /\ failed' = FALSE
    /\ value' = FirstInput
    /\ wanted' = FirstInput
    /\ lost' = FALSE

-----------------------------------------------------------------------------
\* A run: the generation, the future, the writes of begin, the executor.
\* Dispatch, a change of the source and refetch all end here.
Ask(x) ==
    /\ runGen' = runGen + 1
    /\ runs' = runs \cup {[gen |-> runGen + 1, input |-> x]}
    /\ pending' = TRUE
    /\ failed' = FALSE
    /\ wanted' = x
    /\ lost' = FALSE
    /\ UNCHANGED value

\* The factory panics: the generation has moved, and nothing else has.
FactoryPanics(x) ==
    /\ runGen' = runGen + 1
    /\ wanted' = x
    /\ lost' = TRUE
    /\ UNCHANGED <<runs, pending, failed, value>>

\* Every answer is applied.
CompleteAny(r, ok) ==
    /\ r \in runs
    /\ runs' = runs \ {r}
    /\ pending' = FALSE
    /\ failed' = ~ok
    /\ value' = IF ok THEN r.input ELSE value
    /\ UNCHANGED <<runGen, wanted, lost>>

\* A future completes; the answer of a superseded run is dropped.
Complete(r, ok) ==
    /\ r \in runs
    /\ runs' = runs \ {r}
    /\ \/ /\ r.gen # runGen
          /\ UNCHANGED <<pending, failed, value>>
       \/ /\ r.gen = runGen
          /\ pending' = FALSE
          /\ failed' = ~ok
          /\ value' = IF ok THEN r.input ELSE value
    /\ UNCHANGED <<runGen, wanted, lost>>

\* A future panics while it is polled: in the browser the task is gone.
PollTraps(r) ==
    /\ r \in runs
    /\ runs' = runs \ {r}
    /\ lost' = (lost \/ r.gen = runGen)
    /\ UNCHANGED <<runGen, pending, failed, value, wanted>>

-----------------------------------------------------------------------------
\* However answers overlap and overtake one another, the spinner turns
\* exactly while the latest call is under way, and a value shown without
\* spinner or error answers the latest call - unless a panic swallowed that
\* call (action.rs, run_on_executor; resource.rs, fetch).
ShowsLatest ==
    /\ (\E r \in runs : r.gen = runGen) => pending
    /\ ~lost => /\ pending => \E r \in runs : r.gen = runGen
                /\ pending \/ failed \/ value = wanted
=============================================================================
