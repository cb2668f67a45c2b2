------------------------------ MODULE Browser -------------------------------
(***************************************************************************)
(* The browser client: the router, the hydration of the island in the page *)
(* on screen (krab_client/src/hydration.rs, resources.rs), the action or   *)
(* resource that the island holds and the region that shows its value.     *)
(*                                                                         *)
(* Every hydration of the island gets a number; it registers closures and  *)
(* regions under it.  A swap by the router unmounts the island on screen   *)
(* and hydrates the next page's.  On wasm a panic is a trap, caught by the *)
(* trampoline around each island: the boundary is stamped `error`, its     *)
(* content replaced, and what it had registered released, in a second      *)
(* isolated call that may trap as well.                                    *)
(*                                                                         *)
(* The boundary states `patched` and `decode-error` bind as `ok` does and  *)
(* are not told apart from it.  The region is a closure that reads the     *)
(* value and, for a resource, its state; the regions nested in it read     *)
(* signals of their own.  Reconcile is what an update does to the page.    *)
(*                                                                         *)
(* A region that has never been updated has no anchor by which unmount     *)
(* could find it, and its effect goes on: the answer that its island was   *)
(* waiting for makes it an anchor and registers it after all (`adrift`,    *)
(* `late`).  Of the futures of an island that has left the screen nothing  *)
(* else is kept, for they write to its own signals; nor is what such an    *)
(* effect does to the nodes of a page that keeps them (`strays`).          *)
(***************************************************************************)
EXTENDS Router, Guarded, Reconcile

CONSTANTS
    Holds,      \* what a page's island holds: "action", "resource" or "seeded"
    Fallback,   \* what a region renders while its resource has no value yet
    Views,      \* what a page's region renders, for each value
    NestedRuns, \* how many nodes a nested region may come to render
    MaxLate     \* bound on the late answers of a document

Kinds == {"action", "resource", "seeded"}

ASSUME BrowserAssumption ==
    /\ Holds \in [Pages -> Kinds]
    /\ \A p \in Pages : DOMAIN Views[p] = Inputs \cup {NoInput}
    /\ NestedRuns \subseteq Nat
    /\ MaxLate \in Nat

\* A nested region is adopted with at least one node.
ASSUME NestedAssumption ==
    \A view \in {Fallback} \cup UNION {{Views[p][v] : v \in DOMAIN Views[p]} : p \in Pages} :
        \A i \in DOMAIN view : view[i].kind = "dynamic" => view[i].run > 0

VARIABLES
    boundary,   \* data-krab-boundary-state of the island on screen
    hydrations, \* hydrations of this document so far
    mounted,    \* the hydration on screen, 0 for none
    owners,     \* hydrations with closures or regions in the registries
    trapped,    \* hydrations whose release trapped
    adrift,     \* hydrations off screen whose region's effect may get an answer
    late,       \* hydrations that an answer registered after they had left
    region,     \* the region of the island on screen
    strays      \* hydrations that left a region's effect to a page that stays

islandVars == <<boundary, hydrations, mounted, owners, trapped, adrift, late>>
regionVars == <<region, strays>>
vars == <<routerVars, guardedVars, islandVars, regionVars>>

BoundaryStates == {"none", "ssr", "ok", "error", "missing-definition"}

TypeOK ==
    /\ RouterTypeOK
    /\ GuardedTypeOK
    /\ boundary \in BoundaryStates
    /\ hydrations \in Nat
    /\ mounted \in 0..hydrations
    /\ owners \subseteq 1..hydrations
    /\ trapped \subseteq 1..hydrations
    /\ adrift \subseteq 1..hydrations
    /\ late \subseteq 1..hydrations
    /\ DOMAIN region = {"render", "tracked", "children", "inner", "swapped", "outgrown"}
    /\ strays \subseteq 1..hydrations

-----------------------------------------------------------------------------
boundary_is_hydrated(state) == state \notin {"ssr", "none"}

\* What the region renders: the fallback while a resource has no value yet.
ViewOf(page, awaiting, v) ==
    IF Holds[page] # "action" /\ awaiting /\ v = NoInput THEN Fallback ELSE Views[page][v]

\* The island's factory runs: it creates the action or the resource, and the
\* region adopts the markup.
CreateIsland(page) ==
    /\ \/ Holds[page] = "action" /\ CreateAction
       \/ Holds[page] = "resource" /\ CreateResource
       \/ Holds[page] = "seeded" /\ CreateSeeded
    /\ region' = Hydrated(ViewOf(page, pending', value'))

\* No island is bound: nothing is held and no region is tracked.
NoIsland ==
    /\ CreateAction
    /\ region' = Hydrated(<<>>)

\* The region's effect runs on what it reads now, if it is to run.
Rerender(noticed) ==
    /\ region' = IF noticed THEN Updated(region, ViewOf(shown, pending', value')) ELSE region
    /\ UNCHANGED strays

\* Nothing of the island leads to its region: no anchor is there to be found.
Unanchored == ~Contains(region.children, Anchor)

\* The latest call of the island on screen has not been answered.
Awaiting == \E r \in runs : r.gen = runGen

\* hydrate_boundary behind the trampoline: `n` is its number, `kept` what the
\* registries hold already.  When the island traps, the content that is replaced
\* is released, with what those that `left` had registered in it; but the
\* region's effect may have been made, and awaits its answer.
HydrateBoundary(page, n, kept, gone, left) ==
    /\ hydrations' = n
    /\ UNCHANGED late
    /\ \/ /\ boundary' = "ok"
          /\ mounted' = n
          /\ owners' = kept \cup {n}
          /\ adrift' = gone
          /\ strays' = left
          /\ UNCHANGED trapped
          /\ CreateIsland(page)
       \/ /\ boundary' = "missing-definition"
          /\ mounted' = 0
          /\ owners' = kept
          /\ adrift' = gone
          /\ strays' = left
          /\ UNCHANGED trapped
          /\ NoIsland
       \/ /\ boundary' = "error"
          /\ mounted' = 0
          /\ \/ owners' = kept \ left /\ UNCHANGED trapped
             \/ owners' = kept \cup {n} /\ trapped' = trapped \cup {n}
          /\ adrift' = gone \cup (IF Holds[page] = "resource" THEN {n} ELSE {})
          /\ strays' = {}
          /\ NoIsland

\* The content goes and its registrations stay.
NotUnmounted == owners

\* unmount: the registries let go of the island on screen, and of what has
\* been registered since for one that had its nodes in the page before.
Unmounted == owners \ ({mounted} \cup strays)

\* The islands whose effects outlive an unmount, and await an answer.
Surviving == adrift \cup {n \in {mounted} \ {0} : Unanchored /\ Awaiting}

Init ==
    /\ RouterInit
    /\ boundary = "ssr"
    /\ hydrations = 0
    /\ mounted = 0
    /\ owners = {}
    /\ trapped = {}
    /\ adrift = {}
    /\ late = {}
    /\ runGen = 0 /\ runs = {} /\ pending = FALSE /\ failed = FALSE
    /\ value = NoInput /\ wanted = NoInput /\ lost = FALSE
    /\ region = Hydrated(<<>>)
    /\ strays = {}

-----------------------------------------------------------------------------
Alone == UNCHANGED <<guardedVars, islandVars, regionVars>>

\* hydrate, hydrate_within, hydrate_within_selector or hydrate_island: what
\* has left `ssr` is skipped.
Hydrate ==
    /\ ~boundary_is_hydrated(boundary)
    /\ HydrateBoundary(shown, hydrations + 1, owners, adrift, strays)
    /\ UNCHANGED routerVars

\* The page unmounts the island itself and keeps its nodes.
Unmount ==
    /\ Event
    /\ mounted # 0
    /\ owners' = Unmounted
    /\ mounted' = 0
    /\ boundary' = "none"
    /\ adrift' = Surviving
    /\ strays' = strays \cup (IF Unanchored THEN {mounted} ELSE {})
    /\ NoIsland
    /\ UNCHANGED <<history, pos, shown, rendered, generation, docs, tasks, leaving,
                   asked, drift, hydrations, trapped, late>>

\* The router's swap: unmount the outlet, set its content, hydrate.
SwapOutlet(t, final) ==
    /\ Swap(t, final)
    /\ HydrateBoundary(final, hydrations + 1, Unmounted, Surviving, {})

\* A new document: nothing of the old one is left.
NewDocument ==
    /\ boundary' = "ssr"
    /\ hydrations' = 0
    /\ mounted' = 0
    /\ owners' = {}
    /\ trapped' = {}
    /\ adrift' = {}
    /\ late' = {}
    /\ strays' = {}
    /\ NoIsland

Arrive(t) ==
    \/ HardNavigate(t) /\ Alone
    \/ Abandon(t) /\ Alone
    \/ \E final \in Pages : SwapOutlet(t, final)

\* A set always notifies.  A resource's region reads its state, set by every
\* call, and its value; an action's region reads its value.
Call(x) ==
    /\ Event
    /\ mounted # 0
    /\ \/ Ask(x) /\ Rerender(Holds[shown] # "action")
       \/ FactoryPanics(x) /\ UNCHANGED regionVars
    /\ UNCHANGED <<history, pos, shown, rendered, generation, docs, tasks, leaving,
                   asked, drift, islandVars>>

\* Whether the end of a run has the region's effect run: once for all that its
\* batch sets, if any of that is read.
Notices(r, ok) == r.gen = runGen /\ (ok \/ Holds[shown] # "action")

Return(r) ==
    /\ \/ \E ok \in BOOLEAN : Complete(r, ok) /\ Rerender(Notices(r, ok))
       \/ PollTraps(r) /\ UNCHANGED regionVars
    /\ UNCHANGED <<routerVars, islandVars>>

\* The latest call of an island that has left the screen is answered: its
\* region's effect runs, finds a place for the anchor and registers the region.
\* An answer that has no effect run or finds no place changes nothing here.
LateAnswer(n) ==
    /\ Cardinality(late) < MaxLate
    /\ adrift' = adrift \ {n}
    /\ owners' = owners \cup {n}
    /\ late' = late \cup {n}
    /\ UNCHANGED <<routerVars, guardedVars, regionVars, boundary, hydrations, mounted, trapped>>

\* A signal that only the nested region at `a` reads is set.
NestedRenders(a, m) ==
    /\ Event
    /\ mounted # 0
    /\ region' = NestedUpdated(region, a, m)
    /\ UNCHANGED <<history, pos, shown, rendered, generation, docs, tasks, leaving,
                   asked, drift, guardedVars, islandVars, strays>>

Next ==
    \/ \E u \in Links : (ClickFragment(u) \/ ClickAway(u)) /\ Alone
    \/ \E i \in DOMAIN history : (TraverseFragment(i) \/ TraverseAway(i)) /\ Alone
    \/ \E t \in tasks : Arrive(t)
    \/ \E final \in Pages : Load(final) /\ NewDocument
    \/ \E i \in DOMAIN history, final \in Pages : Reload(i, final) /\ NewDocument
    \/ Hydrate
    \/ Unmount
    \/ \E x \in Inputs : Call(x)
    \/ \E r \in runs : Return(r)
    \/ \E n \in adrift : LateAnswer(n)
    \/ \E a \in DOMAIN region.inner, m \in NestedRuns : NestedRenders(a, m)

Spec == Init /\ [][Next]_vars

-----------------------------------------------------------------------------
\* Whatever is swapped, reloaded, unmounted or panics, closures and regions
\* stay registered only for the island on screen, for one whose release
\* itself trapped, or for one that left before its region's first update and
\* was answered afterwards, which is as far as unmount's documented limitation
\* goes (router.rs, navigate_to: unmount before set_inner_html; hydration.rs,
\* unmount and contain_failed_boundary).
NoOrphans == owners \subseteq {mounted} \cup trapped \cup late

\* Whatever renders follow one another, those of the nested regions included,
\* the page holds exactly the nodes of the latest renders, in their order,
\* between the siblings that are not the region's - unless an update put a
\* nested region in the place of another node, an adopted nested region had
\* rendered again before the region's first update, or an effect of an island
\* that left is in the page (reconcile.rs, reconcile_range, place_before and
\* update_dynamic_region).
LaidInOrder == region.swapped \/ region.outgrown \/ strays # {} \/ InOrder(region)
=============================================================================
