----------------------------- MODULE Reconcile ------------------------------
(***************************************************************************)
(* The reconciler of a dynamic region (krab_client/src/reconcile.rs): how  *)
(* reconcile_range turns the DOM nodes of one render into those of the     *)
(* next.  A pure algorithm on the parent's list of children.               *)
(*                                                                         *)
(* A render is a flat list of vnodes.  A vnode is an element with or       *)
(* without a key, a text or comment, or a dynamic region of its own, whose *)
(* `run` nodes stand before its anchor comment.  A nested region renders a *)
(* list of elements of one tag, and renders again by an effect of its own; *)
(* `inner` holds the nodes that each one tracks.  Attributes, listeners    *)
(* and the children of an element are left out: elements of one tag are    *)
(* patched, others replaced.                                               *)
(*                                                                         *)
(* Two history fields say what an update of the region has met: `swapped`  *)
(* that it put a nested region in the place of another node, `outgrown`    *)
(* that a nested region it had adopted had rendered again before it.       *)
(***************************************************************************)
EXTENDS Integers, Sequences, SequencesExt, FiniteSetsExt

NoKey == "no key"
Vnode(kind, tag, key, run) == [kind |-> kind, tag |-> tag, key |-> key, run |-> run]

\* A DOM node: the render that made it, the place of its vnode there, and 0
\* for the node that the parent tracks, or its place in a nested region's run.
Node(render, i, part) == <<render, i, part>>
NoNode == Node(-1, 0, 0)
Anchor == Node(0, 0, 1)
Left == Node(0, 0, 2)       \* the siblings around the region
Right == Node(0, 0, 3)

\* The first nodes of a region, beside its anchor.
Run(node, v) == [j \in 1..v.run |-> Node(node[1], node[2], j)]

\* create_dom_node: what a vnode puts into its parent.
Built(node, v) == Append(Run(node, v), node)

\* create_run_nodes: the nodes that the n-th render is tracked by.
Tracked(n, render) == [i \in DOMAIN render |-> Node(n, i, 0)]

\* The children that a fresh run puts into its parent, in order.
Laid(nodes, render) == FlattenSeq([i \in DOMAIN nodes |-> Built(nodes[i], render[i])])

\* The nested regions of the n-th render, by their anchors.
Nested(n, render) ==
    LET places == {i \in DOMAIN render : render[i].kind = "dynamic"}
    IN  [a \in {Node(n, i, 0) : i \in places} |-> Run(a, render[a[2]])]

\* A tracked node and what stands beside it if it is an anchor.
Content(region, node) == IF node \in DOMAIN region.inner THEN region.inner[node] ELSE <<>>
Owned(region, node) == Append(Content(region, node), node)

-----------------------------------------------------------------------------
Without(children, nodes) == SelectSeq(children, LAMBDA c : c \notin nodes)

Position(children, node) == SelectInSeq(children, LAMBDA c : c = node)

\* `nodes` in the place of `node`, which is a child.
ReplaceChild(children, nodes, node) ==
    ReplaceSubSeqAt(Position(children, node), nodes, <<node>>, children)

NextSibling(children, node) ==
    LET at == Position(children, node)
    IN  IF at \in {0, Len(children)} THEN NoNode ELSE children[at + 1]

\* insertBefore: appends without a reference, throws when it is no child.
InsertBefore(children, nodes, target) ==
    LET rest == Without(children, ToSet(nodes)) IN
    IF target = NoNode THEN rest \o nodes
    ELSE IF ~Contains(rest, target) THEN children
    ELSE ReplaceChild(rest, nodes \o <<target>>, target)

place_before(children, nodes, previous, run_start) ==
    LET target == IF previous = NoNode THEN run_start ELSE NextSibling(children, previous)
    IN  IF nodes = <<target>> THEN children ELSE InsertBefore(children, nodes, target)

\* patch_dom: whether a node can be kept for the new vnode.
Patches(old, new) == old.kind = new.kind /\ old.tag = new.tag /\ old.kind # "dynamic"

-----------------------------------------------------------------------------
\* The first unclaimed source of the same key.
KeyedSource(old, v, consumed) ==
    LET same == {j \in DOMAIN old \ consumed : v.key # NoKey /\ old[j].key = v.key}
    IN  IF same = {} THEN 0 ELSE Min(same)

\* The node at the same place, if it is free and has no key of its own.
PositionalSource(old, i, consumed) ==
    IF i \in DOMAIN old \ consumed /\ old[i].key = NoKey THEN i ELSE 0

Source(old, v, i, consumed) ==
    LET keyed == KeyedSource(old, v, consumed)
    IN  IF keyed # 0 THEN keyed ELSE PositionalSource(old, i, consumed)

\* One turn of the loop: a source is kept or swapped in place and then put
\* after the node placed last; without a source the vnode is built there.
\* A source that is no child any more makes the whole update decline.
\* `region` is the region before the update, `n` the number of the new render.
Turn(st, region, n, new, i) ==
    LET source == Source(region.render, new[i], i, st.consumed)
        was == region.tracked[source]
        built == Node(n, i, 0)
        previous == IF st.placed = <<>> THEN NoNode ELSE Last(st.placed)
        run_start == IF region.tracked = <<>> THEN Anchor ELSE region.tracked[1]
        kept == source # 0 /\ Patches(region.render[source], new[i])
        tracked == IF kept THEN was ELSE built
        swapped ==
            IF kept THEN st.children
            ELSE ReplaceChild(Without(st.children, ToSet(Content(region, was))),
                              Built(built, new[i]), was)
        children ==
            IF source = 0
            THEN place_before(st.children, Built(built, new[i]), previous, run_start)
            ELSE place_before(swapped, <<tracked>>, previous, run_start)
    IN  IF st.declined \/ (source # 0 /\ ~kept /\ ~Contains(st.children, was))
        THEN [st EXCEPT !.declined = TRUE]
        ELSE [children |-> children,
              consumed |-> st.consumed \cup ({source} \ {0}),
              placed |-> Append(st.placed, tracked),
              declined |-> FALSE]

\* A nested region takes the place of an unkeyed node that is not the first.
SwapsRegion(old, new) ==
    \E i \in 2..Len(new) :
        /\ new[i].kind = "dynamic" /\ new[i].run > 0
        /\ i \in DOMAIN old /\ old[i].key = NoKey

\* A region adopted from the server's markup: it tracks the nodes that are
\* there, those of nested regions one by one, and no anchor exists yet.
Hydrated(render) ==
    LET adopted(i) == IF render[i].kind = "dynamic" THEN Run(Node(1, i, 0), render[i])
                                                    ELSE <<Node(1, i, 0)>>
        nodes == FlattenSeq([i \in DOMAIN render |-> adopted(i)])
    IN  [render |-> render, tracked |-> nodes, children |-> <<Left>> \o nodes \o <<Right>>,
         inner |-> Nested(1, render), swapped |-> FALSE, outgrown |-> FALSE]

\* A missing anchor is put behind the last node of the run, or where an empty
\* run was found.
Anchored(children, nodes, anchor) ==
    IF Contains(children, anchor) THEN children
    ELSE InsertBefore(children, <<anchor>>,
                      IF nodes = <<>> THEN Right ELSE NextSibling(children, Last(nodes)))

\* There is no place for the anchor: the last node of the run is gone.
AnchorLost(region) ==
    /\ ~Contains(region.children, Anchor)
    /\ region.tracked # <<>> /\ ~Contains(region.children, Last(region.tracked))

\* A nested region made its own anchor before the region that adopted it.
Outgrown(region) ==
    /\ ~Contains(region.children, Anchor)
    /\ \E a \in DOMAIN region.inner : Contains(region.children, a)

\* Only the anchor of a nested region goes.
DiscardedAnchors(region, indices) == {region.tracked[j] : j \in indices}

\* The nodes of a tracked run that the region is done with, and what the
\* nested regions among them own.
Discarded(region, indices) ==
    UNION {ToSet(Owned(region, region.tracked[j])) : j \in indices}

\* The run is taken out of `children` and built anew at the anchor.
Rebuilt(region, children, n, new) ==
    [region EXCEPT !.tracked = Tracked(n, new),
                   !.children = InsertBefore(Without(children,
                                                     Discarded(region, DOMAIN region.tracked)),
                                             Laid(Tracked(n, new), new), Anchor)]

\* reconcile_range, for a run whose nodes line up with the old render.
Reconciled(region, children, n, new) ==
    LET start == [children |-> children, consumed |-> {}, placed |-> <<>>, declined |-> FALSE]
        end == FoldLeft(LAMBDA st, i : Turn(st, region, n, new, i), start,
                        [i \in DOMAIN new |-> i])
        unclaimed == DOMAIN region.tracked \ end.consumed
    IN  IF end.declined THEN Rebuilt(region, end.children, n, new)
        ELSE [region EXCEPT !.tracked = end.placed,
                            !.children = Without(end.children, Discarded(region, unclaimed)),
                            !.swapped = @ \/ SwapsRegion(region.render, new)]

\* A number that no node of the region has.
Unused(region) ==
    LET nodes == ToSet(region.children) \cup ToSet(region.tracked)
    IN  1 + Max({node[1] : node \in nodes})

\* update_dynamic_region: the region after its next render.  The effects of
\* the nested regions of the render before go with it.
Updated(region, new) ==
    LET n == Unused(region)
        children == Anchored(region.children, region.tracked, Anchor)
        after == CASE AnchorLost(region) -> [region EXCEPT !.inner = Nested(n, <<>>)]
                   [] Len(region.tracked) = Len(region.render) ->
                          [Reconciled(region, children, n, new) EXCEPT !.inner = Nested(n, new)]
                   [] OTHER ->
                          [Rebuilt(region, children, n, new) EXCEPT !.inner = Nested(n, new)]
    IN  [after EXCEPT !.render = new, !.outgrown = @ \/ Outgrown(region)]

\* update_dynamic_region of the nested region at `a`, which renders `m` nodes:
\* what it has is patched in place, the rest removed or added.
NestedUpdated(region, a, m) ==
    LET own == region.inner[a]
        n == Unused(region)
        kept == SubSeq(own, 1, Min({m, Len(own)}))
        fresh == [j \in 1..(m - Len(kept)) |-> Node(n, a[2], Len(kept) + j)]
        children == Anchored(region.children, own, a)
    IN  [region EXCEPT !.inner[a] = kept \o fresh,
                       !.children = InsertBefore(Without(children, ToSet(own) \ ToSet(kept)),
                                                 fresh, a)]

\* What the nodes of the latest render are before the region's first update.
Adopted(region) ==
    LET at(a, v) == IF v.kind # "dynamic" THEN <<a>>
                    ELSE IF Contains(region.children, a) THEN Owned(region, a)
                    ELSE Content(region, a)
    IN  FlattenSeq([i \in DOMAIN region.render |-> at(Node(1, i, 0), region.render[i])])

\* The parent holds exactly the nodes of the latest render, in its order,
\* between the siblings that are not the region's.
InOrder(region) ==
    LET laid == FlattenSeq([i \in DOMAIN region.tracked |-> Owned(region, region.tracked[i])])
        whole == IF Contains(region.children, Anchor) THEN <<Left>> \o laid \o <<Anchor, Right>>
                 ELSE <<Left>> \o Adopted(region) \o <<Right>>
    IN  region.children = whole
=============================================================================
