----------------------------- MODULE MCBrowser ------------------------------
(***************************************************************************)
(* Three pages for TLC, one without an outlet and one that redirects; each *)
(* holds another kind of call.  The renders of their regions add, remove   *)
(* and move keyed nodes and a nested region, and take the first place of a *)
(* run and later ones.                                                     *)
(***************************************************************************)
EXTENDS Browser

MCRedirects == [p \in Pages |-> IF p = "b" THEN {"a", "b"} ELSE {p}]

MCLinks == {Plain("a"), Plain("b"), Plain("c"), [page |-> "a", frag |-> TRUE]}

MCHolds == [p \in Pages |->
    CASE p = "a" -> "resource" [] p = "b" -> "action" [] OTHER -> "seeded"]

Mark == Vnode("comment", "", NoKey, 0)
Para == Vnode("element", "p", NoKey, 0)
Row(k) == Vnode("element", "li", k, 0)
Inner == Vnode("dynamic", "", NoKey, 2)

MCFallback == <<Mark, Para, Mark>>

MCViews == [p \in Pages |-> [v \in Inputs \cup {NoInput} |->
    CASE p = "a" /\ v = "x" -> <<Mark, Row("k1"), Row("k2"), Mark>>
      [] p = "a" /\ v = "y" -> <<Mark, Row("k2"), Row("k1"), Row("k3"), Mark>>
      [] p = "a" /\ v = NoInput -> <<Mark, Mark>>
      [] p = "b" /\ v = "x" -> <<Inner, Para>>
      [] p = "b" /\ v = "y" -> <<Row("k1"), Para>>
      [] p = "b" /\ v = NoInput -> <<Para>>
      [] p = "c" /\ v = "x" -> <<Row("k1"), Row("k2"), Inner>>
      [] p = "c" /\ v = "y" -> <<Row("k2"), Row("k1")>>
      [] OTHER -> <<>>]]
=============================================================================
