--------------------------- MODULE MCPublication ---------------------------
(* A small world for Publication: two identifiers, one of them amended.      *)
EXTENDS Publication, TLC

CONSTANTS a1, a2, b1, p1, p2, x, y

MCGids == {"A", "B"}
MCCommits == {a1, a2, b1}
MCGidOf == (a1 :> "A") @@ (a2 :> "A") @@ (b1 :> "B")
MCProcs == {p1, p2}

\* One commit and its amendment; a stack of two against one of its parents.
SingleCommits == {<<a1>>, <<a2>>}
TwoChunks == {<<a1>>, <<a2, b1>>}

\* Two users with a clone each, who may change places.
MCClones == {x, y}
TwoClones == p1 :> x @@ p2 :> y
UserSymmetry == {p1 :> p2 @@ p2 :> p1 @@ x :> y @@ y :> x}
=============================================================================
