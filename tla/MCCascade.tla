----------------------------- MODULE MCCascade -----------------------------
(* A small world for Cascade: a commit that is pushed alone, then with a child *)
(* on top, and the child again after the user has rebased it.                  *)
EXTENDS Cascade, TLC

CONSTANTS a1, b1, b2, ra, rb1, rb2

MCGids == {"A", "B"}
MCCommits == {a1, b1, b2, ra, rb1, rb2}
MCGidOf == (a1 :> "A") @@ (ra :> "A")
           @@ (b1 :> "B") @@ (b2 :> "B") @@ (rb1 :> "B") @@ (rb2 :> "B")
MCRebased == {ra, rb1, rb2}
MCRebaseOf == (a1 :> ra) @@ (ra :> ra)
              @@ (b1 :> rb1) @@ (rb1 :> rb1) @@ (b2 :> rb2) @@ (rb2 :> rb2)
GrowingStack == {<<a1>>, <<a1, b1>>, <<b2>>}

OneUser == {"p1"}
OneClone == {"x"}
CloneOfOne == "p1" :> "x"
=============================================================================
