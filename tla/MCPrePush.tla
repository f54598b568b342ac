---------------------------- MODULE MCPrePush ----------------------------
(* A small world for PrePush: two versions of each of two commits, the upper   *)
(* one pushed on top of the lower or directly on the default branch.           *)
EXTENDS PrePush, TLC

CONSTANTS a1, a2, b1, b2

MCGids == {"A", "B"}
MCCommits == {a1, a2, b1, b2}
MCGidOf == (a1 :> "A") @@ (a2 :> "A") @@ (b1 :> "B") @@ (b2 :> "B")

\* A stack of two, and its upper commit amended and moved to the default branch.
MovingStack == {<<a1, b1>>, <<b2>>}
\* Two users amend the same commit.
AmendedCommit == {<<a1>>, <<a2>>}

OneUser == {"p1"}
TwoUsers == {"p1", "p2"}
OneClone == {"x"}
TwoClones == {"x", "y"}
CloneOfOne == "p1" :> "x"
CloneOfTwo == "p1" :> "x" @@ "p2" :> "y"
=============================================================================
