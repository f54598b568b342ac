-------------------------- MODULE MCManageBranch --------------------------
(* Two commands; a key with several values, and with MainRef a foreign value *)
(* that can be replaced.                                                      *)
EXTENDS ManageBranch, TLC

CONSTANTS p1, p2

OneProc == {p1}
TwoProcs == {p1, p2}
Symmetry == Permutations(TwoProcs)

ManyValues == {Many}
NoOne == {}
WrittenByHand == {"none", "public", "invalid"}
=============================================================================
