---------------------------- MODULE MCTestedRun ----------------------------
(* Three commits, tests of at most two commands. *)
EXTENDS TestedRun

CONSTANTS a, b, c, main

MCBranches == {a, b, c, main}
MCStack == <<a, b, c>>

MCCosts == UNION {[1..n -> {1, 4, 9}] : n \in 0..3}

\* All together, two at a time, or one that is too long by itself.
MCLengths == {<<1, 1, 1>>, <<4, 4, 4>>, <<1, 9, 1>>}

Ended(pr) == [pr EXCEPT !.state = "CLOSED"]
Foreign(pr) == [pr EXCEPT !.cross = TRUE]
Seed(n, head) == PrEntry(n, head, main, <<0, 0>>)

\* None; one on the wrong base next to a foreign one; an ended one behind a page
\* of foreign ones; an ended one; two for one branch.
MCSeeds ==
  { << >>,
    <<Foreign(Seed(1, b)), Seed(2, b), Ended(Seed(3, b))>>,
    <<Seed(4, a), Seed(5, c)>>,
    <<Ended(Foreign(Seed(1, a))), Ended(Foreign(Seed(2, a))), Ended(Seed(3, a))>>,
    <<Ended(Seed(1, c))>>,
    <<Seed(1, a), Seed(2, a)>> }

MCScripts ==
  { << >>, <<"graphql", "create">>, <<"create", "update">>, <<"update">>,
    <<"ls-remote", "graphql">>, <<"interpret-trailers", "graphql">>, <<"var", "update">> }
=============================================================================
