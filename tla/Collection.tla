---------------------------- MODULE Collection ----------------------------
(***************************************************************************)
(* Which commits a push is about (collect_commits in src/pre_push/mod.rs   *)
(* and commits_between in src/util.rs), as operators on a history: a       *)
(* sequence of commits in the order in which they were made.               *)
(***************************************************************************)
EXTENDS Integers, Sequences, SequencesExt, FiniteSets

\* What a message begins with: "squash! ", another of RESERVED_PREFIXES, or
\* neither.
Kinds == {"plain", "squash", "pending"}

\* A commit has parents, a kind of message and the gherrit-pr-id trailers of the
\* message: identifiers, or BadId for a value that is none.
BadId == 0

Indices(h) == 1..Len(h)

\* The commits that can be reached from each commit of the history h, itself
\* included.
Ancestors(h) ==
  LET reach[c \in Indices(h)] ==
        {c} \cup UNION {reach[h[c].parents[i]] : i \in DOMAIN h[c].parents}
  IN reach

Reach(h, c) == Ancestors(h)[c]

-----------------------------------------------------------------------------
(* commits_between *)

\* The parents of c that are not among the commits seen, in their order.
NewParents(h, c, seen) ==
  LET new == {i \in DOMAIN h[c].parents : h[c].parents[i] \notin seen}
      rank(i) == Cardinality({j \in new : j <= i})
  IN [k \in 1..Cardinality(new) |-> h[c].parents[CHOOSE i \in new : rank(i) = k]]

\* One step of gix's default walk, breadth first: the next commit of the queue,
\* and its parents at the end of it unless they have been there before.
WalkStep(h, w) ==
  IF w.queue = << >> THEN w
  ELSE LET c == Head(w.queue)
           parents == NewParents(h, c, w.seen)
       IN [queue |-> Tail(w.queue) \o parents,
           seen |-> w.seen \cup Range(parents),
           out |-> Append(w.out, c)]

\* The walk after each of its steps; it visits a commit a step until it has none left.
Walk(h, c) ==
  LET after[i \in 0..Len(h)] ==
        IF i = 0 THEN [queue |-> <<c>>, seen |-> {c}, out |-> << >>]
        ELSE WalkStep(h, after[i - 1])
  IN after

BreadthFirst(h, c) == Walk(h, c)[Len(h)].out

\* take_while: the part of the walk before the commit a, or all of it.
UpTo(s, a) ==
  LET ends == {i \in DOMAIN s : s[i] = a}
  IN IF ends = {} THEN s ELSE SubSeq(s, 1, (CHOOSE i \in ends : TRUE) - 1)

\* Mutation of CommitsBetween: the order of the walk is kept.
CommitsBetweenUnreversed(h, ancestor, descendant) ==
  UpTo(BreadthFirst(h, descendant), ancestor)

CommitsBetween(h, ancestor, descendant) ==
  Reverse(UpTo(BreadthFirst(h, descendant), ancestor))

\* The reference: what the descendant has and the ancestor has not.
Between(h, ancestor, descendant) == Reach(h, descendant) \ Reach(h, ancestor)

\* s is the set S, every commit after its parents.
IsOrderOf(h, s, S) ==
  /\ Range(s) = S /\ Len(s) = Cardinality(S)
  /\ \A i, j \in DOMAIN s : s[i] \in Reach(h, s[j]) => i <= j

Linear(h, c) == \A d \in Reach(h, c) : Len(h[d].parents) <= 1

-----------------------------------------------------------------------------
(* collect_commits *)

\* Commit::from_git
Fault(commit) ==
  IF commit.ids = << >> THEN "missing"
  ELSE IF Len(commit.ids) > 1 THEN "multiple"
  ELSE IF commit.ids[1] = BadId THEN "invalid" ELSE "none"

\* The collected stack, or why there is none: the checks in their order.
Refusal(why) == [why |-> why, stack |-> << >>]

Checked(h, s) ==
  LET faulty == {i \in DOMAIN s : Fault(h[s[i]]) # "none"}
  IN IF \E i \in DOMAIN s : h[s[i]].kind # "plain" THEN Refusal("autosquash")
     ELSE IF faulty # {}
       THEN Refusal(Fault(h[s[CHOOSE i \in faulty : \A j \in faulty : i <= j]]))
     ELSE IF \E i, j \in DOMAIN s : i < j /\ h[s[i]].ids = h[s[j]].ids
       THEN Refusal("duplicate")
     ELSE [why |-> "none", stack |-> s]

Collect(h, ancestor, head) ==
  IF ancestor \notin Reach(h, head) THEN Refusal("notAncestor")
  ELSE Checked(h, CommitsBetween(h, ancestor, head))
=============================================================================
