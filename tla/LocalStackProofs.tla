-------------------------- MODULE LocalStackProofs --------------------------
(* Theorems about LocalStack: identifiers are stable keys of changes, and what *)
(* collect_commits finds, pushes and refuses.                                   *)
EXTENDS LocalStack, TLAPS, NaturalsInduction, WellFoundedInduction, FiniteSetTheorems

\* What a commit must be to become the next one of the history.
Fits(r) ==
  /\ r \in CommitTypes
  /\ Range(r.parents) \subseteq Indices(commits)
  /\ Range(r.ids) \subseteq 0..New
  /\ r.line \in Indices(commits) => commits[r.line].line = r.line
  /\ r.line \in Indices(commits) /\ Hooked(r.line) => r.ids = <<r.line>>
  /\ r.line \notin Indices(commits) =>
       r.line = New /\ ("hooked" \in r.marks => r.ids = <<New>>)
  /\ "copy" \notin r.marks =>
       \A g \in Range(r.ids) \ {BadId, New} : commits[g].line = r.line

\* A history that gets such a commit keeps the invariant.
HistoryOK ==
  /\ commits \in Seq(CommitTypes)
  /\ \A c \in Indices(commits) :
       /\ Range(commits[c].parents) \subseteq 1..(c - 1)
       /\ Range(commits[c].ids) \subseteq 0..c
       /\ commits[c].line \in 1..c
  /\ KeyInv

LEMMA HistoryGrows ==
  ASSUME HistoryOK, NEW r, Fits(r), commits' = Append(commits, r)
  PROVE  HistoryOK' /\ Indices(commits)' = Indices(commits) \cup {New}
<1> DEFINE n == Len(commits)
<1>1. /\ commits \in Seq(CommitTypes) /\ n \in Nat /\ r \in CommitTypes
      /\ Indices(commits) = 1..n /\ New = n + 1
  BY DEF HistoryOK, Fits, Indices, New
<1>2. /\ commits' \in Seq(CommitTypes) /\ Len(commits') = n + 1
      /\ Indices(commits)' = 1..(n + 1)
      /\ \A c \in 1..n : commits'[c] = commits[c]
      /\ commits'[n + 1] = r
  BY <1>1 DEF Indices
<1>3. \A c \in 1..n : commits[c].line \in 1..c /\ commits[c].line \in 1..n
  BY <1>1 DEF HistoryOK
<1>4. ASSUME NEW c \in 1..(n + 1)
      PROVE  /\ Range(commits'[c].parents) \subseteq 1..(c - 1)
             /\ Range(commits'[c].ids) \subseteq 0..c
             /\ commits'[c].line \in 1..c
  <2>1. CASE c \in 1..n BY <1>1, <1>2, <2>1 DEF HistoryOK
  <2>2. CASE c = n + 1 BY <1>1, <1>2, <2>2 DEF Fits
  <2> QED BY <2>1, <2>2
<1>5. ASSUME NEW c \in 1..(n + 1) PROVE KeyAt(c)'
  <2>1. CASE c \in 1..n
    <3> DEFINE first == commits[c].line
    <3>1. first \in 1..n /\ commits'[c] = commits[c] /\ commits'[first] = commits[first]
      BY <1>2, <1>3, <2>1
    <3>2. Range(commits[c].ids) \subseteq 0..c /\ KeyAt(c)
      BY <1>1, <2>1 DEF HistoryOK, KeyInv
    <3>3. \A g \in Range(commits[c].ids) \ {BadId} : commits'[g] = commits[g]
      <4>1. \A g \in 0..c : g # BadId => g \in 1..n BY <1>1, <2>1 DEF BadId
      <4> QED BY <1>2, <3>2, <4>1
    <3> HIDE DEF first
    <3> QED BY <3>1, <3>2, <3>3 DEF KeyAt, Hooked, Copied, first
  <2>2. CASE c = n + 1
    <3>1. commits'[c] = r BY <1>2, <2>2
    <3>2. r.line \in 1..n \/ r.line = n + 1 BY <1>1 DEF Fits
    <3>3. commits'[r.line].line = r.line BY <1>1, <1>2, <3>2 DEF Fits
    <3>4. "hooked" \in commits'[r.line].marks => r.ids = <<r.line>>
      BY <1>1, <1>2, <3>2 DEF Fits, Hooked
    <3>5. "copy" \notin r.marks =>
            \A g \in Range(r.ids) \ {BadId} : commits'[g].line = r.line
      <4>1. Range(r.ids) \subseteq 0..(n + 1) BY <1>1 DEF Fits
      <4>2. \A g \in 0..(n + 1) : g # BadId => g \in 1..n \/ g = n + 1
        BY <1>1 DEF BadId
      <4>3. ASSUME NEW g \in Range(r.ids) \ {BadId}, g \in 1..n, "copy" \notin r.marks
            PROVE  commits'[g].line = r.line
        <5>1. g \notin {BadId, New} BY <1>1, <4>3
        <5> QED BY <1>2, <4>3, <5>1 DEF Fits
      <4> QED BY <1>2, <4>1, <4>2, <4>3
    <3> QED BY <3>1, <3>3, <3>4, <3>5 DEF KeyAt, Hooked, Copied
  <2> QED BY <1>1, <2>1, <2>2
<1>6. KeyInv' BY <1>2, <1>5 DEF KeyInv
<1>7. Indices(commits)' = Indices(commits) \cup {New} BY <1>1, <1>2
<1> QED BY <1>2, <1>4, <1>6, <1>7 DEF HistoryOK

-----------------------------------------------------------------------------
(* The commits that are made *)

\* The trailers of a message after the hook, if it runs.
LEMMA IdsFacts ==
  ASSUME NEW kind, NEW ids \in Seq(Nat), NEW verify \in BOOLEAN, New \in Nat,
         NEW after, after = IF verify THEN MessageIds(kind, ids) ELSE ids
  PROVE  /\ after \in Seq(Nat)
         /\ after = ids \/ (ids = << >> /\ after = <<New>>)
         /\ (verify /\ ids = << >> /\ ~HookSkips(kind)) => after = <<New>>
<1>1. <<New>> \in Seq(Nat) OBVIOUS
<1>2. after = IF verify /\ ~HookSkips(kind) /\ ids = << >> THEN <<New>> ELSE ids
  BY Zenon DEF MessageIds
<1>3. after = ids \/ (ids = << >> /\ after = <<New>>)
  <2>1. CASE ids = << >> BY <1>2, <2>1
  <2>2. CASE ids # << >> BY <1>2, <2>2
  <2> QED BY <2>1, <2>2
<1>4. after \in Seq(Nat) BY <1>1, <1>3
<1>5. verify /\ ids = << >> /\ ~HookSkips(kind) => after = <<New>> BY <1>2
<1> QED BY <1>3, <1>4, <1>5

\* The message of a commit: its own, or that of one of the history, which the
\* new commit is a form of.
IsSource(ids, was) ==
  \/ /\ was.line = New /\ was.marks = {}
     /\ ids \in Seq({BadId})
  \/ \E c \in Indices(commits) :
       /\ was.line = commits[c].line /\ ids = commits[c].ids
       /\ commits[c].marks \subseteq was.marks /\ was.marks \subseteq {"hooked", "copy"}

LEMMA MakeFits ==
  ASSUME LocalInv, NEW parents \in Seq(Nat), Range(parents) \subseteq Indices(commits),
         NEW kind \in Kinds, NEW ids, NEW verify \in BOOLEAN, NEW was,
         IsSource(ids, was), Make(parents, kind, ids, verify, was)
  PROVE  HistoryOK' /\ Indices(commits)' = Indices(commits) \cup {New}
<1>0. PICK after : after = IF verify THEN MessageIds(kind, ids) ELSE ids
  OBVIOUS
<1> DEFINE hooked == {m \in {"hooked"} : /\ verify /\ ids = << >> /\ kind # "squash"
                                          /\ place # "Detached" /\ mode = "managed"}
           r == [parents |-> parents, kind |-> kind, ids |-> after,
                 line |-> was.line, marks |-> was.marks \cup hooked]
<1>1. HistoryOK BY DEF LocalInv, LocalTypeOK, HistoryOK
<1>2. commits' = Append(commits, r) BY <1>0 DEF Make
<1>3. /\ New \in Nat /\ New \notin Indices(commits) /\ New # BadId
      /\ Indices(commits) \subseteq Nat /\ Indices(commits) \subseteq 0..New
  BY <1>1 DEF HistoryOK, New, Indices, BadId
<1>4. hooked # {} => verify /\ ids = << >> /\ ~HookSkips(kind)
  BY DEF HookSkips
<1>5. hooked \subseteq {"hooked"} OBVIOUS
<1>6. CASE was.line = New /\ was.marks = {} /\ ids \in Seq({BadId})
  <2>1. ids \in Seq(Nat) /\ Range(ids) \subseteq {BadId}
    BY <1>6 DEF BadId, Range
  <2>2. /\ after \in Seq(Nat)
        /\ after = ids \/ (ids = << >> /\ after = <<New>>)
        /\ hooked # {} => after = <<New>>
    <3>1. New \in Nat /\ ids \in Seq(Nat) BY <1>3, <2>1
    <3>2. /\ after \in Seq(Nat)
          /\ after = ids \/ (ids = << >> /\ after = <<New>>)
          /\ (verify /\ ids = << >> /\ ~HookSkips(kind)) => after = <<New>>
      BY <1>0, <3>1, IdsFacts
    <3> QED BY <1>4, <3>2
  <2>3. Range(<<New>>) = {New} BY DEF Range
  <2>4. Range(after) \subseteq {BadId, New} BY <2>1, <2>2, <2>3
  <2>5. Range(after) \subseteq 0..New BY <1>3, <2>4 DEF BadId
  <2> HIDE DEF hooked
  <2>6. r \in CommitTypes BY <1>3, <1>5, <1>6, <2>2 DEF CommitTypes
  <2>7. "hooked" \in r.marks => r.ids = <<New>> BY <1>6, <2>2
  <2>8. Fits(r) BY <1>3, <1>6, <2>4, <2>5, <2>6, <2>7 DEF Fits
  <2> HIDE DEF r
  <2> QED BY <1>1, <1>2, <2>8, HistoryGrows
<1>7. ASSUME NEW c \in Indices(commits), was.line = commits[c].line, ids = commits[c].ids,
             commits[c].marks \subseteq was.marks, was.marks \subseteq {"hooked", "copy"}
      PROVE  Fits(r)
  <2>1. /\ commits[c] \in CommitTypes /\ ids \in Seq(Nat) /\ Range(ids) \subseteq 0..c
        /\ was.line \in 1..c /\ KeyAt(c)
    <3>1. commits[c] \in CommitTypes BY <1>1, <1>7 DEF HistoryOK, Indices
    <3>2. ids \in Seq(Nat) BY <1>7, <3>1 DEF CommitTypes
    <3>3. /\ Range(commits[c].ids) \subseteq 0..c /\ commits[c].line \in 1..c /\ KeyAt(c)
      BY <1>1, <1>7 DEF HistoryOK, KeyInv
    <3> QED BY <1>7, <3>1, <3>2, <3>3
  <2>2. /\ after \in Seq(Nat)
        /\ after = ids \/ (ids = << >> /\ after = <<New>>)
    <3>1. New \in Nat /\ ids \in Seq(Nat) BY <1>3, <2>1
    <3> QED BY <1>0, <3>1, IdsFacts
  <2>3. Range(<<New>>) = {New} BY DEF Range
  <2>4. was.line \in Indices(commits) /\ was.line \in Nat /\ 0..c \subseteq 0..New
    BY <1>1, <1>7, <2>1 DEF HistoryOK, Indices, New
  <2>5. Range(after) \subseteq 0..New BY <1>3, <2>1, <2>2, <2>3, <2>4
  <2>6. Hooked(was.line) => after = <<was.line>>
    <3>1. Hooked(was.line) => ids = <<was.line>> BY <1>7, <2>1 DEF KeyAt
    <3> QED BY <2>2, <3>1
  <2>7. "copy" \notin was.marks => \A g \in Range(after) \ {BadId, New} :
                                     commits[g].line = was.line
    BY <1>7, <2>1, <2>2, <2>3 DEF KeyAt, Copied
  <2>8. commits[was.line].line = was.line BY <1>7, <2>1 DEF KeyAt
  <2> HIDE DEF hooked
  <2>9. r \in CommitTypes BY <1>5, <1>7, <2>2, <2>4 DEF CommitTypes
  <2> QED BY <1>5, <2>4, <2>5, <2>6, <2>7, <2>8, <2>9 DEF Fits
<1> HIDE DEF r
<1> QED BY <1>1, <1>2, <1>6, <1>7, HistoryGrows DEF IsSource

\* A copy of a commit by a rebase.
LEMMA PickFits ==
  ASSUME LocalInv, NEW c \in Indices(commits), New \notin Indices(commits),
         commits' = Append(commits, [commits[c] EXCEPT !.parents = <<head>>])
  PROVE  HistoryOK' /\ Indices(commits)' = Indices(commits) \cup {New}
<1> DEFINE r == [commits[c] EXCEPT !.parents = <<head>>]
<1>1. HistoryOK /\ head \in Indices(commits)
  BY DEF LocalInv, LocalTypeOK, HistoryOK
<1>2. /\ commits[c] \in CommitTypes /\ Range(commits[c].ids) \subseteq 0..c
      /\ commits[c].line \in 1..c /\ KeyAt(c)
  <2>1. commits[c] \in CommitTypes BY <1>1 DEF HistoryOK, Indices
  <2> QED BY <1>1, <2>1 DEF HistoryOK, KeyInv
<1>3. head \in Nat /\ commits[c].line \in Indices(commits) /\ 0..c \subseteq 0..New
  BY <1>1, <1>2 DEF HistoryOK, Indices, New
<1>4. /\ r \in CommitTypes /\ r.parents = <<head>> /\ r.ids = commits[c].ids
      /\ r.line = commits[c].line /\ r.marks = commits[c].marks
  <2>1. <<head>> \in Seq(Nat) BY <1>3
  <2>2. PICK k \in Kinds, ids \in Seq(Nat), ps \in Seq(Nat), line \in Nat,
               marks \in SUBSET {"hooked", "copy"} :
          commits[c] = [parents |-> ps, kind |-> k, ids |-> ids, line |-> line,
                        marks |-> marks]
    BY <1>2 DEF CommitTypes
  <2>3. r = [parents |-> <<head>>, kind |-> k, ids |-> ids, line |-> line, marks |-> marks]
    BY <2>2
  <2>4. /\ commits[c].ids = ids /\ commits[c].line = line /\ commits[c].marks = marks
    BY <2>2
  <2> HIDE DEF r
  <2> QED BY <2>1, <2>3, <2>4 DEF CommitTypes
<1>5. Range(<<head>>) = {head} BY DEF Range
<1>6. Fits(r) BY <1>1, <1>2, <1>3, <1>4, <1>5 DEF Fits, KeyAt, Copied
<1> HIDE DEF r
<1> QED BY <1>1, <1>6, HistoryGrows DEF r

\* A commit that was made elsewhere.
LEMMA ForeignFits ==
  ASSUME LocalInv, NEW parents \in Seq(Nat), Range(parents) \subseteq Indices(commits),
         NEW ids \in Seq(Nat), Range(ids) \subseteq 0..New,
         commits' = Append(commits, Foreign(parents, ids, New))
  PROVE  HistoryOK' /\ Indices(commits)' = Indices(commits) \cup {New}
<1> DEFINE r == Foreign(parents, ids, New)
<1>1. HistoryOK BY DEF LocalInv, LocalTypeOK, HistoryOK
<1>2. New \in Nat /\ New \notin Indices(commits)
  BY <1>1 DEF HistoryOK, New, Indices
<1>3. /\ r \in CommitTypes /\ r.parents = parents /\ r.ids = ids /\ r.line = New
      /\ r.marks = {"copy"}
  BY <1>2 DEF Foreign, CommitTypes, Kinds
<1>4. Fits(r) BY <1>2, <1>3 DEF Fits
<1> HIDE DEF r
<1> QED BY <1>1, <1>4, HistoryGrows DEF r

-----------------------------------------------------------------------------
(* The invariant *)

\* A step that makes no commit.
LEMMA SameHistory ==
  ASSUME LocalInv, UNCHANGED commits,
         {head', tip'} \cup todo' \subseteq Indices(commits),
         main' \in [local : Indices(commits), remote : Indices(commits)],
         place' \in {"Attached", "Pending", "Detached"},
         mode' \in {"managed", "unmanaged", "unset"}, merged' \subseteq Nat
  PROVE  LocalInv'
BY DEF LocalInv, LocalTypeOK, KeyInv, KeyAt, Indices, Hooked, Copied

\* A step that makes one.
LEMMA LongerHistory ==
  ASSUME HistoryOK', Indices(commits)' = Indices(commits) \cup {New},
         {head', tip'} \cup todo' \subseteq Indices(commits) \cup {New},
         main' \in [local : Indices(commits) \cup {New},
                    remote : Indices(commits) \cup {New}],
         place' \in {"Attached", "Pending", "Detached"},
         mode' \in {"managed", "unmanaged", "unset"}, merged' \subseteq Nat
  PROVE  LocalInv'
BY DEF LocalInv, LocalTypeOK, HistoryOK

\* A commit of the user or of the hook.
LEMMA MakeStep ==
  ASSUME LocalInv, NEW parents \in Seq(Nat), Range(parents) \subseteq Indices(commits),
         NEW kind \in Kinds, NEW ids, NEW verify \in BOOLEAN, NEW was,
         IsSource(ids, was), Make(parents, kind, ids, verify, was)
  PROVE  LocalInv'
<1>1. HistoryOK' /\ Indices(commits)' = Indices(commits) \cup {New} BY MakeFits
<1>2. /\ head' = New /\ (tip' = New \/ tip' = tip)
      /\ UNCHANGED <<place, todo, main, mode, merged>>
  BY DEF Make, MoveHead, githubVars
<1>3. /\ {head, tip} \cup todo \subseteq Indices(commits)
      /\ main \in [local : Indices(commits), remote : Indices(commits)]
      /\ place \in {"Attached", "Pending", "Detached"}
      /\ mode \in {"managed", "unmanaged", "unset"} /\ merged \subseteq Nat
  BY DEF LocalInv, LocalTypeOK
<1> QED BY <1>1, <1>2, <1>3, LongerHistory

\* The commits that something refers to.
LEMMA PlacesFacts ==
  ASSUME LocalInv
  PROVE  /\ head \in Indices(commits) /\ head \in Nat
         /\ main.remote \in Indices(commits) /\ main.remote \in Nat
         /\ todo \subseteq Nat
<1>1. /\ head \in Indices(commits) /\ todo \subseteq Indices(commits)
      /\ main.remote \in Indices(commits)
  BY DEF LocalInv, LocalTypeOK
<1>2. Indices(commits) \subseteq Nat BY DEF Indices
<1> QED BY <1>1, <1>2

LEMMA CommitStep ==
  ASSUME LocalInv, NEW m \in Messages, NEW verify \in BOOLEAN, Commit(m, verify)
  PROVE  LocalInv'
<1>1. m.kind \in Kinds /\ m.ids \in Seq({BadId}) BY LocalAssumption
<1>2. <<head>> \in Seq(Nat) /\ Range(<<head>>) \subseteq Indices(commits)
  <2>1. head \in Indices(commits) /\ head \in Nat BY PlacesFacts
  <2> QED BY <2>1 DEF Range
<1>3. IsSource(m.ids, Nothing) BY <1>1 DEF IsSource, Nothing
<1>4. Make(<<head>>, m.kind, m.ids, verify, Nothing) BY DEF Commit
<1> QED BY <1>1, <1>2, <1>3, <1>4, MakeStep

\* What the history says of a commit of it.
LEMMA CommitFacts ==
  ASSUME LocalInv, NEW c \in Indices(commits)
  PROVE  /\ c \in Nat /\ commits[c] \in CommitTypes
         /\ commits[c].parents \in Seq(Nat)
         /\ Range(commits[c].parents) \subseteq Indices(commits)
         /\ commits[c].kind \in Kinds
         /\ commits[c].ids \in Seq(Nat) /\ Range(commits[c].ids) \subseteq 0..c
         /\ commits[c].marks \subseteq {"hooked", "copy"}
         /\ Indices(commits) \subseteq 0..New /\ New \in Nat /\ New \notin Indices(commits)
<1>1. commits \in Seq(CommitTypes) /\ Indices(commits) = 1..Len(commits)
      /\ Len(commits) \in Nat
  BY DEF LocalInv, LocalTypeOK, Indices
<1>2. commits[c] \in CommitTypes /\ c \in 1..Len(commits) BY <1>1
<1>3. /\ Range(commits[c].parents) \subseteq 1..(c - 1)
      /\ Range(commits[c].ids) \subseteq 0..c
  BY DEF LocalInv, LocalTypeOK
<1> QED BY <1>1, <1>2, <1>3 DEF CommitTypes, New

LEMMA AmendStep ==
  ASSUME LocalInv, NEW kind \in Kinds, NEW verify \in BOOLEAN, Amend(kind, verify)
  PROVE  LocalInv'
<1>1. head \in Indices(commits) BY DEF LocalInv, LocalTypeOK
<1>2. IsSource(commits[head].ids, commits[head])
  BY <1>1, CommitFacts DEF IsSource
<1>3. Make(commits[head].parents, kind, commits[head].ids, verify, commits[head])
  BY DEF Amend
<1> QED BY <1>1, <1>2, <1>3, CommitFacts, MakeStep

LEMMA CopyStep ==
  ASSUME LocalInv, NEW c \in Own, NEW verify \in BOOLEAN, Copy(c, verify)
  PROVE  LocalInv'
<1> DEFINE was == [commits[c] EXCEPT !.marks = @ \cup {"copy"}]
<1>1. c \in Indices(commits) /\ head \in Indices(commits) /\ head \in Nat
  BY PlacesFacts DEF Own, Missing
<1>2. <<head>> \in Seq(Nat) /\ Range(<<head>>) \subseteq Indices(commits)
  BY <1>1 DEF Range
<1>3. was.line = commits[c].line /\ was.marks = commits[c].marks \cup {"copy"}
  BY <1>1, CommitFacts DEF CommitTypes
<1>4. Make(<<head>>, commits[c].kind, commits[c].ids, verify, was) BY DEF Copy
<1> HIDE DEF was
<1>5. IsSource(commits[c].ids, was) BY <1>1, <1>3, CommitFacts DEF IsSource
<1> QED BY <1>1, <1>2, <1>4, <1>5, CommitFacts, MakeStep

LEMMA MergeStep ==
  ASSUME LocalInv, NEW verify \in BOOLEAN, Merge(verify)
  PROVE  LocalInv'
<1>1. /\ head \in Indices(commits) /\ head \in Nat
      /\ main.remote \in Indices(commits) /\ main.remote \in Nat
  BY PlacesFacts
<1>2. /\ <<head, main.remote>> \in Seq(Nat)
      /\ Range(<<head, main.remote>>) \subseteq Indices(commits)
  BY <1>1 DEF Range
<1>3. IsSource(<< >>, Nothing) BY DEF IsSource, Nothing
<1>4. Make(<<head, main.remote>>, "plain", << >>, verify, Nothing) BY DEF Merge
<1> QED BY <1>2, <1>3, <1>4, MakeStep DEF Kinds

\* There is a next commit as long as a rebase has any to apply.
LEMMA FollowingIsLeft ==
  ASSUME LocalInv, todo # {}
  PROVE  Following \in todo
<1>1. todo \subseteq Nat BY PlacesFacts
<1> DEFINE R == {ss \in Nat \X Nat : ss[1] < ss[2]}
<1>2. IsWellFoundedOn(R, Nat) BY NatLessThanWellFounded DEF OpToRel
<1>3. PICK c \in todo : \A d \in todo : ~ (<<d, c>> \in R)
  <2> HIDE DEF R
  <2> QED BY <1>1, <1>2, WFMin
<1>4. ASSUME NEW d \in todo PROVE c <= d
  <2>1. c \in Nat /\ d \in Nat BY <1>1
  <2>2. ~ (<<d, c>> \in R) BY <1>3
  <2>3. ~ (d < c) BY <2>1, <2>2
  <2> QED BY <2>1, <2>3
<1> QED BY <1>4 DEF Following

LEMMA PickStep ==
  ASSUME LocalInv, Pick
  PROVE  LocalInv'
<1>1. Following \in Indices(commits)
  BY FollowingIsLeft DEF Pick, LocalInv, LocalTypeOK
<1>2. HistoryOK' /\ Indices(commits)' = Indices(commits) \cup {New}
  BY <1>1, CommitFacts, PickFits DEF Pick
<1>3. /\ head' = New /\ todo' \subseteq todo
      /\ UNCHANGED <<place, tip, main, mode, merged>>
  BY DEF Pick, githubVars
<1>4. /\ {head, tip} \cup todo \subseteq Indices(commits)
      /\ main \in [local : Indices(commits), remote : Indices(commits)]
      /\ place \in {"Attached", "Pending", "Detached"}
      /\ mode \in {"managed", "unmanaged", "unset"} /\ merged \subseteq Nat
  BY DEF LocalInv, LocalTypeOK
<1> QED BY <1>2, <1>3, <1>4, LongerHistory

\* A commit of the default branch.
LEMMA LandStep ==
  ASSUME LocalInv, NEW parents \in Seq(Nat), Range(parents) \subseteq Indices(commits),
         NEW ids \in Seq(Nat), Range(ids) \subseteq 0..New,
         NEW gone \in SUBSET Nat, Land(Foreign(parents, ids, New), gone)
  PROVE  LocalInv'
<1>1. HistoryOK' /\ Indices(commits)' = Indices(commits) \cup {New}
  BY ForeignFits DEF Land
<1>2. /\ {head, tip} \cup todo \subseteq Indices(commits)
      /\ main \in [local : Indices(commits), remote : Indices(commits)]
      /\ place \in {"Attached", "Pending", "Detached"}
      /\ mode \in {"managed", "unmanaged", "unset"} /\ merged \subseteq Nat
  BY DEF LocalInv, LocalTypeOK
<1>3. /\ main' = [main EXCEPT !.remote = New] /\ merged' = merged \cup gone
      /\ UNCHANGED <<head, place, tip, todo, mode>>
  BY DEF Land
<1>4. main' \in [local : Indices(commits) \cup {New}, remote : Indices(commits) \cup {New}]
  BY <1>2, <1>3
<1> QED BY <1>1, <1>2, <1>3, <1>4, LongerHistory

LEMMA LandPrStep ==
  ASSUME LocalInv, NEW c \in Indices(commits), NEW how \in {"rebase", "squash", "merge"},
         LandPr(c, how)
  PROVE  LocalInv'
<1>1. main.remote \in Indices(commits) /\ main.remote \in Nat
  BY PlacesFacts
<1>2. /\ <<main.remote>> \in Seq(Nat) /\ Range(<<main.remote>>) \subseteq Indices(commits)
      /\ <<main.remote, c>> \in Seq(Nat)
      /\ Range(<<main.remote, c>>) \subseteq Indices(commits)
  BY <1>1, CommitFacts DEF Range
<1>3. commits[c].ids \in Seq(Nat) /\ Range(commits[c].ids) \subseteq 0..New
  <2>1. 0..c \subseteq 0..New BY DEF Indices, New, LocalInv, LocalTypeOK
  <2> QED BY <2>1, CommitFacts
<1>4. << >> \in Seq(Nat) /\ Range(<< >>) \subseteq 0..New BY DEF Range
<1>5. Ids({c}) \in SUBSET Nat
  <2>1. Ids({c}) = Range(commits[c].ids) BY DEF Ids
  <2> QED BY <2>1, CommitFacts
<1>6. CASE how = "merge"
  <2>1. Land(Foreign(<<main.remote, c>>, << >>, New), Ids({c})) BY <1>6 DEF LandPr
  <2> QED BY <1>2, <1>4, <1>5, <2>1, LandStep
<1>7. CASE how = "rebase"
  <2>1. Land(Foreign(<<main.remote>>, commits[c].ids, New), Ids({c})) BY <1>7 DEF LandPr
  <2> QED BY <1>2, <1>3, <1>5, <2>1, LandStep
<1>8. CASE how = "squash"
  <2>1. Land(Foreign(<<main.remote>>, << >>, New), Ids({c})) BY <1>8 DEF LandPr
  <2> QED BY <1>2, <1>4, <1>5, <2>1, LandStep
<1> QED BY <1>6, <1>7, <1>8

LEMMA LandOtherStep ==
  ASSUME LocalInv, LandOther
  PROVE  LocalInv'
<1>1. main.remote \in Indices(commits) /\ main.remote \in Nat
  BY PlacesFacts
<1>2. <<main.remote>> \in Seq(Nat) /\ Range(<<main.remote>>) \subseteq Indices(commits)
  BY <1>1 DEF Range
<1>3. << >> \in Seq(Nat) /\ Range(<< >>) \subseteq 0..New /\ {} \in SUBSET Nat
  BY DEF Range
<1>4. Land(Foreign(<<main.remote>>, << >>, New), {}) BY DEF LandOther
<1> QED BY <1>2, <1>3, <1>4, LandStep

LEMMA LocalStep ==
  ASSUME LocalInv, [Next]_localVars
  PROVE  LocalInv'
<1>1. /\ {head, tip} \cup todo \subseteq Indices(commits)
      /\ main \in [local : Indices(commits), remote : Indices(commits)]
      /\ place \in {"Attached", "Pending", "Detached"}
      /\ mode \in {"managed", "unmanaged", "unset"} /\ merged \subseteq Nat
  BY DEF LocalInv, LocalTypeOK
<1>2. ASSUME NEW verify \in BOOLEAN, NEW m \in Messages,
             Commit(m, verify) \/ Amend(m.kind, verify)
      PROVE  LocalInv'
  <2>1. m.kind \in Kinds BY LocalAssumption
  <2> QED BY <1>2, <2>1, CommitStep, AmendStep
<1>3. CASE \E onto \in {main.local, main.remote} : StartRebase(onto)
  <2>1. PICK onto \in {main.local, main.remote} : StartRebase(onto) BY <1>3
  <2>2. onto \in Indices(commits) /\ Missing(head, onto) \subseteq Indices(commits)
    BY <1>1 DEF Missing
  <2> QED BY <1>1, <2>1, <2>2, SameHistory DEF StartRebase, githubVars
<1>4. CASE Drop \/ FinishRebase \/ AbortRebase \/ Detach \/ Reattach \/ Recreate \/ Pull
  <2>1. CASE Drop BY <1>1, <2>1, SameHistory DEF Drop, githubVars
  <2>2. CASE FinishRebase BY <1>1, <2>2, SameHistory DEF FinishRebase, githubVars
  <2>3. CASE AbortRebase BY <1>1, <2>3, SameHistory DEF AbortRebase, githubVars
  <2>4. CASE Detach BY <1>1, <2>4, SameHistory DEF Detach, githubVars
  <2>5. CASE Reattach BY <1>1, <2>5, SameHistory DEF Reattach, githubVars
  <2>6. CASE Recreate BY <1>1, <2>6, SameHistory DEF Recreate, gitVars, githubVars
  <2>7. CASE Pull BY <1>1, <2>7, SameHistory DEF Pull, githubVars
  <2> QED BY <1>4, <2>1, <2>2, <2>3, <2>4, <2>5, <2>6, <2>7
<1>5. ASSUME NEW m \in {"managed", "unmanaged"}, SetMode(m) PROVE LocalInv'
  BY <1>1, <1>5, SameHistory DEF SetMode, gitVars, githubVars
<1>6. CASE Push BY <1>1, <1>6, SameHistory DEF Push, gitVars
<1>7. CASE UNCHANGED localVars
  BY <1>1, <1>7, SameHistory DEF localVars, gitVars, githubVars
<1>8. CASE UserStep
  BY <1>2, <1>3, <1>4, <1>5, <1>8, CopyStep, MergeStep, PickStep DEF UserStep
<1> QED BY <1>6, <1>7, <1>8, LandPrStep, LandOtherStep DEF Next

LEMMA LocalInit == Init => LocalInv
<1> SUFFICES ASSUME Init PROVE LocalInv OBVIOUS
<1> DEFINE r == Foreign(<< >>, << >>, 1)
<1>1. commits = <<r>> /\ r \in CommitTypes BY DEF Init, Foreign, CommitTypes, Kinds
<1>2. r.parents = << >> /\ r.ids = << >> /\ r.line = 1 /\ r.marks = {"copy"}
  BY DEF Foreign
<1> HIDE DEF r
<1>3. commits \in Seq(CommitTypes) /\ Len(commits) = 1 /\ commits[1] = r
      /\ Indices(commits) = {1}
  BY <1>1 DEF Indices
<1>4. Range(<< >>) = {} BY DEF Range
<1>5. LocalTypeOK BY <1>2, <1>3, <1>4 DEF LocalTypeOK, Init
<1>6. KeyInv BY <1>2, <1>3, <1>4 DEF KeyInv, KeyAt, Hooked, Copied
<1> QED BY <1>5, <1>6 DEF LocalInv

\* Whatever users, git, the hook and GitHub do to the history, in any order, an
\* identifier is the one that the hook gave to an early form of the same change,
\* unless a message was copied (commit_msg.rs, and the --if-exists doNothing of
\* its interpret-trailers).
THEOREM LocalInvariance == Spec => []LocalInv
<1>1. Init => LocalInv BY LocalInit
<1>2. LocalInv /\ [Next]_localVars => LocalInv' BY LocalStep
<1> QED BY <1>1, <1>2, PTL DEF Spec

\* The gherrit-pr-id that the hook gave to a change is a stable key of it
\* (README.md, lines 163-164): all later forms of the change keep it, through
\* amends, rebases and cherry-picks, and no other change has it.
THEOREM StableKeyHolds == Spec => []StableKey
<1>1. LocalInv => StableKey
  <2> SUFFICES ASSUME LocalInv, NEW c \in Indices(commits), NEW d \in Indices(commits),
                      Hooked(commits[c].line), ~Copied(d), commits[d].ids # << >>
               PROVE  commits[d].ids = commits[commits[c].line].ids
                        <=> commits[d].line = commits[c].line
    BY DEF StableKey
  <2> DEFINE first == commits[c].line
  <2>1. first \in Indices(commits) /\ first \in Nat /\ first # BadId
    <3>1. first \in 1..c /\ c \in 1..Len(commits)
      BY DEF LocalInv, LocalTypeOK, Indices
    <3> QED BY <3>1 DEF Indices, BadId
  <2>2. KeyAt(c) /\ KeyAt(d) BY DEF LocalInv, KeyInv
  <2>3. KeyAt(first) BY <2>1 DEF LocalInv, KeyInv
  <2>4. commits[first].line = first BY <2>2 DEF KeyAt
  <2>5. commits[first].ids = <<first>> BY <2>3, <2>4 DEF KeyAt
  <2>6. ASSUME commits[d].line = first PROVE commits[d].ids = <<first>>
    BY <2>2, <2>6 DEF KeyAt
  <2>7. ASSUME commits[d].ids = <<first>> PROVE commits[d].line = first
    <3>1. first \in Range(commits[d].ids) \ {BadId} BY <2>1, <2>7 DEF Range
    <3> QED BY <2>2, <2>4, <3>1 DEF KeyAt
  <2> QED BY <2>5, <2>6, <2>7
<1> QED BY <1>1, LocalInvariance, PTL

-----------------------------------------------------------------------------
(* Reachability *)

\* Parents are made before their children.
Ordered(h) ==
  \A c \in Indices(h) : \A i \in DOMAIN h[c].parents : h[c].parents[i] \in 1..(c - 1)

Parents(h, c) == {h[c].parents[i] : i \in DOMAIN h[c].parents}

\* The least set with c that is closed under parents.
Closure(h, c) ==
  {d \in Indices(h) :
     \A S \in SUBSET Indices(h) :
       c \in S /\ (\A x \in S : Parents(h, x) \subseteq S) => d \in S}

LEMMA ClosureStep ==
  ASSUME NEW h, Ordered(h), Len(h) \in Nat, NEW c \in Indices(h)
  PROVE  Closure(h, c) = {c} \cup UNION {Closure(h, h[c].parents[i]) : i \in DOMAIN h[c].parents}
<1> DEFINE T == {c} \cup UNION {Closure(h, h[c].parents[i]) : i \in DOMAIN h[c].parents}
<1>1. \A x \in Indices(h) : Parents(h, x) \subseteq Indices(h)
  BY DEF Ordered, Parents, Indices
<1>2. \A x \in Indices(h) : x \in Closure(h, x) /\ Closure(h, x) \subseteq Indices(h)
  BY DEF Closure
<1>3. ASSUME NEW x \in Indices(h), NEW y \in Closure(h, x)
      PROVE  Parents(h, y) \subseteq Closure(h, x)
  BY <1>1 DEF Closure
<1>4. T \subseteq Indices(h) BY <1>1, <1>2 DEF Parents
<1>5. \A x \in T : Parents(h, x) \subseteq T
  <2>1. Parents(h, c) \subseteq T BY <1>1, <1>2 DEF Parents
  <2>2. ASSUME NEW i \in DOMAIN h[c].parents, NEW x \in Closure(h, h[c].parents[i])
        PROVE  Parents(h, x) \subseteq T
    <3>1. h[c].parents[i] \in Indices(h) BY <1>1 DEF Parents
    <3> QED BY <1>3, <3>1
  <2> QED BY <2>1, <2>2
<1>6. Closure(h, c) \subseteq T
  <2> HIDE DEF T
  <2>1. c \in T BY DEF T
  <2> QED BY <1>4, <1>5, <2>1 DEF Closure
<1>7. ASSUME NEW i \in DOMAIN h[c].parents
      PROVE  Closure(h, h[c].parents[i]) \subseteq Closure(h, c)
  <2>1. h[c].parents[i] \in Parents(h, c) BY DEF Parents
  <2> QED BY <2>1 DEF Closure
<1> QED BY <1>2, <1>6, <1>7

\* What the recursion of Ancestors is about: it has a solution.
LEMMA ReachStep ==
  ASSUME NEW h, Ordered(h), Len(h) \in Nat, NEW c \in Indices(h)
  PROVE  Reach(h, c) = {c} \cup UNION {Reach(h, h[c].parents[i]) : i \in DOMAIN h[c].parents}
<1> DEFINE f == [x \in Indices(h) |-> Closure(h, x)]
<1>1. \A x \in Indices(h) : \A i \in DOMAIN h[x].parents : h[x].parents[i] \in Indices(h)
  BY DEF Ordered, Indices
<1>2. f = [x \in Indices(h) |->
             {x} \cup UNION {f[h[x].parents[i]] : i \in DOMAIN h[x].parents}]
  <2>1. ASSUME NEW x \in Indices(h)
        PROVE  f[x] = {x} \cup UNION {f[h[x].parents[i]] : i \in DOMAIN h[x].parents}
    <3>1. f[x] = Closure(h, x) OBVIOUS
    <3>2. \A i \in DOMAIN h[x].parents : f[h[x].parents[i]] = Closure(h, h[x].parents[i])
      BY <1>1
    <3>3. Closure(h, x) = {x} \cup UNION {Closure(h, h[x].parents[i]) : i \in DOMAIN h[x].parents}
      BY ClosureStep
    <3> HIDE DEF f
    <3> QED BY <3>1, <3>2, <3>3
  <2> QED BY <2>1
<1> HIDE DEF f
<1>3. Ancestors(h) = [x \in Indices(h) |->
             {x} \cup UNION {Ancestors(h)[h[x].parents[i]] : i \in DOMAIN h[x].parents}]
  BY <1>2, Zenon DEF Ancestors
<1> QED BY <1>3 DEF Reach

\* The least commit of a set of them.
LEMMA FirstCommit ==
  ASSUME NEW S \in SUBSET Nat, S # {}
  PROVE  \E c \in S : \A d \in S : c <= d
<1> DEFINE R == {ss \in Nat \X Nat : ss[1] < ss[2]}
<1>1. IsWellFoundedOn(R, Nat) BY NatLessThanWellFounded DEF OpToRel
<1>2. PICK c \in S : \A d \in S : ~ (<<d, c>> \in R)
  <2> HIDE DEF R
  <2> QED BY <1>1, WFMin
<1>3. ASSUME NEW d \in S PROVE c <= d
  <2>1. ~ (d < c) BY <1>2
  <2> QED BY <2>1
<1> QED BY <1>3

\* What can be reached from a commit are commits of the history.
LEMMA ReachInHistory ==
  ASSUME NEW h, Ordered(h), Len(h) \in Nat, NEW c \in Indices(h)
  PROVE  Reach(h, c) \subseteq Indices(h)
<1> DEFINE B == {x \in Indices(h) : ~ (Reach(h, x) \subseteq Indices(h))}
<1>1. SUFFICES ASSUME B # {} PROVE FALSE OBVIOUS
<1>0. B \in SUBSET Nat BY DEF Indices
<1>2. PICK x \in B : \A y \in B : x <= y
  <2> HIDE DEF B
  <2> QED BY <1>0, <1>1, FirstCommit
<1>3. \A i \in DOMAIN h[x].parents : h[x].parents[i] \in Indices(h) \ B
  BY <1>2 DEF Ordered, Indices
<1>4. Reach(h, x) = {x} \cup UNION {Reach(h, h[x].parents[i]) : i \in DOMAIN h[x].parents}
  BY <1>2, ReachStep
<1>5. Reach(h, x) \subseteq Indices(h) BY <1>3, <1>4
<1> QED BY <1>2, <1>5

\* A history that gets longer leaves what its commits reach.
LEMMA ReachKept ==
  ASSUME NEW h, NEW g, Ordered(h), Ordered(g), Len(h) \in Nat, Len(g) \in Nat,
         Len(h) <= Len(g), \A c \in Indices(h) : g[c] = h[c],
         NEW c \in Indices(h)
  PROVE  Reach(g, c) = Reach(h, c)
<1> DEFINE B == {x \in Indices(h) : Reach(g, x) # Reach(h, x)}
<1>1. SUFFICES ASSUME B # {} PROVE FALSE OBVIOUS
<1>0. B \in SUBSET Nat BY DEF Indices
<1>2. PICK x \in B : \A y \in B : x <= y
  <2> HIDE DEF B
  <2> QED BY <1>0, <1>1, FirstCommit
<1>3. \A i \in DOMAIN h[x].parents : h[x].parents[i] \in Indices(h) \ B
  BY <1>2 DEF Ordered, Indices
<1>4. \A i \in DOMAIN h[x].parents : Reach(g, h[x].parents[i]) = Reach(h, h[x].parents[i])
  BY <1>3
<1>5. x \in Indices(g) /\ g[x] = h[x] BY <1>2 DEF Indices
<1>6. Reach(h, x) = {x} \cup UNION {Reach(h, h[x].parents[i]) : i \in DOMAIN h[x].parents}
  BY <1>2, ReachStep
<1>7. Reach(g, x) = {x} \cup UNION {Reach(g, g[x].parents[i]) : i \in DOMAIN g[x].parents}
  BY <1>5, ReachStep
<1> HIDE DEF B
<1>8. Reach(g, x) = Reach(h, x) BY <1>4, <1>5, <1>6, <1>7
<1> QED BY <1>2, <1>8 DEF B

-----------------------------------------------------------------------------
(* What has landed is merged *)

\* What the default branch of the remote has is of merged pull requests, or has
\* no identifier.
LandedInv == \A c \in Has(main.remote) : Range(commits[c].ids) \subseteq merged

LEMMA HistoryOrdered ==
  ASSUME LocalInv
  PROVE  Ordered(commits) /\ Len(commits) \in Nat /\ Indices(commits) = 1..Len(commits)
<1>1. \A c \in Indices(commits) : Range(commits[c].parents) \subseteq 1..(c - 1)
  BY DEF LocalInv, LocalTypeOK
<1>2. commits \in Seq(CommitTypes) BY DEF LocalInv, LocalTypeOK
<1> QED BY <1>1, <1>2 DEF Ordered, Range, Indices

LEMMA HistoryOrderedNext ==
  ASSUME LocalInv'
  PROVE  Ordered(commits') /\ Len(commits') \in Nat /\ Indices(commits') = 1..Len(commits')
<1>1. \A c \in Indices(commits') : Range(commits'[c].parents) \subseteq 1..(c - 1)
  BY DEF LocalInv, LocalTypeOK
<1>2. commits' \in Seq(CommitTypes) BY DEF LocalInv, LocalTypeOK
<1> QED BY <1>1, <1>2 DEF Ordered, Range, Indices

\* A step that leaves the commits that there are.
LEMMA HistoryKept ==
  ASSUME LocalInv, LocalInv',
         commits' = commits \/ \E r : commits' = Append(commits, r)
  PROVE  \A c \in Indices(commits) :
           c \in Indices(commits)' /\ commits'[c] = commits[c] /\ Has(c)' = Has(c)
                                   /\ Has(c) \subseteq Indices(commits)
<1>1. Ordered(commits) /\ Len(commits) \in Nat /\ Indices(commits) = 1..Len(commits)
  BY HistoryOrdered
<1>2. Ordered(commits') /\ Len(commits') \in Nat /\ Indices(commits') = 1..Len(commits')
  BY HistoryOrderedNext
<1>3. commits \in Seq(CommitTypes) BY DEF LocalInv, LocalTypeOK
<1>4. Len(commits) <= Len(commits') /\ \A c \in Indices(commits) : commits'[c] = commits[c]
  BY <1>1, <1>3
<1> QED BY <1>1, <1>2, <1>4, ReachKept, ReachInHistory DEF Has

\* A step that lands nothing.
LEMMA LandedSame ==
  ASSUME LocalInv, LocalInv', LandedInv, main'.remote = main.remote, merged' = merged,
         commits' = commits \/ \E r : commits' = Append(commits, r)
  PROVE  LandedInv'
<1>1. main.remote \in Indices(commits) BY DEF LocalInv, LocalTypeOK
<1>2. Has(main.remote)' = Has(main.remote) /\ Has(main.remote) \subseteq Indices(commits)
      /\ \A c \in Indices(commits) : commits'[c] = commits[c]
  <2>1. PICK m : m = main.remote OBVIOUS
  <2>2. Has(m)' = Has(m) /\ Has(m) \subseteq Indices(commits) BY <1>1, <2>1, HistoryKept
  <2>3. \A c \in Indices(commits) : commits'[c] = commits[c] BY HistoryKept
  <2> QED BY <2>1, <2>2, <2>3 DEF Has
<1> QED BY <1>2 DEF LandedInv

\* A step that lands a commit: its parents have landed, or is one that is merged.
LEMMA LandedMore ==
  ASSUME LocalInv, LocalInv', LandedInv, NEW parents \in Seq(Nat),
         Range(parents) \subseteq Indices(commits), NEW ids, NEW gone,
         Land(Foreign(parents, ids, New), gone), Range(ids) \subseteq gone,
         \A p \in Range(parents) : \A x \in Has(p) :
           x \in Has(main.remote) \/ Range(commits[x].ids) \subseteq gone
  PROVE  LandedInv'
<1> DEFINE r == Foreign(parents, ids, New)
<1>1. /\ commits' = Append(commits, r) /\ main'.remote = New /\ merged' = merged \cup gone
  <2>1. main \in [local : Indices(commits), remote : Indices(commits)]
    BY DEF LocalInv, LocalTypeOK
  <2> QED BY <2>1 DEF Land
<1>2. commits \in Seq(CommitTypes) BY DEF LocalInv, LocalTypeOK
<1>3. PICK n : n = New OBVIOUS
<1>4. /\ \A c \in Indices(commits) :
           commits'[c] = commits[c] /\ Has(c)' = Has(c) /\ Has(c) \subseteq Indices(commits)
  BY <1>1, HistoryKept
<1>5. commits'[n] = r /\ n \in Indices(commits')
  BY <1>1, <1>2, <1>3 DEF New, Indices
<1>6. Ordered(commits') /\ Len(commits') \in Nat
  BY HistoryOrderedNext
<1>7. Reach(commits', n) = {n} \cup UNION {Reach(commits', parents[i]) : i \in DOMAIN parents}
  <2>1. commits'[n].parents = parents BY <1>5 DEF Foreign
  <2> QED BY <1>5, <1>6, <2>1, ReachStep
<1>8. \A i \in DOMAIN parents : parents[i] \in Indices(commits) /\ parents[i] \in Range(parents)
  BY DEF Range
<1>9. \A i \in DOMAIN parents : Reach(commits', parents[i]) = Has(parents[i])
                                 /\ Has(parents[i]) \subseteq Indices(commits)
  BY <1>4, <1>8 DEF Has
<1>10. ASSUME NEW x \in Reach(commits', n) PROVE Range(commits'[x].ids) \subseteq merged'
  <2>1. CASE x = n
    <3>1. commits'[x].ids = ids BY <1>5, <2>1 DEF Foreign
    <3> QED BY <1>1, <3>1
  <2>2. CASE x # n
    <3>1. PICK i \in DOMAIN parents : x \in Reach(commits', parents[i]) BY <1>7, <1>10, <2>2
    <3>2. x \in Has(parents[i]) /\ commits'[x] = commits[x] BY <1>4, <1>9, <3>1
    <3>3. CASE x \in Has(main.remote)
      <4>1. Range(commits[x].ids) \subseteq merged BY <3>3 DEF LandedInv
      <4> QED BY <1>1, <3>2, <4>1
    <3>4. CASE Range(commits[x].ids) \subseteq gone BY <1>1, <3>2, <3>4
    <3> QED BY <1>8, <3>2, <3>3, <3>4
  <2> QED BY <2>1, <2>2
<1>11. Reach(commits', main'.remote) = Reach(commits', n) BY <1>1, <1>3
<1> QED BY <1>10, <1>11 DEF LandedInv, Has

LEMMA LandedStep ==
  ASSUME LocalInv, LandedInv, [Next]_localVars
  PROVE  LandedInv'
<1>0. LocalInv' BY LocalStep
<1>1. ASSUME UserStep \/ Push \/ UNCHANGED localVars PROVE LandedInv'
  <2>1. /\ commits' = commits \/ \E r : commits' = Append(commits, r)
        /\ main'.remote = main.remote /\ merged' = merged
    <3>0. main \in [local : Indices(commits), remote : Indices(commits)]
      BY DEF LocalInv, LocalTypeOK
    <3>1. ASSUME NEW parents, NEW kind, NEW ids, NEW verify, NEW was,
                 Make(parents, kind, ids, verify, was)
          PROVE  /\ commits' = commits \/ \E r : commits' = Append(commits, r)
                 /\ main'.remote = main.remote /\ merged' = merged
      BY <3>1 DEF Make, githubVars
    <3>2. CASE \E verify \in BOOLEAN :
                 \/ \E m \in Messages : Commit(m, verify) \/ Amend(m.kind, verify)
                 \/ \E c \in Own : Copy(c, verify)
                 \/ Merge(verify)
      BY <3>1, <3>2 DEF Commit, Amend, Copy, Merge
    <3>3. CASE \E onto \in {main.local, main.remote} : StartRebase(onto)
      BY <3>3 DEF StartRebase, githubVars
    <3>4. CASE Pick BY <3>4 DEF Pick, githubVars
    <3>5. CASE Drop \/ FinishRebase \/ AbortRebase \/ Detach \/ Reattach
      BY <3>5 DEF Drop, FinishRebase, AbortRebase, Detach, Reattach, githubVars
    <3>6. CASE Recreate \/ \E m \in {"managed", "unmanaged"} : SetMode(m)
      BY <3>6 DEF Recreate, SetMode, gitVars, githubVars
    <3>7. CASE Pull BY <3>0, <3>7 DEF Pull, githubVars
    <3>8. CASE Push BY <3>8 DEF Push, gitVars
    <3>9. CASE UNCHANGED localVars BY <3>9 DEF localVars, gitVars, githubVars
    <3> QED BY <1>1, <3>2, <3>3, <3>4, <3>5, <3>6, <3>7, <3>8, <3>9 DEF UserStep
  <2> QED BY <1>0, <2>1, LandedSame
<1>2. main.remote \in Indices(commits) /\ main.remote \in Nat BY PlacesFacts
<1>3. <<main.remote>> \in Seq(Nat) /\ Range(<<main.remote>>) = {main.remote}
  BY <1>2 DEF Range
<1>4. Range(<< >>) = {} BY DEF Range
<1>5. ASSUME NEW c \in Indices(commits), NEW how \in {"rebase", "squash", "merge"},
             LandPr(c, how)
      PROVE  LandedInv'
  <2>1. Ids({c}) = Range(commits[c].ids) BY DEF Ids
  <2>2. c \in Nat /\ commits[c].ids \in Seq(Nat) BY CommitFacts
  <2>3. ASSUME NEW x \in Has(c)
        PROVE  x \in Has(main.remote) \/ Range(commits[x].ids) \subseteq Ids({c})
    <3>1. x \in Indices(commits) BY <2>3, HistoryOrdered, ReachInHistory DEF Has
    <3>2. x \in Has(main.remote) \/ x = c BY <1>5, <3>1 DEF LandPr, Missing
    <3> QED BY <2>1, <3>2
  <2>4. CASE how = "merge"
    <3>1. Land(Foreign(<<main.remote, c>>, << >>, New), Ids({c})) BY <1>5, <2>4 DEF LandPr
    <3>2. <<main.remote, c>> \in Seq(Nat) /\ Range(<<main.remote, c>>) = {main.remote, c}
      BY <1>2, <2>2 DEF Range
    <3>3. \A p \in Range(<<main.remote, c>>) : \A x \in Has(p) :
            x \in Has(main.remote) \/ Range(commits[x].ids) \subseteq Ids({c})
      BY <2>3, <3>2
    <3>4. Range(<<main.remote, c>>) \subseteq Indices(commits) BY <1>2, <1>5, <3>2
    <3>5. Range(<< >>) \subseteq Ids({c}) BY <1>4
    <3> HIDE DEF New
    <3> QED BY <1>0, <3>1, <3>2, <3>3, <3>4, <3>5, LandedMore
  <2>5. CASE how = "rebase"
    <3>1. Land(Foreign(<<main.remote>>, commits[c].ids, New), Ids({c}))
      BY <1>5, <2>5 DEF LandPr
    <3> QED BY <1>0, <1>2, <1>3, <2>1, <3>1, LandedMore
  <2>6. CASE how = "squash"
    <3>1. Land(Foreign(<<main.remote>>, << >>, New), Ids({c})) BY <1>5, <2>6 DEF LandPr
    <3> QED BY <1>0, <1>2, <1>3, <1>4, <3>1, LandedMore
  <2> QED BY <2>4, <2>5, <2>6
<1>6. CASE LandOther
  <2>1. Land(Foreign(<<main.remote>>, << >>, New), {}) BY <1>6 DEF LandOther
  <2> QED BY <1>0, <1>2, <1>3, <1>4, <2>1, LandedMore
<1> QED BY <1>1, <1>5, <1>6 DEF Next

\* Every commit that a push is about has an identifier.
LEMMA CollectedHaveIds ==
  ASSUME Collected.stack # << >>, NEW x \in Range(Collected.stack)
  PROVE  commits[x].ids # << >>
<1> DEFINE s == CommitsBetween(commits, main.local, head)
           faulty == {i \in DOMAIN s : Fault(commits[s[i]]) # "none"}
<1>1. Collected = Checked(commits, s)
  BY DEF Collected, Collect, Refusal
<1>2. \A why : Refusal(why).stack = << >> BY DEF Refusal
<1>3. Collected.stack = s /\ faulty = {}
  <2>1. Checked(commits, s).stack # << >> BY <1>1
  <2> HIDE DEF s
  <2> QED BY <1>1, <1>2, <2>1 DEF Checked
<1>4. PICK i \in DOMAIN s : x = s[i] BY <1>3 DEF Range
<1>5. Fault(commits[x]) = "none" BY <1>3, <1>4
<1> QED BY <1>5 DEF Fault

LEMMA LandedInit == Init => LandedInv
<1> SUFFICES ASSUME Init PROVE LandedInv OBVIOUS
<1> DEFINE r == Foreign(<< >>, << >>, 1)
<1>1. commits = <<r>> /\ main.remote = 1 /\ r.parents = << >> /\ r.ids = << >>
  BY DEF Init, Foreign
<1> HIDE DEF r
<1>2. Len(commits) = 1 /\ commits[1] = r /\ Indices(commits) = {1}
  BY <1>1 DEF Indices
<1>3. Ordered(commits) BY <1>1, <1>2 DEF Ordered
<1>4. Reach(commits, 1) = {1}
  <2>1. commits[1].parents = << >> BY <1>1, <1>2
  <2>2. Reach(commits, 1) =
          {1} \cup UNION {Reach(commits, commits[1].parents[i]) : i \in DOMAIN commits[1].parents}
    BY <1>2, <1>3, ReachStep
  <2> QED BY <2>1, <2>2
<1>5. Range(<< >>) = {} BY DEF Range
<1> QED BY <1>1, <1>2, <1>4, <1>5 DEF LandedInv, Has

LEMMA NotPushedAgain ==
  ASSUME LocalInv, LandedInv
  PROVE  LandedNotPushed
<1> SUFFICES ASSUME Pushes, NEW x \in Range(Collected.stack),
                    x \in Has(main.remote)
             PROVE  FALSE
  BY DEF LandedNotPushed
<1>1. Collected.stack # << >> /\ Ids(Range(Collected.stack)) \cap merged = {}
  BY DEF Pushes
<1>2. commits[x].ids # << >> BY <1>1, CollectedHaveIds
<1>3. main.remote \in Indices(commits) BY PlacesFacts
<1>4. x \in Indices(commits) BY <1>3, HistoryOrdered, ReachInHistory DEF Has
<1>5. commits[x].ids \in Seq(Nat) BY <1>4, CommitFacts
<1>6. Range(commits[x].ids) # {}
  <2>1. 1 \in DOMAIN commits[x].ids BY <1>2, <1>5
  <2> QED BY <2>1 DEF Range
<1>7. Range(commits[x].ids) \subseteq merged BY DEF LandedInv
<1>8. Range(commits[x].ids) \subseteq Ids(Range(Collected.stack)) BY DEF Ids
<1> QED BY <1>1, <1>6, <1>7, <1>8

\* A commit that has landed, as it is or by a merge, is not pushed again, however
\* far the local default branch lags behind: its pull request is merged, and run
\* (pre_push/mod.rs) asks for the pull requests of the stack before it pushes.
THEOREM LandedNotPushedHolds == Spec => []LandedNotPushed
<1>1. Init => LandedInv BY LandedInit
<1>2. LocalInv /\ LandedInv /\ [Next]_localVars => LandedInv' BY LandedStep
<1>3. LocalInv /\ LandedInv => LandedNotPushed BY NotPushedAgain
<1> QED BY <1>1, <1>2, <1>3, LocalInvariance, PTL DEF Spec

-----------------------------------------------------------------------------
(* The walk over a linear history *)

WalkStart(c) == [queue |-> <<c>>, seen |-> {c}, out |-> << >>]

IsWalk(h, c, n, f) ==
  f = [i \in 0..n |-> IF i = 0 THEN WalkStart(c) ELSE WalkStep(h, f[i - 1])]

\* However long it goes on, there is a walk.
LEMMA WalkExists ==
  ASSUME NEW h, NEW c, NEW n \in Nat
  PROVE  \E f : IsWalk(h, c, n, f)
<1> DEFINE Solves(m, f) == IsWalk(h, c, m, f)
           B == {m \in Nat : ~ \E f : Solves(m, f)}
<1>1. SUFFICES ASSUME B # {} PROVE FALSE OBVIOUS
<1>2. PICK m \in B : \A k \in B : m <= k
  <2>1. B \in SUBSET Nat OBVIOUS
  <2> HIDE DEF B
  <2> QED BY <1>1, <2>1, FirstCommit
<1>3. m # 0
  <2> DEFINE f == [i \in 0..0 |-> WalkStart(c)]
  <2>1. Solves(0, f) BY DEF IsWalk
  <2> HIDE DEF f
  <2> QED BY <2>1
<1>4. m - 1 \in Nat /\ m - 1 \notin B BY <1>2, <1>3
<1>5. PICK f : Solves(m - 1, f) BY <1>4
<1> DEFINE g == [i \in 0..m |-> IF i < m THEN f[i] ELSE WalkStep(h, f[m - 1])]
<1>6. Solves(m, g)
  <2>1. ASSUME NEW i \in 0..m
        PROVE  g[i] = IF i = 0 THEN WalkStart(c) ELSE WalkStep(h, g[i - 1])
    <3>1. CASE i = 0
      <4>1. f[0] = WalkStart(c) BY <1>4, <1>5 DEF IsWalk
      <4> QED BY <1>3, <3>1, <4>1
    <3>2. CASE i # 0 /\ i < m
      <4>1. f[i] = WalkStep(h, f[i - 1]) BY <1>4, <1>5, <3>2 DEF IsWalk
      <4>2. g[i] = f[i] /\ g[i - 1] = f[i - 1] BY <3>2
      <4> HIDE DEF g
      <4> QED BY <3>2, <4>1, <4>2
    <3>3. CASE i = m
      <4>1. g[m] = WalkStep(h, f[m - 1]) /\ g[m - 1] = f[m - 1] BY <1>2, <1>4
      <4> HIDE DEF g
      <4> QED BY <1>3, <3>3, <4>1
    <3> QED BY <3>1, <3>2, <3>3
  <2> QED BY <2>1 DEF IsWalk
<1> HIDE DEF g
<1> QED BY <1>2, <1>6

\* What the recursion of Walk is about.
LEMMA WalkSteps ==
  ASSUME NEW h, NEW c, Len(h) \in Nat
  PROVE  /\ Walk(h, c)[0] = WalkStart(c)
         /\ \A i \in 1..Len(h) : Walk(h, c)[i] = WalkStep(h, Walk(h, c)[i - 1])
<1>1. \E f : IsWalk(h, c, Len(h), f) BY WalkExists
<1>2. IsWalk(h, c, Len(h), Walk(h, c)) BY <1>1, Zenon DEF Walk, WalkStart, IsWalk
<1> QED BY <1>2 DEF IsWalk

\* A commit reaches no later one.
LEMMA ReachBelow ==
  ASSUME NEW h, Ordered(h), Len(h) \in Nat, NEW c \in Indices(h)
  PROVE  c \in Reach(h, c) /\ Reach(h, c) \subseteq 1..c
<1> DEFINE B == {x \in Indices(h) : ~ (Reach(h, x) \subseteq 1..x)}
<1>1. c \in Reach(h, c) BY ReachStep
<1>2. SUFFICES ASSUME B # {} PROVE FALSE BY <1>1
<1>3. PICK x \in B : \A y \in B : x <= y
  <2>1. B \in SUBSET Nat BY DEF Indices
  <2> HIDE DEF B
  <2> QED BY <1>2, <2>1, FirstCommit
<1>4. x \in 1..Len(h) BY DEF Indices
<1>5. ASSUME NEW i \in DOMAIN h[x].parents PROVE Reach(h, h[x].parents[i]) \subseteq 1..x
  <2>1. h[x].parents[i] \in 1..(x - 1) BY <1>3 DEF Ordered
  <2>2. h[x].parents[i] \in Indices(h) \ B BY <1>3, <1>4, <2>1 DEF Indices
  <2>3. Reach(h, h[x].parents[i]) \subseteq 1..(h[x].parents[i]) BY <2>2
  <2> QED BY <1>4, <2>1, <2>3
<1>6. Reach(h, x) = {x} \cup UNION {Reach(h, h[x].parents[i]) : i \in DOMAIN h[x].parents}
  BY <1>3, ReachStep
<1>7. Reach(h, x) \subseteq 1..x BY <1>4, <1>5, <1>6
<1> QED BY <1>3, <1>7

\* A commit reaches what those reach that it reaches.
LEMMA ReachClosed ==
  ASSUME NEW h, Ordered(h), Len(h) \in Nat, NEW c \in Indices(h), NEW d \in Reach(h, c)
  PROVE  Reach(h, d) \subseteq Reach(h, c)
<1> DEFINE Open(x) == ~ \A y \in Reach(h, x) : Reach(h, y) \subseteq Reach(h, x)
           B == {x \in Indices(h) : Open(x)}
<1>1. SUFFICES ASSUME B # {} PROVE FALSE OBVIOUS
<1>2. PICK x \in B : \A y \in B : x <= y
  <2>1. B \in SUBSET Nat BY DEF Indices
  <2> HIDE DEF B
  <2> QED BY <1>1, <2>1, FirstCommit
<1>3. \A i \in DOMAIN h[x].parents : h[x].parents[i] \in Indices(h) \ B
  BY <1>2 DEF Ordered, Indices
<1>4. Reach(h, x) = {x} \cup UNION {Reach(h, h[x].parents[i]) : i \in DOMAIN h[x].parents}
  BY <1>2, ReachStep
<1>5. ASSUME NEW y \in Reach(h, x) PROVE Reach(h, y) \subseteq Reach(h, x)
  <2>1. CASE y = x BY <2>1
  <2>2. ASSUME NEW i \in DOMAIN h[x].parents, y \in Reach(h, h[x].parents[i])
        PROVE  Reach(h, y) \subseteq Reach(h, x)
    <3>1. Reach(h, y) \subseteq Reach(h, h[x].parents[i]) BY <1>3, <2>2
    <3> QED BY <1>4, <3>1
  <2> QED BY <1>4, <1>5, <2>1, <2>2
<1> QED BY <1>2, <1>5

\* A commit with at most one parent puts it in the queue when it is a new one.
LEMMA OneNewParent ==
  ASSUME NEW h, NEW c, NEW seen, h[c].parents \in Seq(Nat), Len(h[c].parents) <= 1,
         \A i \in DOMAIN h[c].parents : h[c].parents[i] \notin seen
  PROVE  NewParents(h, c, seen) = h[c].parents
<1> DEFINE ps == h[c].parents
           new == {i \in DOMAIN ps : ps[i] \notin seen}
           rank(i) == Cardinality({j \in new : j <= i})
<1>1. NewParents(h, c, seen) =
        [k \in 1..Cardinality(new) |-> ps[CHOOSE i \in new : rank(i) = k]]
  BY DEF NewParents
<1>2. new = DOMAIN ps OBVIOUS
<1>3. CASE Len(ps) = 0
  <2>1. new = {} /\ ps = << >> BY <1>2, <1>3
  <2>2. Cardinality(new) = 0 BY <2>1, FS_EmptySet
  <2> QED BY <1>1, <2>1, <2>2
<1>4. CASE Len(ps) = 1
  <2>1. new = {1} BY <1>2, <1>4
  <2>2. {j \in new : j <= 1} = {1} BY <2>1
  <2>3. Cardinality(new) = 1 /\ rank(1) = 1 BY <2>1, <2>2, FS_Singleton
  <2>4. (CHOOSE i \in new : rank(i) = 1) = 1
    <3> HIDE DEF rank
    <3> QED BY <2>1, <2>3
  <2>5. NewParents(h, c, seen) = [k \in 1..1 |-> ps[CHOOSE i \in new : rank(i) = k]]
    BY <1>1, <2>3
  <2> DEFINE f(k) == ps[CHOOSE i \in new : rank(i) = k]
  <2>6. ps = [k \in 1..1 |-> ps[k]] BY <1>4
  <2>7. f(1) = ps[1]
    <3> HIDE DEF new, rank
    <3> QED BY <2>4
  <2> HIDE DEF f, ps
  <2>8. \A k \in 1..1 : f(k) = ps[k] BY <2>7
  <2>9. [k \in 1..1 |-> f(k)] = [k \in 1..1 |-> ps[k]] BY <2>8
  <2> QED BY <2>5, <2>6, <2>9 DEF f, ps
<1>5. Len(ps) = 0 \/ Len(ps) = 1
  <2>1. \A m \in Nat : m <= 1 => m = 0 \/ m = 1 OBVIOUS
  <2>2. Len(ps) \in Nat /\ Len(ps) <= 1 OBVIOUS
  <2> QED BY <2>1, <2>2, Zenon
<1> QED BY <1>3, <1>4, <1>5

\* What a walk has been at: later commits before the earlier ones, and before each
\* commit exactly those that it does not reach.
Visited(h, c, s) ==
  /\ s \in Seq(Reach(h, c))
  /\ \A k \in DOMAIN s : \A j \in 1..(k - 1) : s[k] < s[j]
  /\ \A k \in DOMAIN s : {s[j] : j \in 1..(k - 1)} = Reach(h, c) \ Reach(h, s[k])

\* A walk after n steps: it is at d, or it has been everywhere.
WalkAt(h, c, n, w) ==
  \/ \E d \in Reach(h, c) :
       /\ w.queue = <<d>> /\ w.seen = {d} \cup Range(w.out)
       /\ Len(w.out) = n /\ d + n <= Len(h)
       /\ \A k \in DOMAIN w.out : d < w.out[k]
       /\ Range(w.out) = Reach(h, c) \ Reach(h, d)
  \/ w.queue = << >> /\ Range(w.out) = Reach(h, c)

\* The histories that git makes, as far as one walk is about them.
History(h, c) ==
  /\ Ordered(h) /\ Len(h) \in Nat /\ c \in Indices(h)
  /\ \A x \in Indices(h) : h[x].parents \in Seq(Nat)

LEMMA LinearWalkStep ==
  ASSUME NEW h, NEW c, NEW n \in Nat, NEW w, History(h, c), Linear(h, c),
         Visited(h, c, w.out), WalkAt(h, c, n, w)
  PROVE  Visited(h, c, WalkStep(h, w).out) /\ WalkAt(h, c, n + 1, WalkStep(h, w))
<1>1. CASE w.queue = << >> BY <1>1 DEF WalkStep, WalkAt
<1>2. CASE w.queue # << >>
  <2>1. PICK d \in Reach(h, c) :
          /\ w.queue = <<d>> /\ w.seen = {d} \cup Range(w.out)
          /\ Len(w.out) = n /\ d + n <= Len(h)
          /\ \A k \in DOMAIN w.out : d < w.out[k]
          /\ Range(w.out) = Reach(h, c) \ Reach(h, d)
    BY <1>2 DEF WalkAt
  <2> DEFINE ps == h[d].parents
             R == Reach(h, c)
  <2>2. d \in Indices(h) /\ d \in 1..Len(h) /\ R \subseteq Nat
    <3>1. R \subseteq 1..c /\ c \in 1..Len(h) BY ReachBelow DEF History, Indices
    <3> QED BY <3>1 DEF Indices
  <2>3. /\ ps \in Seq(Nat) /\ Len(ps) <= 1
        /\ \A i \in DOMAIN ps : ps[i] \in 1..(d - 1)
    BY <2>1, <2>2 DEF History, Linear, Ordered
  <2>4. w.out \in Seq(R) BY DEF Visited
  <2>5. NewParents(h, d, w.seen) = ps
    <3>1. ASSUME NEW i \in DOMAIN ps PROVE ps[i] \notin w.seen
      <4>1. ps[i] \in 1..(d - 1) BY <2>3
      <4>2. ASSUME NEW k \in DOMAIN w.out PROVE ps[i] # w.out[k]
        <5>1. d < w.out[k] /\ w.out[k] \in Nat BY <2>1, <2>2, <2>4
        <5> QED BY <2>2, <4>1, <5>1
      <4>3. ps[i] # d BY <2>2, <4>1
      <4> QED BY <2>1, <4>2, <4>3 DEF Range
    <3> QED BY <2>3, <3>1, OneNewParent
  <2> DEFINE v == WalkStep(h, w)
  <2>6. v.queue = ps /\ v.seen = w.seen \cup Range(ps) /\ v.out = Append(w.out, d)
    <3>1. v = [queue |-> << >> \o ps, seen |-> w.seen \cup Range(ps),
               out |-> Append(w.out, d)]
      <4>1. w.queue # << >> /\ Head(w.queue) = d /\ Tail(w.queue) = << >> BY <2>1
      <4> QED BY <2>5, <4>1 DEF WalkStep
    <3>2. << >> \o ps = ps BY <2>3
    <3> QED BY <3>1, <3>2
  <2> HIDE DEF v
  <2>7. /\ v.out \in Seq(R) /\ Len(v.out) = n + 1 /\ v.out[n + 1] = d
        /\ \A k \in 1..n : v.out[k] = w.out[k]
        /\ DOMAIN v.out = 1..(n + 1) /\ DOMAIN w.out = 1..n
    BY <2>1, <2>4, <2>6
  <2>8. Range(v.out) = Range(w.out) \cup {d} BY <2>7 DEF Range
  <2>9. Visited(h, c, v.out)
    <3>1. ASSUME NEW k \in 1..n
          PROVE  /\ \A j \in 1..(k - 1) : v.out[k] < v.out[j]
                 /\ {v.out[j] : j \in 1..(k - 1)} = R \ Reach(h, v.out[k])
      <4>1. \A j \in 1..(k - 1) : j \in 1..n BY <3>1
      <4>2. {v.out[j] : j \in 1..(k - 1)} = {w.out[j] : j \in 1..(k - 1)}
        BY <2>7, <4>1
      <4> QED BY <2>7, <4>1, <4>2 DEF Visited
    <3>2. /\ \A j \in 1..n : v.out[n + 1] < v.out[j]
          /\ {v.out[j] : j \in 1..n} = R \ Reach(h, v.out[n + 1])
      <4>1. {v.out[j] : j \in 1..n} = Range(w.out) BY <2>7 DEF Range
      <4> QED BY <2>1, <2>7, <4>1
    <3>3. (n + 1) - 1 = n OBVIOUS
    <3> QED BY <2>7, <3>1, <3>2, <3>3 DEF Visited
  <2>10. Reach(h, d) = {d} \cup UNION {Reach(h, ps[i]) : i \in DOMAIN ps}
    BY <2>2, ReachStep DEF History
  <2>11. Reach(h, d) \subseteq R BY ReachClosed DEF History
  <2>12. CASE ps = << >>
    <3>1. Reach(h, d) = {d} BY <2>10, <2>12
    <3>2. Range(v.out) = R BY <2>1, <2>8, <2>11, <3>1
    <3> QED BY <2>6, <2>9, <2>12, <3>2 DEF WalkAt, v
  <2>13. CASE ps # << >>
    <3>1. Len(ps) = 1 /\ ps = <<ps[1]>> /\ DOMAIN ps = {1}
      <4> HIDE DEF ps
      <4>1. ps \in Seq(Nat) /\ Len(ps) <= 1 /\ ps # << >> BY <2>3, <2>13
      <4>2. Len(ps) \in Nat /\ Len(ps) # 0 BY <4>1
      <4>3. \A m \in Nat : m <= 1 /\ m # 0 => m = 1 OBVIOUS
      <4>4. Len(ps) = 1 BY <4>1, <4>2, <4>3, Zenon
      <4> QED BY <4>1, <4>4
    <3> DEFINE p == ps[1]
    <3>2. p \in 1..(d - 1) /\ p \in Indices(h) BY <2>2, <2>3, <3>1 DEF Indices
    <3>3. Reach(h, d) = {d} \cup Reach(h, p) BY <2>10, <3>1
    <3>4. p \in Reach(h, p) /\ d \notin Reach(h, p)
      <4>1. p \in Reach(h, p) /\ Reach(h, p) \subseteq 1..p BY <3>2, ReachBelow DEF History
      <4> QED BY <2>2, <3>2, <4>1
    <3>5. p \in R BY <2>11, <3>3, <3>4
    <3>6. Range(v.out) = R \ Reach(h, p) BY <2>1, <2>8, <2>11, <3>3, <3>4
    <3>7. v.seen = {p} \cup Range(v.out)
      <4>1. Range(ps) = {p} BY <3>1 DEF Range
      <4> QED BY <2>1, <2>6, <2>8, <4>1
    <3>8. \A k \in DOMAIN v.out : p < v.out[k]
      <4>1. ASSUME NEW k \in 1..n PROVE p < v.out[k]
        <5>1. d < w.out[k] /\ w.out[k] \in R BY <2>1, <2>4, <2>7
        <5>2. w.out[k] \in Nat /\ d \in Nat /\ p \in Nat /\ p < d BY <2>2, <3>2, <5>1
        <5>3. p < w.out[k] BY <5>1, <5>2
        <5> QED BY <2>7, <5>3
      <4>2. p < d BY <2>2, <3>2
      <4> QED BY <2>7, <4>1, <4>2
    <3>9. p + (n + 1) <= Len(h) BY <2>1, <2>2, <3>2 DEF History
    <3>10. v.queue = <<p>> BY <2>6, <3>1
    <3> HIDE DEF p
    <3>11. WalkAt(h, c, n + 1, v) BY <2>7, <3>5, <3>6, <3>7, <3>8, <3>9, <3>10 DEF WalkAt
    <3> QED BY <2>9, <3>11 DEF v
  <2> QED BY <2>12, <2>13
<1> QED BY <1>1, <1>2

\* On a linear history the walk is everywhere, and before a commit exactly where
\* that does not reach.
LEMMA LinearWalk ==
  ASSUME NEW h, NEW c, History(h, c), Linear(h, c)
  PROVE  /\ Visited(h, c, BreadthFirst(h, c))
         /\ Range(BreadthFirst(h, c)) = Reach(h, c)
<1> DEFINE w(i) == Walk(h, c)[i]
           Fails(i) == ~ (Visited(h, c, w(i).out) /\ WalkAt(h, c, i, w(i)))
           N == Len(h)
           B == {i \in 0..N : Fails(i)}
<1>1. N \in Nat /\ c \in 1..N BY DEF History, Indices
<1>2. w(0) = WalkStart(c) /\ \A i \in 1..N : w(i) = WalkStep(h, w(i - 1))
  BY <1>1, WalkSteps
<1>3. c \in Reach(h, c) /\ Reach(h, c) \subseteq 1..c BY ReachBelow DEF History
<1>4. ~ Fails(0)
  <2>1. Visited(h, c, << >>) BY DEF Visited
  <2>2. WalkAt(h, c, 0, WalkStart(c))
    <3>1. Range(<< >>) = {} BY DEF Range
    <3> QED BY <1>1, <1>3, <3>1 DEF WalkAt, WalkStart
  <2>3. WalkStart(c).out = << >> BY DEF WalkStart
  <2> QED BY <1>2, <2>1, <2>2, <2>3
<1>5. B = {}
  <2> SUFFICES ASSUME B # {} PROVE FALSE OBVIOUS
  <2>1. PICK i \in B : \A j \in B : i <= j
    <3>1. B \in SUBSET Nat BY <1>1
    <3> HIDE DEF B
    <3> QED BY <3>1, FirstCommit
  <2>2. i \in 1..N /\ i - 1 \in Nat /\ i - 1 \in 0..N BY <1>1, <1>4, <2>1
  <2>3. ~ Fails(i - 1)
    <3> HIDE DEF Fails
    <3>1. i - 1 \notin B BY <1>1, <2>1, <2>2
    <3> QED BY <2>2, <3>1
  <2>4. w(i) = WalkStep(h, w(i - 1)) BY <1>2, <2>2
  <2>5. Visited(h, c, w(i).out) /\ WalkAt(h, c, (i - 1) + 1, w(i))
    <3> HIDE DEF w
    <3> QED BY <2>2, <2>3, <2>4, LinearWalkStep
  <2>6. (i - 1) + 1 = i BY <2>2
  <2> QED BY <2>1, <2>5, <2>6
<1>6. Visited(h, c, w(N).out) /\ WalkAt(h, c, N, w(N)) BY <1>1, <1>5
<1> HIDE DEF w
<1>7. Range(w(N).out) = Reach(h, c)
  <2>1. \A d \in Reach(h, c) : ~ (d + N <= N) BY <1>1, <1>3
  <2> QED BY <1>6, <2>1 DEF WalkAt
<1> QED BY <1>6, <1>7 DEF w, BreadthFirst

\* On a linear history commits_between (util.rs) gives the commits that the
\* ancestor has not, each after its parent.
LEMMA LinearBetween ==
  ASSUME NEW h, NEW c, History(h, c), Linear(h, c), NEW a \in Reach(h, c)
  PROVE  IsOrderOf(h, CommitsBetween(h, a, c), Between(h, a, c))
<1> DEFINE s == BreadthFirst(h, c)
           R == Reach(h, c)
<1>1. Visited(h, c, s) /\ Range(s) = R BY LinearWalk
<1>2. R \subseteq Nat
  <2>1. R \subseteq 1..c /\ c \in Nat BY ReachBelow DEF History, Indices
  <2> QED BY <2>1
<1> HIDE DEF s
<1>3. /\ s \in Seq(R) /\ Len(s) \in Nat /\ DOMAIN s = 1..Len(s)
      /\ \A i \in DOMAIN s : s[i] \in Nat
      /\ \A i \in DOMAIN s : \A j \in 1..(i - 1) : s[i] < s[j]
  BY <1>1, <1>2 DEF Visited
<1>4. PICK k \in DOMAIN s : s[k] = a BY <1>1 DEF Range
<1>5. {i \in DOMAIN s : s[i] = a} = {k}
  <2>1. ASSUME NEW i \in DOMAIN s, s[i] = a PROVE i = k
    <3>1. CASE i < k
      <4>1. i \in 1..(k - 1) BY <1>3, <3>1
      <4> QED BY <1>3, <1>4, <2>1, <4>1
    <3>2. CASE k < i
      <4>1. k \in 1..(i - 1) BY <1>3, <3>2
      <4> QED BY <1>3, <1>4, <2>1, <4>1
    <3> QED BY <1>3, <3>1, <3>2
  <2> QED BY <1>4, <2>1
<1> DEFINE t == SubSeq(s, 1, k - 1)
           r == Reverse(t)
<1>6. CommitsBetween(h, a, c) = r
  <2>1. (CHOOSE i \in {k} : TRUE) = k OBVIOUS
  <2>2. UpTo(s, a) = t BY <1>5, <2>1 DEF UpTo
  <2> QED BY <2>2 DEF CommitsBetween, s
<1>7. k \in 1..Len(s) /\ k - 1 \in Nat BY <1>3
<1>8. Len(t) = k - 1 /\ \A i \in 1..(k - 1) : t[i] = s[i]
  BY <1>3, <1>7
<1> HIDE DEF t
<1>9. r = [i \in 1..(k - 1) |-> s[k - i]]
  <2>1. r = [i \in 1..(k - 1) |-> t[((k - 1) - i) + 1]] BY <1>8 DEF Reverse
  <2>2. ASSUME NEW i \in 1..(k - 1) PROVE t[((k - 1) - i) + 1] = s[k - i]
    <3>1. ((k - 1) - i) + 1 = k - i /\ k - i \in 1..(k - 1) BY <1>7
    <3> QED BY <1>8, <3>1
  <2> QED BY <2>1, <2>2
<1> HIDE DEF r
<1>10. DOMAIN r = 1..(k - 1) /\ Len(r) = k - 1 BY <1>7, <1>9
<1>11. Range(r) = Between(h, a, c)
  <2>1. Range(r) = {s[j] : j \in 1..(k - 1)}
    <3>1. ASSUME NEW i \in 1..(k - 1) PROVE k - i \in 1..(k - 1) /\ r[k - i] = s[i] /\ r[i] = s[k - i]
      <4>1. k - i \in 1..(k - 1) /\ k - (k - i) = i BY <1>7
      <4> QED BY <1>9, <4>1
    <3> QED BY <1>10, <3>1 DEF Range
  <2>2. {s[j] : j \in 1..(k - 1)} = R \ Reach(h, a) BY <1>1, <1>4 DEF Visited
  <2> QED BY <2>1, <2>2 DEF Between
<1>12. ASSUME NEW i \in DOMAIN r, NEW j \in DOMAIN r, j < i PROVE r[j] < r[i]
  <2>1. k - j \in DOMAIN s /\ k - i \in 1..((k - j) - 1) BY <1>3, <1>7, <1>10, <1>12
  <2>2. s[k - j] < s[k - i] BY <1>3, <2>1
  <2> QED BY <1>9, <1>10, <2>2
<1>13. \A i \in DOMAIN r : r[i] \in Nat
  <2>1. ASSUME NEW i \in DOMAIN r PROVE k - i \in DOMAIN s BY <1>3, <1>7, <1>10
  <2> QED BY <1>3, <1>9, <1>10, <2>1
<1>14. Len(r) = Cardinality(Range(r))
  <2>1. \A i, j \in DOMAIN r : r[i] = r[j] => i = j
    <3> SUFFICES ASSUME NEW i \in DOMAIN r, NEW j \in DOMAIN r, r[i] = r[j] PROVE i = j
      OBVIOUS
    <3>1. i \in Int /\ j \in Int BY <1>7, <1>10
    <3>2. ~ (i < j) BY <1>12, <1>13
    <3>3. ~ (j < i) BY <1>12, <1>13
    <3> QED BY <3>1, <3>2, <3>3
  <2>2. r \in [1..(k - 1) -> Range(r)] /\ \A y \in Range(r) : \E i \in 1..(k - 1) : r[i] = y
    BY <1>9, <1>10 DEF Range
  <2>3. r \in Bijection(1..(k - 1), Range(r))
    BY <1>10, <2>1, <2>2 DEF Bijection, Injection, Surjection, IsInjective
  <2>4. ExistsBijection(1..(k - 1), Range(r)) BY <2>3 DEF ExistsBijection
  <2> QED BY <1>7, <1>10, <2>4, FS_CountingElements
<1>15. ASSUME NEW i \in DOMAIN r, NEW j \in DOMAIN r, r[i] \in Reach(h, r[j]) PROVE i <= j
  <2>1. r[j] \in R /\ R \subseteq Indices(h)
    <3>1. r[j] \in Range(r) BY DEF Range
    <3>2. R \subseteq Indices(h) BY ReachInHistory DEF History
    <3> QED BY <1>11, <3>1, <3>2 DEF Between
  <2>2. r[i] <= r[j]
    <3>1. Reach(h, r[j]) \subseteq 1..r[j] BY <2>1, ReachBelow DEF History
    <3> QED BY <1>13, <1>15, <3>1
  <2>3. ~ (j < i) BY <1>12, <1>13, <2>2
  <2> QED BY <1>7, <1>10, <2>3
<1> QED BY <1>6, <1>11, <1>14, <1>15 DEF IsOrderOf

\* What collect_commits makes of the commits it has found.
LEMMA CheckedFacts ==
  ASSUME NEW h, NEW s, DOMAIN s \subseteq Nat
  PROVE  /\ Checked(h, s).why # "notAncestor"
         /\ Checked(h, s).why = "none" => Checked(h, s).stack = s
<1> DEFINE faulty == {i \in DOMAIN s : Fault(h[s[i]]) # "none"}
           first == CHOOSE i \in faulty : \A j \in faulty : i <= j
<1>1. \A commit : Fault(commit) # "notAncestor" BY DEF Fault
<1>2. \A why : Refusal(why).why = why BY DEF Refusal
<1>3. faulty # {} => Fault(h[s[first]]) # "none"
  <2> SUFFICES ASSUME faulty # {} PROVE first \in faulty OBVIOUS
  <2>1. \E i \in faulty : \A j \in faulty : i <= j
    <3>1. faulty \in SUBSET Nat OBVIOUS
    <3> HIDE DEF faulty
    <3> QED BY <3>1, FirstCommit
  <2> HIDE DEF faulty
  <2> QED BY <2>1
<1>4. \/ Checked(h, s) = Refusal("autosquash") \/ Checked(h, s) = Refusal("duplicate")
      \/ faulty # {} /\ Checked(h, s) = Refusal(Fault(h[s[first]]))
      \/ Checked(h, s) = [why |-> "none", stack |-> s]
  BY Zenon DEF Checked
<1> HIDE DEF faulty, first
<1> QED BY <1>1, <1>2, <1>3, <1>4

\* On a linear history a push is about exactly the commits that the default
\* branch has not, parents first, and is refused as not based on it only when it is
\* not (collect_commits in pre_push/mod.rs).
THEOREM CollectsMissingHolds == Spec => []CollectsMissing
<1>1. LocalInv => CollectsMissing
  <2> SUFFICES ASSUME LocalInv, Linear(commits, head)
               PROVE  /\ Collected.why = "notAncestor" <=> main.local \notin Has(head)
                      /\ Collected.why = "none" =>
                           IsOrderOf(commits, Collected.stack, Between(commits, main.local, head))
    BY DEF CollectsMissing
  <2>1. History(commits, head)
    <3>1. Ordered(commits) /\ Len(commits) \in Nat BY HistoryOrdered
    <3>2. head \in Indices(commits) BY DEF LocalInv, LocalTypeOK
    <3>3. \A x \in Indices(commits) : commits[x].parents \in Seq(Nat)
      <4>1. commits \in Seq(CommitTypes) BY DEF LocalInv, LocalTypeOK
      <4>2. \A x \in Indices(commits) : commits[x] \in CommitTypes BY <4>1 DEF Indices
      <4> QED BY <4>2 DEF CommitTypes
    <3> QED BY <3>1, <3>2, <3>3 DEF History
  <2> DEFINE s == CommitsBetween(commits, main.local, head)
  <2>2. CASE main.local \notin Has(head)
    BY <2>2 DEF Collected, Collect, Refusal, Has
  <2>3. CASE main.local \in Has(head)
    <3>1. IsOrderOf(commits, s, Between(commits, main.local, head))
      BY <2>1, <2>3, LinearBetween DEF Has
    <3>2. Collected = Checked(commits, s) BY <2>3 DEF Collected, Collect, Has
    <3>3. DOMAIN s \subseteq Nat BY DEF CommitsBetween, Reverse
    <3> HIDE DEF s
    <3> QED BY <2>3, <3>1, <3>2, <3>3, CheckedFacts
  <2> QED BY <2>2, <2>3
<1> QED BY <1>1, LocalInvariance, PTL

-----------------------------------------------------------------------------
(* The walk over a history with merges *)

\* The parents that a commit puts in the queue: none, one, or both.
LEMMA SomeNewParents ==
  ASSUME NEW h, NEW c, NEW seen, h[c].parents \in Seq(Nat), Len(h[c].parents) <= 2
  PROVE  /\ \/ NewParents(h, c, seen) = << >>
            \/ \E i \in DOMAIN h[c].parents :
                 h[c].parents[i] \notin seen /\ NewParents(h, c, seen) = <<h[c].parents[i]>>
            \/ /\ Len(h[c].parents) = 2 /\ NewParents(h, c, seen) = h[c].parents
               /\ \A i \in DOMAIN h[c].parents : h[c].parents[i] \notin seen
         /\ (\A i \in DOMAIN h[c].parents : h[c].parents[i] \notin seen) =>
              NewParents(h, c, seen) = h[c].parents
<1> DEFINE ps == h[c].parents
           new == {i \in DOMAIN ps : ps[i] \notin seen}
           rank(i) == Cardinality({j \in new : j <= i})
           ranked(k) == ps[CHOOSE i \in new : rank(i) = k]
<1>1. NewParents(h, c, seen) = [k \in 1..Cardinality(new) |-> ranked(k)]
  BY DEF NewParents
<1>2. DOMAIN ps = 1..Len(ps) /\ Len(ps) \in {0, 1, 2} /\ ps \in Seq(Nat)
  <2>1. \A m \in Nat : m <= 2 => m \in {0, 1, 2} OBVIOUS
  <2>2. Len(ps) \in Nat /\ Len(ps) <= 2 OBVIOUS
  <2>3. Len(ps) \in {0, 1, 2} BY <2>1, <2>2, Zenon
  <2> QED BY <2>3
<1>3. ASSUME NEW i \in DOMAIN ps, new = {i} PROVE NewParents(h, c, seen) = <<ps[i]>>
  <2>1. i \in Nat BY <1>2, <1>3
  <2>2. {j \in new : j <= i} = {i} BY <1>3, <2>1
  <2>3. Cardinality(new) = 1 /\ rank(i) = 1 BY <1>3, <2>2, FS_Singleton
  <2>4. (CHOOSE j \in new : rank(j) = 1) = i
    <3> HIDE DEF rank
    <3> QED BY <1>3, <2>3
  <2>5. ranked(1) = ps[i]
    <3> HIDE DEF ps, new, rank
    <3> QED BY <2>4
  <2> HIDE DEF ranked, new, ps
  <2>6. [k \in 1..1 |-> ranked(k)] = <<ranked(1)>> OBVIOUS
  <2> QED BY <1>1, <2>3, <2>5, <2>6
<1>4. CASE new = {}
  <2>1. Cardinality(new) = 0 BY <1>4, FS_EmptySet
  <2>2. NewParents(h, c, seen) = << >>
    <3> HIDE DEF new, ranked
    <3> QED BY <1>1, <2>1
  <2>3. (\A i \in DOMAIN ps : ps[i] \notin seen) => ps = << >>
    <3> SUFFICES ASSUME \A i \in DOMAIN ps : ps[i] \notin seen PROVE ps = << >> OBVIOUS
    <3>1. DOMAIN ps = {} BY <1>4
    <3>2. Len(ps) = 0 BY <1>2, <3>1
    <3> QED BY <1>2, <3>2
  <2> QED BY <2>2, <2>3
<1>5. ASSUME NEW i \in DOMAIN ps, new = {i} PROVE
        /\ ps[i] \notin seen /\ NewParents(h, c, seen) = <<ps[i]>>
        /\ (\A j \in DOMAIN ps : ps[j] \notin seen) => <<ps[i]>> = ps
  <2>1. ps[i] \notin seen BY <1>5
  <2>2. NewParents(h, c, seen) = <<ps[i]>> BY <1>3, <1>5
  <2>3. ASSUME \A j \in DOMAIN ps : ps[j] \notin seen PROVE <<ps[i]>> = ps
    <3>1. DOMAIN ps = {i} BY <1>5, <2>3
    <3> HIDE DEF ps, new
    <3>2. Len(ps) = 1 /\ i = 1
      <4>1. CASE Len(ps) = 0 BY <1>2, <3>1, <4>1
      <4>2. CASE Len(ps) = 1
        <5>1. 1..1 = {1} OBVIOUS
        <5> QED BY <1>2, <3>1, <4>2, <5>1
      <4>3. CASE Len(ps) = 2
        <5>1. 1 \in DOMAIN ps /\ 2 \in DOMAIN ps BY <1>2, <4>3
        <5> QED BY <3>1, <5>1
      <4> QED BY <1>2, <4>1, <4>2, <4>3
    <3> QED BY <1>2, <3>2
  <2> QED BY <2>1, <2>2, <2>3
<1>6. CASE new = {1, 2}
  <2>1. Len(ps) = 2 BY <1>2, <1>6
  <2>2. {j \in new : j <= 1} = {1} /\ {j \in new : j <= 2} = {1, 2} BY <1>6
  <2>3. Cardinality({1}) = 1 BY FS_Singleton
  <2>4. Cardinality({1, 2}) = 2
    <3>1. {1} \cup {2} = {1, 2} /\ 2 \notin {1} /\ 1 + 1 = 2 OBVIOUS
    <3>2. IsFiniteSet({1}) BY FS_Singleton
    <3>3. Cardinality({1} \cup {2}) = Cardinality({1}) + 1 BY <3>1, <3>2, FS_AddElement
    <3> HIDE DEF new, rank
    <3> QED BY <2>3, <3>1, <3>3, Zenon
  <2>5. Cardinality(new) = 2 /\ rank(1) = 1 /\ rank(2) = 2 BY <1>6, <2>2, <2>3, <2>4
  <2>6. (CHOOSE j \in new : rank(j) = 1) = 1 /\ (CHOOSE j \in new : rank(j) = 2) = 2
    <3> HIDE DEF rank
    <3> QED BY <1>6, <2>5
  <2>7. ranked(1) = ps[1] /\ ranked(2) = ps[2]
    <3> HIDE DEF ps, new, rank
    <3> QED BY <2>6
  <2> HIDE DEF ranked, ps
  <2>8. [k \in 1..2 |-> ranked(k)] = <<ps[1], ps[2]>> BY <2>7
  <2>9. ps = <<ps[1], ps[2]>> BY <1>2, <2>1
  <2>10. NewParents(h, c, seen) = ps BY <1>1, <2>5, <2>8, <2>9
  <2>11. \A i \in DOMAIN ps : ps[i] \notin seen BY <1>2, <1>6, <2>1 DEF new
  <2> QED BY <2>1, <2>10, <2>11 DEF ps
<1>7. new = {} \/ new = {1, 2} \/ \E i \in DOMAIN ps : new = {i}
  <2>1. new \subseteq DOMAIN ps /\ DOMAIN ps \subseteq {1, 2} BY <1>2
  <2> HIDE DEF new, ps
  <2> QED BY <2>1
<1> QED BY <1>4, <1>5, <1>6, <1>7

\* A history where no commit has more than two parents, nor one twice.
TwoParents(h) ==
  \A d \in Indices(h) :
    Len(h[d].parents) <= 2 /\ (Len(h[d].parents) = 2 => h[d].parents[1] # h[d].parents[2])

\* A walk is never anywhere twice.
Tidy(h, w) ==
  /\ w.queue \in Seq(Indices(h)) /\ w.out \in Seq(Indices(h))
  /\ Range(w.queue) \cup Range(w.out) \subseteq w.seen
  /\ Range(w.queue) \cap Range(w.out) = {}
  /\ IsInjective(w.queue) /\ IsInjective(w.out)

\* What a commit puts in the queue is new there.
LEMMA NewParentsFacts ==
  ASSUME NEW h, NEW start, History(h, start), TwoParents(h), NEW c \in Indices(h), NEW seen
  PROVE  /\ NewParents(h, c, seen) \in Seq(Indices(h))
         /\ Range(NewParents(h, c, seen)) \cap seen = {}
         /\ IsInjective(NewParents(h, c, seen))
<1> DEFINE ps == h[c].parents
           new == NewParents(h, c, seen)
<1>1. /\ ps \in Seq(Nat) /\ Len(ps) <= 2
      /\ \A i \in DOMAIN ps : ps[i] \in Indices(h)
      /\ Len(ps) = 2 => ps[1] # ps[2]
  BY DEF History, TwoParents, Ordered, Indices
<1>2. \/ new = << >>
      \/ \E i \in DOMAIN ps : ps[i] \notin seen /\ new = <<ps[i]>>
      \/ Len(ps) = 2 /\ new = ps /\ \A i \in DOMAIN ps : ps[i] \notin seen
  BY <1>1, SomeNewParents
<1> HIDE DEF ps, new
<1>3. CASE new = << >> BY <1>3 DEF new, Range, IsInjective
<1>4. ASSUME NEW i \in DOMAIN ps, ps[i] \notin seen, new = <<ps[i]>>
      PROVE  new \in Seq(Indices(h)) /\ Range(new) \cap seen = {} /\ IsInjective(new)
  BY <1>1, <1>4 DEF Range, IsInjective
<1>5. CASE Len(ps) = 2 /\ new = ps /\ \A i \in DOMAIN ps : ps[i] \notin seen
  <2>1. DOMAIN ps = 1..2 BY <1>1, <1>5
  <2>2. ps \in Seq(Indices(h))
    <3>1. ps = [i \in 1..2 |-> ps[i]] BY <1>1, <2>1
    <3>2. \A i \in 1..2 : ps[i] \in Indices(h) BY <1>1, <2>1
    <3> QED BY <3>1, <3>2
  <2>3. Range(ps) \cap seen = {} BY <1>5 DEF Range
  <2>4. IsInjective(ps)
    <3>1. \A i \in 1..2 : i = 1 \/ i = 2 OBVIOUS
    <3> QED BY <1>1, <1>5, <2>1, <3>1 DEF IsInjective
  <2> QED BY <1>5, <2>2, <2>3, <2>4 DEF new
<1> QED BY <1>2, <1>3, <1>4, <1>5 DEF new

\* A sequence that is longer by others.
LEMMA InjectiveMore ==
  ASSUME NEW S, NEW s \in Seq(S), NEW t \in Seq(S), IsInjective(s), IsInjective(t),
         Range(s) \cap Range(t) = {}
  PROVE  IsInjective(s \o t) /\ Range(s \o t) = Range(s) \cup Range(t)
<1> DEFINE u == s \o t
<1>1. /\ DOMAIN u = 1..(Len(s) + Len(t)) /\ Len(s) \in Nat /\ Len(t) \in Nat
      /\ DOMAIN s = 1..Len(s) /\ DOMAIN t = 1..Len(t)
      /\ \A i \in DOMAIN u : u[i] = IF i <= Len(s) THEN s[i] ELSE t[i - Len(s)]
  OBVIOUS
<1> HIDE DEF u
<1>2. \A i \in DOMAIN u : /\ (i <= Len(s)) => (i \in DOMAIN s /\ u[i] = s[i])
                          /\ ~(i <= Len(s)) => (i - Len(s) \in DOMAIN t /\ u[i] = t[i - Len(s)])
  BY <1>1
<1>3. ASSUME NEW i \in DOMAIN u, NEW j \in DOMAIN u, u[i] = u[j] PROVE i = j
  <2>1. CASE i <= Len(s) /\ j <= Len(s) BY <1>2, <1>3, <2>1 DEF IsInjective
  <2>2. CASE ~(i <= Len(s)) /\ ~(j <= Len(s))
    <3>1. i - Len(s) = j - Len(s) BY <1>2, <1>3, <2>2 DEF IsInjective
    <3> QED BY <1>1, <3>1
  <2>3. CASE i <= Len(s) /\ ~(j <= Len(s)) BY <1>2, <1>3, <2>3 DEF Range
  <2>4. CASE ~(i <= Len(s)) /\ j <= Len(s) BY <1>2, <1>3, <2>4 DEF Range
  <2> QED BY <2>1, <2>2, <2>3, <2>4
<1>4. Range(u) \subseteq Range(s) \cup Range(t) BY <1>2 DEF Range
<1>5. \A i \in DOMAIN s : i \in DOMAIN u /\ u[i] = s[i] BY <1>1
<1>6. \A i \in DOMAIN t : i + Len(s) \in DOMAIN u /\ u[i + Len(s)] = t[i]
  <2> SUFFICES ASSUME NEW i \in DOMAIN t PROVE i + Len(s) \in DOMAIN u /\ u[i + Len(s)] = t[i]
    OBVIOUS
  <2>1. i + Len(s) \in DOMAIN u /\ ~(i + Len(s) <= Len(s)) /\ (i + Len(s)) - Len(s) = i BY <1>1
  <2> QED BY <1>2, <2>1
<1>7. Range(s) \cup Range(t) \subseteq Range(u)
  <2>1. Range(s) \subseteq Range(u) BY <1>5 DEF Range
  <2>2. Range(t) \subseteq Range(u) BY <1>6 DEF Range
  <2> QED BY <2>1, <2>2
<1> QED BY <1>3, <1>4, <1>7 DEF IsInjective, u

LEMMA TidyStep ==
  ASSUME NEW h, NEW start, History(h, start), TwoParents(h), NEW w, Tidy(h, w)
  PROVE  Tidy(h, WalkStep(h, w))
<1>1. CASE w.queue = << >> BY <1>1 DEF WalkStep
<1>2. CASE w.queue # << >>
  <2> DEFINE c == Head(w.queue)
             new == NewParents(h, c, w.seen)
             q == w.queue
             v == WalkStep(h, w)
  <2>1. v.queue = Tail(q) \o new /\ v.seen = w.seen \cup Range(new) /\ v.out = Append(w.out, c)
    BY <1>2 DEF WalkStep
  <2>2. /\ q \in Seq(Indices(h)) /\ w.out \in Seq(Indices(h))
        /\ Range(q) \cup Range(w.out) \subseteq w.seen
        /\ Range(q) \cap Range(w.out) = {}
        /\ IsInjective(q) /\ IsInjective(w.out)
    BY DEF Tidy
  <2> HIDE DEF q
  <2>3. /\ c = q[1] /\ c \in Indices(h) /\ Tail(q) \in Seq(Indices(h))
        /\ DOMAIN Tail(q) = 1..(Len(q) - 1) /\ DOMAIN q = 1..Len(q) /\ Len(q) \in Nat
        /\ 1 \in DOMAIN q
        /\ \A i \in 1..(Len(q) - 1) : Tail(q)[i] = q[i + 1]
    BY <1>2, <2>2 DEF q
  <2>4. /\ new \in Seq(Indices(h)) /\ Range(new) \cap w.seen = {} /\ IsInjective(new)
    BY <2>3, NewParentsFacts
  <2> HIDE DEF new, v, c
  <2>5. IsInjective(Tail(q)) /\ c \notin Range(Tail(q)) /\ Range(Tail(q)) \subseteq Range(q)
        /\ c \in Range(q)
    <3>1. \A i \in 1..(Len(q) - 1) : i + 1 \in DOMAIN q /\ i + 1 # 1 /\ i \in Nat BY <2>3
    <3>2. \A i, j \in 1..(Len(q) - 1) : i + 1 = j + 1 => i = j BY <2>3
    <3>3. IsInjective(Tail(q)) BY <2>2, <2>3, <3>1, <3>2 DEF IsInjective
    <3>4. \A i \in 1..(Len(q) - 1) : Tail(q)[i] # q[1] BY <2>2, <2>3, <3>1 DEF IsInjective
    <3> QED BY <2>3, <3>1, <3>3, <3>4 DEF Range
  <2>6. /\ v.queue \in Seq(Indices(h)) /\ IsInjective(v.queue)
        /\ Range(v.queue) = Range(Tail(q)) \cup Range(new)
    <3>1. Range(Tail(q)) \cap Range(new) = {} BY <2>2, <2>4, <2>5
    <3>2. Tail(q) \o new \in Seq(Indices(h)) BY <2>3, <2>4
    <3>3. /\ IsInjective(Tail(q) \o new)
          /\ Range(Tail(q) \o new) = Range(Tail(q)) \cup Range(new)
      <4>1. PICK t : t = Tail(q) OBVIOUS
      <4>2. PICK S : S = Indices(h) OBVIOUS
      <4>3. /\ t \in Seq(S) /\ new \in Seq(S) /\ IsInjective(t) /\ IsInjective(new)
            /\ Range(t) \cap Range(new) = {}
        BY <2>3, <2>4, <2>5, <3>1, <4>1, <4>2
      <4>4. IsInjective(t \o new) /\ Range(t \o new) = Range(t) \cup Range(new)
        BY <4>3, InjectiveMore
      <4> QED BY <4>1, <4>4
    <3> QED BY <2>1, <3>2, <3>3
  <2>7. /\ v.out \in Seq(Indices(h)) /\ IsInjective(v.out)
        /\ Range(v.out) = Range(w.out) \cup {c}
    <3>1. <<c>> \in Seq(Indices(h)) /\ Range(<<c>>) = {c} /\ IsInjective(<<c>>)
      BY <2>3 DEF Range, IsInjective
    <3>2. Append(w.out, c) = w.out \o <<c>> BY <2>2, <2>3
    <3>3. Range(w.out) \cap Range(<<c>>) = {} BY <2>2, <2>5, <3>1
    <3>4. w.out \o <<c>> \in Seq(Indices(h)) BY <2>2, <3>1
    <3>5. IsInjective(w.out \o <<c>>) /\ Range(w.out \o <<c>>) = Range(w.out) \cup Range(<<c>>)
      <4>1. PICK s : s = w.out OBVIOUS
      <4>2. PICK t : t = <<c>> OBVIOUS
      <4>3. PICK S : S = Indices(h) OBVIOUS
      <4>4. /\ s \in Seq(S) /\ t \in Seq(S) /\ IsInjective(s) /\ IsInjective(t)
            /\ Range(s) \cap Range(t) = {}
        BY <2>2, <3>1, <3>3, <4>1, <4>2, <4>3
      <4>5. IsInjective(s \o t) /\ Range(s \o t) = Range(s) \cup Range(t)
        BY <4>4, InjectiveMore
      <4> QED BY <4>1, <4>2, <4>5
    <3> QED BY <2>1, <3>1, <3>2, <3>4, <3>5
  <2>8. Tidy(h, v)
    <3>1. Range(v.queue) \cup Range(v.out) \subseteq v.seen
      BY <2>1, <2>2, <2>5, <2>6, <2>7
    <3>2. Range(v.queue) \cap Range(v.out) = {} BY <2>2, <2>4, <2>5, <2>6, <2>7
    <3> QED BY <2>6, <2>7, <3>1, <3>2 DEF Tidy
  <2> QED BY <2>8 DEF v
<1> QED BY <1>1, <1>2

\* What leads from d to the commit a it has: a single parent, or a itself as one of
\* two, the second only after one of S.
Toward(h, S, a, d) ==
  LET ps == h[d].parents
  IN \/ Len(ps) = 1
     \/ Len(ps) = 2 /\ (ps[1] = a \/ (ps[1] \in S /\ ps[2] = a))

\* A walk on its way to a, through commits of S only: in a line, with a behind one
\* more commit, at a, or past it.
Approach(h, S, a, w) ==
  \/ /\ Range(w.out) \subseteq S
     /\ \E d \in S \cup {a} :
          /\ a \in Reach(h, d) /\ w.queue = <<d>>
          /\ w.seen = {d} \cup Range(w.out) /\ \A k \in DOMAIN w.out : d < w.out[k]
  \/ Range(w.out) \subseteq S /\ \E p \in S : w.queue = <<p, a>>
  \/ Range(w.out) \subseteq S /\ w.queue # << >> /\ Head(w.queue) = a
  \/ \E k \in DOMAIN w.out : w.out[k] = a /\ \A j \in 1..(k - 1) : w.out[j] \in S

\* The commits that a walk is about: what c has and a has not, each with a way to a.
Approachable(h, c, a) ==
  \A d \in Between(h, a, c) : a \in Reach(h, d) => Toward(h, Between(h, a, c), a, d)

LEMMA ApproachStep ==
  ASSUME NEW h, NEW start, History(h, start), TwoParents(h), NEW a \in Reach(h, start),
         Approachable(h, start, a), NEW w, Tidy(h, w),
         Approach(h, Between(h, a, start), a, w)
  PROVE  Approach(h, Between(h, a, start), a, WalkStep(h, w))
<1> DEFINE S == Between(h, a, start)
           c == Head(w.queue)
           new == NewParents(h, c, w.seen)
           v == WalkStep(h, w)
<1>1. CASE w.queue = << >>
  BY <1>1 DEF WalkStep
<1>2. CASE w.queue # << >>
  <2>1. v.queue = Tail(w.queue) \o new /\ v.seen = w.seen \cup Range(new)
        /\ v.out = Append(w.out, c)
    BY <1>2 DEF WalkStep
  <2>2. /\ w.queue \in Seq(Indices(h)) /\ w.out \in Seq(Indices(h))
        /\ c \in Indices(h)
    BY <1>2 DEF Tidy
  <2>3. new \in Seq(Indices(h)) BY <2>2, NewParentsFacts
  <2>4. /\ DOMAIN w.out = 1..Len(w.out) /\ Len(w.out) \in Nat
        /\ DOMAIN v.out = 1..(Len(w.out) + 1)
        /\ v.out[Len(w.out) + 1] = c /\ \A k \in DOMAIN w.out : v.out[k] = w.out[k]
        /\ Range(v.out) = Range(w.out) \cup {c}
    <3>1. /\ DOMAIN w.out = 1..Len(w.out) /\ Len(w.out) \in Nat
          /\ DOMAIN v.out = 1..(Len(w.out) + 1)
          /\ v.out[Len(w.out) + 1] = c /\ \A k \in DOMAIN w.out : v.out[k] = w.out[k]
      BY <2>1, <2>2
    <3>2. \A k \in 1..(Len(w.out) + 1) : k \in 1..Len(w.out) \/ k = Len(w.out) + 1
      BY <3>1
    <3>3. 1..Len(w.out) \subseteq 1..(Len(w.out) + 1) /\ Len(w.out) + 1 \in 1..(Len(w.out) + 1)
      BY <3>1
    <3> HIDE DEF v, c
    <3> QED BY <3>1, <3>2, <3>3 DEF Range
  <2>5. S \subseteq Indices(h) /\ a \in Indices(h)
    BY ReachInHistory DEF Between, History
  <2> HIDE DEF S, v, new
  <2>6. CASE \E k \in DOMAIN w.out : w.out[k] = a /\ \A j \in 1..(k - 1) : w.out[j] \in S
    <3>1. PICK k \in DOMAIN w.out : w.out[k] = a /\ \A j \in 1..(k - 1) : w.out[j] \in S
      BY <2>6
    <3>2. k \in DOMAIN v.out /\ v.out[k] = a BY <2>4, <3>1
    <3>3. ASSUME NEW j \in 1..(k - 1) PROVE v.out[j] \in S
      <4>1. j \in DOMAIN w.out BY <2>4
      <4> QED BY <2>4, <3>1, <4>1
    <3> QED BY <3>2, <3>3 DEF Approach, S, v
  <2>7. CASE Range(w.out) \subseteq S /\ c = a
    <3>1. Len(w.out) + 1 \in DOMAIN v.out /\ v.out[Len(w.out) + 1] = a BY <2>4, <2>7
    <3>2. \A j \in 1..((Len(w.out) + 1) - 1) : v.out[j] \in S
      <4>1. (Len(w.out) + 1) - 1 = Len(w.out) BY <2>4
      <4> QED BY <2>4, <2>7, <4>1 DEF Range
    <3> QED BY <3>1, <3>2 DEF Approach, S, v
  <2>8. CASE Range(w.out) \subseteq S /\ \E p \in S : w.queue = <<p, a>>
    <3>1. PICK p \in S : w.queue = <<p, a>> BY <2>8
    <3>2. c = p /\ Tail(w.queue) = <<a>> BY <3>1
    <3>3. Range(v.out) \subseteq S BY <2>4, <2>8, <3>2
    <3>4. v.queue # << >> /\ Head(v.queue) = a
      <4>1. v.queue = <<a>> \o new BY <2>1, <3>2
      <4>2. <<a>> \in Seq(Indices(h)) BY <2>5
      <4> QED BY <2>3, <4>1, <4>2
    <3> QED BY <3>3, <3>4 DEF Approach, S, v
  <2>9. ASSUME Range(w.out) \subseteq S, NEW d \in S \cup {a}, d # a, a \in Reach(h, d),
               w.queue = <<d>>, w.seen = {d} \cup Range(w.out),
               \A k \in DOMAIN w.out : d < w.out[k]
        PROVE  Approach(h, S, a, v)
    <3> DEFINE ps == h[d].parents
    <3>1. c = d /\ Tail(w.queue) = << >> /\ d \in S /\ d \in Indices(h) /\ d \in Nat
      <4>1. c = d /\ Tail(w.queue) = << >> /\ d \in S BY <2>9
      <4> QED BY <2>5, <4>1 DEF Indices
    <3>2. ps \in Seq(Nat) /\ \A i \in DOMAIN ps : ps[i] \in 1..(d - 1) /\ ps[i] \in Indices(h)
      BY <3>1 DEF History, Ordered, Indices
    <3>3. \A i \in DOMAIN ps : ps[i] \notin w.seen
      <4> SUFFICES ASSUME NEW i \in DOMAIN ps PROVE ps[i] \notin w.seen OBVIOUS
      <4>1. ps[i] \in Nat /\ ps[i] < d BY <3>1, <3>2
      <4>2. \A k \in DOMAIN w.out : w.out[k] \in Nat /\ d < w.out[k] BY <2>2, <2>9 DEF Indices
      <4>3. \A k \in DOMAIN w.out : ps[i] # w.out[k] BY <3>1, <4>1, <4>2
      <4> QED BY <2>9, <3>1, <4>1, <4>3 DEF Range
    <3>4. new = ps
      <4>1. Len(ps) <= 2 BY <3>1 DEF TwoParents
      <4> QED BY <3>1, <3>2, <3>3, <4>1, SomeNewParents DEF new
    <3>5. v.queue = ps /\ Range(v.out) \subseteq S
      <4>1. << >> \o ps = ps BY <3>2
      <4> QED BY <2>1, <2>4, <2>9, <3>1, <3>4, <4>1
    <3>6. Toward(h, S, a, d) BY <2>9, <3>1 DEF Approachable, S
    <3>7. Reach(h, d) = {d} \cup UNION {Reach(h, ps[i]) : i \in DOMAIN ps}
      BY <3>1, ReachStep DEF History
    <3>8. Reach(h, d) \subseteq Reach(h, start)
      BY <3>1, ReachClosed DEF S, Between, History
    <3> HIDE DEF ps
    <3>9. CASE Len(ps) = 1
      <4>1. ps = <<ps[1]>> /\ DOMAIN ps = {1} BY <3>2, <3>9
      <4>2. a \in Reach(h, ps[1]) BY <2>9, <3>7, <4>1
      <4>3. ps[1] \in Indices(h) /\ ps[1] \in Nat /\ ps[1] < d BY <3>1, <3>2, <4>1 DEF Indices
      <4>4. ps[1] \in Reach(h, ps[1]) BY <4>3, ReachBelow DEF History
      <4>5. ps[1] \in Reach(h, start) BY <3>7, <3>8, <4>1, <4>4
      <4>6. ps[1] \in S \cup {a}
        <5>1. ASSUME ps[1] \in Reach(h, a) PROVE ps[1] = a
          <6>1. Reach(h, a) \subseteq 1..a /\ Reach(h, ps[1]) \subseteq 1..(ps[1])
            BY <2>5, <4>3, ReachBelow DEF History
          <6>2. a \in Nat BY <2>5 DEF Indices
          <6>3. ps[1] <= a /\ a <= ps[1] BY <4>2, <5>1, <6>1
          <6> QED BY <4>3, <6>2, <6>3
        <5> QED BY <4>5, <5>1 DEF S, Between
      <4>7. v.seen = {ps[1]} \cup Range(v.out)
        <5>1. Range(ps) = {ps[1]} BY <4>1 DEF Range
        <5> QED BY <2>1, <2>4, <2>9, <3>1, <3>4, <5>1
      <4>8. \A k \in DOMAIN v.out : ps[1] < v.out[k]
        <5> SUFFICES ASSUME NEW k \in DOMAIN v.out PROVE ps[1] < v.out[k] OBVIOUS
        <5>1. CASE k \in DOMAIN w.out
          <6>1. w.out[k] \in Nat /\ d < w.out[k] /\ v.out[k] = w.out[k]
            BY <2>2, <2>4, <2>9, <5>1 DEF Indices
          <6> QED BY <3>1, <4>3, <6>1
        <5>2. CASE k = Len(w.out) + 1 BY <2>4, <3>1, <4>3, <5>2
        <5> QED BY <2>4, <5>1, <5>2
      <4>9. v.queue = <<ps[1]>> BY <3>5, <4>1
      <4> DEFINE p == ps[1]
      <4> HIDE DEF p
      <4>10. p \in S \cup {a} /\ a \in Reach(h, p) /\ v.queue = <<p>>
             /\ v.seen = {p} \cup Range(v.out) /\ \A k \in DOMAIN v.out : p < v.out[k]
        BY <4>2, <4>6, <4>7, <4>8, <4>9 DEF p
      <4> QED BY <3>5, <4>10 DEF Approach
    <3>10. CASE Len(ps) = 2 /\ ps[1] = a
      <4>1. ps = <<ps[1], ps[2]>> BY <3>2, <3>10
      <4>2. ps # << >> /\ Head(ps) = a BY <3>10, <4>1
      <4> QED BY <3>5, <4>2 DEF Approach
    <3>11. CASE Len(ps) = 2 /\ ps[1] \in S /\ ps[2] = a
      <4>1. ps = <<ps[1], a>> BY <3>2, <3>11
      <4> QED BY <3>5, <3>11, <4>1 DEF Approach
    <3> QED BY <3>6, <3>9, <3>10, <3>11 DEF Toward, ps
  <2>10. Approach(h, S, a, w) BY DEF S
  <2>11. Approach(h, S, a, v)
    <3>1. ASSUME Range(w.out) \subseteq S,
                 NEW d \in S \cup {a}, a \in Reach(h, d), w.queue = <<d>>,
                 w.seen = {d} \cup Range(w.out), \A k \in DOMAIN w.out : d < w.out[k]
          PROVE  Approach(h, S, a, v)
      <4>1. CASE d = a
        <5>1. c = a BY <3>1, <4>1
        <5> QED BY <2>7, <3>1, <5>1 DEF S, v
      <4> QED BY <2>9, <3>1, <4>1
    <3>2. CASE Range(w.out) \subseteq S /\ w.queue # << >> /\ Head(w.queue) = a
      BY <2>7, <3>2 DEF S, v
    <3> QED BY <2>6, <2>8, <2>10, <3>1, <3>2 DEF Approach, S, v
  <2> QED BY <2>11 DEF S, v
<1> QED BY <1>1, <1>2

\* Where every commit has a way to the ancestor, commits_between (util.rs) gives
\* commits that the ancestor has not, and none twice.
LEMMA ApproachBetween ==
  ASSUME NEW h, NEW start, History(h, start), TwoParents(h), NEW a \in Reach(h, start),
         Approachable(h, start, a)
  PROVE  LET s == CommitsBetween(h, a, start)
         IN /\ s \in Seq(Between(h, a, start)) /\ IsInjective(s)
<1> DEFINE S == Between(h, a, start)
           w(i) == Walk(h, start)[i]
           Fails(i) == ~ (Tidy(h, w(i)) /\ Approach(h, S, a, w(i)))
           N == Len(h)
           B == {i \in 0..N : Fails(i)}
<1>1. /\ N \in Nat /\ start \in 1..N /\ start \in Reach(h, start)
      /\ S \subseteq Nat /\ a \in Nat /\ a \notin S /\ a \in Reach(h, a)
  <2>1. N \in Nat /\ start \in 1..N BY DEF History, Indices
  <2>2. start \in Reach(h, start) /\ Reach(h, start) \subseteq Indices(h)
    BY ReachBelow, ReachInHistory DEF History
  <2>3. a \in Indices(h) /\ a \in Reach(h, a) BY <2>2, ReachBelow DEF History
  <2> QED BY <2>1, <2>2, <2>3 DEF Between, Indices
<1>2. w(0) = WalkStart(start) /\ \A i \in 1..N : w(i) = WalkStep(h, w(i - 1))
  BY <1>1, WalkSteps
<1>3. ~ Fails(0)
  <2>1. Range(<< >>) = {} /\ Range(<<start>>) = {start} BY DEF Range
  <2>2. Tidy(h, WalkStart(start))
    <3>1. <<start>> \in Seq(Indices(h)) /\ << >> \in Seq(Indices(h)) BY DEF History
    <3>2. IsInjective(<<start>>) /\ IsInjective(<< >>) BY DEF IsInjective
    <3> QED BY <2>1, <3>1, <3>2 DEF Tidy, WalkStart
  <2>3. start \in S \cup {a}
    <3>1. ASSUME start \in Reach(h, a) PROVE start = a
      <4>1. a \in Indices(h) /\ start \in Indices(h)
        BY ReachInHistory DEF History
      <4>2. Reach(h, a) \subseteq 1..a /\ Reach(h, start) \subseteq 1..start
        BY <4>1, ReachBelow DEF History
      <4>3. start <= a /\ a <= start BY <3>1, <4>2
      <4> QED BY <1>1, <4>3
    <3> QED BY <1>1, <3>1 DEF Between
  <2>4. Approach(h, S, a, WalkStart(start)) BY <2>1, <2>3 DEF Approach, WalkStart
  <2> HIDE DEF S
  <2> QED BY <1>2, <2>2, <2>4
<1>4. B = {}
  <2> SUFFICES ASSUME B # {} PROVE FALSE OBVIOUS
  <2>1. PICK i \in B : \A j \in B : i <= j
    <3>1. B \in SUBSET Nat BY <1>1
    <3> HIDE DEF B
    <3> QED BY <3>1, FirstCommit
  <2>2. i \in 1..N /\ i - 1 \in Nat /\ i - 1 \in 0..N BY <1>1, <1>3, <2>1
  <2>3. ~ Fails(i - 1)
    <3> HIDE DEF Fails
    <3>1. i - 1 \notin B BY <1>1, <2>1, <2>2
    <3> QED BY <2>2, <3>1
  <2>4. w(i) = WalkStep(h, w(i - 1)) BY <1>2, <2>2
  <2>5. Tidy(h, w(i)) /\ Approach(h, S, a, w(i))
    <3> HIDE DEF w
    <3>1. Tidy(h, w(i - 1)) /\ Approach(h, Between(h, a, start), a, w(i - 1)) BY <2>3
    <3> QED BY <2>4, <3>1, TidyStep, ApproachStep
  <2> QED BY <2>1, <2>5
<1>5. Tidy(h, w(N)) /\ Approach(h, S, a, w(N)) BY <1>1, <1>4
<1> DEFINE s == BreadthFirst(h, start)
<1>6. /\ s \in Seq(Indices(h)) /\ IsInjective(s)
      /\ Range(s) \subseteq S \/ \E k \in DOMAIN s : s[k] = a /\ \A j \in 1..(k - 1) : s[j] \in S
  <2>1. s = w(N).out BY DEF BreadthFirst
  <2>2. s \in Seq(Indices(h)) /\ IsInjective(s) BY <1>5, <2>1 DEF Tidy
  <2> HIDE DEF s, S, w
  <2> QED BY <1>5, <2>1, <2>2 DEF Approach
<1> HIDE DEF w, s, S
<1> DEFINE t == UpTo(s, a)
<1>7. t \in Seq(S) /\ IsInjective(t)
  <2>1. CASE Range(s) \subseteq S
    <3>1. {i \in DOMAIN s : s[i] = a} = {} BY <1>1, <2>1 DEF Range
    <3>2. t = s BY <3>1 DEF UpTo
    <3>3. s \in Seq(S)
      <4>1. s = [i \in 1..Len(s) |-> s[i]] /\ Len(s) \in Nat BY <1>6
      <4>2. \A i \in 1..Len(s) : s[i] \in S BY <1>6, <2>1 DEF Range
      <4> QED BY <4>1, <4>2
    <3> QED BY <1>6, <3>2, <3>3
  <2>2. ASSUME NEW k \in DOMAIN s, s[k] = a, \A j \in 1..(k - 1) : s[j] \in S
        PROVE  t \in Seq(S) /\ IsInjective(t)
    <3>1. {i \in DOMAIN s : s[i] = a} = {k} BY <1>6, <2>2 DEF IsInjective
    <3>2. (CHOOSE i \in {k} : TRUE) = k OBVIOUS
    <3>3. t = SubSeq(s, 1, k - 1) BY <3>1, <3>2 DEF UpTo
    <3>4. k \in Nat /\ k - 1 \in Nat /\ k \in 1..Len(s) BY <1>6
    <3>5. t = [i \in 1..(k - 1) |-> s[i]] BY <1>6, <3>3, <3>4
    <3>6. \A i \in 1..(k - 1) : i \in DOMAIN s /\ t[i] = s[i] BY <1>6, <3>4, <3>5
    <3>7. DOMAIN t = 1..(k - 1) BY <3>5
    <3>8. IsInjective(t) BY <1>6, <3>6, <3>7 DEF IsInjective
    <3>9. t \in Seq(S) BY <2>2, <3>4, <3>5
    <3> QED BY <3>8, <3>9
  <2> QED BY <1>6, <2>1, <2>2
<1> HIDE DEF t
<1> DEFINE r == Reverse(t)
<1>8. r \in Seq(S) /\ IsInjective(r)
  <2>1. Len(t) \in Nat /\ DOMAIN t = 1..Len(t) /\ \A i \in DOMAIN t : t[i] \in S BY <1>7
  <2>2. r = [i \in 1..Len(t) |-> t[(Len(t) - i) + 1]] BY DEF Reverse
  <2>3. \A i \in 1..Len(t) : (Len(t) - i) + 1 \in 1..Len(t) BY <2>1
  <2>4. \A i, j \in 1..Len(t) : (Len(t) - i) + 1 = (Len(t) - j) + 1 => i = j BY <2>1
  <2> HIDE DEF r
  <2>5. \A i \in 1..Len(t) : r[i] \in S BY <2>1, <2>2, <2>3
  <2>6. r \in Seq(S) BY <2>1, <2>2, <2>3
  <2>7. DOMAIN r = 1..Len(t) BY <2>2
  <2>8. IsInjective(r)
    <3> SUFFICES ASSUME NEW i \in DOMAIN r, NEW j \in DOMAIN r, r[i] = r[j] PROVE i = j
      BY DEF IsInjective
    <3>1. t[(Len(t) - i) + 1] = t[(Len(t) - j) + 1] BY <2>2, <2>7
    <3>2. (Len(t) - i) + 1 \in DOMAIN t /\ (Len(t) - j) + 1 \in DOMAIN t BY <2>1, <2>3, <2>7
    <3>3. (Len(t) - i) + 1 = (Len(t) - j) + 1 BY <1>7, <3>1, <3>2 DEF IsInjective
    <3> QED BY <2>4, <2>7, <3>3
  <2> QED BY <2>6, <2>8
<1>9. CommitsBetween(h, a, start) = r BY DEF CommitsBetween, r, t, s
<1> QED BY <1>8, <1>9 DEF S

\* A walk stays within its history.
LEMMA BetweenInHistory ==
  ASSUME NEW h, NEW start, History(h, start), TwoParents(h), NEW a
  PROVE  Range(CommitsBetween(h, a, start)) \subseteq Indices(h)
<1> DEFINE w(i) == Walk(h, start)[i]
           N == Len(h)
           B == {i \in 0..N : ~Tidy(h, w(i))}
<1>1. N \in Nat /\ start \in Indices(h) BY DEF History, Indices
<1>2. w(0) = WalkStart(start) /\ \A i \in 1..N : w(i) = WalkStep(h, w(i - 1))
  BY <1>1, WalkSteps
<1>3. Tidy(h, w(0))
  <2>1. <<start>> \in Seq(Indices(h)) /\ << >> \in Seq(Indices(h)) BY <1>1
  <2>2. IsInjective(<<start>>) /\ IsInjective(<< >>) BY DEF IsInjective
  <2>3. Range(<< >>) = {} /\ Range(<<start>>) = {start} BY DEF Range
  <2>4. Tidy(h, WalkStart(start)) BY <2>1, <2>2, <2>3 DEF Tidy, WalkStart
  <2> QED BY <1>2, <2>4
<1>4. B = {}
  <2> SUFFICES ASSUME B # {} PROVE FALSE OBVIOUS
  <2>1. PICK i \in B : \A j \in B : i <= j
    <3>1. B \in SUBSET Nat BY <1>1
    <3> HIDE DEF B
    <3> QED BY <3>1, FirstCommit
  <2>2. i \in 1..N /\ i - 1 \in Nat /\ i - 1 \in 0..N BY <1>1, <1>3, <2>1
  <2>3. Tidy(h, w(i - 1))
    <3>1. i - 1 \notin B
      <4> HIDE DEF B
      <4> QED BY <1>1, <2>1, <2>2
    <3> QED BY <2>2, <3>1
  <2>4. w(i) = WalkStep(h, w(i - 1)) BY <1>2, <2>2
  <2>5. Tidy(h, w(i))
    <3> HIDE DEF w
    <3> QED BY <2>3, <2>4, TidyStep
  <2> QED BY <2>1, <2>5
<1>5. Tidy(h, w(N)) BY <1>1, <1>4
<1> DEFINE s == BreadthFirst(h, start)
           t == UpTo(s, a)
           ends == {i \in DOMAIN s : s[i] = a}
           k == CHOOSE i \in ends : TRUE
<1>6. s \in Seq(Indices(h)) BY <1>5 DEF BreadthFirst, Tidy
<1> HIDE DEF w, s
<1>7. t \in Seq(Indices(h))
  <2>1. CASE ends = {}
    <3>1. t = s BY <2>1 DEF UpTo
    <3> QED BY <1>6, <3>1
  <2>2. CASE ends # {}
    <3>1. k \in ends BY <2>2
    <3>2. t = SubSeq(s, 1, k - 1) BY <2>2 DEF UpTo
    <3> HIDE DEF k
    <3>3. k \in 1..Len(s) BY <1>6, <3>1
    <3> HIDE DEF t, ends
    <3> QED BY <1>6, <3>2, <3>3
  <2> QED BY <2>1, <2>2
<1> HIDE DEF t
<1>8. \A i \in 1..Len(t) : (Len(t) - i) + 1 \in 1..Len(t) /\ t[i] \in Indices(h) BY <1>7
<1>9. Reverse(t) = [i \in 1..Len(t) |-> t[(Len(t) - i) + 1]] BY DEF Reverse
<1>10. Range(Reverse(t)) \subseteq Indices(h) BY <1>8, <1>9 DEF Range
<1> QED BY <1>10 DEF CommitsBetween, t, s

-----------------------------------------------------------------------------
(* Two forms of one change *)

\* A commit with a copied message, and one the hook gave nothing: those that were
\* made on the remote are.
IsCopy(h, c) == "copy" \in h[c].marks
IsRaw(h, c) == h[c].marks = {"copy"}

\* A form of one change, in both cases not a copy.
SameChange(h, c, d) == ~IsCopy(h, c) /\ ~IsCopy(h, d) /\ h[c].line = h[d].line

\* What x has, it has by a merge of a pull request.
ByMerge(h, d, x) ==
  \E f \in Reach(h, x) : IsCopy(h, f) /\ Len(h[f].parents) = 2 /\ d \in Reach(h, f)

\* Nothing that x has comes in two forms, unless one came by such a merge.
Fresh(h, x) ==
  \A c, d \in Reach(h, x) :
    c # d /\ SameChange(h, c, d) => ByMerge(h, c, x) \/ ByMerge(h, d, x)

\* What a default branch has, it has as a copy or by such a merge.
Trunk(h, x) == \A d \in Reach(h, x) : IsCopy(h, d) \/ ByMerge(h, d, x)

\* The commits T that a rebase has still to apply on x are of changes that x has not.
ToApply(h, T, x) ==
  \A t \in T :
    /\ \A u \in T : t # u => ~SameChange(h, t, u)
    /\ \A y \in Reach(h, x) : SameChange(h, t, y) => ByMerge(h, y, x)

\* A history that is longer by one commit.
Longer(h, g) ==
  /\ Ordered(h) /\ Ordered(g) /\ Len(h) \in Nat /\ Len(g) = Len(h) + 1
  /\ \A c \in Indices(h) : g[c] = h[c]

LEMMA LongerFacts ==
  ASSUME NEW h, NEW g, Longer(h, g)
  PROVE  /\ \A c \in Indices(h) :
              /\ c \in Indices(g) /\ g[c] = h[c] /\ c # Len(g)
              /\ Reach(g, c) = Reach(h, c) /\ Reach(h, c) \subseteq Indices(h)
              /\ c \in Reach(h, c)
         /\ Len(g) \in Indices(g) /\ Len(g) \notin Indices(h)
         /\ \A c \in Indices(g) : c \in Indices(h) \/ c = Len(g)
         /\ \A i \in DOMAIN g[Len(g)].parents : g[Len(g)].parents[i] \in Indices(h)
         /\ Reach(g, Len(g)) =
              {Len(g)} \cup UNION {Reach(h, g[Len(g)].parents[i]) :
                                     i \in DOMAIN g[Len(g)].parents}
<1> DEFINE n == Len(g)
           ps == g[n].parents
<1>1. n = Len(h) + 1 /\ Len(h) \in Nat /\ n \in Nat /\ Len(h) <= Len(g) BY DEF Longer
<1>2. Indices(h) = 1..Len(h) /\ Indices(g) = 1..n BY DEF Indices
<1>3. \A c \in Indices(h) : c \in Indices(g) /\ c # n BY <1>1, <1>2
<1>4. n \in Indices(g) /\ n \notin Indices(h) BY <1>1, <1>2
<1>5. \A c \in Indices(g) : c \in Indices(h) \/ c = n BY <1>1, <1>2
<1>6. ASSUME NEW c \in Indices(h)
      PROVE  Reach(g, c) = Reach(h, c) /\ Reach(h, c) \subseteq Indices(h) /\ c \in Reach(h, c)
  BY <1>1, ReachKept, ReachInHistory, ReachBelow DEF Longer
<1>7. \A i \in DOMAIN ps : ps[i] \in Indices(h)
  <2>1. \A i \in DOMAIN ps : ps[i] \in 1..(n - 1) BY <1>4 DEF Longer, Ordered
  <2> QED BY <1>1, <1>2, <2>1
<1>8. Reach(g, n) = {n} \cup UNION {Reach(g, ps[i]) : i \in DOMAIN ps}
  BY <1>1, <1>4, ReachStep DEF Longer
<1>9. \A i \in DOMAIN ps : Reach(g, ps[i]) = Reach(h, ps[i]) BY <1>6, <1>7
<1> HIDE DEF ps
<1>10. Reach(g, n) = {n} \cup UNION {Reach(h, ps[i]) : i \in DOMAIN ps} BY <1>8, <1>9
<1>11. \A c \in Indices(h) : g[c] = h[c] BY DEF Longer
<1> QED BY <1>3, <1>4, <1>5, <1>6, <1>7, <1>10, <1>11 DEF ps

\* What is said of commits there are, stays as it is.
LEMMA SameKept ==
  ASSUME NEW h, NEW g, Longer(h, g)
  PROVE  /\ \A c \in Indices(h) : IsCopy(g, c) = IsCopy(h, c)
         /\ \A c, d \in Indices(h) : SameChange(g, c, d) = SameChange(h, c, d)
         /\ \A x \in Indices(h) : \A d : ByMerge(g, d, x) = ByMerge(h, d, x)
<1>1. \A c \in Indices(h) : IsCopy(g, c) = IsCopy(h, c) BY LongerFacts DEF IsCopy
<1>2. \A c, d \in Indices(h) : SameChange(g, c, d) = SameChange(h, c, d)
  BY <1>1, LongerFacts DEF SameChange
<1>3. ASSUME NEW x \in Indices(h), NEW d PROVE ByMerge(g, d, x) = ByMerge(h, d, x)
  <2>1. Reach(g, x) = Reach(h, x) /\ Reach(h, x) \subseteq Indices(h) BY LongerFacts
  <2>2. \A f \in Reach(h, x) :
          IsCopy(g, f) = IsCopy(h, f) /\ g[f] = h[f] /\ Reach(g, f) = Reach(h, f)
    BY <1>1, <2>1, LongerFacts
  <2> QED BY <2>1, <2>2 DEF ByMerge
<1> QED BY <1>1, <1>2, <1>3

LEMMA FreshKept ==
  ASSUME NEW h, NEW g, Longer(h, g), NEW x \in Indices(h)
  PROVE  /\ Fresh(h, x) => Fresh(g, x)
         /\ Trunk(h, x) => Trunk(g, x)
         /\ \A T \in SUBSET Indices(h) : ToApply(h, T, x) => ToApply(g, T, x)
<1>1. Reach(g, x) = Reach(h, x) /\ Reach(h, x) \subseteq Indices(h) BY LongerFacts
<1>2. /\ \A c \in Indices(h) : IsCopy(g, c) = IsCopy(h, c)
      /\ \A c, d \in Indices(h) : SameChange(g, c, d) = SameChange(h, c, d)
      /\ \A d : ByMerge(g, d, x) = ByMerge(h, d, x)
  BY SameKept
<1>3. Fresh(h, x) => Fresh(g, x) BY <1>1, <1>2 DEF Fresh
<1>4. Trunk(h, x) => Trunk(g, x) BY <1>1, <1>2 DEF Trunk
<1>5. ASSUME NEW T \in SUBSET Indices(h), ToApply(h, T, x) PROVE ToApply(g, T, x)
  BY <1>1, <1>2, <1>5 DEF ToApply
<1> QED BY <1>3, <1>4, <1>5

\* What a commit has by a merge, those have that have the commit.
LEMMA ByMergeMore ==
  ASSUME NEW h, NEW g, Longer(h, g), NEW y \in Indices(h), Reach(h, y) \subseteq Reach(g, Len(g)),
         NEW d, ByMerge(h, d, y)
  PROVE  ByMerge(g, d, Len(g))
<1>1. ByMerge(g, d, y) BY SameKept
<1>2. Reach(g, y) = Reach(h, y) BY LongerFacts
<1> QED BY <1>1, <1>2 DEF ByMerge

\* The forms of a new commit that is one.
LEMMA SameNew ==
  ASSUME NEW h, NEW c, NEW d
  PROVE  /\ SameChange(h, c, d) = SameChange(h, d, c)
         /\ IsCopy(h, c) => ~SameChange(h, c, d)
BY DEF SameChange

\* A new commit on p.
LEMMA FreshOn ==
  ASSUME NEW h, NEW g, Longer(h, g), NEW p \in Indices(h), g[Len(g)].parents = <<p>>,
         Fresh(h, p),
         \A y \in Reach(h, p) : SameChange(g, Len(g), y) => ByMerge(h, y, p)
  PROVE  Fresh(g, Len(g)) /\ Reach(g, Len(g)) = {Len(g)} \cup Reach(h, p)
<1> DEFINE n == Len(g)
<1>1. Reach(g, n) = {n} \cup Reach(h, p) /\ Reach(h, p) \subseteq Indices(h)
  <2>1. DOMAIN <<p>> = {1} /\ <<p>>[1] = p OBVIOUS
  <2>2. Reach(g, n) = {n} \cup UNION {Reach(h, <<p>>[i]) : i \in DOMAIN <<p>>} BY LongerFacts
  <2>3. Reach(h, p) \subseteq Indices(h) BY LongerFacts
  <2> QED BY <2>1, <2>2, <2>3
<1>2. \A d : ByMerge(h, d, p) => ByMerge(g, d, n) BY <1>1, ByMergeMore
<1>3. ASSUME NEW c \in Reach(g, n), NEW d \in Reach(g, n), c # d, SameChange(g, c, d)
      PROVE  ByMerge(g, c, n) \/ ByMerge(g, d, n)
  <2>1. CASE c = n
    <3>1. d \in Reach(h, p) BY <1>1, <1>3, <2>1
    <3> QED BY <1>2, <1>3, <2>1, <3>1
  <2>2. CASE d = n
    <3>1. c \in Reach(h, p) BY <1>1, <1>3, <2>2
    <3>2. SameChange(g, n, c) BY <1>3, <2>2, SameNew
    <3> QED BY <1>2, <3>1, <3>2
  <2>3. CASE c # n /\ d # n
    <3>1. c \in Reach(h, p) /\ d \in Reach(h, p) BY <1>1, <2>3
    <3>2. SameChange(h, c, d) BY <1>1, <1>3, <3>1, SameKept
    <3> QED BY <1>2, <1>3, <3>1, <3>2 DEF Fresh
  <2> QED BY <2>1, <2>2, <2>3
<1> QED BY <1>1, <1>3 DEF Fresh

\* No two commits have one another.
LEMMA ReachOneWay ==
  ASSUME NEW h, Ordered(h), Len(h) \in Nat, NEW c \in Indices(h), NEW d \in Indices(h),
         c \in Reach(h, d), d \in Reach(h, c)
  PROVE  c = d
<1>1. c \in Nat /\ d \in Nat BY DEF Indices
<1>2. Reach(h, c) \subseteq 1..c /\ Reach(h, d) \subseteq 1..d BY ReachBelow
<1>3. c <= d /\ d <= c BY <1>2
<1> QED BY <1>1, <1>3

\* A new commit in the place of p.
LEMMA FreshAmended ==
  ASSUME NEW h, NEW g, Longer(h, g), NEW p \in Indices(h),
         g[Len(g)].parents = h[p].parents, g[Len(g)].line = h[p].line,
         h[p].marks \subseteq g[Len(g)].marks, Fresh(h, p),
         NEW T \in SUBSET Indices(h), ToApply(h, T, p)
  PROVE  Fresh(g, Len(g)) /\ ToApply(g, T, Len(g))
<1> DEFINE n == Len(g)
           Q == UNION {Reach(h, h[p].parents[i]) : i \in DOMAIN h[p].parents}
<1>1. /\ Reach(g, n) = {n} \cup Q /\ Reach(h, p) = {p} \cup Q
      /\ n \notin Indices(h) /\ Reach(h, p) \subseteq Indices(h)
  BY LongerFacts, ReachStep DEF Longer
<1> HIDE DEF Q
<1>2. p \notin Q
  <2> SUFFICES ASSUME p \in Q PROVE FALSE OBVIOUS
  <2>1. PICK i \in DOMAIN h[p].parents : p \in Reach(h, h[p].parents[i]) BY DEF Q
  <2>2. h[p].parents[i] \in 1..(p - 1) /\ p \in Nat /\ h[p].parents[i] \in Indices(h)
    BY DEF Longer, Ordered, Indices
  <2>3. Reach(h, h[p].parents[i]) \subseteq 1..(h[p].parents[i]) BY <2>2, ReachBelow DEF Longer
  <2> QED BY <2>1, <2>2, <2>3
<1>3. IsCopy(h, p) => IsCopy(g, n) BY DEF IsCopy
<1>4. ASSUME NEW d, d # p, ByMerge(h, d, p) PROVE ByMerge(g, d, n)
  <2>1. PICK f \in Reach(h, p) : IsCopy(h, f) /\ Len(h[f].parents) = 2 /\ d \in Reach(h, f)
    BY <1>4 DEF ByMerge
  <2>2. CASE f = p
    <3>1. d \in Reach(g, n) /\ n \in Reach(g, n) BY <1>1, <1>4, <2>1, <2>2
    <3>2. IsCopy(g, n) /\ Len(g[n].parents) = 2 BY <1>3, <2>1, <2>2
    <3> QED BY <3>1, <3>2 DEF ByMerge
  <2>3. CASE f # p
    <3>1. f \in Reach(g, n) /\ f \in Indices(h) BY <1>1, <2>1, <2>3
    <3>2. IsCopy(g, f) /\ Len(g[f].parents) = 2 /\ d \in Reach(g, f)
      <4>1. g[f] = h[f] /\ Reach(g, f) = Reach(h, f) BY <3>1, LongerFacts
      <4>2. IsCopy(g, f) = IsCopy(h, f) BY <3>1, SameKept
      <4> QED BY <2>1, <4>1, <4>2
    <3> QED BY <3>1, <3>2 DEF ByMerge
  <2> QED BY <2>2, <2>3
<1>5. ByMerge(h, p, p) => IsCopy(h, p)
  <2> SUFFICES ASSUME ByMerge(h, p, p) PROVE IsCopy(h, p) OBVIOUS
  <2>1. PICK f \in Reach(h, p) : IsCopy(h, f) /\ p \in Reach(h, f) BY DEF ByMerge
  <2>2. f = p BY <1>1, <2>1, ReachOneWay DEF Longer
  <2> QED BY <2>1, <2>2
<1>6. ASSUME NEW y \in Indices(h), SameChange(g, n, y) PROVE SameChange(h, p, y)
  <2>1. g[y] = h[y] BY LongerFacts
  <2> QED BY <1>3, <1>6, <2>1 DEF SameChange, IsCopy
<1>7. ASSUME NEW y \in Q, SameChange(g, n, y) PROVE ByMerge(g, y, n)
  <2>1. y \in Reach(h, p) /\ y # p /\ p \in Reach(h, p) /\ y \in Indices(h) BY <1>1, <1>2
  <2>2. SameChange(h, p, y) BY <1>6, <1>7, <2>1
  <2>3. ByMerge(h, p, p) \/ ByMerge(h, y, p) BY <2>1, <2>2 DEF Fresh
  <2>4. ~IsCopy(h, p) BY <2>2 DEF SameChange
  <2> QED BY <1>4, <1>5, <2>1, <2>3, <2>4
<1>8. ASSUME NEW c \in Reach(g, n), NEW d \in Reach(g, n), c # d, SameChange(g, c, d)
      PROVE  ByMerge(g, c, n) \/ ByMerge(g, d, n)
  <2>1. CASE c = n BY <1>1, <1>7, <1>8, <2>1
  <2>2. CASE d = n
    <3>1. SameChange(g, n, c) BY <1>8, <2>2, SameNew
    <3> QED BY <1>1, <1>7, <1>8, <2>2, <3>1
  <2>3. CASE c # n /\ d # n
    <3>1. c \in Q /\ d \in Q /\ c # p /\ d # p BY <1>1, <1>2, <1>8, <2>3
    <3>2. SameChange(h, c, d) BY <1>1, <1>8, <3>1, SameKept
    <3>3. c \in Reach(h, p) /\ d \in Reach(h, p) BY <1>1, <3>1
    <3>4. ByMerge(h, c, p) \/ ByMerge(h, d, p) BY <1>8, <3>2, <3>3 DEF Fresh
    <3> QED BY <1>4, <3>1, <3>4
  <2> QED BY <2>1, <2>2, <2>3
<1>9. ASSUME NEW t \in T PROVE \A u \in T : t # u => ~SameChange(g, t, u)
  <2>1. \A u \in T : SameChange(g, t, u) = SameChange(h, t, u) BY SameKept
  <2> QED BY <2>1 DEF ToApply
<1>10. ASSUME NEW t \in T, NEW y \in Reach(g, n), SameChange(g, t, y) PROVE ByMerge(g, y, n)
  <2>1. CASE y = n
    <3>1. SameChange(g, n, t) BY <1>10, <2>1, SameNew
    <3>2. SameChange(h, p, t) BY <1>6, <3>1
    <3>3. SameChange(h, t, p) /\ ~IsCopy(h, p) BY <3>2, SameNew
    <3>4. p \in Reach(h, p) BY <1>1
    <3>5. ByMerge(h, p, p) BY <3>3, <3>4 DEF ToApply
    <3> QED BY <1>5, <3>3, <3>5
  <2>2. CASE y # n
    <3>1. y \in Q /\ y # p /\ y \in Reach(h, p) /\ y \in Indices(h) BY <1>1, <1>2, <1>10, <2>2
    <3>2. SameChange(h, t, y) BY <1>10, <3>1, SameKept
    <3>3. ByMerge(h, y, p) BY <3>1, <3>2 DEF ToApply
    <3> QED BY <1>4, <3>1, <3>3
  <2> QED BY <2>1, <2>2
<1> QED BY <1>8, <1>9, <1>10 DEF Fresh, ToApply

\* What a rebase has still to apply, on a commit that is new on p.
LEMMA ToApplyOn ==
  ASSUME NEW h, NEW g, Longer(h, g), NEW p \in Indices(h),
         Reach(g, Len(g)) = {Len(g)} \cup Reach(h, p),
         NEW T \in SUBSET Indices(h), ToApply(h, T, p),
         \A t \in T : ~SameChange(g, t, Len(g))
  PROVE  ToApply(g, T, Len(g))
<1> DEFINE n == Len(g)
<1>1. Reach(h, p) \subseteq Indices(h) BY LongerFacts
<1>2. \A t, u \in T : SameChange(g, t, u) = SameChange(h, t, u) BY SameKept
<1>3. ASSUME NEW t \in T, NEW y \in Reach(g, n), SameChange(g, t, y) PROVE ByMerge(g, y, n)
  <2>1. y \in Reach(h, p) /\ y \in Indices(h) BY <1>1, <1>3
  <2>2. SameChange(h, t, y) BY <1>3, <2>1, SameKept
  <2>3. ByMerge(h, y, p) BY <2>1, <2>2 DEF ToApply
  <2> QED BY <2>3, ByMergeMore
<1> QED BY <1>2, <1>3 DEF ToApply

\* A merge of a default branch q into p.
LEMMA FreshMerge ==
  ASSUME NEW h, NEW g, Longer(h, g), NEW p \in Indices(h), NEW q \in Indices(h),
         g[Len(g)].parents = <<p, q>>, Fresh(h, p), Trunk(h, q),
         \A y \in Indices(h) : h[y].line # g[Len(g)].line,
         NEW T \in SUBSET Indices(h), ToApply(h, T, p)
  PROVE  Fresh(g, Len(g)) /\ ToApply(g, T, Len(g))
<1> DEFINE n == Len(g)
<1>1. /\ Reach(g, n) = {n} \cup Reach(h, p) \cup Reach(h, q)
      /\ Reach(h, p) \cup Reach(h, q) \subseteq Indices(h) /\ n \notin Indices(h)
  <2>1. DOMAIN <<p, q>> = {1, 2} /\ <<p, q>>[1] = p /\ <<p, q>>[2] = q OBVIOUS
  <2>2. Reach(g, n) = {n} \cup UNION {Reach(h, <<p, q>>[i]) : i \in DOMAIN <<p, q>>} BY LongerFacts
  <2>3. Reach(h, p) \subseteq Indices(h) /\ Reach(h, q) \subseteq Indices(h) /\ n \notin Indices(h)
    BY LongerFacts
  <2> QED BY <2>1, <2>2, <2>3
<1>2. \A d : ByMerge(h, d, p) \/ ByMerge(h, d, q) => ByMerge(g, d, n) BY <1>1, ByMergeMore
<1>3. \A y \in Indices(h) : ~SameChange(g, n, y) /\ ~SameChange(g, y, n)
  BY LongerFacts DEF SameChange
<1>4. ASSUME NEW y \in Reach(h, q), ~IsCopy(h, y) PROVE ByMerge(g, y, n)
  BY <1>2, <1>4 DEF Trunk
<1>5. ASSUME NEW c \in Reach(g, n), NEW d \in Reach(g, n), c # d, SameChange(g, c, d)
      PROVE  ByMerge(g, c, n) \/ ByMerge(g, d, n)
  <2>1. c # n /\ d # n BY <1>1, <1>3, <1>5
  <2>2. c \in Reach(h, p) \cup Reach(h, q) /\ d \in Reach(h, p) \cup Reach(h, q)
        /\ c \in Indices(h) /\ d \in Indices(h)
    BY <1>1, <2>1
  <2>3. SameChange(h, c, d) BY <1>5, <2>2, SameKept
  <2>4. ~IsCopy(h, c) /\ ~IsCopy(h, d) BY <2>3 DEF SameChange
  <2>5. CASE c \in Reach(h, p) /\ d \in Reach(h, p)
    BY <1>2, <1>5, <2>3, <2>5 DEF Fresh
  <2> QED BY <1>4, <2>2, <2>4, <2>5
<1>6. ASSUME NEW t \in T, NEW y \in Reach(g, n), SameChange(g, t, y) PROVE ByMerge(g, y, n)
  <2>1. y # n BY <1>3, <1>6
  <2>2. y \in Reach(h, p) \cup Reach(h, q) /\ y \in Indices(h) BY <1>1, <2>1
  <2>3. SameChange(h, t, y) BY <1>6, <2>2, SameKept
  <2>4. ~IsCopy(h, y) BY <2>3 DEF SameChange
  <2>5. CASE y \in Reach(h, p) BY <1>2, <2>3, <2>5 DEF ToApply
  <2> QED BY <1>4, <2>2, <2>4, <2>5
<1>7. \A t, u \in T : SameChange(g, t, u) = SameChange(h, t, u) BY SameKept
<1>8. \A t, u \in T : t # u => ~SameChange(g, t, u) BY <1>7 DEF ToApply
<1> QED BY <1>5, <1>6, <1>8 DEF Fresh, ToApply

\* A commit that lands on a default branch q.
LEMMA TrunkMore ==
  ASSUME NEW h, NEW g, Longer(h, g), NEW q \in Indices(h), Trunk(h, q), IsCopy(g, Len(g)),
         \/ g[Len(g)].parents = <<q>>
         \/ \E c \in Indices(h) : g[Len(g)].parents = <<q, c>>
  PROVE  Trunk(g, Len(g)) /\ Reach(h, q) \subseteq Reach(g, Len(g))
<1> DEFINE n == Len(g)
<1>1. n \in Reach(g, n)
      /\ Reach(g, n) = {n} \cup UNION {Reach(h, g[n].parents[i]) : i \in DOMAIN g[n].parents}
  BY LongerFacts
<1>2. CASE g[n].parents = <<q>>
  <2>1. DOMAIN <<q>> = {1} /\ <<q>>[1] = q OBVIOUS
  <2>2. Reach(g, n) = {n} \cup Reach(h, q) BY <1>1, <1>2, <2>1
  <2>3. Reach(h, q) \subseteq Indices(h) BY LongerFacts
  <2>4. \A d : ByMerge(h, d, q) => ByMerge(g, d, n) BY <2>2, ByMergeMore
  <2>5. \A d \in Reach(h, q) : IsCopy(g, d) = IsCopy(h, d) BY <2>3, SameKept
  <2> QED BY <2>2, <2>4, <2>5 DEF Trunk
<1>3. ASSUME NEW c \in Indices(h), g[n].parents = <<q, c>>
      PROVE  Trunk(g, n) /\ Reach(h, q) \subseteq Reach(g, n)
  <2>1. DOMAIN <<q, c>> = {1, 2} /\ <<q, c>>[1] = q /\ Len(<<q, c>>) = 2 OBVIOUS
  <2>2. Reach(h, q) \subseteq Reach(g, n) BY <1>1, <1>3, <2>1
  <2>3. \A d \in Reach(g, n) : ByMerge(g, d, n) BY <1>1, <1>3, <2>1 DEF ByMerge
  <2> QED BY <2>2, <2>3 DEF Trunk
<1> QED BY <1>2, <1>3

-----------------------------------------------------------------------------
(* What a push is refused for *)

\* A merge is one of a default branch that its branch had not, and that had not
\* the branch; or it lands a pull request of one commit on such a branch, or
\* stands in the place of such a merge.
MergeAt(h, d, trunk) ==
  LET ps == h[d].parents
  IN \/ Len(ps) <= 1
     \/ /\ Len(ps) = 2 /\ IsRaw(h, ps[2])
        /\ ps[1] \notin Reach(h, ps[2]) /\ ps[2] \notin Reach(h, ps[1])
     \/ /\ Len(ps) = 2 /\ IsRaw(h, ps[1]) /\ IsCopy(h, d)
        /\ Reach(h, ps[2]) \subseteq {ps[2]} \cup Reach(h, ps[1])
        /\ ps[2] \notin trunk \cup {ps[1]}

Trunks == {main.local, main.remote}

HookedInv == \A c \in Indices(commits) : Hooked(c) => commits[c].ids # << >>
MergeInv == \A d \in Indices(commits) : MergeAt(commits, d, Trunks)
TrunkInv ==
  /\ main.local \in Has(main.remote)
  /\ \A x \in Trunks : IsRaw(commits, x) /\ Trunk(commits, x)
  /\ open \subseteq Indices(commits) \ Trunks
FreshInv == Fresh(commits, head) /\ Fresh(commits, tip) /\ ToApply(commits, todo, head)

CauseInv == LandedInv /\ HookedInv /\ MergeInv /\ TrunkInv /\ FreshInv

LEMMA HistoryLonger ==
  ASSUME LocalInv, LocalInv', NEW r, commits' = Append(commits, r)
  PROVE  /\ Longer(commits, commits') /\ Len(commits') = New
         /\ New \in Nat /\ commits'[New] = r
<1>1. Ordered(commits) /\ Ordered(commits') /\ Len(commits) \in Nat
  BY HistoryOrdered, HistoryOrderedNext
<1>2. commits \in Seq(CommitTypes) BY DEF LocalInv, LocalTypeOK
<1>3. /\ Len(commits') = Len(commits) + 1 /\ commits'[Len(commits) + 1] = r
      /\ \A c \in 1..Len(commits) : commits'[c] = commits[c]
  BY <1>1, <1>2
<1> QED BY <1>1, <1>3 DEF Longer, New, Indices

\* Where things are.
LEMMA Places ==
  ASSUME LocalInv
  PROVE  /\ {head, tip} \cup todo \cup Trunks \subseteq Indices(commits)
         /\ main = [local |-> main.local, remote |-> main.remote]
BY DEF LocalInv, LocalTypeOK, Trunks

\* A commit with the parents of a merge.
LEMMA MergeSame ==
  ASSUME NEW h, NEW g, Longer(h, g), NEW d \in Indices(h), NEW x \in Indices(g),
         h[d].parents \in Seq(Nat), g[x].parents = h[d].parents, h[d].marks \subseteq g[x].marks,
         NEW trunk, NEW after, after \subseteq trunk \cup {Len(g)}, MergeAt(h, d, trunk)
  PROVE  MergeAt(g, x, after)
<1> DEFINE ps == h[d].parents
<1>1. IsCopy(h, d) => IsCopy(g, x) BY DEF IsCopy
<1>2. \A i \in DOMAIN ps : ps[i] \in Indices(h)
  <2>1. \A i \in DOMAIN ps : ps[i] \in 1..(d - 1) BY DEF Longer, Ordered
  <2> QED BY <2>1 DEF Longer, Indices
<1>3. \A i \in DOMAIN ps :
        /\ Reach(g, ps[i]) = Reach(h, ps[i]) /\ ps[i] # Len(g)
        /\ IsRaw(h, ps[i]) => IsRaw(g, ps[i])
  BY <1>2, LongerFacts DEF IsRaw
<1>4. Len(ps) = 2 => 1 \in DOMAIN ps /\ 2 \in DOMAIN ps OBVIOUS
<1>5. PICK qs : qs = ps OBVIOUS
<1>6. \/ Len(qs) <= 1
      \/ /\ Len(qs) = 2 /\ IsRaw(h, qs[2])
         /\ qs[1] \notin Reach(h, qs[2]) /\ qs[2] \notin Reach(h, qs[1])
      \/ /\ Len(qs) = 2 /\ IsRaw(h, qs[1]) /\ IsCopy(h, d)
         /\ Reach(h, qs[2]) \subseteq {qs[2]} \cup Reach(h, qs[1])
         /\ qs[2] \notin trunk \cup {qs[1]}
  BY <1>5 DEF MergeAt
<1> HIDE DEF ps
<1>7. \/ Len(qs) <= 1
      \/ /\ Len(qs) = 2 /\ IsRaw(g, qs[2])
         /\ qs[1] \notin Reach(g, qs[2]) /\ qs[2] \notin Reach(g, qs[1])
      \/ /\ Len(qs) = 2 /\ IsRaw(g, qs[1]) /\ IsCopy(g, x)
         /\ Reach(g, qs[2]) \subseteq {qs[2]} \cup Reach(g, qs[1])
         /\ qs[2] \notin after \cup {qs[1]}
  BY <1>1, <1>3, <1>4, <1>5, <1>6
<1>8. g[x].parents = qs BY <1>5 DEF ps
<1> QED BY <1>7, <1>8 DEF MergeAt

\* The merges that there are, when there is one commit more and the default branch
\* of the remote may be there.
LEMMA MergeKept ==
  ASSUME LocalInv, LocalInv', MergeInv, NEW r, commits' = Append(commits, r),
         Trunks' \subseteq Trunks \cup {New}, MergeAt(commits', New, Trunks')
  PROVE  MergeInv'
<1>0. PICK trunk : trunk = Trunks' OBVIOUS
<1>1. PICK g : g = commits' OBVIOUS
<1>2. PICK n : n = New OBVIOUS
<1>3. Longer(commits, g) /\ Len(g) = n BY <1>1, <1>2, HistoryLonger
<1>4. ASSUME NEW d \in Indices(commits) PROVE MergeAt(g, d, trunk)
  <2>1. d \in Indices(g) /\ g[d] = commits[d] BY <1>3, LongerFacts
  <2>2. commits[d].parents \in Seq(Nat) BY CommitFacts
  <2>3. MergeAt(commits, d, Trunks) BY DEF MergeInv
  <2>4. trunk \subseteq Trunks \cup {Len(g)} BY <1>0, <1>2, <1>3
  <2> QED BY <1>3, <2>1, <2>2, <2>3, <2>4, MergeSame
<1>5. MergeAt(g, n, trunk) BY <1>0, <1>1, <1>2
<1>6. \A d \in Indices(g) : MergeAt(g, d, trunk) BY <1>3, <1>4, <1>5, LongerFacts
<1> QED BY <1>0, <1>1, <1>6 DEF MergeInv

LEMMA HookedKept ==
  ASSUME LocalInv, LocalInv', HookedInv, NEW r, commits' = Append(commits, r),
         "hooked" \in r.marks => r.ids # << >>
  PROVE  HookedInv'
<1>1. Longer(commits, commits') /\ Len(commits') = New /\ commits'[New] = r
  BY HistoryLonger
<1>2. ASSUME NEW c \in Indices(commits') PROVE Hooked(c)' => commits'[c].ids # << >>
  <2>1. CASE c \in Indices(commits)
    <3>1. commits'[c] = commits[c] BY <1>1, <2>1 DEF Longer
    <3> QED BY <2>1, <3>1 DEF HookedInv, Hooked
  <2>2. CASE c = New BY <1>1, <2>2 DEF Hooked
  <2>3. c \in Indices(commits) \/ c = New
    <3>1. \A x \in Indices(commits') : x \in Indices(commits) \/ x = Len(commits')
      BY <1>1, LongerFacts
    <3> QED BY <1>1, <3>1
  <2> QED BY <2>1, <2>2, <2>3
<1> QED BY <1>2 DEF HookedInv

\* A commit of the user: of what it must be, and where.
LEMMA MadeKeeps ==
  ASSUME LocalInv, LocalInv', CauseInv, LandedInv', NEW r, commits' = Append(commits, r),
         head' = New, tip' \in {tip, New}, UNCHANGED <<main, open>>,
         "hooked" \in r.marks => r.ids # << >>, MergeAt(commits', New, Trunks),
         Fresh(commits', New), ToApply(commits', todo', New)
  PROVE  CauseInv'
<1>1. Longer(commits, commits') /\ Len(commits') = New /\ commits'[New] = r
  BY HistoryLonger
<1>2. HookedInv' BY HookedKept DEF CauseInv
<1>3. Trunks' = Trunks BY DEF Trunks
<1>4. MergeInv' BY <1>3, MergeKept DEF CauseInv
<1>5. Trunks \subseteq Indices(commits) /\ tip \in Indices(commits) BY Places
<1>6. TrunkInv'
  <2>1. \A x \in Trunks :
          /\ IsRaw(commits', x) /\ Trunk(commits', x)
          /\ Reach(commits', x) = Reach(commits, x)
    <3> SUFFICES ASSUME NEW x \in Trunks
                 PROVE  /\ IsRaw(commits', x) /\ Trunk(commits', x)
                        /\ Reach(commits', x) = Reach(commits, x)
      OBVIOUS
    <3>1. x \in Indices(commits) /\ IsRaw(commits, x) /\ Trunk(commits, x)
      BY <1>5 DEF CauseInv, TrunkInv
    <3>2. commits'[x] = commits[x] /\ Reach(commits', x) = Reach(commits, x)
      BY <1>1, <3>1, LongerFacts
    <3>3. Trunk(commits', x) BY <1>1, <3>1, FreshKept
    <3> QED BY <3>1, <3>2, <3>3 DEF IsRaw
  <2>2. main.local \in Reach(commits', main.remote)
    BY <2>1 DEF CauseInv, TrunkInv, Trunks, Has
  <2>3. open \subseteq Indices(commits') \ Trunks
    <3>1. Indices(commits) \subseteq Indices(commits') BY <1>1, LongerFacts
    <3> QED BY <3>1 DEF CauseInv, TrunkInv
  <2> QED BY <1>3, <2>1, <2>2, <2>3 DEF TrunkInv, Has
<1>7. FreshInv'
  <2>1. Fresh(commits', tip)
    <3>1. Fresh(commits, tip) BY DEF CauseInv, FreshInv
    <3> QED BY <1>1, <1>5, <3>1, FreshKept
  <2> QED BY <2>1 DEF FreshInv
<1> QED BY <1>2, <1>4, <1>6, <1>7 DEF CauseInv

\* A commit that lands.
LEMMA LandedKeeps ==
  ASSUME LocalInv, LocalInv', CauseInv, LandedInv', NEW r, commits' = Append(commits, r),
         main' = [main EXCEPT !.remote = New], open' \subseteq open, UNCHANGED <<head, tip, todo>>,
         r.marks = {"copy"}, MergeAt(commits', New, Trunks'),
         \/ r.parents = <<main.remote>>
         \/ \E c \in Indices(commits) : r.parents = <<main.remote, c>>
  PROVE  CauseInv'
<1>1. Longer(commits, commits') /\ Len(commits') = New /\ commits'[New] = r
  BY HistoryLonger
<1>2. HookedInv' BY HookedKept DEF CauseInv
<1>3. main'.local = main.local /\ main'.remote = New /\ Trunks' = {main.local, New}
  BY Places DEF Trunks
<1>4. MergeInv'
  <2>1. Trunks' \subseteq Trunks \cup {New} BY <1>3 DEF Trunks
  <2> QED BY <2>1, MergeKept DEF CauseInv
<1>5. /\ {head, tip} \cup todo \cup Trunks \subseteq Indices(commits)
      /\ New \notin Indices(commits)
  <2>1. Len(commits') \notin Indices(commits) BY <1>1, LongerFacts
  <2> QED BY <1>1, <2>1, Places
<1>6. Trunk(commits', New) /\ Has(main.remote) \subseteq Reach(commits', New)
  <2>1. Trunk(commits, main.remote) /\ main.remote \in Indices(commits)
    BY <1>5 DEF CauseInv, TrunkInv, Trunks
  <2>2. IsCopy(commits', New) BY <1>1 DEF IsCopy
  <2> QED BY <1>1, <2>1, <2>2, TrunkMore DEF Has
<1>7. TrunkInv'
  <2>1. main.local \in Reach(commits', New) BY <1>6 DEF CauseInv, TrunkInv
  <2>2. IsRaw(commits', New) BY <1>1 DEF IsRaw
  <2>3. IsRaw(commits', main.local) /\ Trunk(commits', main.local)
    <3>1. main.local \in Indices(commits) /\ IsRaw(commits, main.local) /\ Trunk(commits, main.local)
      BY <1>5 DEF CauseInv, TrunkInv, Trunks
    <3>2. commits'[main.local] = commits[main.local] BY <1>1, <3>1, LongerFacts
    <3>3. Trunk(commits', main.local) BY <1>1, <3>1, FreshKept
    <3> QED BY <3>1, <3>2, <3>3 DEF IsRaw
  <2>4. open' \subseteq Indices(commits') \ {main.local, New}
    <3>1. open \subseteq Indices(commits) \ Trunks BY DEF CauseInv, TrunkInv
    <3>2. Indices(commits) \subseteq Indices(commits') BY <1>1, LongerFacts
    <3> QED BY <1>5, <3>1, <3>2 DEF Trunks
  <2> QED BY <1>3, <1>6, <2>1, <2>2, <2>3, <2>4 DEF TrunkInv, Has
<1>8. FreshInv'
  <2>1. Fresh(commits, head) /\ Fresh(commits, tip) /\ ToApply(commits, todo, head)
    BY DEF CauseInv, FreshInv
  <2>2. Fresh(commits', head) /\ Fresh(commits', tip) /\ ToApply(commits', todo, head)
    <3>1. head \in Indices(commits) /\ tip \in Indices(commits) /\ todo \in SUBSET Indices(commits)
      BY <1>5
    <3> QED BY <1>1, <2>1, <3>1, FreshKept
  <2> QED BY <2>2 DEF FreshInv
<1> QED BY <1>2, <1>4, <1>7, <1>8 DEF CauseInv

\* A step that makes no commit.
LEMMA NoCommitKeeps ==
  ASSUME LocalInv, CauseInv, LandedInv', UNCHANGED commits,
         main' \in {main, [main EXCEPT !.local = main.remote]},
         open' \subseteq Indices(commits) \ Trunks,
         Fresh(commits, head'), Fresh(commits, tip'), ToApply(commits, todo', head')
  PROVE  CauseInv'
<1>1. main'.remote = main.remote /\ main'.local \in Trunks /\ Trunks' \subseteq Trunks
  BY Places DEF Trunks
<1>2. HookedInv' BY DEF CauseInv, HookedInv, Hooked
<1>3. MergeInv'
  <2>1. ASSUME NEW d \in Indices(commits) PROVE MergeAt(commits, d, Trunks')
    <3>1. MergeAt(commits, d, Trunks) BY DEF CauseInv, MergeInv
    <3> QED BY <1>1, <3>1 DEF MergeAt
  <2> QED BY <2>1 DEF MergeInv
<1>4. TrunkInv'
  <2>1. main.remote \in Has(main.remote)
    <3>1. main.remote \in Indices(commits) BY Places DEF Trunks
    <3> QED BY <3>1, HistoryOrdered, ReachBelow DEF Has
  <2> QED BY <1>1, <2>1 DEF CauseInv, TrunkInv, Has, Trunks
<1>5. FreshInv' BY DEF FreshInv
<1> QED BY <1>2, <1>3, <1>4, <1>5 DEF CauseInv

\* The commit of Make: the marks and identifiers of what it is a form of, and more.
Makes(parents, ids, was, r) ==
  /\ commits' = Append(commits, r) /\ r.parents = parents /\ r.line = was.line
  /\ was.marks \subseteq r.marks /\ r.marks \subseteq was.marks \cup {"hooked"}
  /\ ids # << >> => r.ids # << >>
  /\ "hooked" \in r.marks => "hooked" \in was.marks \/ r.ids # << >>

LEMMA MadeFacts ==
  ASSUME NEW parents, NEW kind, NEW ids, NEW verify \in BOOLEAN, NEW was,
         Make(parents, kind, ids, verify, was)
  PROVE  /\ \E r : Makes(parents, ids, was, r)
         /\ head' = New /\ tip' \in {tip, New} /\ UNCHANGED <<place, todo, main, open, merged>>
<1>1. PICK after : after = IF verify THEN MessageIds(kind, ids) ELSE ids OBVIOUS
<1> DEFINE hooked == {m \in {"hooked"} : /\ verify /\ ids = << >> /\ kind # "squash"
                                          /\ place # "Detached" /\ mode = "managed"}
           r == [parents |-> parents, kind |-> kind, ids |-> after,
                 line |-> was.line, marks |-> was.marks \cup hooked]
<1>2. commits' = Append(commits, r) BY <1>1 DEF Make
<1>3. ids # << >> => after # << >> BY <1>1, Zenon DEF MessageIds
<1>4. hooked # {} => after # << >>
  <2> SUFFICES ASSUME hooked # {} PROVE after # << >> OBVIOUS
  <2>1. verify /\ ids = << >> /\ ~HookSkips(kind) BY DEF HookSkips
  <2>2. after = <<New>> BY <1>1, <2>1 DEF MessageIds
  <2> QED BY <2>2
<1>5. hooked \subseteq {"hooked"} OBVIOUS
<1> HIDE DEF hooked
<1>6. /\ r.parents = parents /\ r.line = was.line /\ r.ids = after
      /\ r.marks = was.marks \cup hooked
  OBVIOUS
<1> HIDE DEF r
<1>7. head' = New /\ tip' \in {tip, New} /\ UNCHANGED <<place, todo, main, open, merged>>
  BY DEF Make, MoveHead, githubVars
<1>8. Makes(parents, ids, was, r) BY <1>2, <1>3, <1>4, <1>5, <1>6 DEF Makes
<1> QED BY <1>7, <1>8

\* The line of a commit is one of the history.
LEMMA OldLines ==
  ASSUME LocalInv
  PROVE  \A y \in Indices(commits) : commits[y].line # New
<1> SUFFICES ASSUME NEW y \in Indices(commits) PROVE commits[y].line # New OBVIOUS
<1>1. commits[y].line \in 1..y BY DEF LocalInv, LocalTypeOK
<1>2. y \in 1..Len(commits) /\ Len(commits) \in Nat BY HistoryOrdered
<1> QED BY <1>1, <1>2 DEF New

\* A commit on HEAD of a change that HEAD and the rest of a rebase have not, or a
\* copy.
LEMMA OnHeadKeeps ==
  ASSUME LocalInv, LocalInv', CauseInv, LandedInv', NEW r, commits' = Append(commits, r),
         r.parents = <<head>>, "hooked" \in r.marks => r.ids # << >>,
         head' = New, tip' \in {tip, New}, UNCHANGED <<main, open>>, todo' \subseteq todo,
         \A y \in Indices(commits) : SameChange(commits', New, y) =>
           y \notin todo' /\ (y \in Has(head) => ByMerge(commits, y, head))
  PROVE  CauseInv'
<1>1. PICK g : g = commits' OBVIOUS
<1>2. PICK n : n = New OBVIOUS
<1>3. PICK T : T = todo' OBVIOUS
<1>4. Longer(commits, g) /\ Len(g) = n /\ g[n] = r BY <1>1, <1>2, HistoryLonger
<1>5. head \in Indices(commits) /\ T \in SUBSET Indices(commits) BY <1>3, Places
<1>6. Reach(commits, head) \subseteq Indices(commits) BY <1>4, <1>5, LongerFacts
<1>7. Fresh(commits, head) /\ ToApply(commits, T, head)
  BY <1>3 DEF CauseInv, FreshInv, ToApply
<1>8. \A y \in Reach(commits, head) : SameChange(g, n, y) => ByMerge(commits, y, head)
  BY <1>1, <1>2, <1>6 DEF Has
<1>9. Fresh(g, n) /\ Reach(g, n) = {n} \cup Reach(commits, head)
  BY <1>4, <1>5, <1>7, <1>8, FreshOn
<1>10. \A t \in T : ~SameChange(g, t, n)
  <2> SUFFICES ASSUME NEW t \in T, SameChange(g, t, n) PROVE FALSE OBVIOUS
  <2>1. SameChange(g, n, t) BY SameNew
  <2> QED BY <1>1, <1>2, <1>3, <1>5, <2>1
<1>11. ToApply(g, T, n) BY <1>4, <1>5, <1>7, <1>9, <1>10, ToApplyOn
<1>12. MergeAt(g, n, Trunks)
  <2>1. Len(<<head>>) <= 1 OBVIOUS
  <2> QED BY <1>4, <2>1 DEF MergeAt
<1> QED BY <1>1, <1>2, <1>3, <1>9, <1>11, <1>12, MadeKeeps

LEMMA CommitKeeps ==
  ASSUME LocalInv, LocalInv', CauseInv, LandedInv', NEW m \in Messages, NEW verify \in BOOLEAN,
         Commit(m, verify)
  PROVE  CauseInv'
<1>1. Make(<<head>>, m.kind, m.ids, verify, Nothing) BY DEF Commit
<1>r. PICK r : Makes(<<head>>, m.ids, Nothing, r) BY <1>1, MadeFacts
<1>2. /\ commits' = Append(commits, r) /\ r.parents = <<head>> /\ r.line = Nothing.line
      /\ "hooked" \in r.marks => "hooked" \in Nothing.marks \/ r.ids # << >>
  BY <1>r DEF Makes
<1>3. head' = New /\ tip' \in {tip, New} /\ UNCHANGED <<todo, main, open>> BY <1>1, MadeFacts
<1>4. Nothing.line = New /\ Nothing.marks = {} BY DEF Nothing
<1>5. ASSUME NEW y \in Indices(commits) PROVE ~SameChange(commits', New, y)
  <2>1. Longer(commits, commits') /\ commits'[New] = r BY <1>2, HistoryLonger
  <2>2. commits'[y].line # New BY <2>1, OldLines DEF Longer
  <2> QED BY <1>2, <1>4, <2>1, <2>2 DEF SameChange
<1> QED BY <1>2, <1>3, <1>4, <1>5, OnHeadKeeps

LEMMA CopyKeeps ==
  ASSUME LocalInv, LocalInv', CauseInv, LandedInv', NEW c \in Own, NEW verify \in BOOLEAN,
         Copy(c, verify)
  PROVE  CauseInv'
<1> DEFINE was == [commits[c] EXCEPT !.marks = @ \cup {"copy"}]
<1>1. c \in Indices(commits) BY DEF Own, Missing
<1>2. was.marks = commits[c].marks \cup {"copy"} BY <1>1, CommitFacts DEF CommitTypes
<1>3. Make(<<head>>, commits[c].kind, commits[c].ids, verify, was) BY DEF Copy
<1> HIDE DEF was
<1>r. PICK r : Makes(<<head>>, commits[c].ids, was, r) BY <1>3, MadeFacts
<1>4. /\ commits' = Append(commits, r) /\ r.parents = <<head>>
      /\ was.marks \subseteq r.marks
      /\ commits[c].ids # << >> => r.ids # << >>
      /\ "hooked" \in r.marks => "hooked" \in was.marks \/ r.ids # << >>
  BY <1>r DEF Makes
<1>5. head' = New /\ tip' \in {tip, New} /\ UNCHANGED <<todo, main, open>> BY <1>3, MadeFacts
<1>6. "hooked" \in r.marks => r.ids # << >>
  BY <1>1, <1>2, <1>4 DEF CauseInv, HookedInv, Hooked
<1>7. ASSUME NEW y \in Indices(commits) PROVE ~SameChange(commits', New, y)
  <2>1. commits'[New] = r BY <1>4, HistoryLonger
  <2>2. IsCopy(commits', New) BY <1>2, <1>4, <2>1 DEF IsCopy
  <2> QED BY <2>2, SameNew
<1> QED BY <1>4, <1>5, <1>6, <1>7, OnHeadKeeps

LEMMA PickKeeps ==
  ASSUME LocalInv, LocalInv', CauseInv, LandedInv', Pick
  PROVE  CauseInv'
<1> DEFINE r == [commits[Following] EXCEPT !.parents = <<head>>]
<1>1. /\ commits' = Append(commits, r) /\ head' = New /\ todo' = todo \ {Following}
      /\ UNCHANGED <<tip, main, open>> /\ todo # {}
  BY DEF Pick, githubVars
<1>2. Following \in todo BY <1>1, FollowingIsLeft
<1>3. PICK f : f = Following OBVIOUS
<1>4. f \in Indices(commits) /\ f \in todo BY <1>2, <1>3, Places
<1>5. /\ r.parents = <<head>> /\ r.line = commits[f].line /\ r.marks = commits[f].marks
      /\ r.ids = commits[f].ids
  <2>1. commits[f] \in CommitTypes BY <1>4, CommitFacts
  <2> QED BY <1>3, <2>1 DEF CommitTypes
<1> HIDE DEF r
<1>6. "hooked" \in r.marks => r.ids # << >>
  BY <1>4, <1>5 DEF CauseInv, HookedInv, Hooked
<1>7. ASSUME NEW y \in Indices(commits), SameChange(commits', New, y)
      PROVE  y \notin todo' /\ (y \in Has(head) => ByMerge(commits, y, head))
  <2>1. Longer(commits, commits') /\ commits'[New] = r BY <1>1, HistoryLonger
  <2>2. commits'[y] = commits[y] BY <2>1 DEF Longer
  <2>3. SameChange(commits, f, y)
    BY <1>5, <1>7, <2>1, <2>2 DEF SameChange, IsCopy
  <2>4. ToApply(commits, todo, head) BY DEF CauseInv, FreshInv
  <2>5. y \notin todo'
    <3> SUFFICES ASSUME y \in todo' PROVE FALSE OBVIOUS
    <3>1. y \in todo /\ y # f BY <1>1, <1>3
    <3> QED BY <1>4, <2>3, <2>4, <3>1 DEF ToApply
  <2>6. y \in Has(head) => ByMerge(commits, y, head) BY <1>4, <2>3, <2>4 DEF ToApply, Has
  <2> QED BY <2>5, <2>6
<1> QED BY <1>1, <1>5, <1>6, <1>7, OnHeadKeeps

LEMMA AmendKeeps ==
  ASSUME LocalInv, LocalInv', CauseInv, LandedInv', NEW kind, NEW verify \in BOOLEAN,
         Amend(kind, verify)
  PROVE  CauseInv'
<1>1. Make(commits[head].parents, kind, commits[head].ids, verify, commits[head]) BY DEF Amend
<1>r. PICK r : Makes(commits[head].parents, commits[head].ids, commits[head], r) BY <1>1, MadeFacts
<1>2. /\ commits' = Append(commits, r) /\ r.parents = commits[head].parents
      /\ r.line = commits[head].line /\ commits[head].marks \subseteq r.marks
      /\ commits[head].ids # << >> => r.ids # << >>
      /\ "hooked" \in r.marks => "hooked" \in commits[head].marks \/ r.ids # << >>
  BY <1>r DEF Makes
<1>3. head' = New /\ tip' \in {tip, New} /\ UNCHANGED <<todo, main, open>> BY <1>1, MadeFacts
<1>4. PICK g : g = commits' OBVIOUS
<1>5. PICK n : n = New OBVIOUS
<1>6. Longer(commits, g) /\ Len(g) = n /\ g[n] = r BY <1>2, <1>4, <1>5, HistoryLonger
<1>7. head \in Indices(commits) /\ todo \in SUBSET Indices(commits) BY Places
<1>8. Fresh(commits, head) /\ ToApply(commits, todo, head) BY DEF CauseInv, FreshInv
<1>9. Fresh(g, n) /\ ToApply(g, todo, n) BY <1>2, <1>6, <1>7, <1>8, FreshAmended
<1>10. MergeAt(g, n, Trunks)
  <2>1. MergeAt(commits, head, Trunks) BY <1>7 DEF CauseInv, MergeInv
  <2>2. commits[head].parents \in Seq(Nat) BY <1>7, CommitFacts
  <2>3. n \in Indices(g) BY <1>6, LongerFacts
  <2>4. Trunks \subseteq Trunks \cup {Len(g)} OBVIOUS
  <2> QED BY <1>2, <1>6, <1>7, <2>1, <2>2, <2>3, <2>4, MergeSame
<1>11. "hooked" \in r.marks => r.ids # << >>
  BY <1>2, <1>7 DEF CauseInv, HookedInv, Hooked
<1> QED BY <1>2, <1>3, <1>4, <1>5, <1>9, <1>10, <1>11, MadeKeeps

LEMMA MergeKeeps ==
  ASSUME LocalInv, LocalInv', CauseInv, LandedInv', NEW verify \in BOOLEAN, Merge(verify)
  PROVE  CauseInv'
<1>1. /\ Make(<<head, main.remote>>, "plain", << >>, verify, Nothing)
      /\ main.remote \notin Has(head) /\ head \notin Has(main.remote)
  BY DEF Merge
<1>r. PICK r : Makes(<<head, main.remote>>, << >>, Nothing, r) BY <1>1, MadeFacts
<1>2. /\ commits' = Append(commits, r) /\ r.parents = <<head, main.remote>>
      /\ r.line = Nothing.line
      /\ "hooked" \in r.marks => "hooked" \in Nothing.marks \/ r.ids # << >>
  BY <1>r DEF Makes
<1>3. head' = New /\ tip' \in {tip, New} /\ UNCHANGED <<todo, main, open>> BY <1>1, MadeFacts
<1>4. Nothing.line = New /\ Nothing.marks = {} BY DEF Nothing
<1>5. PICK g : g = commits' OBVIOUS
<1>6. PICK n : n = New OBVIOUS
<1>7. Longer(commits, g) /\ Len(g) = n /\ g[n] = r BY <1>2, <1>5, <1>6, HistoryLonger
<1>8. /\ head \in Indices(commits) /\ todo \in SUBSET Indices(commits)
      /\ main.remote \in Indices(commits) /\ main.remote \in Trunks
  BY Places DEF Trunks
<1>9. /\ Fresh(commits, head) /\ ToApply(commits, todo, head)
      /\ Trunk(commits, main.remote) /\ IsRaw(commits, main.remote)
  BY <1>8 DEF CauseInv, FreshInv, TrunkInv
<1>10. \A y \in Indices(commits) : commits[y].line # g[Len(g)].line
  BY <1>2, <1>4, <1>6, <1>7, OldLines
<1>11. Fresh(g, n) /\ ToApply(g, todo, n)
  BY <1>2, <1>7, <1>8, <1>9, <1>10, FreshMerge
<1>12. MergeAt(g, n, Trunks)
  <2>1. IsRaw(g, main.remote) BY <1>7, <1>8, <1>9, LongerFacts DEF IsRaw
  <2>2. Reach(g, head) = Has(head) /\ Reach(g, main.remote) = Has(main.remote)
    BY <1>7, <1>8, LongerFacts DEF Has
  <2> QED BY <1>1, <1>2, <1>7, <2>1, <2>2 DEF MergeAt
<1> QED BY <1>2, <1>3, <1>4, <1>5, <1>6, <1>11, <1>12, MadeKeeps

\* What is collected is what the walk found, or nothing.
LEMMA CollectedStack ==
  Collected.stack \in {<< >>, CommitsBetween(commits, main.local, head)}
<1> DEFINE s == CommitsBetween(commits, main.local, head)
<1>1. \A why : Refusal(why).stack = << >> BY DEF Refusal
<1>2. Collected = Checked(commits, s) \/ Collected = Refusal("notAncestor")
  BY DEF Collected, Collect
<1> HIDE DEF s
<1>3. Checked(commits, s).stack \in {<< >>, s} BY <1>1 DEF Checked
<1> QED BY <1>1, <1>2, <1>3 DEF s

\* A rebase starts from commits of a line on a default branch, which has none of
\* their changes.
LEMMA StartRebaseKeeps ==
  ASSUME LocalInv, CauseInv, LandedInv', NEW onto \in Trunks, StartRebase(onto)
  PROVE  CauseInv'
<1>1. /\ Linear(commits, head) /\ todo' = Missing(head, onto) /\ head' = onto
      /\ UNCHANGED <<commits, tip, main, open>>
  BY DEF StartRebase, githubVars
<1>2. \A t \in todo' : t \in Reach(commits, head) BY <1>1 DEF Missing, Has
<1>3. Trunk(commits, onto) BY DEF CauseInv, TrunkInv
<1>4. Fresh(commits, head) /\ Fresh(commits, tip) BY DEF CauseInv, FreshInv
<1>5. \A d : ~ByMerge(commits, d, head) BY <1>1 DEF ByMerge, Linear
<1>6. Fresh(commits, onto) BY <1>3 DEF Fresh, Trunk, SameChange
<1>7. ToApply(commits, todo', onto)
  <2>1. \A t, u \in todo' : t # u => ~SameChange(commits, t, u) BY <1>2, <1>4, <1>5 DEF Fresh
  <2>2. \A t \in todo' : \A y \in Reach(commits, onto) :
          SameChange(commits, t, y) => ByMerge(commits, y, onto)
    BY <1>3 DEF Trunk, SameChange
  <2> QED BY <2>1, <2>2 DEF ToApply
<1>8. open' \subseteq Indices(commits) \ Trunks BY <1>1 DEF CauseInv, TrunkInv
<1> QED BY <1>1, <1>4, <1>6, <1>7, <1>8, NoCommitKeeps

\* The steps of git and of gherrit that only move HEAD, or nothing.
LEMMA OtherKeeps ==
  ASSUME LocalInv, CauseInv, LandedInv',
         \/ Drop \/ FinishRebase \/ AbortRebase \/ Detach \/ Reattach \/ Recreate \/ Pull
         \/ (\E m \in {"managed", "unmanaged"} : SetMode(m)) \/ UNCHANGED localVars
  PROVE  CauseInv'
<1>1. Fresh(commits, head) /\ Fresh(commits, tip) /\ ToApply(commits, todo, head)
      /\ open \subseteq Indices(commits) \ Trunks
  BY DEF CauseInv, FreshInv, TrunkInv
<1>2. ASSUME NEW x, NEW T \in SUBSET todo PROVE ToApply(commits, T, head)
  BY <1>1 DEF ToApply
<1>3. ASSUME NEW x PROVE ToApply(commits, {}, x) BY DEF ToApply
<1>4. CASE Drop
  <2>1. UNCHANGED <<commits, head, tip, main, open>> /\ todo' \in SUBSET todo
    BY <1>4 DEF Drop, githubVars
  <2> QED BY <1>1, <1>2, <2>1, NoCommitKeeps
<1>5. CASE FinishRebase \/ Reattach
  <2>1. UNCHANGED <<commits, head, main, open, todo>> /\ tip' = head
    BY <1>5 DEF FinishRebase, Reattach, githubVars
  <2> QED BY <1>1, <2>1, NoCommitKeeps
<1>6. CASE AbortRebase
  <2>1. UNCHANGED <<commits, tip, main, open>> /\ head' = tip /\ todo' = {}
    BY <1>6 DEF AbortRebase, githubVars
  <2> QED BY <1>1, <1>3, <2>1, NoCommitKeeps
<1>7. CASE Detach \/ Recreate \/ (\E m \in {"managed", "unmanaged"} : SetMode(m))
           \/ UNCHANGED localVars
  <2>1. UNCHANGED <<commits, head, tip, main, open, todo>>
    BY <1>7 DEF Detach, Recreate, SetMode, localVars, gitVars, githubVars
  <2> QED BY <1>1, <2>1, NoCommitKeeps
<1>8. CASE Pull
  <2>1. /\ UNCHANGED <<commits, head, tip, open, todo>>
        /\ main' = [main EXCEPT !.local = main.remote]
    BY <1>8 DEF Pull, githubVars
  <2> QED BY <1>1, <2>1, NoCommitKeeps
<1> QED BY <1>4, <1>5, <1>6, <1>7, <1>8

\* The history as walks need it.
LEMMA HistoryFacts ==
  ASSUME LocalInv, MergeInv
  PROVE  History(commits, head) /\ TwoParents(commits)
<1>1. Ordered(commits) /\ Len(commits) \in Nat BY HistoryOrdered
<1>2. head \in Indices(commits) BY Places
<1>3. \A x \in Indices(commits) : commits[x].parents \in Seq(Nat) BY CommitFacts
<1>4. ASSUME NEW d \in Indices(commits)
      PROVE  /\ Len(commits[d].parents) <= 2
             /\ Len(commits[d].parents) = 2 => commits[d].parents[1] # commits[d].parents[2]
  <2>1. PICK ps : ps = commits[d].parents OBVIOUS
  <2>2. ps \in Seq(Nat) BY <1>3, <2>1
  <2>3. \/ Len(ps) <= 1
        \/ Len(ps) = 2 /\ ps[1] \notin Reach(commits, ps[2])
        \/ Len(ps) = 2 /\ ps[2] # ps[1]
    <3>1. MergeAt(commits, d, Trunks) BY DEF MergeInv
    <3> QED BY <2>1, <3>1 DEF MergeAt
  <2>4. ASSUME Len(ps) = 2, ps[1] \notin Reach(commits, ps[2]) PROVE ps[1] # ps[2]
    <3>1. ps[2] \in 1..(d - 1) BY <1>1, <2>1, <2>2, <2>4 DEF Ordered
    <3>2. ps[2] \in Indices(commits) BY <1>1, <3>1 DEF Indices
    <3>3. ps[2] \in Reach(commits, ps[2]) BY <1>1, <3>2, ReachBelow
    <3> QED BY <2>4, <3>3
  <2>5. Len(ps) \in Nat BY <2>2
  <2>6. Len(ps) <= 2 /\ (Len(ps) = 2 => ps[1] # ps[2]) BY <2>3, <2>4, <2>5
  <2> QED BY <2>1, <2>6
<1> QED BY <1>1, <1>2, <1>3, <1>4 DEF History, TwoParents

\* What a push publishes are commits, and none that has landed.
LEMMA PushKeeps ==
  ASSUME LocalInv, CauseInv, LandedInv', Push
  PROVE  CauseInv'
<1> DEFINE stack == Range(Collected.stack)
<1>1. /\ Pushes /\ open' \subseteq open \cup stack
      /\ UNCHANGED <<commits, head, tip, main, todo>>
  BY DEF Push, gitVars
<1>2. stack \cap Has(main.remote) = {} BY <1>1, NotPushedAgain DEF CauseInv, LandedNotPushed
<1>3. stack \subseteq Indices(commits)
  <2>1. Collected.stack \in {<< >>, CommitsBetween(commits, main.local, head)}
    BY CollectedStack
  <2>2. Range(<< >>) = {} BY DEF Range
  <2>3. Range(CommitsBetween(commits, main.local, head)) \subseteq Indices(commits)
    BY HistoryFacts, BetweenInHistory DEF CauseInv
  <2> QED BY <2>1, <2>2, <2>3
<1> HIDE DEF stack
<1>4. Trunks \subseteq Has(main.remote)
  <2>1. main.remote \in Indices(commits) BY Places DEF Trunks
  <2>2. main.remote \in Has(main.remote) BY <2>1, HistoryOrdered, ReachBelow DEF Has
  <2> QED BY <2>2 DEF CauseInv, TrunkInv, Trunks
<1>5. open' \subseteq Indices(commits) \ Trunks
  <2>1. open \subseteq Indices(commits) \ Trunks BY DEF CauseInv, TrunkInv
  <2> QED BY <1>1, <1>2, <1>3, <1>4, <2>1
<1>6. Fresh(commits, head) /\ Fresh(commits, tip) /\ ToApply(commits, todo, head)
  BY DEF CauseInv, FreshInv
<1> QED BY <1>1, <1>5, <1>6, NoCommitKeeps

\* What lands.
LEMMA LandFacts ==
  ASSUME LocalInv, NEW parents, NEW ids, NEW gone, Land(Foreign(parents, ids, New), gone)
  PROVE  \E r :
           /\ commits' = Append(commits, r) /\ r.parents = parents /\ r.marks = {"copy"}
           /\ main' = [main EXCEPT !.remote = New] /\ open' \subseteq open
           /\ UNCHANGED <<head, tip, todo>> /\ Trunks' = {main.local, New}
<1> DEFINE r == Foreign(parents, ids, New)
<1>1. /\ commits' = Append(commits, r) /\ main' = [main EXCEPT !.remote = New]
      /\ open' \subseteq open /\ UNCHANGED <<head, tip, todo>>
  BY DEF Land
<1>2. r.parents = parents /\ r.marks = {"copy"} BY DEF Foreign
<1> HIDE DEF r
<1>3. Trunks' = {main.local, New} BY <1>1, Places DEF Trunks
<1> QED BY <1>1, <1>2, <1>3

\* Landing on one commit.
LEMMA LandOnKeeps ==
  ASSUME LocalInv, LocalInv', CauseInv, LandedInv', NEW ids, NEW gone,
         Land(Foreign(<<main.remote>>, ids, New), gone)
  PROVE  CauseInv'
<1>1. PICK r :
        /\ commits' = Append(commits, r) /\ r.parents = <<main.remote>> /\ r.marks = {"copy"}
        /\ main' = [main EXCEPT !.remote = New] /\ open' \subseteq open
        /\ UNCHANGED <<head, tip, todo>> /\ Trunks' = {main.local, New}
  BY LandFacts
<1>2. MergeAt(commits', New, Trunks')
  <2>1. commits'[New] = r BY <1>1, HistoryLonger
  <2>2. Len(<<main.remote>>) <= 1 OBVIOUS
  <2> QED BY <1>1, <2>1, <2>2 DEF MergeAt
<1> QED BY <1>1, <1>2, LandedKeeps

LEMMA LandPrKeeps ==
  ASSUME LocalInv, LocalInv', CauseInv, LandedInv', NEW c \in Indices(commits),
         NEW how \in {"rebase", "squash", "merge"}, LandPr(c, how)
  PROVE  CauseInv'
<1>1. CASE how = "rebase"
  <2>1. Land(Foreign(<<main.remote>>, commits[c].ids, New), Ids({c})) BY <1>1 DEF LandPr
  <2> QED BY <2>1, LandOnKeeps
<1>2. CASE how = "squash"
  <2>1. Land(Foreign(<<main.remote>>, << >>, New), Ids({c})) BY <1>2 DEF LandPr
  <2> QED BY <2>1, LandOnKeeps
<1>3. CASE how = "merge"
  <2>1. /\ Land(Foreign(<<main.remote, c>>, << >>, New), Ids({c}))
        /\ c \in open /\ Missing(c, main.remote) \subseteq {c}
    BY <1>3 DEF LandPr
  <2>2. PICK r :
          /\ commits' = Append(commits, r) /\ r.parents = <<main.remote, c>>
          /\ r.marks = {"copy"}
          /\ main' = [main EXCEPT !.remote = New] /\ open' \subseteq open
          /\ UNCHANGED <<head, tip, todo>> /\ Trunks' = {main.local, New}
    BY <2>1, LandFacts
  <2>3. PICK g : g = commits' OBVIOUS
  <2>4. PICK n : n = New OBVIOUS
  <2>5. Longer(commits, g) /\ Len(g) = n /\ g[n] = r BY <2>2, <2>3, <2>4, HistoryLonger
  <2>6. c # main.local /\ c # main.remote /\ main.remote \in Indices(commits)
        /\ IsRaw(commits, main.remote)
    <3>1. c \notin Trunks BY <2>1 DEF CauseInv, TrunkInv
    <3>2. IsRaw(commits, main.remote) BY DEF CauseInv, TrunkInv, Trunks
    <3> QED BY <3>1, <3>2, Places DEF Trunks
  <2>7. c # n /\ IsRaw(g, main.remote) /\ IsCopy(g, n)
        /\ Reach(g, c) = Has(c) /\ Reach(g, main.remote) = Has(main.remote)
        /\ Has(c) \subseteq Indices(commits)
    <3>1. PICK q : q = main.remote OBVIOUS
    <3>2. q \in Indices(commits) /\ IsRaw(commits, q) BY <2>6, <3>1
    <3>3. /\ c # Len(g) /\ Reach(g, c) = Reach(commits, c)
          /\ Reach(commits, c) \subseteq Indices(commits)
      BY <2>5, LongerFacts
    <3>4. g[q] = commits[q] /\ Reach(g, q) = Reach(commits, q) BY <2>5, <3>2, LongerFacts
    <3>5. IsRaw(g, q) BY <3>2, <3>4 DEF IsRaw
    <3>6. IsCopy(g, n) BY <2>2, <2>5 DEF IsCopy
    <3> QED BY <2>5, <3>1, <3>3, <3>4, <3>5, <3>6 DEF Has
  <2>8. Has(c) \subseteq {c} \cup Has(main.remote)
    <3>1. \A x \in Indices(commits) : x \in Has(c) \ Has(main.remote) => x = c
      BY <2>1 DEF Missing
    <3> QED BY <2>7, <3>1
  <2>9. MergeAt(g, n, {main.local, n})
    <3>1. PICK ps : ps = <<main.remote, c>> OBVIOUS
    <3>2. Len(ps) = 2 /\ ps[1] = main.remote /\ ps[2] = c BY <3>1
    <3>3. g[n].parents = ps BY <2>2, <2>5, <3>1
    <3>4. c \notin {main.local, n} \cup {main.remote} BY <2>6, <2>7
    <3> QED BY <2>7, <2>8, <3>2, <3>3, <3>4 DEF MergeAt
  <2> QED BY <2>2, <2>3, <2>4, <2>9, LandedKeeps
<1> QED BY <1>1, <1>2, <1>3

LEMMA CauseStep ==
  ASSUME LocalInv, CauseInv, [Next]_localVars
  PROVE  CauseInv'
<1>1. LocalInv' BY LocalStep
<1>2. LandedInv' BY LandedStep DEF CauseInv
<1>3. ASSUME NEW verify \in BOOLEAN, NEW m \in Messages, Commit(m, verify) \/ Amend(m.kind, verify)
      PROVE  CauseInv'
  BY <1>1, <1>2, <1>3, CommitKeeps, AmendKeeps
<1>4. ASSUME NEW verify \in BOOLEAN,
             (\E c \in Own : Copy(c, verify)) \/ Merge(verify)
      PROVE  CauseInv'
  BY <1>1, <1>2, <1>4, CopyKeeps, MergeKeeps
<1>5. ASSUME NEW onto \in {main.local, main.remote}, StartRebase(onto) PROVE CauseInv'
  BY <1>2, <1>5, StartRebaseKeeps DEF Trunks
<1>6. CASE Pick BY <1>1, <1>2, <1>6, PickKeeps
<1>7. CASE UserStep
  BY <1>2, <1>3, <1>4, <1>5, <1>6, <1>7, OtherKeeps DEF UserStep
<1>8. CASE Push BY <1>2, <1>8, PushKeeps
<1>9. ASSUME NEW c \in Indices(commits), NEW how \in {"rebase", "squash", "merge"}, LandPr(c, how)
      PROVE  CauseInv'
  BY <1>1, <1>2, <1>9, LandPrKeeps
<1>10. CASE LandOther
  <2>1. Land(Foreign(<<main.remote>>, << >>, New), {}) BY <1>10 DEF LandOther
  <2> QED BY <1>1, <1>2, <2>1, LandOnKeeps
<1>11. CASE UNCHANGED localVars BY <1>2, <1>11, OtherKeeps
<1> QED BY <1>7, <1>8, <1>9, <1>10, <1>11 DEF Next


\* What a push is about, when nothing of it was made on the remote: each commit has
\* one way to the default branch, and the walk of commits_between finds it.
LEMMA OwnBetween ==
  ASSUME LocalInv
  PROVE  Own = Between(commits, main.local, head) /\ Own \subseteq Indices(commits)
<1>1. head \in Indices(commits) BY Places
<1>2. Reach(commits, head) \subseteq Indices(commits) BY <1>1, HistoryOrdered, ReachInHistory
<1> QED BY <1>2 DEF Own, Missing, Between, Has

LEMMA WayToTrunk ==
  ASSUME LocalInv, CauseInv, main.local \in Has(head), \A c \in Own : ~IsRaw(commits, c)
  PROVE  Approachable(commits, head, main.local)
<1>1. PICK a : a = main.local OBVIOUS
<1>2. PICK S : S = Own OBVIOUS
<1>3. Ordered(commits) /\ Len(commits) \in Nat BY HistoryOrdered
<1>4. a \in Indices(commits) /\ head \in Indices(commits) BY <1>1, Places DEF Trunks
<1>5. S = Between(commits, a, head) /\ S \subseteq Indices(commits) BY <1>1, <1>2, OwnBetween
<1>6. a \in Reach(commits, a) /\ a \notin S BY <1>3, <1>4, <1>5, ReachBelow DEF Between
<1>7. ASSUME NEW d \in S, a \in Reach(commits, d) PROVE Toward(commits, S, a, d)
  <2>1. PICK ps : ps = commits[d].parents OBVIOUS
  <2>2. d \in Indices(commits) /\ ps \in Seq(Nat) BY <1>5, <2>1, CommitFacts
  <2>3. /\ Reach(commits, d) = {d} \cup UNION {Reach(commits, ps[i]) : i \in DOMAIN ps}
        /\ Reach(commits, d) \subseteq Reach(commits, head)
    BY <1>3, <1>4, <1>5, <1>7, <2>1, <2>2, ReachStep, ReachClosed DEF Between
  <2>4. \A i \in DOMAIN ps :
          /\ ps[i] \in Indices(commits) /\ ps[i] \in Reach(commits, ps[i])
          /\ ps[i] \in Reach(commits, head)
    <3> SUFFICES ASSUME NEW i \in DOMAIN ps
                 PROVE  /\ ps[i] \in Indices(commits) /\ ps[i] \in Reach(commits, ps[i])
                        /\ ps[i] \in Reach(commits, head)
      OBVIOUS
    <3>1. ps[i] \in 1..(d - 1) BY <1>3, <2>1, <2>2 DEF Ordered
    <3>2. ps[i] \in Indices(commits) BY <1>3, <2>2, <3>1 DEF Indices
    <3>3. ps[i] \in Reach(commits, ps[i]) BY <1>3, <3>2, ReachBelow
    <3> QED BY <2>3, <3>2, <3>3
  <2>5. \A i \in DOMAIN ps : IsRaw(commits, ps[i]) => ps[i] \in Reach(commits, a)
    BY <1>2, <1>5, <2>4 DEF Between
  <2>6. a # d BY <1>6, <1>7
  <2>7. PICK i \in DOMAIN ps : a \in Reach(commits, ps[i]) BY <1>7, <2>3, <2>6
  <2>8. \A j \in DOMAIN ps : a \in Reach(commits, ps[j]) =>
          /\ Reach(commits, a) \subseteq Reach(commits, ps[j])
          /\ ps[j] \in Reach(commits, a) => ps[j] = a
    BY <1>3, <1>4, <2>4, ReachClosed, ReachOneWay
  <2>9. MergeAt(commits, d, Trunks) /\ a \in Trunks
    BY <1>1, <2>2 DEF CauseInv, MergeInv, Trunks
  <2>10. CASE Len(ps) <= 1
    <3>1. Len(ps) \in Nat /\ DOMAIN ps = 1..Len(ps) BY <2>2
    <3>2. \A m \in Nat : m <= 1 => m = 0 \/ m = 1 OBVIOUS
    <3>3. Len(ps) = 0 \/ Len(ps) = 1 BY <2>10, <3>1, <3>2, Zenon
    <3>4. 1..0 = {} OBVIOUS
    <3>5. Len(ps) = 1 BY <2>7, <3>1, <3>3, <3>4
    <3> QED BY <2>1, <3>5 DEF Toward
  <2>11. Len(ps) = 2 => DOMAIN ps = {1, 2}
    <3>1. 1..2 = {1, 2} OBVIOUS
    <3> QED BY <2>2, <3>1
  <2>12. CASE /\ Len(ps) = 2 /\ IsRaw(commits, ps[2])
              /\ ps[1] \notin Reach(commits, ps[2]) /\ ps[2] \notin Reach(commits, ps[1])
    <3>1. 1 \in DOMAIN ps /\ 2 \in DOMAIN ps /\ (i = 1 \/ i = 2) BY <2>11, <2>12
    <3>2. ps[2] \in Reach(commits, a) BY <2>5, <2>12, <3>1
    <3>3. i # 1 BY <2>7, <2>8, <2>12, <3>1, <3>2
    <3>4. ps[2] = a BY <2>7, <2>8, <3>1, <3>2, <3>3
    <3>5. ps[1] \in S BY <1>5, <2>4, <2>12, <3>1, <3>4 DEF Between
    <3> QED BY <2>1, <2>12, <3>4, <3>5 DEF Toward
  <2>13. CASE /\ Len(ps) = 2 /\ IsRaw(commits, ps[1]) /\ IsCopy(commits, d)
              /\ Reach(commits, ps[2]) \subseteq {ps[2]} \cup Reach(commits, ps[1])
              /\ ps[2] \notin Trunks \cup {ps[1]}
    <3>1. 1 \in DOMAIN ps /\ (i = 1 \/ i = 2) BY <2>11, <2>13
    <3>2. ps[1] \in Reach(commits, a) BY <2>5, <2>13, <3>1
    <3>3. a \in Reach(commits, ps[1]) BY <2>7, <2>9, <2>13, <3>1
    <3>4. ps[1] = a BY <2>8, <3>1, <3>2, <3>3
    <3> QED BY <2>1, <2>13, <3>4 DEF Toward
  <2> QED BY <2>1, <2>9, <2>10, <2>12, <2>13 DEF MergeAt
<1> QED BY <1>1, <1>5, <1>7 DEF Approachable

\* What collect_commits refuses a stack for.
LEMMA RefusalFacts ==
  ASSUME NEW h, NEW s, DOMAIN s \subseteq Nat
  PROVE  /\ Checked(h, s).why = "missing" => \E i \in DOMAIN s : h[s[i]].ids = << >>
         /\ Checked(h, s).why = "duplicate" =>
              \E i, j \in DOMAIN s :
                /\ i # j /\ h[s[i]].ids = h[s[j]].ids
                /\ h[s[i]].ids # << >> /\ h[s[i]].ids[1] # BadId
<1> DEFINE faulty == {i \in DOMAIN s : Fault(h[s[i]]) # "none"}
           first == CHOOSE i \in faulty : \A j \in faulty : i <= j
<1>1. \A commit : /\ Fault(commit) = "missing" => commit.ids = << >>
                  /\ Fault(commit) = "none" => commit.ids # << >> /\ commit.ids[1] # BadId
                  /\ Fault(commit) # "duplicate"
  BY DEF Fault
<1>2. \A why : Refusal(why).why = why BY DEF Refusal
<1>3. faulty # {} => first \in DOMAIN s
  <2> SUFFICES ASSUME faulty # {} PROVE first \in faulty OBVIOUS
  <2>1. faulty \in SUBSET Nat OBVIOUS
  <2> HIDE DEF faulty
  <2>2. \E i \in faulty : \A j \in faulty : i <= j BY <2>1, FirstCommit
  <2> QED BY <2>2
<1>4. \/ Checked(h, s) = Refusal("autosquash")
      \/ faulty # {} /\ Checked(h, s) = Refusal(Fault(h[s[first]]))
      \/ /\ faulty = {} /\ \E i, j \in DOMAIN s : i < j /\ h[s[i]].ids = h[s[j]].ids
         /\ Checked(h, s) = Refusal("duplicate")
      \/ Checked(h, s) = [why |-> "none", stack |-> s]
  BY Zenon DEF Checked
<1>5. \A i \in DOMAIN s : faulty = {} => Fault(h[s[i]]) = "none" OBVIOUS
<1>6. \A i, j \in DOMAIN s : i < j => i # j OBVIOUS
<1> HIDE DEF faulty, first
<1>7. Checked(h, s).why = "missing" => \E i \in DOMAIN s : h[s[i]].ids = << >>
  <2> SUFFICES ASSUME Checked(h, s).why = "missing" PROVE \E i \in DOMAIN s : h[s[i]].ids = << >>
    OBVIOUS
  <2>1. faulty # {} /\ Fault(h[s[first]]) = "missing" BY <1>2, <1>4
  <2> QED BY <1>1, <1>3, <2>1
<1>8. Checked(h, s).why = "duplicate" =>
        \E i, j \in DOMAIN s :
          /\ i # j /\ h[s[i]].ids = h[s[j]].ids
          /\ h[s[i]].ids # << >> /\ h[s[i]].ids[1] # BadId
  <2> SUFFICES ASSUME Checked(h, s).why = "duplicate"
               PROVE  \E i, j \in DOMAIN s :
                        /\ i # j /\ h[s[i]].ids = h[s[j]].ids
                        /\ h[s[i]].ids # << >> /\ h[s[i]].ids[1] # BadId
    OBVIOUS
  <2>1. faulty = {} /\ \E i, j \in DOMAIN s : i < j /\ h[s[i]].ids = h[s[j]].ids
    BY <1>1, <1>2, <1>4
  <2>2. PICK i, j \in DOMAIN s : i < j /\ h[s[i]].ids = h[s[j]].ids BY <2>1
  <2> QED BY <1>1, <1>5, <1>6, <2>1, <2>2
<1> QED BY <1>7, <1>8

\* What a push with no commit from elsewhere is refused for.
LEMMA CauseOfRefusal ==
  ASSUME LocalInv, CauseInv
  PROVE  RefusedWithCause
<1> DEFINE s == CommitsBetween(commits, main.local, head)
<1>1. CASE main.local \notin Has(head)
  BY <1>1 DEF RefusedWithCause, Collected, Collect, Refusal, Has
<1>2. CASE \E c \in Own : IsRaw(commits, c)
  BY <1>2 DEF RefusedWithCause, IsRaw, Hooked, Copied
<1>3. CASE main.local \in Has(head) /\ \A c \in Own : ~IsRaw(commits, c)
  <2>1. Collected = Checked(commits, s) BY <1>3 DEF Collected, Collect, Has
  <2>2. s \in Seq(Own) /\ IsInjective(s)
    <3>1. History(commits, head) /\ TwoParents(commits) BY HistoryFacts DEF CauseInv
    <3>2. Approachable(commits, head, main.local) BY <1>3, WayToTrunk
    <3>3. main.local \in Reach(commits, head) BY <1>3 DEF Has
    <3>4. s \in Seq(Between(commits, main.local, head)) /\ IsInjective(s)
      BY <3>1, <3>2, <3>3, ApproachBetween
    <3> QED BY <3>4, OwnBetween
  <2> HIDE DEF s
  <2>3. DOMAIN s \subseteq Nat /\ \A i \in DOMAIN s : s[i] \in Own BY <2>2
  <2>4. Own \subseteq Indices(commits) BY OwnBetween
  <2>5. ASSUME Collected.why = "missing" PROVE \E c \in Own : ~Hooked(c)
    <3>1. PICK i \in DOMAIN s : commits[s[i]].ids = << >> BY <2>1, <2>3, <2>5, RefusalFacts
    <3> QED BY <2>3, <2>4, <3>1 DEF CauseInv, HookedInv
  <2>6. ASSUME Collected.why = "duplicate", \A c \in Own : ~Copied(c) PROVE FALSE
    <3>1. PICK i, j \in DOMAIN s :
            /\ i # j /\ commits[s[i]].ids = commits[s[j]].ids
            /\ commits[s[i]].ids # << >> /\ commits[s[i]].ids[1] # BadId
      BY <2>1, <2>3, <2>6, RefusalFacts
    <3>2. PICK c : c = s[i] OBVIOUS
    <3>3. PICK d : d = s[j] OBVIOUS
    <3>4. c # d /\ c \in Own /\ d \in Own /\ c \in Indices(commits) /\ d \in Indices(commits)
      BY <2>2, <2>3, <2>4, <3>1, <3>2, <3>3 DEF IsInjective
    <3>5. PICK g : g = commits[c].ids[1] OBVIOUS
    <3>6. g \in Range(commits[c].ids) \ {BadId} /\ g \in Range(commits[d].ids) \ {BadId}
      <4>1. commits[c].ids = commits[d].ids /\ commits[c].ids # << >> /\ g # BadId
        BY <3>1, <3>2, <3>3, <3>5
      <4>2. commits[c].ids \in Seq(Nat) BY <3>4, CommitFacts
      <4>3. 1 \in DOMAIN commits[c].ids BY <4>1, <4>2
      <4> QED BY <3>5, <4>1, <4>3 DEF Range
    <3>7. KeyAt(c) /\ KeyAt(d) /\ ~Copied(c) /\ ~Copied(d)
      BY <2>6, <3>4 DEF LocalInv, KeyInv
    <3>8. SameChange(commits, c, d) BY <3>6, <3>7 DEF KeyAt, SameChange, IsCopy, Copied
    <3>9. c \in Reach(commits, head) /\ d \in Reach(commits, head)
      BY <3>4, OwnBetween DEF Between
    <3>10. ByMerge(commits, c, head) \/ ByMerge(commits, d, head)
      BY <3>4, <3>8, <3>9 DEF CauseInv, FreshInv, Fresh
    <3>11. ASSUME NEW x \in Own PROVE ~ByMerge(commits, x, head)
      <4> SUFFICES ASSUME ByMerge(commits, x, head) PROVE FALSE OBVIOUS
      <4>1. PICK f \in Reach(commits, head) : IsCopy(commits, f) /\ x \in Reach(commits, f)
        BY DEF ByMerge
      <4>2. f \notin Own BY <2>6, <4>1 DEF IsCopy, Copied
      <4>3. f \in Reach(commits, main.local) BY <4>1, <4>2, OwnBetween DEF Between
      <4>4. main.local \in Indices(commits) BY Places DEF Trunks
      <4>5. Reach(commits, f) \subseteq Reach(commits, main.local)
        BY <4>3, <4>4, HistoryOrdered, ReachClosed
      <4>6. x \notin Reach(commits, main.local) BY OwnBetween DEF Between
      <4> QED BY <4>1, <4>5, <4>6
    <3> QED BY <3>4, <3>10, <3>11
  <2> QED BY <2>5, <2>6 DEF RefusedWithCause
<1> QED BY <1>1, <1>2, <1>3

\* The shape of the history that GHerrit sees of users, git and GitHub: where the
\* merges are, and that nothing is there in two forms but by them.
THEOREM CauseInvHolds == Spec => []CauseInv
<1>1. Init => LocalInv /\ CauseInv
  <2> SUFFICES ASSUME Init PROVE LocalInv /\ CauseInv OBVIOUS
  <2>1. LocalInv BY LocalInit
  <2>2. LandedInv BY LandedInit
  <2> DEFINE r == Foreign(<< >>, << >>, 1)
  <2>3. /\ commits = <<r>> /\ r.parents = << >> /\ r.marks = {"copy"}
        /\ head = 1 /\ tip = 1 /\ todo = {} /\ open = {} /\ Trunks = {1}
        /\ main.local = 1 /\ main.remote = 1
    BY DEF Init, Foreign, Trunks
  <2> HIDE DEF r
  <2>4. Indices(commits) = {1} /\ commits[1] = r BY <2>3 DEF Indices
  <2>5. Reach(commits, 1) = {1}
    <3>1. 1 \in Reach(commits, 1) /\ Reach(commits, 1) \subseteq Indices(commits)
      BY <2>1, <2>4, HistoryOrdered, ReachBelow, ReachInHistory
    <3> QED BY <2>4, <3>1
  <2>6. IsRaw(commits, 1) /\ IsCopy(commits, 1) /\ ~Hooked(1)
    BY <2>3, <2>4 DEF IsRaw, IsCopy, Hooked
  <2>7. HookedInv BY <2>4, <2>6 DEF HookedInv
  <2>8. MergeInv
    <3>1. Len(<< >>) <= 1 OBVIOUS
    <3>2. MergeAt(commits, 1, Trunks) BY <2>3, <2>4, <3>1 DEF MergeAt
    <3> QED BY <2>4, <3>2 DEF MergeInv
  <2>9. TrunkInv BY <2>3, <2>5, <2>6 DEF TrunkInv, Trunk, Has
  <2>10. FreshInv BY <2>3, <2>5 DEF FreshInv, Fresh, ToApply
  <2> QED BY <2>1, <2>2, <2>7, <2>8, <2>9, <2>10 DEF CauseInv
<1>2. LocalInv /\ CauseInv /\ [Next]_localVars => LocalInv' /\ CauseInv'
  BY LocalStep, CauseStep
<1> QED BY <1>1, <1>2, PTL DEF Spec

\* A push is refused for a missing identifier only if some commit that the default
\* branch has not was made without the hook, and for a duplicate one only if the
\* message of one was copied (collect_commits in pre_push/mod.rs), whatever users
\* merge, and however far the local default branch lags behind.
THEOREM RefusedWithCauseHolds == Spec => []RefusedWithCause
<1>1. LocalInv /\ CauseInv => RefusedWithCause BY CauseOfRefusal
<1> QED BY <1>1, LocalInvariance, CauseInvHolds, PTL
=============================================================================
