------------------------- MODULE PublicationProofs -------------------------
(* Theorems about Publication, for every value of its constants. *)
EXTENDS Publication, SequenceTheorems, WellFoundedInduction, TLAPS

-----------------------------------------------------------------------------
(* The greatest element of a bounded set of naturals *)

\* Every nonempty set of naturals has a least element.
LEMMA LeastNat ==
  ASSUME NEW T \in SUBSET Nat, T # {}
  PROVE  \E x \in T : \A y \in T : x <= y
<1> DEFINE R == {ss \in Nat \X Nat : ss[1] < ss[2]}
<1>1. IsWellFoundedOn(R, Nat)
  BY NatLessThanWellFounded DEF OpToRel
<1>2. \E x \in T : \A y \in T : ~ (<<y, x>> \in R)
  <2> HIDE DEF R
  <2> QED BY <1>1, WFMin
<1>3. PICK x \in T : \A y \in T : ~ (<<y, x>> \in R)
  BY <1>2
<1>4. ASSUME NEW y \in T PROVE x <= y
  <2>1. ~ (<<y, x>> \in R) BY <1>3
  <2>2. x \in Nat /\ y \in Nat OBVIOUS
  <2> QED BY <2>1, <2>2
<1> QED BY <1>4

\* Every nonempty set of naturals with an upper bound has a greatest element.
LEMMA GreatestNat ==
  ASSUME NEW N \in Nat, NEW T \in SUBSET (0..N), T # {}
  PROVE  \E x \in T : \A y \in T : y <= x
<1> DEFINE U == {d \in 0..N : N - d \in T}
<1>1. U \in SUBSET Nat
  OBVIOUS
<1>2. U # {}
  <2>1. PICK x \in T : TRUE OBVIOUS
  <2>2. x \in 0..N OBVIOUS
  <2>3. N - x \in 0..N /\ N - (N - x) = x BY <2>2
  <2> QED BY <2>1, <2>3
<1>3. PICK d \in U : \A w \in U : d <= w
  <2> HIDE DEF U
  <2> QED BY <1>1, <1>2, LeastNat
<1>4. N - d \in T OBVIOUS
<1>5. ASSUME NEW y \in T PROVE y <= N - d
  <2>1. y \in 0..N OBVIOUS
  <2>2. N - y \in 0..N /\ N - (N - y) = y BY <2>1
  <2>3. N - y \in U BY <2>2
  <2>4. d <= N - y BY <1>3, <2>3
  <2> QED BY <2>1, <2>4
<1> QED BY <1>4, <1>5

\* There is a newest version in any tags, and only one.
LEMMA NewestIsNewest ==
  ASSUME NEW tags \in [Versions -> Refs]
  PROVE  Newest(tags) \in 0..MaxVersion /\ IsNewest(tags, Newest(tags))
<1> DEFINE T == {0} \cup {v \in Versions : tags[v] # NoRef}
<1>1. MaxVersion \in Nat BY BatchAssumption
<1>2. T \in SUBSET (0..MaxVersion) /\ T # {} BY <1>1 DEF Versions
<1>3. PICK m \in T : \A y \in T : y <= m
  <2> HIDE DEF T
  <2> QED BY <1>1, <1>2, GreatestNat
<1>4. m \in 0..MaxVersion /\ IsNewest(tags, m)
  BY <1>1, <1>2, <1>3 DEF IsNewest
<1> QED BY <1>4 DEF Newest

LEMMA NewestUnique ==
  ASSUME NEW tags \in [Versions -> Refs], NEW m \in 0..MaxVersion, IsNewest(tags, m)
  PROVE  Newest(tags) = m
<1>1. Newest(tags) \in 0..MaxVersion /\ IsNewest(tags, Newest(tags)) BY NewestIsNewest
<1>2. \A k \in 0..MaxVersion : k = 0 \/ k \in Versions BY DEF Versions
<1>3. Newest(tags) <= m /\ m <= Newest(tags)
  BY <1>1, <1>2, BatchAssumption DEF IsNewest
<1> QED BY <1>1, <1>3, BatchAssumption

-----------------------------------------------------------------------------
(* Type correctness *)

\* What a run pushes is a sequence of commits, each with its identifier.
LEMMA StackFacts ==
  ASSUME TypeOK, NEW p \in Procs
  PROVE  /\ stack[p] \in Seq(Commits)
         /\ Len(stack[p]) \in Nat
         /\ \A i \in 1..Len(stack[p]) :
              stack[p][i] \in Commits /\ GidOf[stack[p][i]] \in Gids
<1>1. stack[p] \in Seq(Commits)
  <2>1. stack[p] \in Stacks \/ stack[p] = << >> BY DEF TypeOK
  <2>2. << >> \in Seq(Commits) OBVIOUS
  <2> QED BY <2>1, <2>2, StacksAssumption
<1>2. \A i \in 1..Len(stack[p]) : stack[p][i] \in Commits
  BY <1>1
<1> QED BY <1>1, <1>2, ActorsAssumption

\* A batch is not empty, unless nothing is left, and stays within the stack.
LEMMA BatchEndFacts ==
  ASSUME NEW s \in Seq(Commits), NEW from \in 0..Len(s), NEW len \in Nat \ {0}
  PROVE  /\ BatchEnd(s, from, len) \in from..Len(s)
         /\ from < Len(s) => from < BatchEnd(s, from, len)
BY DEF BatchEnd

LEMMA TypeInit == PubInit => TypeOK
<1> SUFFICES ASSUME PubInit PROVE TypeOK OBVIOUS
<1>1. MaxVersion \in Nat BY BatchAssumption
<1>2. NoRefs \in [Gids -> Refs] BY DEF NoRefs, Refs
<1>3. Unplanned \in [Gids -> 0..MaxVersion] BY <1>1 DEF Unplanned
<1>4. [g \in Gids |-> [v \in Versions |-> NoRef]] \in TagStores
  BY DEF TagStores, Refs
<1> QED BY <1>1, <1>2, <1>3, <1>4 DEF PubInit, TypeOK, PCs

\* Writing planned tags keeps a tag store one.
LEMMA TaggedType ==
  ASSUME TypeOK, NEW p \in Procs, NEW store \in TagStores, NEW G \in SUBSET Gids
  PROVE  Tagged(p, store, G) \in TagStores
<1>1. ASSUME NEW g \in Gids PROVE Tagged(p, store, G)[g] \in [Versions -> Refs]
  <2>1. store[g] \in [Versions -> Refs] BY DEF TagStores
  <2>2. target[p][g] \in Refs BY DEF TypeOK
  <2>3. [store[g] EXCEPT ![next[p][g]] = target[p][g]] \in [Versions -> Refs]
    BY <2>1, <2>2
  <2> QED BY <2>1, <2>3 DEF Tagged
<1> QED BY <1>1 DEF Tagged, TagStores

LEMMA TypeStep == TypeOK /\ [PubNext]_pubVars => TypeOK'
<1> SUFFICES ASSUME TypeOK, [PubNext]_pubVars PROVE TypeOK'
  OBVIOUS
<1> USE DEF TypeOK
<1>m. MaxVersion \in Nat /\ PushBatchLen \in Nat \ {0} /\ QueryBatchLen \in Nat \ {0}
  BY BatchAssumption
<1>r. NoRefs \in [Gids -> Refs] /\ Unplanned \in [Gids -> 0..MaxVersion]
  BY <1>m DEF NoRefs, Unplanned, Refs
<1>reset. ASSUME NEW p \in Procs, Reset(p), UNCHANGED <<branch, tag, localTag, ci>>
          PROVE  TypeOK'
  BY <1>reset, <1>r DEF Reset, PCs
<1>1. ASSUME NEW p \in Procs, NEW s \in Stacks, Start(p, s) PROVE TypeOK'
  <2>1. s \in Seq(Commits) /\ Len(s) \in Nat /\ s # << >> BY StacksAssumption
  <2>2. stack[p] = << >> /\ done[p] = 0 /\ at[p] = 0
    BY <1>1 DEF Start
  <2> QED BY <1>1, <2>1, <2>2 DEF Start, PCs
<1>2. ASSUME NEW p \in Procs, ObserveBatch(p) PROVE TypeOK'
  <2> DEFINE end == BatchEnd(stack[p], at[p], QueryBatchLen)
  <2>0. stack[p] \in Seq(Commits) /\ Len(stack[p]) \in Nat /\ at[p] \in 0..Len(stack[p])
    BY StackFacts
  <2>1. end \in 0..Len(stack[p]) /\ Len(stack[p]) \in Nat
    <3>1. end \in at[p]..Len(stack[p]) BY <1>m, <2>0, BatchEndFacts
    <3> HIDE DEF end
    <3> QED BY <2>0, <3>1
  <2> HIDE DEF end
  <2>2. lease' \in [Procs -> [Gids -> Refs]] BY <1>2 DEF ObserveBatch
  <2>4. \/ pc' = [pc EXCEPT ![p] = "plan"] /\ at' = [at EXCEPT ![p] = 0]
        \/ pc' = pc /\ at' = [at EXCEPT ![p] = end]
    BY <1>2 DEF ObserveBatch, end
  <2>5. pc[p] = "observe" BY <1>2 DEF ObserveBatch
  <2>3. /\ at' \in [Procs -> Nat] /\ pc' \in [Procs -> PCs]
        /\ at'[p] = 0 \/ at'[p] = end
        /\ \A q \in Procs \ {p} : at'[q] = at[q] /\ pc'[q] = pc[q]
        /\ pc[p] # "idle" /\ pc'[p] # "idle"
    <3>1. CASE pc' = [pc EXCEPT ![p] = "plan"] /\ at' = [at EXCEPT ![p] = 0]
      BY <3>1, <2>5 DEF PCs
    <3>2. CASE pc' = pc /\ at' = [at EXCEPT ![p] = end]
      BY <3>2, <2>1, <2>5
    <3> QED BY <2>4, <3>1, <3>2
  <2> QED BY <1>2, <2>1, <2>2, <2>3 DEF ObserveBatch
<1>3. ASSUME NEW p \in Procs, PlanTarget(p) PROVE TypeOK'
  <2>0. stack[p] \in Seq(Commits) /\ Len(stack[p]) \in Nat /\ done[p] \in 0..Len(stack[p])
    BY StackFacts
  <2>1. at[p] + 1 \in 1..Len(stack[p])
    <3>1. BatchEnd(stack[p], done[p], PushBatchLen) \in done[p]..Len(stack[p])
      BY <1>m, <2>0, BatchEndFacts
    <3>2. at[p] < BatchEnd(stack[p], done[p], PushBatchLen) BY <1>3 DEF PlanTarget
    <3> QED BY <2>0, <3>1, <3>2
  <2>2. stack[p][at[p] + 1] \in Commits /\ GidOf[stack[p][at[p] + 1]] \in Gids
    BY <2>1, StackFacts
  <2>3. \A m \in ReadVersion(CloneOf[p], GidOf[stack[p][at[p] + 1]]) : m \in 0..MaxVersion
    BY <1>m, <2>2, NewestIsNewest, ActorsAssumption DEF ReadVersion, LocalVersion, TagStores
  <2>4. next' \in [Procs -> [Gids -> 0..MaxVersion]]
    <3>1. PICK m \in ReadVersion(CloneOf[p], GidOf[stack[p][at[p] + 1]]) :
            /\ m < MaxVersion
            /\ next' = [next EXCEPT ![p][GidOf[stack[p][at[p] + 1]]] = m + 1]
      BY <1>3 DEF PlanTarget
    <3>2. m + 1 \in 0..MaxVersion BY <1>m, <2>3, <3>1
    <3> QED BY <3>1, <3>2
  <2>5. target' \in [Procs -> [Gids -> Refs]]
    BY <1>3, <2>2 DEF PlanTarget, Refs
  <2>6. at' \in [Procs -> Nat] /\ \A q \in Procs : at'[q] <= Len(stack[q])
    BY <1>3, <2>1 DEF PlanTarget
  <2> QED BY <1>3, <2>4, <2>5, <2>6 DEF PlanTarget
<1>4. ASSUME NEW p \in Procs, SendUpdates(p) PROVE TypeOK'
  BY <1>4 DEF SendUpdates, Planned, PCs, ChunkGids
<1>5. ASSUME NEW p \in Procs, ApplyPush(p) PROVE TypeOK'
  BY <1>5, TaggedType DEF ApplyPush, PCs
<1>6. ASSUME NEW p \in Procs, Reject(p) PROVE TypeOK'
  BY <1>6, <1>reset DEF Reject
<1>7. ASSUME NEW p \in Procs, Persist(p) PROVE TypeOK'
  <2>1. localTag' \in [Clones -> TagStores]
    <3>1. PICK kept \in SUBSET ChunkGids(p) :
            localTag' = [localTag EXCEPT ![CloneOf[p]] = Tagged(p, @, kept)]
      BY <1>7 DEF Persist
    <3>2. Tagged(p, localTag[CloneOf[p]], kept) \in TagStores
      BY TaggedType, ActorsAssumption DEF ChunkGids
    <3> QED BY <3>1, <3>2
  <2>2. pc' \in [Procs -> PCs] /\ \A q \in Procs : pc'[q] = "idle" <=> pc[q] = "idle"
    BY <1>7 DEF Persist, PCs
  <2>3. done' \in [Procs -> Nat] /\ \A q \in Procs : done'[q] <= Len(stack[q])
    BY <1>7 DEF Persist
  <2> QED BY <1>7, <1>r, <2>1, <2>2, <2>3 DEF Persist
<1>8. ASSUME NEW p \in Procs, Finish(p) PROVE TypeOK'
  BY <1>8, <1>reset DEF Finish
<1>9. ASSUME NEW p \in Procs, Crash(p) PROVE TypeOK'
  BY <1>9, <1>reset DEF Crash
<1>10. ASSUME NEW cl \in Clones, Fetch(cl) PROVE TypeOK'
  BY <1>10 DEF Fetch, runVars, TagStores
<1>11. ASSUME NEW g \in Gids, CascadeCheckout(g) PROVE TypeOK'
  <2>1. ci' \in [Gids -> Refs]
    BY <1>11 DEF CascadeCheckout
  <2>2. UNCHANGED <<branch, tag, localTag, pc, stack, done, at, lease, next, target,
                    moving, tagging>>
    BY <1>11 DEF CascadeCheckout, runVars
  <2> QED BY <2>1, <2>2
<1>12. ASSUME NEW g \in Gids, CascadePush(g) PROVE TypeOK'
  <2>1. branch' \in [Gids -> Refs]
    <3>1. CASE UNCHANGED branch BY <3>1
    <3>2. ASSUME NEW c \in Rebased, branch' = [branch EXCEPT ![g] = c]
          PROVE  branch' \in [Gids -> Refs]
      BY <3>2, ActorsAssumption DEF Refs
    <3> QED BY <1>12, <3>1, <3>2 DEF CascadePush
  <2>2. ci' \in [Gids -> Refs]
    BY <1>12 DEF CascadePush, Refs
  <2>3. UNCHANGED <<tag, localTag, pc, stack, done, at, lease, next, target, moving,
                    tagging>>
    BY <1>12 DEF CascadePush, runVars
  <2> QED BY <2>1, <2>2, <2>3
<1>13. CASE UNCHANGED pubVars
  BY <1>13 DEF pubVars
<1> QED BY <1>1, <1>2, <1>3, <1>4, <1>5, <1>6, <1>7, <1>8, <1>9, <1>10, <1>11,
           <1>12, <1>13 DEF PubNext, UsersNext, RunStep

\* Every reachable state is well typed: in particular no run looks for a commit
\* beyond the end of its stack and no version exceeds the bound.
THEOREM TypeCorrect == PubSpec => []TypeOK
BY TypeInit, TypeStep, PTL DEF PubSpec

-----------------------------------------------------------------------------
(* Tags never move *)

\* A step keeps every version tag of the remote.
TagsKept == \A g \in Gids, v \in Versions : tag[g][v] # NoRef => tag'[g][v] = tag[g][v]

\* The remote's tags change only where the server applies a push, and there
\* every tag that is written did not exist.
LEMMA TagsKeptStep == TypeOK /\ [PubNext]_pubVars => TagsKept
<1> SUFFICES ASSUME TypeOK, [PubNext]_pubVars, NEW g \in Gids, NEW v \in Versions,
                    tag[g][v] # NoRef
             PROVE  tag'[g][v] = tag[g][v]
  BY DEF TagsKept
<1>1. CASE UNCHANGED tag
  BY <1>1
<1>2. ASSUME NEW p \in Procs, ApplyPush(p) PROVE tag'[g][v] = tag[g][v]
  <2>1. tag' = Tagged(p, tag, tagging[p]) /\ UpdatesApply(p)
    BY <1>2 DEF ApplyPush
  <2>2. CASE g \notin tagging[p]
    BY <2>1, <2>2 DEF Tagged
  <2>3. CASE g \in tagging[p]
    <3>1. tag[g][next[p][g]] = NoRef
      BY <2>1, <2>3 DEF UpdatesApply, TagLease
    <3>2. tag'[g] = [tag[g] EXCEPT ![next[p][g]] = target[p][g]]
      BY <2>1, <2>3 DEF Tagged
    <3>3. v # next[p][g] /\ tag[g] \in [Versions -> Refs]
      BY <3>1 DEF TypeOK, TagStores
    <3> QED BY <3>2, <3>3
  <2> QED BY <2>2, <2>3
<1>3. UNCHANGED tag \/ \E p \in Procs : ApplyPush(p)
  BY DEF PubNext, UsersNext, RunStep, Start, ObserveBatch, PlanTarget, SendUpdates, Reject,
         Persist, Finish, Crash, Fetch, CascadeCheckout, CascadePush, pubVars
<1> QED BY <1>1, <1>2, <1>3

\* A version tag, once published, is never moved or deleted, by any
\* interleaving of runs, clones, crashes and cascades.
THEOREM TagsNeverMoveHolds == PubSpec => TagsNeverMove
<1>1. TypeOK /\ [PubNext]_pubVars =>
        [\A g \in Gids, v \in Versions : tag[g][v] # NoRef => tag'[g][v] = tag[g][v]]_pubVars
  BY TagsKeptStep DEF TagsKept
<1> QED BY <1>1, TypeCorrect, PTL DEF PubSpec, TagsNeverMove

-----------------------------------------------------------------------------
(* The inductive invariant *)

LEMMA IInvInit == PubInit => IInv
<1> SUFFICES ASSUME PubInit PROVE IInv OBVIOUS
<1>1. TypeOK BY TypeInit
<1>2. VersionsContiguous
  <2>1. \A g \in Gids : IsHistoryLength(g, 0)
    BY BatchAssumption DEF PubInit, IsHistoryLength, Versions
  <2> QED BY <2>1, BatchAssumption DEF VersionsContiguous
<1>3. LocalTagsPublished BY DEF PubInit, LocalTagsPublished
<1>4. BranchIsPublishedVersion BY DEF PubInit, BranchIsPublishedVersion, NoRefs
<1>5. ASSUME NEW p \in Procs PROVE RunInv(p)
  <2>1. ChunkGids(p) = {} BY DEF PubInit, ChunkGids, NoRefs
  <2>2. pc[p] = "idle" /\ done[p] = 0 /\ moving[p] = {} /\ tagging[p] = {}
    BY DEF PubInit
  <2> QED BY <2>1, <2>2 DEF RunInv, ChunkInv, PlanInv, SendInv, RunPublished
<1> QED BY <1>1, <1>2, <1>3, <1>4, <1>5 DEF IInv

\* The state of a run is as before.
RunKept(p) ==
  /\ pc'[p] = pc[p] /\ stack'[p] = stack[p] /\ done'[p] = done[p] /\ at'[p] = at[p]
  /\ next'[p] = next[p] /\ target'[p] = target[p]
  /\ moving'[p] = moving[p] /\ tagging'[p] = tagging[p]

\* A step deletes no version tag of a clone.
LocalTagsKept ==
  \A cl \in Clones, g \in Gids, v \in Versions :
    localTag[cl][g][v] # NoRef => localTag'[cl][g][v] # NoRef

LEMMA LocalTagsKeptStep == TypeOK /\ [PubNext]_pubVars => LocalTagsKept
<1> SUFFICES ASSUME TypeOK, [PubNext]_pubVars,
                    NEW cl \in Clones, NEW g \in Gids, NEW v \in Versions,
                    localTag[cl][g][v] # NoRef
             PROVE  localTag'[cl][g][v] # NoRef
  BY DEF LocalTagsKept
<1>1. CASE UNCHANGED localTag
  BY <1>1
<1>2. ASSUME NEW p \in Procs, Persist(p) PROVE localTag'[cl][g][v] # NoRef
  <2>1. PICK kept \in SUBSET ChunkGids(p) :
          localTag' = [localTag EXCEPT ![CloneOf[p]] = Tagged(p, @, kept)]
    BY <1>2 DEF Persist
  <2>2. CASE cl = CloneOf[p] /\ g \in kept
    <3>1. localTag'[cl][g] = [localTag[cl][g] EXCEPT ![next[p][g]] = target[p][g]]
      BY <2>1, <2>2 DEF Tagged, TypeOK
    <3>2. localTag[cl][g] \in [Versions -> Refs] BY DEF TypeOK, TagStores
    <3>3. target[p][g] # NoRef BY <2>2 DEF ChunkGids
    <3> QED BY <3>1, <3>2, <3>3
  <2>3. CASE ~ (cl = CloneOf[p] /\ g \in kept)
    BY <2>1, <2>3, ActorsAssumption DEF Tagged, TypeOK
  <2> QED BY <2>2, <2>3
<1>3. ASSUME NEW other \in Clones, Fetch(other) PROVE localTag'[cl][g][v] # NoRef
  BY <1>3 DEF Fetch, Missing, TypeOK
<1>4. \/ UNCHANGED localTag
      \/ \E p \in Procs : Persist(p)
      \/ \E other \in Clones : Fetch(other)
  BY DEF PubNext, UsersNext, RunStep, Start, ObserveBatch, PlanTarget, SendUpdates, Reject,
         ApplyPush, Finish, Crash, CascadeCheckout, CascadePush, pubVars
<1> QED BY <1>1, <1>2, <1>3, <1>4

\* What is true about a run stays true while others take steps.
LEMMA RunInvStable ==
  ASSUME TypeOK, TagsKept, LocalTagsKept, NEW p \in Procs, RunInv(p), RunKept(p)
  PROVE  RunInv(p)'
<1> USE DEF RunKept
<1>1. ChunkGids(p)' = ChunkGids(p) BY DEF ChunkGids
<1>2. ChunkInv(p)' BY <1>1 DEF RunInv, ChunkInv
<1>3. PlanInv(p)'
  <2> SUFFICES ASSUME NEW g \in ChunkGids(p)
               PROVE  \/ next[p][g] = 1
                      \/ localTag'[CloneOf[p]][g][next[p][g] - 1] # NoRef
    BY <1>1 DEF RunInv, PlanInv
  <2>1. /\ next[p][g] \in Versions
        /\ next[p][g] = 1 \/ localTag[CloneOf[p]][g][next[p][g] - 1] # NoRef
    BY DEF RunInv, PlanInv
  <2>2. next[p][g] = 1 \/ next[p][g] - 1 \in Versions
    BY <2>1, BatchAssumption DEF Versions
  <2> QED BY <2>1, <2>2, ActorsAssumption DEF LocalTagsKept, ChunkGids
<1>4. SendInv(p)'
  <2>1. ASSUME NEW g \in ChunkGids(p), tag[g][next[p][g]] = target[p][g]
        PROVE  tag'[g][next[p][g]] = target[p][g]
    <3>1. g \in Gids /\ target[p][g] # NoRef BY DEF ChunkGids
    <3>2. next[p][g] \in Versions BY DEF RunInv, PlanInv
    <3> QED BY <2>1, <3>1, <3>2 DEF TagsKept
  <2> QED BY <1>1, <2>1 DEF RunInv, SendInv
<1>5. RunPublished(p)'
  <2> SUFFICES ASSUME NEW i \in 1..done[p]
               PROVE  LET g == GidOf[stack[p][i]]
                      IN next[p][g] \in Versions /\ tag'[g][next[p][g]] = stack[p][i]
    BY DEF RunPublished
  <2> DEFINE g == GidOf[stack[p][i]]
  <2>1. next[p][g] \in Versions /\ tag[g][next[p][g]] = stack[p][i]
    BY DEF RunInv, RunPublished
  <2>2. i \in 1..Len(stack[p]) BY StackFacts DEF TypeOK
  <2>3. stack[p][i] \in Commits /\ g \in Gids BY <2>2, StackFacts
  <2> HIDE DEF g
  <2>4. stack[p][i] # NoRef BY <2>3, ActorsAssumption
  <2>5. tag'[g][next[p][g]] = stack[p][i] BY <2>1, <2>3, <2>4 DEF TagsKept
  <2> QED BY <2>1, <2>5 DEF g
<1> QED BY <1>2, <1>3, <1>4, <1>5 DEF RunInv

\* A run that ends leaves nothing to be true about.
LEMMA RunInvReset ==
  ASSUME TypeOK, NEW p \in Procs, Reset(p) PROVE RunInv(p)'
<1>1. /\ pc'[p] = "idle" /\ done'[p] = 0 /\ target'[p] = NoRefs
      /\ moving'[p] = {} /\ tagging'[p] = {}
  BY DEF Reset, TypeOK
<1>2. ChunkGids(p)' = {} BY <1>1 DEF ChunkGids, NoRefs
<1> QED BY <1>1, <1>2 DEF RunInv, ChunkInv, PlanInv, SendInv, RunPublished

LEMMA RunInvStart ==
  ASSUME TypeOK, NEW p \in Procs, NEW s \in Stacks, RunInv(p), Start(p, s)
  PROVE  RunInv(p)'
<1>1. /\ pc[p] = "idle" /\ pc'[p] = "observe" /\ done'[p] = done[p]
      /\ target' = target /\ moving' = moving /\ tagging' = tagging
  BY DEF Start, TypeOK
<1>2. done[p] = 0
  <2>1. stack[p] = << >> /\ done[p] \in Nat /\ done[p] <= Len(stack[p])
    BY <1>1 DEF TypeOK
  <2> QED BY <2>1
<1>3. ChunkGids(p) = {} BY <1>1 DEF RunInv, ChunkInv
<1>4. ChunkGids(p)' = {} BY <1>1, <1>3 DEF ChunkGids
<1> QED BY <1>1, <1>2, <1>3, <1>4
        DEF RunInv, ChunkInv, PlanInv, SendInv, RunPublished

LEMMA RunInvObserve ==
  ASSUME TypeOK, NEW p \in Procs, RunInv(p), ObserveBatch(p)
  PROVE  RunInv(p)'
<1>1. /\ pc[p] = "observe" /\ done'[p] = 0 /\ target' = target
      /\ moving' = moving /\ tagging' = tagging
      /\ pc'[p] = "observe" \/ (pc'[p] = "plan" /\ at'[p] = 0)
  BY DEF ObserveBatch, TypeOK, RunInv, ChunkInv
<1>2. ChunkGids(p) = {} BY <1>1 DEF RunInv, ChunkInv
<1>3. ChunkGids(p)' = {} BY <1>1, <1>2 DEF ChunkGids
<1> QED BY <1>1, <1>2, <1>3 DEF RunInv, ChunkInv, PlanInv, SendInv, RunPublished

\* What one turn of the planning loop does: the next commit c of the stack, whose
\* identifier g is none of those before it, gets the version m + 1, where the clone
\* has m or has nothing.
PlansAs(p, c, g, m) ==
  /\ at[p] + 1 \in 1..Len(stack[p])
  /\ c = stack[p][at[p] + 1] /\ g = GidOf[c] /\ c # NoRef
  /\ \A i \in 1..at[p] : GidOf[stack[p][i]] # g
  /\ m \in ReadVersion(CloneOf[p], g) /\ m + 1 \in Versions
  /\ m = 0 \/ localTag[CloneOf[p]][g][m] # NoRef
  /\ at'[p] = at[p] + 1 /\ pc[p] = "plan" /\ pc'[p] = "plan"
  /\ done'[p] = done[p] /\ done[p] \in 0..at[p] /\ at[p] \in Nat
  /\ target'[p][g] = c /\ next'[p][g] = m + 1
  /\ \A h \in Gids \ {g} : target'[p][h] = target[p][h] /\ next'[p][h] = next[p][h]
  /\ ChunkGids(p)' = ChunkGids(p) \cup {g} /\ g \notin ChunkGids(p)
  /\ UNCHANGED <<branch, tag, localTag, stack, moving, tagging>>

LEMMA PlanFacts ==
  ASSUME TypeOK, NEW p \in Procs, RunInv(p), PlanTarget(p)
  PROVE  \E c \in Commits, g \in Gids, m \in Nat : PlansAs(p, c, g, m)
<1> DEFINE c == stack[p][at[p] + 1]
           g == GidOf[c]
<1>1. /\ pc[p] = "plan" /\ pc' = pc /\ done' = done
      /\ UNCHANGED <<branch, tag, localTag, stack, moving, tagging>>
      /\ at' = [at EXCEPT ![p] = @ + 1]
      /\ target' = [target EXCEPT ![p][g] = c]
  BY DEF PlanTarget
<1>2. PICK m \in ReadVersion(CloneOf[p], g) :
        m < MaxVersion /\ next' = [next EXCEPT ![p][g] = m + 1]
  BY DEF PlanTarget
<1>3. /\ stack[p] \in Seq(Commits) /\ Len(stack[p]) \in Nat
      /\ done[p] \in 0..Len(stack[p]) /\ at[p] \in Nat /\ done[p] <= at[p]
  BY <1>1, StackFacts DEF TypeOK, RunInv, ChunkInv
<1>4. at[p] + 1 \in 1..Len(stack[p])
  <2>1. BatchEnd(stack[p], done[p], PushBatchLen) \in done[p]..Len(stack[p])
    BY <1>3, BatchEndFacts, BatchAssumption
  <2>2. at[p] < BatchEnd(stack[p], done[p], PushBatchLen) BY DEF PlanTarget
  <2> QED BY <1>3, <2>1, <2>2
<1>5. c \in Commits /\ g \in Gids /\ c # NoRef
  BY <1>4, StackFacts, ActorsAssumption
<1>6. \A i \in 1..at[p] : GidOf[stack[p][i]] # g
  <2>1. stack[p] \in Stacks BY <1>1 DEF TypeOK
  <2>2. \A i, j \in 1..Len(stack[p]) : GidOf[stack[p][i]] = GidOf[stack[p][j]] => i = j
    BY <2>1, StacksAssumption
  <2> QED BY <1>3, <1>4, <2>2
<1>7. m \in Nat /\ m + 1 \in Versions /\ (m = 0 \/ localTag[CloneOf[p]][g][m] # NoRef)
  <2>1. CloneOf[p] \in Clones BY ActorsAssumption
  <2>2. m = 0 \/ (m \in Versions /\ localTag[CloneOf[p]][g][m] # NoRef)
    BY <1>2, <1>5, <2>1, NewestIsNewest, BatchAssumption
       DEF ReadVersion, LocalVersion, IsNewest, TypeOK, TagStores, Versions
  <2> QED BY <1>2, <2>2, BatchAssumption DEF Versions
<1>8. g \notin ChunkGids(p)
  <2>1. ASSUME g \in ChunkGids(p) PROVE FALSE
    <3>1. PICK i \in (done[p] + 1)..at[p] : GidOf[stack[p][i]] = g
      BY <2>1 DEF RunInv, ChunkInv
    <3>2. i \in 1..at[p] BY <1>3, <3>1
    <3> QED BY <1>6, <3>1, <3>2
  <2> QED BY <2>1
<1> HIDE DEF c, g
<1>9. /\ at'[p] = at[p] + 1 /\ pc'[p] = "plan" /\ done'[p] = done[p]
      /\ target'[p] = [target[p] EXCEPT ![g] = c]
      /\ next'[p] = [next[p] EXCEPT ![g] = m + 1]
      /\ target'[p][g] = c /\ next'[p][g] = m + 1
      /\ \A h \in Gids \ {g} : target'[p][h] = target[p][h] /\ next'[p][h] = next[p][h]
  BY <1>1, <1>2, <1>5 DEF TypeOK
<1>10. ChunkGids(p)' = ChunkGids(p) \cup {g}
  BY <1>5, <1>9 DEF ChunkGids
<1>11. c = stack[p][at[p] + 1] /\ g = GidOf[c] BY DEF c, g
<1>12. done[p] \in 0..at[p] /\ at[p] \in Nat BY <1>3
<1>13. /\ at'[p] = at[p] + 1 /\ pc[p] = "plan" /\ pc'[p] = "plan" /\ done'[p] = done[p]
       /\ target'[p][g] = c /\ next'[p][g] = m + 1
       /\ \A h \in Gids \ {g} : target'[p][h] = target[p][h] /\ next'[p][h] = next[p][h]
  BY <1>1, <1>9
<1>14. m \in ReadVersion(CloneOf[p], g) BY <1>2
<1>15. UNCHANGED <<branch, tag, localTag, stack, moving, tagging>> BY <1>1
<1>16. PlansAs(p, c, g, m)
  BY <1>4, <1>5, <1>6, <1>7, <1>8, <1>10, <1>11, <1>12, <1>13, <1>14, <1>15, Zenon DEF PlansAs
<1> QED BY <1>5, <1>7, <1>16

\* The version that is planned is one more than the newest version that the
\* clone has, or 1.
LEMMA RunInvPlan ==
  ASSUME TypeOK, NEW p \in Procs, RunInv(p), PlanTarget(p)
  PROVE  RunInv(p)'
<1>1. PICK c \in Commits, g \in Gids, m \in Nat : PlansAs(p, c, g, m) BY PlanFacts
<1> USE <1>1 DEF PlansAs
<1>2. stack[p] \in Seq(Commits) /\ Len(stack[p]) \in Nat /\ at[p] <= Len(stack[p])
  BY StackFacts DEF TypeOK
<1>3. ChunkInv(p)'
  <2>1. ASSUME NEW i \in (done[p] + 1)..(at[p] + 1)
        PROVE  target'[p][GidOf[stack[p][i]]] = stack[p][i]
    <3>1. CASE i = at[p] + 1 BY <3>1
    <3>2. CASE i # at[p] + 1
      <4>1. i \in (done[p] + 1)..at[p] /\ i \in 1..at[p] /\ i \in 1..Len(stack[p])
        BY <3>2, <1>2
      <4>2. GidOf[stack[p][i]] # g /\ GidOf[stack[p][i]] \in Gids
        BY <4>1, StackFacts
      <4>3. target[p][GidOf[stack[p][i]]] = stack[p][i]
        BY <4>1 DEF RunInv, ChunkInv
      <4> QED BY <4>2, <4>3
    <3> QED BY <3>1, <3>2
  <2>2. ASSUME NEW h \in ChunkGids(p)'
        PROVE  \E i \in (done[p] + 1)..(at[p] + 1) : GidOf[stack[p][i]] = h
    <3>1. CASE h = g
      <4>1. at[p] + 1 \in (done[p] + 1)..(at[p] + 1) BY <1>2
      <4> QED BY <3>1, <4>1
    <3>2. CASE h \in ChunkGids(p)
      <4>1. PICK i \in (done[p] + 1)..at[p] : GidOf[stack[p][i]] = h
        BY <3>2 DEF RunInv, ChunkInv
      <4>2. i \in (done[p] + 1)..(at[p] + 1) BY <1>2
      <4> QED BY <4>1, <4>2
    <3> QED BY <3>1, <3>2
  <2> QED BY <1>2, <2>1, <2>2 DEF ChunkInv
<1>4. PlanInv(p)'
  <2> SUFFICES ASSUME NEW h \in ChunkGids(p)'
               PROVE  /\ next'[p][h] \in Versions
                      /\ \/ next'[p][h] = 1
                         \/ localTag'[CloneOf[p]][h][next'[p][h] - 1] # NoRef
    BY DEF PlanInv
  <2>1. CASE h = g
    <3>1. (m + 1) - 1 = m OBVIOUS
    <3> QED BY <2>1, <3>1
  <2>2. CASE h # g
    BY <2>2 DEF RunInv, PlanInv, ChunkGids
  <2> QED BY <2>1, <2>2
<1>5. SendInv(p)'
  BY DEF RunInv, SendInv
<1>6. RunPublished(p)'
  <2>1. \A i \in 1..done[p] : GidOf[stack[p][i]] \in Gids \ {g}
    <3>1. \A i \in 1..done[p] : i \in 1..at[p] /\ i \in 1..Len(stack[p]) BY <1>2
    <3> QED BY <3>1, StackFacts
  <2>2. done'[p] = done[p] /\ stack' = stack /\ tag' = tag
        /\ \A h \in Gids \ {g} : next'[p][h] = next[p][h]
    OBVIOUS
  <2>3. RunPublished(p) BY DEF RunInv
  <2> HIDE <1>1 DEF PlansAs
  <2> QED BY <2>1, <2>2, <2>3 DEF RunPublished
<1> QED BY <1>3, <1>4, <1>5, <1>6 DEF RunInv

LEMMA RunInvSend ==
  ASSUME TypeOK, NEW p \in Procs, RunInv(p), SendUpdates(p)
  PROVE  RunInv(p)'
<1>1. /\ pc[p] = "plan" /\ pc'[p] = "send" /\ stack' = stack /\ done' = done
      /\ at' = at /\ next' = next /\ target' = target /\ tag' = tag
      /\ localTag' = localTag
      /\ moving'[p] = {g \in ChunkGids(p) : BranchMoves(p, g)}
      /\ tagging'[p] = {g \in ChunkGids(p) : TagMoves(p, g)}
  BY DEF SendUpdates, Planned, TypeOK
<1>2. ChunkGids(p)' = ChunkGids(p) BY <1>1 DEF ChunkGids
<1>3. ChunkInv(p)' BY <1>1, <1>2 DEF RunInv, ChunkInv
<1>4. PlanInv(p)' BY <1>1, <1>2 DEF RunInv, PlanInv
<1>5. SendInv(p)' BY <1>1, <1>2 DEF SendInv, TagMoves
<1>6. RunPublished(p)' BY <1>1 DEF RunInv, RunPublished
<1> QED BY <1>3, <1>4, <1>5, <1>6 DEF RunInv

\* When the server has applied the push, the tag of every commit of the chunk
\* is the planned one: it was sent, or it was already there.
LEMMA RunInvApply ==
  ASSUME TypeOK, TagsKept, NEW p \in Procs, RunInv(p), ApplyPush(p)
  PROVE  RunInv(p)'
<1>1. /\ pc[p] = "send" /\ pc'[p] = "persist" /\ stack' = stack /\ done' = done
      /\ at' = at /\ next' = next /\ target' = target
      /\ moving' = moving /\ tagging' = tagging /\ localTag' = localTag
      /\ tag' = Tagged(p, tag, tagging[p])
  BY DEF ApplyPush, TypeOK
<1>2. ChunkGids(p)' = ChunkGids(p) BY <1>1 DEF ChunkGids
<1>3. \A g \in ChunkGids(p) : g \in Gids /\ next[p][g] \in Versions /\ target[p][g] # NoRef
  BY DEF RunInv, PlanInv, ChunkGids
<1>4. ASSUME NEW g \in ChunkGids(p) PROVE tag'[g][next[p][g]] = target[p][g]
  <2>1. CASE g \in tagging[p]
    <3>1. tag'[g] = [tag[g] EXCEPT ![next[p][g]] = target[p][g]]
      BY <1>1, <1>3, <2>1 DEF Tagged
    <3>2. tag[g] \in [Versions -> Refs] BY <1>3 DEF TypeOK, TagStores
    <3> QED BY <1>3, <3>1, <3>2
  <2>2. CASE g \notin tagging[p]
    <3>1. tag[g][next[p][g]] = target[p][g] BY <1>1, <2>2 DEF RunInv, SendInv
    <3> QED BY <1>3, <3>1 DEF TagsKept
  <2> QED BY <2>1, <2>2
<1>5. ChunkInv(p)' BY <1>1, <1>2 DEF RunInv, ChunkInv
<1>6. PlanInv(p)' BY <1>1, <1>2 DEF RunInv, PlanInv
<1>7. SendInv(p)' BY <1>1, <1>2, <1>4 DEF RunInv, SendInv
<1>8. RunPublished(p)'
  <2>1. RunPublished(p) BY DEF RunInv
  <2>2. ASSUME NEW i \in 1..done[p]
        PROVE  LET g == GidOf[stack[p][i]]
               IN next[p][g] \in Versions /\ tag'[g][next[p][g]] = stack[p][i]
    <3>1. i \in 1..Len(stack[p]) BY StackFacts DEF TypeOK
    <3>2. GidOf[stack[p][i]] \in Gids /\ stack[p][i] # NoRef
      BY <3>1, StackFacts, ActorsAssumption
    <3> QED BY <2>1, <3>2 DEF RunPublished, TagsKept
  <2> QED BY <1>1, <2>2 DEF RunPublished
<1> QED BY <1>5, <1>6, <1>7, <1>8 DEF RunInv

LEMMA RunInvPersist ==
  ASSUME TypeOK, NEW p \in Procs, RunInv(p), Persist(p)
  PROVE  RunInv(p)'
<1>1. /\ pc[p] = "persist" /\ pc'[p] \in {"plan", "published"} /\ stack' = stack
      /\ at' = at /\ next' = next /\ tag' = tag /\ done'[p] = at[p]
      /\ target'[p] = NoRefs /\ moving'[p] = {} /\ tagging'[p] = {}
  BY DEF Persist, TypeOK
<1>2. ChunkGids(p)' = {} BY <1>1 DEF ChunkGids, NoRefs
<1>3. at[p] \in Nat /\ done[p] \in Nat /\ at[p] <= Len(stack[p]) /\ Len(stack[p]) \in Nat
  BY StackFacts DEF TypeOK
<1>4. ChunkInv(p)' BY <1>1, <1>2, <1>3 DEF ChunkInv
<1>5. PlanInv(p)' /\ SendInv(p)' BY <1>1, <1>2 DEF PlanInv, SendInv
<1>6. RunPublished(p)'
  <2> SUFFICES ASSUME NEW i \in 1..at[p]
               PROVE  LET g == GidOf[stack[p][i]]
                      IN next[p][g] \in Versions /\ tag[g][next[p][g]] = stack[p][i]
    BY <1>1 DEF RunPublished
  <2> DEFINE g == GidOf[stack[p][i]]
  <2>1. CASE i <= done[p]
    BY <2>1, <1>3 DEF RunInv, RunPublished
  <2>2. CASE i > done[p]
    <3>1. i \in (done[p] + 1)..at[p] /\ i \in 1..Len(stack[p]) BY <2>2, <1>3
    <3>2. target[p][g] = stack[p][i] BY <3>1, <1>1 DEF RunInv, ChunkInv
    <3>3. stack[p][i] # NoRef /\ g \in Gids BY <3>1, StackFacts, ActorsAssumption
    <3>4. g \in ChunkGids(p) BY <3>2, <3>3 DEF ChunkGids
    <3>5. tag[g][next[p][g]] = target[p][g] BY <3>4, <1>1 DEF RunInv, SendInv
    <3> QED BY <3>2, <3>4, <3>5 DEF RunInv, PlanInv
  <2> QED BY <2>1, <2>2, <1>3
<1> QED BY <1>4, <1>5, <1>6 DEF RunInv

\* A push extends every history it writes to by exactly one version.
LEMMA HistoryExtended ==
  ASSUME TypeOK, LocalTagsPublished, NEW p \in Procs, RunInv(p), ApplyPush(p),
         NEW g \in Gids, NEW n \in 0..MaxVersion, IsHistoryLength(g, n)
  PROVE  IF g \in tagging[p]
           THEN /\ next[p][g] = n + 1 /\ n + 1 \in Versions
                /\ IsHistoryLength(g, n + 1)'
                /\ tag'[g] = [tag[g] EXCEPT ![n + 1] = target[p][g]]
           ELSE tag'[g] = tag[g] /\ IsHistoryLength(g, n)'
<1>1. tag' = Tagged(p, tag, tagging[p]) /\ UpdatesApply(p)
  BY DEF ApplyPush
<1>2. MaxVersion \in Nat BY BatchAssumption
<1>3. CASE g \notin tagging[p]
  BY <1>1, <1>3 DEF Tagged, IsHistoryLength
<1>4. CASE g \in tagging[p]
  <2>1. g \in ChunkGids(p) BY <1>4 DEF RunInv, SendInv
  <2>2. /\ next[p][g] \in Versions /\ target[p][g] # NoRef
        /\ next[p][g] = 1 \/ tag[g][next[p][g] - 1] # NoRef
    <3>1. /\ next[p][g] \in Versions /\ target[p][g] # NoRef
          /\ next[p][g] = 1 \/ localTag[CloneOf[p]][g][next[p][g] - 1] # NoRef
      BY <2>1 DEF RunInv, PlanInv, ChunkGids
    <3>2. next[p][g] = 1 \/ next[p][g] - 1 \in Versions BY <1>2, <3>1 DEF Versions
    <3> QED BY <3>1, <3>2, ActorsAssumption DEF LocalTagsPublished
  <2>3. tag[g][next[p][g]] = NoRef BY <1>1, <1>4 DEF UpdatesApply, TagLease
  <2>4. next[p][g] > n BY <1>2, <2>2, <2>3 DEF IsHistoryLength, Versions
  <2>5. next[p][g] <= n + 1 BY <1>2, <2>2 DEF IsHistoryLength, Versions
  <2>6. next[p][g] = n + 1 BY <1>2, <2>2, <2>4, <2>5 DEF Versions
  <2>7. tag'[g] = [tag[g] EXCEPT ![n + 1] = target[p][g]]
    BY <1>1, <1>4, <2>6 DEF Tagged
  <2>8. tag[g] \in [Versions -> Refs] BY DEF TypeOK, TagStores
  <2>9. IsHistoryLength(g, n + 1)'
    <3> SUFFICES ASSUME NEW v \in Versions PROVE tag'[g][v] # NoRef <=> v <= n + 1
      BY DEF IsHistoryLength
    <3>1. CASE v = n + 1
      <4>1. tag'[g][v] = target[p][g] BY <2>7, <2>8, <3>1
      <4> QED BY <4>1, <2>2, <3>1, <1>2
    <3>2. CASE v # n + 1
      <4>1. tag'[g][v] = tag[g][v] BY <2>7, <2>8, <3>2
      <4>2. v <= n <=> v <= n + 1 BY <3>2, <1>2 DEF Versions
      <4> QED BY <4>1, <4>2 DEF IsHistoryLength
    <3> QED BY <3>1, <3>2
  <2> QED BY <1>4, <2>2, <2>6, <2>7, <2>9
<1> QED BY <1>3, <1>4

LEMMA ContiguousApply ==
  ASSUME TypeOK, VersionsContiguous, LocalTagsPublished, NEW p \in Procs,
         RunInv(p), ApplyPush(p)
  PROVE  VersionsContiguous'
<1> SUFFICES ASSUME NEW g \in Gids
             PROVE  \E n \in 0..MaxVersion : IsHistoryLength(g, n)'
  BY DEF VersionsContiguous
<1>1. PICK n \in 0..MaxVersion : IsHistoryLength(g, n) BY DEF VersionsContiguous
<1>2. CASE g \in tagging[p]
  <2>1. n + 1 \in Versions /\ IsHistoryLength(g, n + 1)' BY <1>1, <1>2, HistoryExtended
  <2>2. n + 1 \in 0..MaxVersion BY <2>1, BatchAssumption DEF Versions
  <2> QED BY <2>1, <2>2
<1>3. CASE g \notin tagging[p]
  BY <1>1, <1>3, HistoryExtended
<1> QED BY <1>2, <1>3

LEMMA LocalTagsPersist ==
  ASSUME TypeOK, LocalTagsPublished, NEW p \in Procs, RunInv(p), Persist(p)
  PROVE  LocalTagsPublished'
<1> SUFFICES ASSUME NEW cl \in Clones, NEW g \in Gids, NEW v \in Versions,
                    localTag'[cl][g][v] # NoRef
             PROVE  localTag'[cl][g][v] = tag'[g][v]
  BY DEF LocalTagsPublished
<1>1. tag' = tag /\ pc[p] = "persist" BY DEF Persist
<1>2. PICK kept \in SUBSET ChunkGids(p) :
        localTag' = [localTag EXCEPT ![CloneOf[p]] = Tagged(p, @, kept)]
  BY DEF Persist
<1>3. CASE cl = CloneOf[p] /\ g \in kept
  <2>1. localTag'[cl][g] = [localTag[cl][g] EXCEPT ![next[p][g]] = target[p][g]]
    BY <1>2, <1>3 DEF Tagged, TypeOK
  <2>2. localTag[cl][g] \in [Versions -> Refs] BY DEF TypeOK, TagStores
  <2>3. tag[g][next[p][g]] = target[p][g] BY <1>1, <1>3 DEF RunInv, SendInv
  <2>4. CASE v = next[p][g]
    BY <1>1, <2>1, <2>2, <2>3, <2>4
  <2>5. CASE v # next[p][g]
    BY <1>1, <2>1, <2>2, <2>5 DEF LocalTagsPublished
  <2> QED BY <2>4, <2>5
<1>4. CASE ~ (cl = CloneOf[p] /\ g \in kept)
  <2>1. localTag'[cl][g] = localTag[cl][g]
    BY <1>2, <1>4, ActorsAssumption DEF Tagged, TypeOK
  <2> QED BY <1>1, <2>1 DEF LocalTagsPublished
<1> QED BY <1>3, <1>4

LEMMA LocalTagsFetch ==
  ASSUME TypeOK, LocalTagsPublished, NEW cl \in Clones, Fetch(cl)
  PROVE  LocalTagsPublished'
<1> SUFFICES ASSUME NEW other \in Clones, NEW g \in Gids, NEW v \in Versions
             PROVE  localTag'[other][g][v] # NoRef => localTag'[other][g][v] = tag[g][v]
  BY DEF LocalTagsPublished, Fetch
<1>1. \/ localTag'[other][g][v] = localTag[other][g][v]
      \/ localTag'[other][g][v] = tag[g][v]
  BY DEF Fetch, TypeOK
<1> QED BY <1>1 DEF LocalTagsPublished

LEMMA BranchApply ==
  ASSUME TypeOK, BranchIsPublishedVersion, TagsKept, NEW p \in Procs,
         RunInv(p), RunInv(p)', ApplyPush(p)
  PROVE  BranchIsPublishedVersion'
<1> SUFFICES ASSUME NEW g \in Gids, branch'[g] \notin Rebased \cup {NoRef}
             PROVE  \E v \in Versions : tag'[g][v] = branch'[g]
  BY DEF BranchIsPublishedVersion
<1>1. CASE g \in moving[p]
  <2>1. branch'[g] = target[p][g] BY <1>1 DEF ApplyPush
  <2>2. g \in ChunkGids(p) /\ g \in ChunkGids(p)'
    BY <1>1 DEF RunInv, SendInv, ChunkGids, ApplyPush
  <2>3. pc'[p] = "persist" /\ next' = next /\ target' = target
    BY DEF ApplyPush, TypeOK
  <2>4. tag'[g][next[p][g]] = target[p][g] BY <2>2, <2>3 DEF RunInv, SendInv
  <2>5. next[p][g] \in Versions BY <2>2 DEF RunInv, PlanInv
  <2> QED BY <2>1, <2>4, <2>5
<1>2. CASE g \notin moving[p]
  <2>1. branch'[g] = branch[g] BY <1>2 DEF ApplyPush
  <2>2. PICK v \in Versions : tag[g][v] = branch[g]
    BY <2>1 DEF BranchIsPublishedVersion
  <2> QED BY <2>1, <2>2 DEF TagsKept
<1> QED BY <1>1, <1>2

LEMMA BranchCascade ==
  ASSUME TypeOK, BranchIsPublishedVersion, NEW h \in Gids, CascadePush(h)
  PROVE  BranchIsPublishedVersion'
<1> SUFFICES ASSUME NEW g \in Gids, branch'[g] \notin Rebased \cup {NoRef}
             PROVE  \E v \in Versions : tag[g][v] = branch'[g]
  BY DEF BranchIsPublishedVersion, CascadePush
<1>1. branch'[g] = branch[g] \/ branch'[g] \in Rebased
  BY DEF CascadePush, TypeOK
<1> QED BY <1>1 DEF BranchIsPublishedVersion

\* What is left when a step changes no ref.
LEMMA RefsUnchanged ==
  ASSUME IInv, TypeOK', UNCHANGED <<branch, tag, localTag>>,
         \A q \in Procs : RunInv(q)'
  PROVE  IInv'
BY DEF IInv, VersionsContiguous, IsHistoryLength, LocalTagsPublished,
       BranchIsPublishedVersion

LEMMA IInvStep == IInv /\ [PubNext]_pubVars => IInv'
<1> SUFFICES ASSUME IInv, [PubNext]_pubVars PROVE IInv'
  OBVIOUS
<1>t. TypeOK /\ TypeOK' /\ TagsKept /\ LocalTagsKept
  BY TypeStep, TagsKeptStep, LocalTagsKeptStep DEF IInv
<1>v. /\ VersionsContiguous /\ LocalTagsPublished /\ BranchIsPublishedVersion
      /\ \A q \in Procs : RunInv(q)
  BY DEF IInv
<1>k. ASSUME NEW p \in Procs, RunInv(p)', \A q \in Procs \ {p} : RunKept(q)
      PROVE  \A q \in Procs : RunInv(q)'
  BY <1>t, <1>v, <1>k, RunInvStable
<1>e. ASSUME \A q \in Procs : RunKept(q) PROVE \A q \in Procs : RunInv(q)'
  BY <1>t, <1>v, <1>e, RunInvStable
<1>reset. ASSUME NEW p \in Procs, Reset(p), UNCHANGED <<branch, tag, localTag, ci>>
          PROVE  IInv'
  <2>1. RunInv(p)' BY <1>t, <1>reset, RunInvReset
  <2>2. \A q \in Procs \ {p} : RunKept(q) BY <1>t, <1>reset DEF Reset, RunKept, TypeOK
  <2> QED BY <1>t, <1>k, <1>reset, <2>1, <2>2, RefsUnchanged
<1>1. ASSUME NEW p \in Procs, NEW s \in Stacks, Start(p, s) PROVE IInv'
  <2>1. RunInv(p)' BY <1>t, <1>v, <1>1, RunInvStart
  <2>2. \A q \in Procs \ {p} : RunKept(q) BY <1>t, <1>1 DEF Start, RunKept, TypeOK
  <2>3. UNCHANGED <<branch, tag, localTag>> BY <1>1 DEF Start
  <2> QED BY <1>t, <1>k, <2>1, <2>2, <2>3, RefsUnchanged
<1>2. ASSUME NEW p \in Procs, ObserveBatch(p) PROVE IInv'
  <2>1. RunInv(p)' BY <1>t, <1>v, <1>2, RunInvObserve
  <2>2. \A q \in Procs \ {p} : RunKept(q)
    BY <1>t, <1>2 DEF ObserveBatch, RunKept, TypeOK
  <2>3. UNCHANGED <<branch, tag, localTag>> BY <1>2 DEF ObserveBatch
  <2> QED BY <1>t, <1>k, <2>1, <2>2, <2>3, RefsUnchanged
<1>3. ASSUME NEW p \in Procs, PlanTarget(p) PROVE IInv'
  <2>1. RunInv(p)' BY <1>t, <1>v, <1>3, RunInvPlan
  <2>2. \A q \in Procs \ {p} : RunKept(q)
    BY <1>t, <1>3 DEF PlanTarget, RunKept, TypeOK
  <2>3. UNCHANGED <<branch, tag, localTag>> BY <1>3 DEF PlanTarget
  <2> QED BY <1>t, <1>k, <2>1, <2>2, <2>3, RefsUnchanged
<1>4. ASSUME NEW p \in Procs, SendUpdates(p) PROVE IInv'
  <2>1. RunInv(p)' BY <1>t, <1>v, <1>4, RunInvSend
  <2>2. \A q \in Procs \ {p} : RunKept(q)
    BY <1>t, <1>4 DEF SendUpdates, RunKept, TypeOK
  <2>3. UNCHANGED <<branch, tag, localTag>> BY <1>4 DEF SendUpdates
  <2> QED BY <1>t, <1>k, <2>1, <2>2, <2>3, RefsUnchanged
<1>5. ASSUME NEW p \in Procs, ApplyPush(p) PROVE IInv'
  <2>1. RunInv(p)' BY <1>t, <1>v, <1>5, RunInvApply
  <2>2. \A q \in Procs \ {p} : RunKept(q)
    BY <1>t, <1>5 DEF ApplyPush, RunKept, TypeOK
  <2>3. VersionsContiguous' BY <1>t, <1>v, <1>5, ContiguousApply
  <2>4. BranchIsPublishedVersion' BY <1>t, <1>v, <1>5, <2>1, BranchApply
  <2>5. LocalTagsPublished'
    BY <1>t, <1>v, <1>5 DEF ApplyPush, LocalTagsPublished, TagsKept
  <2> QED BY <1>t, <1>k, <2>1, <2>2, <2>3, <2>4, <2>5 DEF IInv
<1>6. ASSUME NEW p \in Procs, Persist(p) PROVE IInv'
  <2>1. RunInv(p)' BY <1>t, <1>v, <1>6, RunInvPersist
  <2>2. \A q \in Procs \ {p} : RunKept(q)
    BY <1>t, <1>6 DEF Persist, RunKept, TypeOK
  <2>3. LocalTagsPublished' BY <1>t, <1>v, <1>6, LocalTagsPersist
  <2>4. VersionsContiguous' /\ BranchIsPublishedVersion'
    BY <1>v, <1>6 DEF Persist, VersionsContiguous, IsHistoryLength,
                      BranchIsPublishedVersion
  <2> QED BY <1>t, <1>k, <2>1, <2>2, <2>3, <2>4 DEF IInv
<1>7. ASSUME NEW cl \in Clones, Fetch(cl) PROVE IInv'
  <2>1. \A q \in Procs : RunKept(q) BY <1>7 DEF Fetch, runVars, RunKept
  <2>2. LocalTagsPublished' BY <1>t, <1>v, <1>7, LocalTagsFetch
  <2>3. VersionsContiguous' /\ BranchIsPublishedVersion'
    BY <1>v, <1>7 DEF Fetch, VersionsContiguous, IsHistoryLength,
                      BranchIsPublishedVersion
  <2> QED BY <1>t, <1>e, <2>1, <2>2, <2>3 DEF IInv
<1>8. ASSUME NEW g \in Gids, CascadeCheckout(g) PROVE IInv'
  <2>1. \A q \in Procs : RunKept(q) BY <1>8 DEF CascadeCheckout, runVars, RunKept
  <2>2. UNCHANGED <<branch, tag, localTag>> BY <1>8 DEF CascadeCheckout
  <2> QED BY <1>t, <1>e, <2>1, <2>2, RefsUnchanged
<1>9. ASSUME NEW g \in Gids, CascadePush(g) PROVE IInv'
  <2>1. \A q \in Procs : RunKept(q) BY <1>9 DEF CascadePush, runVars, RunKept
  <2>2. BranchIsPublishedVersion' BY <1>t, <1>v, <1>9, BranchCascade
  <2>3. VersionsContiguous' /\ LocalTagsPublished'
    BY <1>v, <1>9 DEF CascadePush, VersionsContiguous, IsHistoryLength,
                      LocalTagsPublished
  <2> QED BY <1>t, <1>e, <2>1, <2>2, <2>3 DEF IInv
<1>10. CASE UNCHANGED pubVars
  <2>1. \A q \in Procs : RunKept(q) BY <1>10 DEF pubVars, RunKept
  <2>2. UNCHANGED <<branch, tag, localTag>> BY <1>10 DEF pubVars
  <2> QED BY <1>t, <1>e, <2>1, <2>2, RefsUnchanged
<1>11. ASSUME NEW p \in Procs, Reject(p) \/ Finish(p) \/ Crash(p) PROVE IInv'
  BY <1>reset, <1>11 DEF Reject, Finish, Crash
<1> QED BY <1>1, <1>2, <1>3, <1>4, <1>5, <1>6, <1>7, <1>8, <1>9, <1>10, <1>11
        DEF PubNext, UsersNext, RunStep

\* The invariant that carries the safety properties is inductive.
THEOREM Invariance == PubSpec => []IInv
BY IInvInit, IInvStep, PTL DEF PubSpec

\* Whatever clones, crashes and stale tags there are, the versions of every
\* identifier stay numbered without a gap.
THEOREM VersionsContiguousHolds == PubSpec => []VersionsContiguous
<1>1. IInv => VersionsContiguous BY DEF IInv
<1> QED BY <1>1, Invariance, PTL

\* Two clones never disagree about the commit of a version.
THEOREM LocalTagsPublishedHolds == PubSpec => []LocalTagsPublished
<1>1. IInv => LocalTagsPublished BY DEF IInv
<1> QED BY <1>1, Invariance, PTL

\* The head of every phantom branch is a tagged version or a cascade's commit.
THEOREM BranchIsPublishedVersionHolds == PubSpec => []BranchIsPublishedVersion
<1>1. IInv => BranchIsPublishedVersion BY DEF IInv
<1> QED BY <1>1, Invariance, PTL

\* The versions that a run hands on for the patch history tables exist.
THEOREM RunVersionsPublishedHolds == PubSpec => []RunVersionsPublished
<1>1. IInv => RunVersionsPublished BY DEF IInv, RunInv, RunVersionsPublished
<1> QED BY <1>1, Invariance, PTL

-----------------------------------------------------------------------------
(* Every tagged identifier has a branch *)

BranchesKept == \A g \in Gids : branch[g] # NoRef => branch'[g] # NoRef

LEMMA BranchesKeptStep == IInv /\ [PubNext]_pubVars => BranchesKept
<1> SUFFICES ASSUME IInv, [PubNext]_pubVars PROVE BranchesKept OBVIOUS
<1>1. CASE UNCHANGED branch BY <1>1 DEF BranchesKept
<1>2. ASSUME NEW p \in Procs, ApplyPush(p) PROVE BranchesKept
  <2>1. moving[p] \subseteq ChunkGids(p) BY DEF IInv, RunInv, SendInv
  <2> QED BY <1>2, <2>1 DEF ApplyPush, ChunkGids, BranchesKept
<1>3. ASSUME NEW g \in Gids, CascadePush(g) PROVE BranchesKept
  <2>1. branch \in [Gids -> Refs] BY DEF IInv, TypeOK
  <2>2. CASE UNCHANGED branch BY <1>1, <2>2
  <2>3. ASSUME NEW c \in Rebased, branch' = [branch EXCEPT ![g] = c] PROVE BranchesKept
    BY <2>1, <2>3, ActorsAssumption DEF BranchesKept
  <2> QED BY <1>3, <2>2, <2>3 DEF CascadePush
<1>4. ASSUME NEW p \in Procs, RunStep(p) PROVE UNCHANGED branch \/ ApplyPush(p)
  BY <1>4 DEF RunStep, ObserveBatch, PlanTarget, SendUpdates, Reject, Persist, Finish
<1>5. \/ UNCHANGED branch
      \/ \E p \in Procs : ApplyPush(p)
      \/ \E g \in Gids : CascadePush(g)
  BY <1>4 DEF PubNext, UsersNext, pubVars, Start, Crash, Fetch, CascadeCheckout
<1> QED BY <1>1, <1>2, <1>3, <1>5

\* A version tag is only ever pushed together with the branch, and the branch of
\* a commit that is not sent because it is up to date exists already.
BranchInv ==
  /\ \A g \in Gids, v \in Versions : tag[g][v] # NoRef => branch[g] # NoRef
  /\ \A p \in Procs : pc[p] = "send" =>
       \A g \in ChunkGids(p) : g \in moving[p] \/ branch[g] # NoRef

LEMMA BranchInvInit == PubInit => BranchInv
BY DEF PubInit, BranchInv

LEMMA TaggedHasBranch ==
  ASSUME IInv, BranchInv, [PubNext]_pubVars,
         NEW g \in Gids, NEW v \in Versions, tag'[g][v] # NoRef
  PROVE  branch'[g] # NoRef
<1>1. BranchesKept BY BranchesKeptStep
<1>2. CASE UNCHANGED tag
  BY <1>1, <1>2 DEF BranchInv, BranchesKept
<1>3. ASSUME NEW p \in Procs, ApplyPush(p) PROVE branch'[g] # NoRef
  <2>1. CASE g \notin tagging[p]
    <3>1. tag'[g] = tag[g] BY <1>3, <2>1 DEF ApplyPush, Tagged
    <3> QED BY <1>1, <3>1 DEF BranchInv, BranchesKept
  <2>2. CASE g \in tagging[p]
    <3>1. g \in ChunkGids(p) BY <2>2 DEF IInv, RunInv, SendInv
    <3>2. CASE g \in moving[p] BY <1>3, <3>1, <3>2 DEF ApplyPush, ChunkGids
    <3>3. CASE g \notin moving[p]
      BY <1>1, <1>3, <3>1, <3>3 DEF ApplyPush, BranchInv, BranchesKept
    <3> QED BY <3>2, <3>3
  <2> QED BY <2>1, <2>2
<1>4. UNCHANGED tag \/ \E p \in Procs : ApplyPush(p)
  BY DEF PubNext, UsersNext, pubVars, RunStep, Start, ObserveBatch, PlanTarget, SendUpdates, Reject,
         Persist, Finish, Crash, Fetch, CascadeCheckout, CascadePush
<1> QED BY <1>2, <1>3, <1>4

LEMMA SentHasBranch ==
  ASSUME IInv, BranchInv, [PubNext]_pubVars, NEW p \in Procs, pc'[p] = "send",
         NEW g \in ChunkGids(p)', g \notin moving'[p]
  PROVE  branch'[g] # NoRef
<1>1. BranchesKept BY BranchesKeptStep
<1>2. TypeOK BY DEF IInv
<1>3. CASE pc[p] = "send" /\ target'[p] = target[p] /\ moving'[p] = moving[p]
  BY <1>1, <1>3 DEF ChunkGids, BranchInv, BranchesKept
<1>4. CASE SendUpdates(p)
  <2>1. /\ moving'[p] = {h \in ChunkGids(p) : BranchMoves(p, h)}
        /\ target' = target /\ branch' = branch
    BY <1>2, <1>4 DEF SendUpdates, TypeOK
  <2>2. g \in ChunkGids(p) /\ branch[g] = target[p][g]
    BY <2>1 DEF ChunkGids, BranchMoves
  <2> QED BY <2>1, <2>2 DEF ChunkGids
<1>5. ASSUME NEW q \in Procs, (\E s \in Stacks : Start(q, s)) \/ RunStep(q) \/ Crash(q), q # p
      PROVE  pc[p] = "send" /\ target'[p] = target[p] /\ moving'[p] = moving[p]
  BY <1>2, <1>5 DEF TypeOK, Start, RunStep, Crash, Reset, ObserveBatch, PlanTarget,
                    SendUpdates, ApplyPush, Reject, Persist, Finish
<1>6. ASSUME (\E s \in Stacks : Start(p, s)) \/ RunStep(p) \/ Crash(p), ~SendUpdates(p)
      PROVE  FALSE
  BY <1>2, <1>6 DEF TypeOK, Start, RunStep, Crash, Reset, ObserveBatch, PlanTarget,
                    ApplyPush, Reject, Persist, Finish
<1>7. CASE UNCHANGED runVars BY <1>3, <1>7 DEF runVars
<1>8. \/ UNCHANGED runVars
      \/ \E q \in Procs : (\E s \in Stacks : Start(q, s)) \/ RunStep(q) \/ Crash(q)
  BY DEF PubNext, UsersNext, pubVars, runVars, Fetch, CascadeCheckout, CascadePush
<1> QED BY <1>3, <1>4, <1>5, <1>6, <1>7, <1>8

LEMMA BranchInvStep == IInv /\ BranchInv /\ [PubNext]_pubVars => BranchInv'
BY TaggedHasBranch, SentHasBranch DEF BranchInv

\* An identifier that has a version also has a branch, however pushes of its
\* branch and of its tags were split by what was already up to date.
THEOREM BranchInvariance == PubSpec => []BranchInv
BY BranchInvInit, BranchInvStep, Invariance, PTL DEF PubSpec

-----------------------------------------------------------------------------
(* One clone: a run plans on top of the newest version *)

\* All runs work in one clone, where git lists the references when it is asked to.
OneClone == \A p, q \in Procs : CloneOf[p] = CloneOf[q]
Readable == \A p \in Procs : CloneOf[p] \notin Unreadable

\* The clone has every version that another one has been published on top of.
KnownBelow ==
  \A p \in Procs, g \in Gids, v \in Versions :
    v > 1 /\ tag[g][v] # NoRef => localTag[CloneOf[p]][g][v - 1] # NoRef

LEMMA KnownBelowInit == PubInit => KnownBelow
BY DEF PubInit, KnownBelow

LEMMA KnownBelowStep ==
  ASSUME OneClone, IInv, KnownBelow, [PubNext]_pubVars
  PROVE  KnownBelow'
<1>1. TypeOK BY DEF IInv
<1>2. LocalTagsKept BY <1>1, LocalTagsKeptStep
<1>3. CASE UNCHANGED tag
  <2> SUFFICES ASSUME NEW p \in Procs, NEW g \in Gids, NEW v \in Versions,
                      v > 1, tag[g][v] # NoRef
               PROVE  localTag'[CloneOf[p]][g][v - 1] # NoRef
    BY <1>3 DEF KnownBelow
  <2>1. v - 1 \in Versions BY BatchAssumption DEF Versions
  <2>2. localTag[CloneOf[p]][g][v - 1] # NoRef BY DEF KnownBelow
  <2> QED BY <1>2, <2>1, <2>2, ActorsAssumption DEF LocalTagsKept
<1>4. ASSUME NEW q \in Procs, ApplyPush(q) PROVE KnownBelow'
  <2>1. tag' = Tagged(q, tag, tagging[q]) /\ localTag' = localTag BY <1>4 DEF ApplyPush
  <2> SUFFICES ASSUME NEW p \in Procs, NEW g \in Gids, NEW v \in Versions,
                      v > 1, tag'[g][v] # NoRef
               PROVE  localTag[CloneOf[p]][g][v - 1] # NoRef
    BY <2>1 DEF KnownBelow
  <2>2. CASE tag[g][v] # NoRef BY <2>2 DEF KnownBelow
  <2>3. CASE tag[g][v] = NoRef
    <3>1. g \in tagging[q] /\ tag'[g] = [tag[g] EXCEPT ![next[q][g]] = target[q][g]]
      BY <2>1, <2>3 DEF Tagged
    <3>2. tag[g] \in [Versions -> Refs] BY <1>1 DEF TypeOK, TagStores
    <3>3. v = next[q][g] BY <2>3, <3>1, <3>2
    <3>4. g \in ChunkGids(q) BY <3>1 DEF IInv, RunInv, SendInv
    <3>5. localTag[CloneOf[q]][g][v - 1] # NoRef BY <3>3, <3>4 DEF IInv, RunInv, PlanInv
    <3> QED BY <3>5 DEF OneClone
  <2> QED BY <2>2, <2>3
<1>5. UNCHANGED tag \/ \E q \in Procs : ApplyPush(q)
  BY DEF PubNext, UsersNext, RunStep, Start, ObserveBatch, PlanTarget, SendUpdates, Reject,
         Persist, Finish, Crash, Fetch, CascadeCheckout, CascadePush, pubVars
<1> QED BY <1>3, <1>4, <1>5

LEMMA KnownBelowInvariance == ASSUME OneClone PROVE PubSpec => []KnownBelow
<1>1. IInv /\ KnownBelow /\ [PubNext]_pubVars => KnownBelow' BY KnownBelowStep
<1> QED BY <1>1, KnownBelowInit, Invariance, PTL DEF PubSpec

\* There is no version of g above n.
Upper(g, n) == \A v \in Versions : tag[g][v] # NoRef => v <= n

\* What a run has planned or published is not below the newest version.
UpperInv(p) ==
  /\ \A g \in ChunkGids(p) : Upper(g, next[p][g])
  /\ \A i \in 1..done[p] : Upper(GidOf[stack[p][i]], next[p][GidOf[stack[p][i]]])

\* A commit of the stack that the finished chunks hold is not in the chunk.
LEMMA DoneNotInChunk ==
  ASSUME TypeOK, NEW p \in Procs, RunInv(p), NEW i \in 1..done[p]
  PROVE  /\ i \in 1..Len(stack[p]) /\ GidOf[stack[p][i]] \in Gids
         /\ GidOf[stack[p][i]] \notin ChunkGids(p)
<1>1. /\ Len(stack[p]) \in Nat /\ done[p] \in Nat /\ done[p] <= Len(stack[p])
      /\ at[p] \in Nat /\ at[p] <= Len(stack[p])
  BY StackFacts DEF TypeOK
<1>2. i \in 1..Len(stack[p]) BY <1>1
<1>3. GidOf[stack[p][i]] \in Gids BY <1>2, StackFacts
<1>4. ASSUME GidOf[stack[p][i]] \in ChunkGids(p) PROVE FALSE
  <2>1. PICK j \in (done[p] + 1)..at[p] : GidOf[stack[p][j]] = GidOf[stack[p][i]]
    BY <1>4 DEF RunInv, ChunkInv
  <2>2. j \in 1..Len(stack[p]) /\ j # i BY <1>1, <2>1
  <2>3. stack[p] \in Stacks BY <1>1, <1>2 DEF TypeOK
  <2> QED BY <1>2, <2>1, <2>2, <2>3, StacksAssumption
<1> QED BY <1>2, <1>3, <1>4

\* A run that is not at work on a stack has nothing planned or published.
LEMMA NothingDone ==
  ASSUME TypeOK, NEW p \in Procs, RunInv(p), pc[p] \in {"idle", "observe"}
  PROVE  ChunkGids(p) = {} /\ done[p] = 0
BY DEF TypeOK, RunInv, ChunkInv

\* What a chunk adds to the finished ones is in it.
LEMMA PersistChunk ==
  ASSUME TypeOK, NEW p \in Procs, RunInv(p), pc[p] \in {"plan", "send", "persist"},
         NEW i \in 1..at[p], i \notin 1..done[p]
  PROVE  /\ GidOf[stack[p][i]] \in ChunkGids(p)
         /\ target[p][GidOf[stack[p][i]]] = stack[p][i]
<1>1. /\ Len(stack[p]) \in Nat /\ done[p] \in Nat /\ at[p] \in Nat /\ at[p] <= Len(stack[p])
  BY StackFacts DEF TypeOK
<1>2. i \in 1..Len(stack[p]) /\ i \in (done[p] + 1)..at[p] BY <1>1
<1>3. target[p][GidOf[stack[p][i]]] = stack[p][i] BY <1>2 DEF RunInv, ChunkInv
<1>4. stack[p][i] # NoRef /\ GidOf[stack[p][i]] \in Gids
  BY <1>2, StackFacts, ActorsAssumption
<1> QED BY <1>3, <1>4 DEF ChunkGids

LEMMA UpperReset ==
  ASSUME TypeOK, NEW p \in Procs, Reset(p)
  PROVE  UpperInv(p)'
<1>1. done'[p] = 0 /\ target'[p] = NoRefs BY DEF Reset, TypeOK
<1>2. ChunkGids(p)' = {} BY <1>1 DEF ChunkGids, NoRefs
<1> QED BY <1>1, <1>2 DEF UpperInv

LEMMA UpperKept ==
  ASSUME NEW p \in Procs, UpperInv(p), RunKept(p), tag' = tag
  PROVE  UpperInv(p)'
BY DEF UpperInv, RunKept, ChunkGids, Upper

\* The next version is above all of them because the clone has the one below the
\* newest, and it stays so until another run pushes.
LEMMA UpperPlan ==
  ASSUME IInv, KnownBelow, NEW p \in Procs, CloneOf[p] \notin Unreadable, UpperInv(p),
         PlanTarget(p)
  PROVE  UpperInv(p)'
<1>1. TypeOK /\ RunInv(p) BY DEF IInv
<1>2. PICK c \in Commits, g \in Gids, m \in Nat : PlansAs(p, c, g, m) BY <1>1, PlanFacts
<1>3. Upper(g, m + 1)
  <2>1. localTag[CloneOf[p]][g] \in [Versions -> Refs]
    BY <1>1, ActorsAssumption DEF TypeOK, TagStores
  <2>2. m = Newest(localTag[CloneOf[p]][g])
    <3>1. m \in ReadVersion(CloneOf[p], g) BY <1>2, Zenon DEF PlansAs
    <3> QED BY <3>1 DEF ReadVersion, LocalVersion
  <2>3. \A v \in Versions : localTag[CloneOf[p]][g][v] # NoRef => v <= m
    BY <2>1, <2>2, NewestIsNewest DEF IsNewest
  <2> SUFFICES ASSUME NEW v \in Versions, tag[g][v] # NoRef PROVE v <= m + 1
    BY DEF Upper
  <2>4. v \in Nat /\ v >= 1 BY BatchAssumption DEF Versions
  <2>5. CASE v = 1 BY <2>5
  <2>6. CASE v > 1
    <3>1. v - 1 \in Versions BY <2>4, <2>6, BatchAssumption DEF Versions
    <3>2. v - 1 <= m BY <2>3, <2>6, <3>1 DEF KnownBelow
    <3> QED BY <2>4, <3>2
  <2> QED BY <2>4, <2>5, <2>6
<1>4. \A h \in ChunkGids(p)' : h = g \/ (h \in ChunkGids(p) /\ h \in Gids \ {g})
  BY <1>2 DEF PlansAs, ChunkGids
<1>5. /\ tag' = tag /\ stack' = stack /\ done'[p] = done[p]
      /\ next'[p][g] = m + 1 /\ \A h \in Gids \ {g} : next'[p][h] = next[p][h]
  BY <1>2 DEF PlansAs
<1>6. \A i \in 1..done[p] : GidOf[stack[p][i]] \in Gids \ {g}
  <2>1. \A i \in 1..done[p] : i \in 1..at[p] BY <1>2 DEF PlansAs
  <2>2. \A i \in 1..at[p] : GidOf[stack[p][i]] # g BY <1>2 DEF PlansAs
  <2> QED BY <1>1, <2>1, <2>2, DoneNotInChunk
<1> QED BY <1>3, <1>4, <1>5, <1>6 DEF UpperInv, Upper

LEMMA UpperApply ==
  ASSUME IInv, NEW p \in Procs, UpperInv(p), ApplyPush(p)
  PROVE  UpperInv(p)'
<1>1. TypeOK /\ RunInv(p) BY DEF IInv
<1>2. /\ tag' = Tagged(p, tag, tagging[p]) /\ UNCHANGED <<stack, done, next, target>>
      /\ tagging[p] \subseteq ChunkGids(p)
  BY <1>1 DEF ApplyPush, RunInv, SendInv
<1>3. ASSUME NEW g \in Gids, Upper(g, next[p][g]) PROVE Upper(g, next[p][g])'
  <2> SUFFICES ASSUME NEW v \in Versions, tag'[g][v] # NoRef PROVE v <= next[p][g]
    BY <1>2 DEF Upper
  <2>1. CASE tag[g][v] # NoRef BY <1>3, <2>1 DEF Upper
  <2>2. CASE tag[g][v] = NoRef
    <3>1. tag'[g] = [tag[g] EXCEPT ![next[p][g]] = target[p][g]]
      BY <1>2, <2>2 DEF Tagged
    <3>2. tag[g] \in [Versions -> Refs] BY <1>1 DEF TypeOK, TagStores
    <3>3. v = next[p][g] BY <2>2, <3>1, <3>2
    <3> QED BY <3>3, BatchAssumption DEF Versions
  <2> QED BY <2>1, <2>2
<1>4. ASSUME NEW g \in ChunkGids(p)' PROVE Upper(g, next[p][g])'
  <2>1. g \in ChunkGids(p) /\ g \in Gids BY <1>2 DEF ChunkGids
  <2> QED BY <1>3, <2>1 DEF UpperInv
<1>5. ASSUME NEW i \in 1..done[p]
      PROVE  Upper(GidOf[stack[p][i]], next[p][GidOf[stack[p][i]]])'
  <2>1. GidOf[stack[p][i]] \in Gids BY <1>1, DoneNotInChunk
  <2> QED BY <1>2, <1>3, <2>1 DEF UpperInv, Upper
<1> QED BY <1>2, <1>4, <1>5 DEF UpperInv, Upper

LEMMA UpperPersist ==
  ASSUME IInv, NEW p \in Procs, UpperInv(p), Persist(p)
  PROVE  UpperInv(p)'
<1>1. TypeOK /\ RunInv(p) BY DEF IInv
<1>2. /\ pc[p] = "persist" /\ done'[p] = at[p] /\ target'[p] = NoRefs
      /\ UNCHANGED <<tag, stack, next>>
  BY <1>1 DEF Persist, TypeOK
<1>3. ChunkGids(p)' = {} BY <1>2 DEF ChunkGids, NoRefs
<1>4. ASSUME NEW i \in 1..at[p] PROVE Upper(GidOf[stack[p][i]], next[p][GidOf[stack[p][i]]])
  <2>1. CASE i \in 1..done[p] BY <2>1 DEF UpperInv
  <2>2. CASE i \notin 1..done[p]
    <3>1. GidOf[stack[p][i]] \in ChunkGids(p) BY <1>1, <1>2, <2>2, PersistChunk
    <3> QED BY <3>1 DEF UpperInv
  <2> QED BY <2>1, <2>2
<1> QED BY <1>2, <1>3, <1>4 DEF UpperInv, Upper

\* A run keeps to the newest versions as long as it is the only one that pushes.
LEMMA UpperRun ==
  ASSUME IInv, KnownBelow, NEW p \in Procs, CloneOf[p] \notin Unreadable, UpperInv(p),
         (\E s \in Stacks : Start(p, s)) \/ RunStep(p) \/ Crash(p)
  PROVE  UpperInv(p)'
<1>1. TypeOK /\ RunInv(p) BY DEF IInv
<1>2. ASSUME Reject(p) \/ Finish(p) \/ Crash(p) PROVE UpperInv(p)'
  BY <1>1, <1>2, UpperReset DEF Reject, Finish, Crash
<1>3. ASSUME (\E s \in Stacks : Start(p, s)) \/ ObserveBatch(p) PROVE UpperInv(p)'
  <2>1. pc[p] \in {"idle", "observe"} /\ UNCHANGED <<target, done>>
    BY <1>3 DEF Start, ObserveBatch
  <2>2. ChunkGids(p)' = {} /\ done'[p] = 0 BY <1>1, <2>1, NothingDone DEF ChunkGids
  <2> QED BY <2>2 DEF UpperInv
<1>4. ASSUME SendUpdates(p) PROVE UpperInv(p)'
  BY <1>4 DEF SendUpdates, UpperInv, ChunkGids, Upper
<1> QED BY <1>2, <1>3, <1>4, UpperPlan, UpperApply, UpperPersist DEF RunStep

\* What a run has pushed is what the branches of its commits point at.
PushedInv(p) ==
  /\ \A g \in ChunkGids(p) :
       (pc[p] = "send" /\ g \notin moving[p]) \/ pc[p] = "persist" => branch[g] = target[p][g]
  /\ \A i \in 1..done[p] : branch[GidOf[stack[p][i]]] = stack[p][i]

LEMMA PushedKept ==
  ASSUME NEW p \in Procs, PushedInv(p), RunKept(p), branch' = branch
  PROVE  PushedInv(p)'
BY DEF PushedInv, RunKept, ChunkGids

LEMMA PushedRun ==
  ASSUME IInv, NEW p \in Procs, PushedInv(p),
         (\E s \in Stacks : Start(p, s)) \/ RunStep(p) \/ Crash(p)
  PROVE  PushedInv(p)'
<1>1. TypeOK /\ RunInv(p) BY DEF IInv
<1>2. ASSUME Reset(p) PROVE PushedInv(p)'
  <2>1. done'[p] = 0 /\ target'[p] = NoRefs BY <1>1, <1>2 DEF Reset, TypeOK
  <2>2. ChunkGids(p)' = {} BY <2>1 DEF ChunkGids, NoRefs
  <2> QED BY <2>1, <2>2 DEF PushedInv
<1>3. ASSUME (\E s \in Stacks : Start(p, s)) \/ ObserveBatch(p) PROVE PushedInv(p)'
  <2>1. pc[p] \in {"idle", "observe"} /\ UNCHANGED <<target, done>>
    BY <1>3 DEF Start, ObserveBatch
  <2>2. ChunkGids(p)' = {} /\ done'[p] = 0 BY <1>1, <2>1, NothingDone DEF ChunkGids
  <2> QED BY <2>2 DEF PushedInv
<1>4. ASSUME PlanTarget(p) PROVE PushedInv(p)'
  <2>1. pc'[p] = "plan" /\ done'[p] = done[p] /\ UNCHANGED <<branch, stack>>
    BY <1>1, <1>4, PlanFacts DEF PlansAs
  <2> QED BY <2>1 DEF PushedInv
<1>5. ASSUME SendUpdates(p) PROVE PushedInv(p)'
  <2>1. /\ pc'[p] = "send" /\ UNCHANGED <<branch, stack, done, target>>
        /\ moving'[p] = {g \in ChunkGids(p) : BranchMoves(p, g)}
    BY <1>1, <1>5 DEF SendUpdates, TypeOK
  <2>2. ChunkGids(p)' = ChunkGids(p) BY <2>1 DEF ChunkGids
  <2> QED BY <2>1, <2>2 DEF PushedInv, BranchMoves
<1>6. ASSUME ApplyPush(p) PROVE PushedInv(p)'
  <2>1. /\ pc[p] = "send" /\ UNCHANGED <<stack, done, target>>
        /\ branch' = [g \in Gids |-> IF g \in moving[p] THEN target[p][g] ELSE branch[g]]
        /\ moving[p] \subseteq ChunkGids(p)
    BY <1>1, <1>6 DEF ApplyPush, RunInv, SendInv
  <2>2. ASSUME NEW g \in ChunkGids(p)' PROVE branch'[g] = target[p][g]
    <3>1. g \in ChunkGids(p) /\ g \in Gids BY <2>1 DEF ChunkGids
    <3> QED BY <2>1, <3>1 DEF PushedInv
  <2>3. ASSUME NEW i \in 1..done[p] PROVE branch'[GidOf[stack[p][i]]] = stack[p][i]
    BY <1>1, <2>1, DoneNotInChunk DEF PushedInv
  <2> QED BY <2>1, <2>2, <2>3 DEF PushedInv
<1>7. ASSUME Persist(p) PROVE PushedInv(p)'
  <2>1. /\ pc[p] = "persist" /\ done'[p] = at[p] /\ target'[p] = NoRefs
        /\ UNCHANGED <<branch, stack>>
    BY <1>1, <1>7 DEF Persist, TypeOK
  <2>2. ChunkGids(p)' = {} BY <2>1 DEF ChunkGids, NoRefs
  <2>3. ASSUME NEW i \in 1..at[p] PROVE branch[GidOf[stack[p][i]]] = stack[p][i]
    <3>1. CASE i \in 1..done[p] BY <3>1 DEF PushedInv
    <3>2. CASE i \notin 1..done[p]
      BY <1>1, <2>1, <3>2, PersistChunk DEF PushedInv
    <3> QED BY <3>1, <3>2
  <2> QED BY <2>1, <2>2, <2>3 DEF PushedInv
<1> QED BY <1>2, <1>3, <1>4, <1>5, <1>6, <1>7 DEF RunStep, Reject, Finish, Crash

-----------------------------------------------------------------------------
(* One run at a time *)

OneRun == \A p, q \in Procs : p = q

\* The branch of every identifier is at its newest version, and what a run moves
\* is not where it should be.
AtNewest ==
  \A g \in Gids : branch[g] = IF Newest(tag[g]) = 0 THEN NoRef ELSE tag[g][Newest(tag[g])]

MovesInv(p) == pc[p] = "send" => \A g \in moving[p] : BranchMoves(p, g)

AloneInv ==
  /\ AtNewest
  /\ \A p \in Procs : UpperInv(p) /\ PushedInv(p) /\ MovesInv(p)

\* The newest version is the planned one when there is a tag for that and none
\* above it.
LEMMA PlannedIsNewest ==
  ASSUME NEW tags \in [Versions -> Refs], NEW n \in Versions, tags[n] # NoRef,
         \A v \in Versions : tags[v] # NoRef => v <= n
  PROVE  Newest(tags) = n /\ n # 0
<1>1. n \in 0..MaxVersion /\ n # 0 BY BatchAssumption DEF Versions
<1>2. IsNewest(tags, n) BY DEF IsNewest
<1> QED BY <1>1, <1>2, NewestUnique

\* The push of a chunk takes its branches to the newest versions.
LEMMA AtNewestApply ==
  ASSUME IInv, IInv', AtNewest, NEW p \in Procs, ApplyPush(p), UpperInv(p)', PushedInv(p)'
  PROVE  AtNewest'
<1>1. TypeOK /\ TypeOK' /\ RunInv(p) /\ RunInv(p)' BY DEF IInv
<1>2. /\ pc'[p] = "persist" /\ UNCHANGED <<next, target>>
      /\ branch' = [g \in Gids |-> IF g \in moving[p] THEN target[p][g] ELSE branch[g]]
      /\ tag' = Tagged(p, tag, tagging[p])
      /\ moving[p] \subseteq ChunkGids(p) /\ tagging[p] \subseteq ChunkGids(p)
  BY <1>1 DEF ApplyPush, TypeOK, RunInv, SendInv
<1>3. ChunkGids(p)' = ChunkGids(p) BY <1>2 DEF ChunkGids
<1> SUFFICES ASSUME NEW g \in Gids
             PROVE  branch'[g] = IF Newest(tag'[g]) = 0 THEN NoRef
                                 ELSE tag'[g][Newest(tag'[g])]
  BY DEF AtNewest
<1>4. CASE g \notin ChunkGids(p)
  <2>1. tag'[g] = tag[g] /\ branch'[g] = branch[g] BY <1>2, <1>4 DEF Tagged
  <2> QED BY <2>1 DEF AtNewest
<1>5. CASE g \in ChunkGids(p)
  <2>1. next[p][g] \in Versions /\ tag'[g][next[p][g]] = target[p][g] /\ target[p][g] # NoRef
    BY <1>1, <1>2, <1>3, <1>5 DEF RunInv, PlanInv, SendInv, ChunkGids
  <2>2. \A v \in Versions : tag'[g][v] # NoRef => v <= next[p][g]
    BY <1>2, <1>3, <1>5 DEF UpperInv, Upper
  <2>3. tag'[g] \in [Versions -> Refs] BY <1>1 DEF TypeOK, TagStores
  <2>4. Newest(tag'[g]) = next[p][g] /\ next[p][g] # 0
    BY <2>1, <2>2, <2>3, PlannedIsNewest
  <2>5. branch'[g] = target[p][g] BY <1>2, <1>3, <1>5 DEF PushedInv
  <2> QED BY <2>1, <2>4, <2>5
<1> QED BY <1>4, <1>5

LEMMA AloneInit == PubInit => AloneInv
<1> SUFFICES ASSUME PubInit PROVE AloneInv OBVIOUS
<1>1. ASSUME NEW p \in Procs PROVE UpperInv(p) /\ PushedInv(p) /\ MovesInv(p)
  <2>1. ChunkGids(p) = {} /\ done[p] = 0 /\ pc[p] = "idle"
    BY DEF PubInit, ChunkGids, NoRefs
  <2> QED BY <2>1 DEF UpperInv, PushedInv, MovesInv
<1>2. ASSUME NEW g \in Gids PROVE branch[g] = NoRef /\ Newest(tag[g]) = 0
  <2>1. tag[g] \in [Versions -> Refs] /\ \A v \in Versions : tag[g][v] = NoRef
    BY DEF PubInit, Refs
  <2>2. IsNewest(tag[g], 0) /\ 0 \in 0..MaxVersion BY <2>1, BatchAssumption DEF IsNewest
  <2>3. Newest(tag[g]) = 0 BY <2>1, <2>2, NewestUnique
  <2> QED BY <2>3 DEF PubInit, NoRefs
<1> QED BY <1>1, <1>2 DEF AloneInv, AtNewest

LEMMA AloneStep ==
  ASSUME OneRun, Readable, IInv, KnownBelow, AloneInv, [UsersNext]_pubVars
  PROVE  AloneInv'
<1>0. TypeOK /\ IInv'
  <2>1. [PubNext]_pubVars BY DEF PubNext
  <2> QED BY <2>1, IInvStep DEF IInv
<1>1. ASSUME UNCHANGED <<branch, tag, runVars>> PROVE AloneInv'
  BY <1>1 DEF AloneInv, AtNewest, UpperInv, Upper, PushedInv, MovesInv, BranchMoves,
              ChunkGids, runVars
<1>2. ASSUME NEW p \in Procs, (\E s \in Stacks : Start(p, s)) \/ RunStep(p) \/ Crash(p)
      PROVE  AloneInv'
  <2>1. UpperInv(p)' /\ PushedInv(p)'
    BY <1>2, UpperRun, PushedRun DEF AloneInv, Readable
  <2>2. AtNewest'
    <3>1. CASE ApplyPush(p) BY <1>0, <2>1, <3>1, AtNewestApply DEF AloneInv
    <3>2. CASE ~ApplyPush(p)
      <4>1. UNCHANGED <<branch, tag>>
        BY <1>2, <3>2 DEF RunStep, Start, ObserveBatch, PlanTarget, SendUpdates, Reject,
                          Persist, Finish, Crash
      <4> QED BY <4>1 DEF AloneInv, AtNewest
    <3> QED BY <3>1, <3>2
  <2>3. MovesInv(p)'
    <3>1. CASE SendUpdates(p)
      <4>1. /\ moving'[p] = {g \in ChunkGids(p) : BranchMoves(p, g)}
            /\ UNCHANGED <<branch, target>>
        BY <1>0, <3>1 DEF SendUpdates, TypeOK
      <4> QED BY <4>1 DEF MovesInv, BranchMoves
    <3>2. CASE ~SendUpdates(p)
      <4>1. pc'[p] # "send"
        BY <1>0, <1>2, <3>2 DEF RunStep, Start, ObserveBatch, PlanTarget, ApplyPush, Reject,
                                Persist, Finish, Crash, Reset, TypeOK, MovesInv
      <4> QED BY <4>1 DEF MovesInv
    <3> QED BY <3>1, <3>2
  <2>4. \A q \in Procs : q = p BY DEF OneRun
  <2> QED BY <2>1, <2>2, <2>3, <2>4 DEF AloneInv
<1>3. ASSUME NEW cl \in Clones, Fetch(cl) PROVE AloneInv'
  BY <1>1, <1>3 DEF Fetch
<1>4. CASE UNCHANGED pubVars BY <1>1, <1>4 DEF pubVars, runVars
<1> QED BY <1>2, <1>3, <1>4 DEF UsersNext

\* A push that moves a branch comes from the newest version of it as long as there
\* is one run at a time, whatever is killed and whatever write of a local tag
\* fails.  With a second user it need not (run publication_overwrite), nor with a
\* second run in the same clone: the branch may be back where it was observed.
THEOREM NoBlindOverwriteOneRun ==
  ASSUME OneRun, Readable
  PROVE  UsersSpec => NoBlindOverwrite
<1>1. OneClone BY DEF OneRun, OneClone
<1>2. UsersSpec => PubSpec
  <2>1. [UsersNext]_pubVars => [PubNext]_pubVars BY DEF PubNext
  <2> QED BY <2>1, PTL DEF UsersSpec, PubSpec
<1>3. IInv /\ KnownBelow /\ AloneInv /\ [UsersNext]_pubVars => AloneInv' BY AloneStep
<1>4. ASSUME IInv, AloneInv, NEW p \in Procs, ApplyPush(p), NEW g \in moving[p],
             branch[g] # NoRef
      PROVE  IsHistoryLength(g, LocalVersion(CloneOf[p], g))
  <2> DEFINE k == next[p][g]
             mine == localTag[CloneOf[p]][g]
  <2>1. /\ TypeOK /\ RunInv(p) /\ LocalTagsPublished /\ pc[p] = "send" /\ UpdatesApply(p)
        /\ UpperInv(p) /\ MovesInv(p) /\ AtNewest
    BY <1>4 DEF IInv, ApplyPush, AloneInv
  <2>2. g \in Gids /\ g \in ChunkGids(p) /\ k \in Versions /\ target[p][g] # NoRef
        /\ (k = 1 \/ mine[k - 1] # NoRef)
    BY <2>1 DEF RunInv, SendInv, PlanInv, ChunkGids
  <2>3. tag[g] \in [Versions -> Refs] /\ mine \in [Versions -> Refs]
    BY <2>1, <2>2, ActorsAssumption DEF TypeOK, TagStores
  <2>4. \A v \in Versions : tag[g][v] # NoRef => v <= k BY <2>1, <2>2 DEF UpperInv, Upper
  <2>5. tag[g][k] = NoRef
    <3>1. CASE g \in tagging[p] BY <2>1, <3>1 DEF UpdatesApply, TagLease
    <3>2. CASE g \notin tagging[p] /\ tag[g][k] # NoRef
      <4>1. tag[g][k] = target[p][g] BY <2>1, <2>2, <3>2 DEF RunInv, SendInv
      <4>2. Newest(tag[g]) = k /\ k # 0 BY <2>2, <2>3, <2>4, <3>2, PlannedIsNewest
      <4>3. branch[g] = target[p][g] BY <2>1, <2>2, <4>1, <4>2 DEF AtNewest
      <4> QED BY <2>1, <4>3 DEF MovesInv, BranchMoves
    <3> QED BY <3>1, <3>2
  <2>6. PICK n \in 0..MaxVersion : IsHistoryLength(g, n)
    BY <1>4, <2>2 DEF IInv, VersionsContiguous
  <2>7. n = k - 1
    <3>1. k \in Nat /\ k >= 1 /\ n \in Nat /\ n < k
      BY <2>2, <2>5, <2>6, BatchAssumption DEF IsHistoryLength, Versions
    <3>2. CASE k = 1 BY <3>1, <3>2
    <3>3. CASE k # 1
      <4>1. k - 1 \in Versions BY <2>2, <3>1, <3>3, BatchAssumption DEF Versions
      <4>2. tag[g][k - 1] # NoRef
        BY <2>1, <2>2, <3>3, <4>1, ActorsAssumption DEF LocalTagsPublished
      <4>3. k - 1 <= n BY <2>6, <4>1, <4>2 DEF IsHistoryLength
      <4> QED BY <3>1, <4>3
    <3> QED BY <3>2, <3>3
  <2>8. IsNewest(mine, n)
    <3>1. n = 0 \/ mine[n] # NoRef BY <2>2, <2>7
    <3>2. ASSUME NEW v \in Versions, mine[v] # NoRef PROVE v <= n
      <4>1. tag[g][v] # NoRef BY <2>1, <2>2, <3>2, ActorsAssumption DEF LocalTagsPublished
      <4> QED BY <2>6, <4>1 DEF IsHistoryLength
    <3> QED BY <3>1, <3>2 DEF IsNewest
  <2>9. LocalVersion(CloneOf[p], g) = n BY <2>3, <2>8, NewestUnique DEF LocalVersion
  <2> QED BY <2>6, <2>9
<1>5. IInv /\ AloneInv /\ [UsersNext]_pubVars =>
        [\A p \in Procs : ApplyPush(p) =>
           \A g \in moving[p] : branch[g] # NoRef =>
             IsHistoryLength(g, LocalVersion(CloneOf[p], g))]_pubVars
  BY <1>4
<1>6. UsersSpec => []KnownBelow BY <1>1, <1>2, KnownBelowInvariance, PTL
<1> QED BY <1>2, <1>3, <1>5, <1>6, AloneInit, Invariance, PTL
        DEF UsersSpec, NoBlindOverwrite

-----------------------------------------------------------------------------
(* The version tags implement PatchHistory: every step of a run, a fetch or a *)
(* cascade is a step of the abstract histories or changes nothing there.      *)

histories == [g \in Gids |-> [v \in 1..Newest(tag[g]) |-> tag[g][v]]]
knowledge == [cl \in Clones |-> [g \in Gids |-> LocalVersion(cl, g)]]

\* A history is a sequence of commits.
LEMMA HistoryIsSeq ==
  ASSUME NEW tags \in [Versions -> Refs], NEW n \in 0..MaxVersion,
         \A v \in Versions : tags[v] # NoRef <=> v <= n
  PROVE  /\ Newest(tags) = n
         /\ [v \in 1..n |-> tags[v]] \in Seq(Commits)
         /\ Len([v \in 1..n |-> tags[v]]) = n
<1>1. MaxVersion \in Nat /\ n \in Nat BY BatchAssumption
<1>2. IsNewest(tags, n) BY <1>1 DEF IsNewest, Versions
<1>3. \A v \in 1..n : tags[v] \in Commits BY <1>1 DEF Versions, Refs
<1> QED BY <1>1, <1>2, <1>3, NewestUnique

\* No clone knows more than there is.
LEMMA KnownBounded ==
  ASSUME NEW tags \in [Versions -> Refs], NEW known \in [Versions -> Refs],
         \A v \in Versions : known[v] # NoRef => tags[v] # NoRef
  PROVE  Newest(known) <= Newest(tags)
<1>1. /\ Newest(tags) \in 0..MaxVersion /\ IsNewest(tags, Newest(tags))
      /\ Newest(known) \in 0..MaxVersion /\ IsNewest(known, Newest(known))
  BY NewestIsNewest
<1> QED BY <1>1, BatchAssumption DEF IsNewest, Versions

LEMMA RefineInit == PubInit => PH!Init
<1> SUFFICES ASSUME PubInit PROVE PH!Init OBVIOUS
<1>1. ASSUME NEW T, T = [v \in Versions |-> NoRef] PROVE Newest(T) = 0
  <2>1. T \in [Versions -> Refs] BY <1>1 DEF Refs
  <2>2. IsNewest(T, 0) BY <1>1 DEF IsNewest
  <2>3. 0 \in 0..MaxVersion BY BatchAssumption
  <2> QED BY <2>1, <2>2, <2>3, NewestUnique
<1>2. \A g \in Gids : Newest(tag[g]) = 0 BY <1>1 DEF PubInit
<1>3. histories = [g \in Gids |-> << >>]
  <2>1. ASSUME NEW g \in Gids PROVE [v \in 1..Newest(tag[g]) |-> tag[g][v]] = << >>
    BY <1>2
  <2> QED BY <2>1 DEF histories
<1>4. knowledge = [cl \in Clones |-> [g \in Gids |-> 0]]
  BY <1>1 DEF PubInit, knowledge, LocalVersion
<1> QED BY <1>3, <1>4 DEF PH!Init, histories, knowledge

\* An applied push appends to the histories whose tags it created.
LEMMA RefineApply ==
  ASSUME IInv, IInv', NEW p \in Procs, ApplyPush(p)
  PROVE  PH!Publish(CloneOf[p])
<1>i. /\ TypeOK /\ TypeOK' /\ VersionsContiguous /\ LocalTagsPublished /\ RunInv(p)
  BY DEF IInv
<1>1. knowledge' = knowledge BY DEF ApplyPush, knowledge, LocalVersion
<1>2. ASSUME NEW g \in Gids
      PROVE  /\ histories'[g] \in Seq(Commits)
             /\ histories'[g] # histories[g] =>
                  /\ knowledge[CloneOf[p]][g] = Len(histories[g])
                  /\ \E c \in Commits : histories'[g] = Append(histories[g], c)
  <2>1. PICK n \in 0..MaxVersion : IsHistoryLength(g, n) BY <1>i DEF VersionsContiguous
  <2>2. tag[g] \in [Versions -> Refs] /\ tag'[g] \in [Versions -> Refs]
    BY <1>i DEF TypeOK, TagStores
  <2>3. /\ histories[g] = [v \in 1..n |-> tag[g][v]]
        /\ histories[g] \in Seq(Commits) /\ Len(histories[g]) = n /\ Newest(tag[g]) = n
    BY <2>1, <2>2, HistoryIsSeq DEF histories, IsHistoryLength
  <2>4. CASE g \notin tagging[p]
    <3>1. tag'[g] = tag[g] BY <2>4 DEF ApplyPush, Tagged
    <3>2. histories'[g] = histories[g] BY <3>1 DEF histories
    <3> QED BY <2>3, <3>2
  <2>5. CASE g \in tagging[p]
    <3>1. /\ next[p][g] = n + 1 /\ n + 1 \in Versions
          /\ IsHistoryLength(g, n + 1)'
          /\ tag'[g] = [tag[g] EXCEPT ![n + 1] = target[p][g]]
      BY <1>i, <2>1, <2>5, HistoryExtended
    <3>2. n \in Nat /\ n + 1 \in 0..MaxVersion BY <3>1, BatchAssumption DEF Versions
    <3>3. /\ histories'[g] = [v \in 1..(n + 1) |-> tag'[g][v]]
          /\ histories'[g] \in Seq(Commits) /\ Len(histories'[g]) = n + 1
      <4>1. \A v \in Versions : tag'[g][v] # NoRef <=> v <= n + 1
        BY <3>1 DEF IsHistoryLength
      <4>2. Newest(tag'[g]) = n + 1 BY <2>2, <3>2, <4>1, HistoryIsSeq
      <4> QED BY <2>2, <3>2, <4>1, <4>2, HistoryIsSeq DEF histories
    <3>4. histories'[g] = Append(histories[g], histories'[g][n + 1])
      <4>1. \A v \in 1..n : histories'[g][v] = histories[g][v]
        BY <2>2, <2>3, <3>1, <3>2, <3>3 DEF Versions
      <4> DEFINE old == histories[g]
                 new == histories'[g]
      <4>2. old \in Seq(Commits) /\ Len(old) = n /\ new \in Seq(Commits) /\ Len(new) = n + 1
        BY <2>3, <3>3
      <4>3. new[n + 1] \in Commits BY <3>2, <4>2
      <4> HIDE DEF old, new
      <4>4. \A v \in 1..n : new[v] = old[v] BY <4>1 DEF old, new
      <4>5. /\ Append(old, new[n + 1]) \in Seq(Commits)
            /\ Len(Append(old, new[n + 1])) = n + 1
            /\ \A v \in 1..(n + 1) : new[v] = Append(old, new[n + 1])[v]
        BY <3>2, <4>2, <4>3, <4>4, AppendProperties
      <4>6. new = Append(old, new[n + 1]) BY <4>2, <4>5, SeqEqual
      <4> QED BY <4>6 DEF old, new
    <3>5. histories'[g][n + 1] \in Commits BY <3>2, <3>3
    <3>6. knowledge[CloneOf[p]][g] = n
      <4> DEFINE mine == localTag[CloneOf[p]][g]
      <4>1. CloneOf[p] \in Clones BY ActorsAssumption
      <4>2. mine \in [Versions -> Refs] BY <1>i, <4>1 DEF TypeOK, TagStores
      <4>3. g \in ChunkGids(p) BY <1>i, <2>5 DEF RunInv, SendInv
      <4>4. next[p][g] = 1 \/ mine[next[p][g] - 1] # NoRef
        BY <1>i, <4>3 DEF RunInv, PlanInv
      <4>5. n = 0 \/ mine[n] # NoRef BY <3>1, <3>2, <4>4
      <4>6. \A v \in Versions : mine[v] # NoRef => v <= n
        BY <1>i, <2>1, <4>1 DEF LocalTagsPublished, IsHistoryLength
      <4>7. Newest(mine) = n
        <5> HIDE DEF mine
        <5> QED BY <4>2, <4>5, <4>6, NewestUnique DEF IsNewest
      <4> QED BY <4>1, <4>7 DEF knowledge, LocalVersion
    <3> QED BY <2>3, <3>3, <3>4, <3>5, <3>6
  <2> QED BY <2>4, <2>5
<1>3. histories' \in [Gids -> Seq(Commits)] BY <1>2 DEF histories
<1> QED BY <1>1, <1>2, <1>3 DEF PH!Publish, histories, knowledge

\* A step that deletes no tag of one clone, leaves the others alone and invents
\* none is a Learn step.
LEMMA RefineLearn ==
  ASSUME IInv, IInv', LocalTagsKept, NEW cl \in Clones, UNCHANGED tag,
         \A other \in Clones \ {cl} : localTag'[other] = localTag[other]
  PROVE  PH!Learn(cl)
<1>i. /\ TypeOK /\ TypeOK' /\ VersionsContiguous
      /\ LocalTagsPublished /\ LocalTagsPublished'
  BY DEF IInv
<1>1. histories' = histories BY DEF histories
<1>2. ASSUME NEW g \in Gids
      PROVE  /\ knowledge'[cl][g] \in Nat
             /\ knowledge[cl][g] <= knowledge'[cl][g]
             /\ knowledge'[cl][g] <= Len(histories[g])
  <2> DEFINE old == localTag[cl][g]
             new == localTag'[cl][g]
  <2>1. old \in [Versions -> Refs] /\ new \in [Versions -> Refs] /\ tag[g] \in [Versions -> Refs]
    BY <1>i DEF TypeOK, TagStores
  <2>2. \A v \in Versions : old[v] # NoRef => new[v] # NoRef
    BY DEF LocalTagsKept
  <2>3. \A v \in Versions : new[v] # NoRef => tag[g][v] # NoRef
    BY <1>i DEF LocalTagsPublished
  <2>4. knowledge[cl][g] = Newest(old) /\ knowledge'[cl][g] = Newest(new)
    BY DEF knowledge, LocalVersion
  <2> HIDE DEF old, new
  <2>5. Newest(old) <= Newest(new) BY <2>1, <2>2, KnownBounded
  <2>6. Newest(new) <= Newest(tag[g]) BY <2>1, <2>3, KnownBounded
  <2>7. Newest(new) \in Nat BY <2>1, NewestIsNewest, BatchAssumption
  <2>8. Len(histories[g]) = Newest(tag[g])
    <3>1. PICK n \in 0..MaxVersion : IsHistoryLength(g, n) BY <1>i DEF VersionsContiguous
    <3> QED BY <2>1, <3>1, HistoryIsSeq DEF histories, IsHistoryLength
  <2> QED BY <2>4, <2>5, <2>6, <2>7, <2>8
<1>3. \A other \in Clones \ {cl} : knowledge'[other] = knowledge[other]
  BY DEF knowledge, LocalVersion
<1>4. knowledge' \in [Clones -> [Gids -> Nat]]
  <2>1. ASSUME NEW c \in Clones, NEW g \in Gids PROVE Newest(localTag'[c][g]) \in Nat
    <3>1. localTag'[c][g] \in [Versions -> Refs] BY <1>i DEF TypeOK, TagStores
    <3> QED BY <3>1, NewestIsNewest, BatchAssumption
  <2> QED BY <2>1 DEF knowledge, LocalVersion
<1> QED BY <1>1, <1>2, <1>3, <1>4 DEF PH!Learn, histories, knowledge

LEMMA RefineStep ==
  IInv /\ IInv' /\ [PubNext]_pubVars => [PH!Next]_(PH!historyVars)
<1> SUFFICES ASSUME IInv, IInv', [PubNext]_pubVars
             PROVE  PH!Next \/ UNCHANGED PH!historyVars
  OBVIOUS
<1>1. LocalTagsKept BY LocalTagsKeptStep DEF IInv
<1>2. CASE UNCHANGED <<tag, localTag>>
  BY <1>2 DEF PH!historyVars, LocalVersion
<1>3. ASSUME NEW p \in Procs, ApplyPush(p) PROVE PH!Next
  BY <1>3, RefineApply, ActorsAssumption DEF PH!Next
<1>4. ASSUME NEW p \in Procs, Persist(p) PROVE PH!Next
  <2>1. UNCHANGED tag BY <1>4 DEF Persist
  <2>2. \A other \in Clones \ {CloneOf[p]} : localTag'[other] = localTag[other]
    BY <1>4 DEF Persist, IInv, TypeOK
  <2>3. CloneOf[p] \in Clones BY ActorsAssumption
  <2> QED BY <1>1, <2>1, <2>2, <2>3, RefineLearn DEF PH!Next
<1>5. ASSUME NEW cl \in Clones, Fetch(cl) PROVE PH!Next
  <2>1. UNCHANGED tag BY <1>5 DEF Fetch
  <2>2. \A other \in Clones \ {cl} : localTag'[other] = localTag[other]
    BY <1>5 DEF Fetch, IInv, TypeOK
  <2> QED BY <1>1, <2>1, <2>2, RefineLearn DEF PH!Next
<1>6. \/ UNCHANGED <<tag, localTag>>
      \/ \E p \in Procs : ApplyPush(p) \/ Persist(p)
      \/ \E cl \in Clones : Fetch(cl)
  BY DEF PubNext, UsersNext, RunStep, Start, ObserveBatch, PlanTarget, SendUpdates, Reject,
         Finish, Crash, CascadeCheckout, CascadePush, pubVars
<1> QED BY <1>2, <1>3, <1>4, <1>5, <1>6

\* However runs, crashes, fetches and cascades interleave, the version tags are
\* shared append-only histories, extended only by clones that know their end.
THEOREM PublicationImplementsPatchHistory == PubSpec => ImplementsPatchHistory
<1>1. PubInit => PH!Init BY RefineInit
<1>2. IInv /\ IInv' /\ [PubNext]_pubVars => [PH!Next]_(PH!historyVars) BY RefineStep
<1>3. PubSpec => []IInv BY Invariance
<1>4. PubSpec => PH!Spec
  BY <1>1, <1>2, <1>3, PTL DEF PubSpec, PH!Spec
<1> QED BY <1>4 DEF ImplementsPatchHistory
=============================================================================
