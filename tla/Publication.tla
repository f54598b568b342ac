---------------------------- MODULE Publication ----------------------------
(***************************************************************************)
(* How pre-push publishes a stack of commits (src/pre_push/mod.rs,         *)
(* publication.rs, remote.rs): it observes the phantom branches with       *)
(* `git ls-remote`, numbers the new version of every commit from the tags  *)
(* of its own clone, pushes branches and version tags in atomic chunks,    *)
(* each ref under a lease, and keeps the pushed tags locally.  Several     *)
(* runs work at once, in one clone or in several; any run may be killed at *)
(* any point; users fetch; and the cascade of ci/rebase_stack_child.sh     *)
(* force-pushes rebased commits to the same branches.                      *)
(***************************************************************************)
EXTENDS Integers, Sequences, FiniteSets

CONSTANTS
  Procs,          \* concurrent `gherrit hook pre-push` runs
  Clones,         \* local repositories
  CloneOf,        \* the repository each run works in
  Gids,           \* gherrit-pr-ids
  Commits,        \* commit objects
  GidOf,          \* the gherrit-pr-id trailer of a commit
  Rebased,        \* the commits that a rebase by the CI cascade produces
  Stacks,         \* the stacks of commits a user may push, oldest first
  Unreadable,     \* the clones in which git may fail to list the references
  NoRef,          \* stands for a ref that does not exist
  PushBatchLen,   \* PUSH_BATCH_LEN (80)
  QueryBatchLen,  \* REMOTE_QUERY_BATCH_LEN (250)
  MaxVersion      \* bound: no run publishes a higher version

\* Which clone a run works in, and the identifier every commit carries.
ASSUME ActorsAssumption ==
  /\ CloneOf \in [Procs -> Clones]
  /\ GidOf \in [Commits -> Gids]
  /\ Rebased \subseteq Commits
  /\ NoRef \notin Commits

\* A stack is not empty and names no identifier twice: `run` stops on an
\* empty stack, `collect_commits` on a duplicate.
ASSUME StacksAssumption ==
  \A s \in Stacks :
    /\ s \in Seq(Commits)
    /\ Len(s) > 0
    /\ \A i, j \in 1..Len(s) : GidOf[s[i]] = GidOf[s[j]] => i = j

ASSUME BatchAssumption ==
  /\ PushBatchLen \in Nat \ {0}
  /\ QueryBatchLen \in Nat \ {0}
  /\ MaxVersion \in Nat

Versions == 1..MaxVersion
Refs == Commits \cup {NoRef}
TagStores == [Gids -> [Versions -> Refs]]

VARIABLES
  branch,    \* refs/heads/<id> of the remote
  tag,       \* refs/tags/gherrit/<id>/v<n> of the remote
  localTag,  \* the same tags in every clone
  ci,        \* the branch tip a cascade job has checked out, per identifier
  pc,        \* where every run is
  stack,     \* the commits it publishes
  done,      \* how many of them the finished chunks hold
  at,        \* how far the current loop has come
  lease,     \* remote_branch_states: the branches as `ls-remote` saw them
  next,      \* next_versions: the version planned for each identifier
  target,    \* targets: the commits of the chunk being pushed, by identifier
  moving,    \* the branches whose update its `git push` has sent
  tagging    \* the version tags it has sent

remoteVars == <<branch, tag>>
runVars == <<pc, stack, done, at, lease, next, target, moving, tagging>>
pubVars == <<branch, tag, localTag, ci,
             pc, stack, done, at, lease, next, target, moving, tagging>>

PCs == {"idle", "observe", "plan", "send", "persist", "published"}

NoRefs == [g \in Gids |-> NoRef]
Unplanned == [g \in Gids |-> 0]

-----------------------------------------------------------------------------
(* Local versions and the push plan *)

\* m is the newest version in the tags of one identifier, 0 if there is none.
IsNewest(tags, m) ==
  /\ m = 0 \/ tags[m] # NoRef
  /\ \A v \in Versions : tags[v] # NoRef => v <= m

Newest(tags) == CHOOSE m \in 0..MaxVersion : IsNewest(tags, m)

\* Mutation of LocalVersion: the tags are not filtered by the identifier.
LocalVersionOfAny(cl, g) ==
  CHOOSE m \in 0..MaxVersion :
    /\ \A h \in Gids : Newest(localTag[cl][h]) <= m
    /\ \E h \in Gids : Newest(localTag[cl][h]) = m

\* get_local_version: a clone may have version 2 of a commit and not version 1.
LocalVersion(cl, g) == Newest(localTag[cl][g])

\* Mutation of ReadVersion: the versions on the remote are counted.
ReadVersionRemote(cl, g) == {Newest(tag[g])}

\* What `get_local_version(..).unwrap_or(0)` may return: an error of git reads
\* as version 0.
ReadVersion(cl, g) ==
  {LocalVersion(cl, g)} \cup (IF cl \in Unreadable THEN {0} ELSE {})

\* Where a batch of at most `len` commits after the first `from` ends.
BatchEnd(s, from, len) == IF from + len <= Len(s) THEN from + len ELSE Len(s)

ChunkGids(p) == {g \in Gids : target[p][g] # NoRef}

\* git compares first: a ref that already has the pushed value is "up to
\* date", its update is not sent and its lease is not looked at.
BranchMoves(p, g) == branch[g] # target[p][g]
TagMoves(p, g) == tag[g][next[p][g]] # target[p][g]

\* Mutation of TagLease: the tag is pushed without a lease.
TagLeaseUnchecked(p, g) == TRUE

\* --force-with-lease=refs/heads/<id>:<observed> and, for the tag,
\* --force-with-lease=refs/tags/gherrit/<id>/v<n>: (it must not exist).
BranchLease(p, g) == branch[g] = lease[p][g]
TagLease(p, g) == tag[g][next[p][g]] = NoRef

LeasesHold(p) ==
  \A g \in ChunkGids(p) : /\ BranchMoves(p, g) => BranchLease(p, g)
                          /\ TagMoves(p, g) => TagLease(p, g)

\* The server takes the updates it was sent all together, and only while every
\* one of the refs still has the value that the push was prepared against.
UpdatesApply(p) ==
  /\ \A g \in moving[p] : BranchLease(p, g)
  /\ \A g \in tagging[p] : TagLease(p, g)

\* A tag store with the tags of g for g \in G set to the planned version.
Tagged(p, store, G) ==
  [g \in Gids |-> IF g \in G THEN [store[g] EXCEPT ![next[p][g]] = target[p][g]]
                             ELSE store[g]]

-----------------------------------------------------------------------------
(* The steps of one run *)

PubInit ==
  /\ branch = NoRefs
  /\ tag = [g \in Gids |-> [v \in Versions |-> NoRef]]
  /\ localTag = [cl \in Clones |-> [g \in Gids |-> [v \in Versions |-> NoRef]]]
  /\ ci = NoRefs
  /\ pc = [p \in Procs |-> "idle"]
  /\ stack = [p \in Procs |-> << >>]
  /\ done = [p \in Procs |-> 0]
  /\ at = [p \in Procs |-> 0]
  /\ lease = [p \in Procs |-> NoRefs]
  /\ next = [p \in Procs |-> Unplanned]
  /\ target = [p \in Procs |-> NoRefs]
  /\ moving = [p \in Procs |-> {}]
  /\ tagging = [p \in Procs |-> {}]

\* What a run knows is gone when it ends.
Reset(p) ==
  /\ pc' = [pc EXCEPT ![p] = "idle"]
  /\ stack' = [stack EXCEPT ![p] = << >>]
  /\ done' = [done EXCEPT ![p] = 0]
  /\ at' = [at EXCEPT ![p] = 0]
  /\ lease' = [lease EXCEPT ![p] = NoRefs]
  /\ next' = [next EXCEPT ![p] = Unplanned]
  /\ target' = [target EXCEPT ![p] = NoRefs]
  /\ moving' = [moving EXCEPT ![p] = {}]
  /\ tagging' = [tagging EXCEPT ![p] = {}]

Start(p, s) ==
  /\ pc[p] = "idle"
  /\ pc' = [pc EXCEPT ![p] = "observe"]
  /\ stack' = [stack EXCEPT ![p] = s]
  /\ UNCHANGED <<branch, tag, localTag, ci, done, at, lease, next, target,
                 moving, tagging>>

\* One `git ls-remote` of observe_managed_branches.
ObserveBatch(p) ==
  LET end == BatchEnd(stack[p], at[p], QueryBatchLen)
      seen == {GidOf[stack[p][i]] : i \in (at[p] + 1)..end}
  IN /\ pc[p] = "observe"
     /\ lease' = [lease EXCEPT ![p] =
                    [g \in Gids |-> IF g \in seen THEN branch[g] ELSE @[g]]]
     /\ IF end = Len(stack[p])
          THEN /\ pc' = [pc EXCEPT ![p] = "plan"]
               /\ at' = [at EXCEPT ![p] = 0]
          ELSE /\ at' = [at EXCEPT ![p] = end]
               /\ UNCHANGED pc
     /\ UNCHANGED <<branch, tag, localTag, ci, stack, done, next, target,
                    moving, tagging>>

\* One turn of the loop over the commits of a chunk.  MaxVersion bounds it.
PlanTarget(p) ==
  LET c == stack[p][at[p] + 1]
      g == GidOf[c]
  IN /\ pc[p] = "plan"
     /\ at[p] < BatchEnd(stack[p], done[p], PushBatchLen)
     /\ \E m \in ReadVersion(CloneOf[p], g) :
          /\ m < MaxVersion
          /\ next' = [next EXCEPT ![p][g] = m + 1]
     /\ target' = [target EXCEPT ![p][g] = c]
     /\ at' = [at EXCEPT ![p] = @ + 1]
     /\ UNCHANGED <<branch, tag, localTag, ci, pc, stack, done, lease, moving,
                    tagging>>

\* The chunk is planned: `git push` reads the refs that the server advertises,
\* checks its leases against them and sends the updates.
Planned(p) ==
  pc[p] = "plan" /\ at[p] = BatchEnd(stack[p], done[p], PushBatchLen)

SendUpdates(p) ==
  /\ Planned(p)
  /\ LeasesHold(p)
  /\ pc' = [pc EXCEPT ![p] = "send"]
  /\ moving' = [moving EXCEPT ![p] = {g \in ChunkGids(p) : BranchMoves(p, g)}]
  /\ tagging' = [tagging EXCEPT ![p] = {g \in ChunkGids(p) : TagMoves(p, g)}]
  /\ UNCHANGED <<branch, tag, localTag, ci, stack, done, at, lease, next, target>>

\* Mutation of ApplyPush: without --atomic every ref stands for itself.
ApplyPushPartly(p) ==
  /\ pc[p] = "send"
  /\ branch' = [g \in Gids |-> IF g \in moving[p] /\ BranchLease(p, g)
                                THEN target[p][g] ELSE branch[g]]
  /\ tag' = Tagged(p, tag, {g \in tagging[p] : TagLease(p, g)})
  /\ IF UpdatesApply(p)
       THEN /\ pc' = [pc EXCEPT ![p] = "persist"]
            /\ UNCHANGED <<stack, done, at, lease, next, target, moving, tagging>>
       ELSE Reset(p)
  /\ UNCHANGED <<localTag, ci>>

\* The server applies an atomic push.
ApplyPush(p) ==
  /\ pc[p] = "send"
  /\ UpdatesApply(p)
  /\ branch' = [g \in Gids |-> IF g \in moving[p] THEN target[p][g] ELSE branch[g]]
  /\ tag' = Tagged(p, tag, tagging[p])
  /\ pc' = [pc EXCEPT ![p] = "persist"]
  /\ UNCHANGED <<localTag, ci, stack, done, at, lease, next, target, moving,
                 tagging>>

\* A lease fails, at git or at the server: push_to_origin bails out and leaves
\* the chunks it has already pushed.
Rejected(p) == \/ Planned(p) /\ ~LeasesHold(p)
               \/ pc[p] = "send" /\ ~UpdatesApply(p)

\* Mutation of Reject: the exit status of `git push` is not looked at.
RejectIgnored(p) ==
  /\ Rejected(p)
  /\ pc' = [pc EXCEPT ![p] = "persist"]
  /\ UNCHANGED <<branch, tag, localTag, ci, stack, done, at, lease, next, target,
                 moving, tagging>>

Reject(p) ==
  /\ Rejected(p)
  /\ Reset(p)
  /\ UNCHANGED <<branch, tag, localTag, ci>>

\* The pushed tags are written to the clone.  A write that fails is ignored,
\* and one that succeeds replaces whatever was there.
Persist(p) ==
  /\ pc[p] = "persist"
  /\ \E kept \in SUBSET ChunkGids(p) :
       localTag' = [localTag EXCEPT ![CloneOf[p]] = Tagged(p, @, kept)]
  /\ done' = [done EXCEPT ![p] = at[p]]
  /\ target' = [target EXCEPT ![p] = NoRefs]
  /\ moving' = [moving EXCEPT ![p] = {}]
  /\ tagging' = [tagging EXCEPT ![p] = {}]
  /\ pc' = [pc EXCEPT ![p] = IF at[p] = Len(stack[p]) THEN "published" ELSE "plan"]
  /\ UNCHANGED <<branch, tag, ci, stack, at, lease, next>>

\* The caller is done with the published stack.
Finish(p) ==
  /\ pc[p] = "published"
  /\ Reset(p)
  /\ UNCHANGED <<branch, tag, localTag, ci>>

\* The run is killed, or one of its commands fails for a reason of its own.
Crash(p) ==
  /\ pc[p] # "idle"
  /\ Reset(p)
  /\ UNCHANGED <<branch, tag, localTag, ci>>

-----------------------------------------------------------------------------
(* The environment *)

\* The tags that a fetch may bring to a clone, and those that it brings in any
\* case because they point at a branch tip.
Missing(cl) ==
  {t \in Gids \X Versions :
     tag[t[1]][t[2]] # NoRef /\ localTag[cl][t[1]][t[2]] = NoRef}
AtTip == {t \in Gids \X Versions : tag[t[1]][t[2]] = branch[t[1]]}

\* `git fetch`: a tag is copied for sure only if it points at what is fetched;
\* another one follows when its commit happens to be in the clone.
Fetch(cl) ==
  /\ \E got \in SUBSET Missing(cl) :
       /\ Missing(cl) \cap AtTip \subseteq got
       /\ localTag' = [localTag EXCEPT ![cl] =
            [g \in Gids |-> [v \in Versions |->
               IF <<g, v>> \in got THEN tag[g][v] ELSE @[g][v]]]]
  /\ UNCHANGED <<branch, tag, ci>> /\ UNCHANGED runVars

\* `gh pr checkout` in a cascade job that has something to rebase.
CascadeCheckout(g) ==
  /\ branch[g] # NoRef
  /\ \E c \in Rebased : GidOf[c] = g
  /\ ci' = [ci EXCEPT ![g] = branch[g]]
  /\ UNCHANGED <<branch, tag, localTag>> /\ UNCHANGED runVars

\* `git push --force-with-lease` of the rebased commit; no tag goes with it.
\* The push is refused, and the job ends, when the branch has moved.
CascadePush(g) ==
  /\ ci[g] # NoRef
  /\ \/ /\ branch[g] = ci[g]
        /\ \E c \in Rebased : GidOf[c] = g /\ branch' = [branch EXCEPT ![g] = c]
     \/ branch[g] # ci[g] /\ UNCHANGED branch
  /\ ci' = [ci EXCEPT ![g] = NoRef]
  /\ UNCHANGED <<tag, localTag>> /\ UNCHANGED runVars

RunStep(p) ==
  \/ ObserveBatch(p)
  \/ PlanTarget(p)
  \/ SendUpdates(p)
  \/ ApplyPush(p)
  \/ Reject(p)
  \/ Persist(p)
  \/ Finish(p)

\* Runs and users.  With the cascade they are all that moves the refs; module
\* Cascade puts its jobs in the place of the last disjunct.
UsersNext ==
  \/ \E p \in Procs : \/ \E s \in Stacks : Start(p, s)
                      \/ RunStep(p)
                      \/ Crash(p)
  \/ \E cl \in Clones : Fetch(cl)

PubNext ==
  \/ UsersNext
  \/ \E g \in Gids : CascadeCheckout(g) \/ CascadePush(g)

UsersSpec == PubInit /\ [][UsersNext]_pubVars
PubSpec == PubInit /\ [][PubNext]_pubVars

-----------------------------------------------------------------------------
(* Properties *)

TypeOK ==
  /\ branch \in [Gids -> Refs]
  /\ tag \in TagStores
  /\ localTag \in [Clones -> TagStores]
  /\ ci \in [Gids -> Refs]
  /\ pc \in [Procs -> PCs]
  /\ stack \in [Procs -> Stacks \cup {<< >>}]
  /\ done \in [Procs -> Nat]
  /\ at \in [Procs -> Nat]
  /\ \A p \in Procs : /\ done[p] <= Len(stack[p]) /\ at[p] <= Len(stack[p])
                      /\ pc[p] = "idle" <=> stack[p] = << >>
  /\ lease \in [Procs -> [Gids -> Refs]]
  /\ next \in [Procs -> [Gids -> 0..MaxVersion]]
  /\ target \in [Procs -> [Gids -> Refs]]
  /\ moving \in [Procs -> SUBSET Gids]
  /\ tagging \in [Procs -> SUBSET Gids]

\* n is the newest version of g on the remote, and no version below it is
\* missing.
IsHistoryLength(g, n) == \A v \in Versions : tag[g][v] # NoRef <=> v <= n

\* The versions of every identifier are numbered 1, 2, ... without a gap, in
\* whatever order clones with different tags publish them.
VersionsContiguous == \A g \in Gids : \E n \in 0..MaxVersion : IsHistoryLength(g, n)

\* A version tag of a clone names the commit that the remote has under this
\* version: no two users see different commits as one version, although tags
\* are written locally with PreviousValue::Any.
LocalTagsPublished ==
  \A cl \in Clones, g \in Gids, v \in Versions :
    localTag[cl][g][v] # NoRef => localTag[cl][g][v] = tag[g][v]

\* The head of a pull request is a commit that some version tag keeps, unless
\* the cascade rebased it there.
BranchIsPublishedVersion ==
  \A g \in Gids :
    \/ branch[g] \in Rebased \cup {NoRef}
    \/ \E v \in Versions : tag[g][v] = branch[g]

\* Every version that a run reports for its finished chunks exists on the
\* remote and is the commit the run pushed: the patch history table links to
\* these tags.
RunPublished(p) ==
  \A i \in 1..done[p] :
    LET g == GidOf[stack[p][i]]
    IN next[p][g] \in Versions /\ tag[g][next[p][g]] = stack[p][i]

RunVersionsPublished == \A p \in Procs : RunPublished(p)

\* A version tag never moves and is never deleted.
TagsNeverMove ==
  [][\A g \in Gids, v \in Versions : tag[g][v] # NoRef => tag'[g][v] = tag[g][v]]_pubVars

\* A push that moves a branch away from what is there comes from a clone that
\* has the newest version of it.
NoBlindOverwrite ==
  [][\A p \in Procs : ApplyPush(p) =>
       \A g \in moving[p] : branch[g] # NoRef =>
         IsHistoryLength(g, LocalVersion(CloneOf[p], g))]_pubVars

-----------------------------------------------------------------------------
(* The inductive invariant *)

\* The targets of a run are the commits of the chunk that it is working on.
ChunkInv(p) ==
  /\ pc[p] = "observe" => done[p] = 0
  /\ pc[p] \in {"plan", "send", "persist"} =>
       /\ done[p] <= at[p]
       /\ \A i \in (done[p] + 1)..at[p] : target[p][GidOf[stack[p][i]]] = stack[p][i]
  /\ \A g \in ChunkGids(p) :
       /\ pc[p] \in {"plan", "send", "persist"}
       /\ \E i \in (done[p] + 1)..at[p] : GidOf[stack[p][i]] = g

\* A version is planned only by a clone that has the one before it.
PlanInv(p) ==
  \A g \in ChunkGids(p) :
    /\ next[p][g] \in Versions
    /\ next[p][g] = 1 \/ localTag[CloneOf[p]][g][next[p][g] - 1] # NoRef

\* A version tag that git did not send, or that the server has applied, is the
\* planned one.
SendInv(p) ==
  /\ moving[p] \subseteq ChunkGids(p) /\ tagging[p] \subseteq ChunkGids(p)
  /\ \A g \in ChunkGids(p) :
       \/ pc[p] = "send" /\ g \notin tagging[p]
       \/ pc[p] = "persist"
       => tag[g][next[p][g]] = target[p][g]

RunInv(p) == ChunkInv(p) /\ PlanInv(p) /\ SendInv(p) /\ RunPublished(p)

IInv ==
  /\ TypeOK
  /\ VersionsContiguous
  /\ LocalTagsPublished
  /\ BranchIsPublishedVersion
  /\ \A p \in Procs : RunInv(p)

-----------------------------------------------------------------------------
(* The version tags implement the abstract patch histories. *)

PH == INSTANCE PatchHistory WITH
        history <- [g \in Gids |-> [v \in 1..Newest(tag[g]) |-> tag[g][v]]],
        known <- [cl \in Clones |-> [g \in Gids |-> LocalVersion(cl, g)]]

ImplementsPatchHistory == PH!Spec
=============================================================================
