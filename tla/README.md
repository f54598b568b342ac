# A verification development for GHerrit

GHerrit turns a local stack of commits into stacked pull requests: a pre-push
hook pushes every commit to a "phantom" branch named after its `gherrit-pr-id`,
tags every version of it, and creates or updates one pull request per commit.
This directory holds TLA+ models of that program, the TLC configurations that
check them on small instances, and TLAPS proofs of the properties that matter
most. Paths below are relative to the repository root; `src/pre_push/mod.rs`
is `mod.rs` for short.

## The system

| Part | Where | State | Operations | What makes it correct |
|---|---|---|---|---|
| Publication | `mod.rs` 217-338, `publication.rs` | branches and version tags of the remote, version tags of each clone; per run the observed branches, planned versions, chunk | observe, number the versions, push a chunk atomically under leases, keep the tags | versions are immutable and gapless; branch and tag appear together; clones never disagree on a version; a run reports only what exists |
| Remote observation | `remote.rs` | none | batched `ls-remote` | leases are values the remote really had |
| Pre-push run | `mod.rs` 72-125, 346-504 | pull requests on GitHub; per run those it looked up | look up, refuse ended ones, publish, create, update | no write before a refusal; GitHub after git; one open pull request per commit; success means synced; a repeat repairs an interruption |
| Reconciliation | `reconcile.rs` | none | stack links, minimal update | base, parent and child follow the stack |
| GitHub operations | `github.rs` | none | documents and decoding | one pull request is selected or the run stops; results go to the operations they belong to |
| Adaptive batches | `batching.rs`, `mod.rs` 653-749 | cursor, batch length | accept, halve, give up | each operation at most once, in order, and an end |
| Body | `body.rs` | none | render | links lead to versions and pull requests that exist |
| Commit collection | `mod.rs` 127-214, `util.rs` 269-302, `autosquash.rs` | none | walk, trailers, checks | exactly the commits missing from the default branch, oldest first; a refusal has a cause |
| commit-msg hook | `commit_msg.rs` | commit message | add an identifier | a change keeps its identifier and shares it with no other |
| Branch management | `manage.rs` | `branch.<name>.*` configuration | manage, unmanage, post-checkout | user edits are not overwritten; no half managed branch |
| Installation | `install.rs` | hook files | install | foreign hooks are kept; success means all hooks work |
| Repository helpers | `util.rs` | none | HEAD, default branch, token, remote | a rebase still belongs to its branch |
| CI cascade | `ci/*.sh`, `action.yml` | branch and base of the child of a merged pull request | edit base, rebase, push | the child follows onto `main`; nobody's push is undone; what was merged stays as it is |
| Test infrastructure | `testutil/`, `test_git.rs` | a mock of GitHub, faults to inject, a record of pushes | answer, fault, record | an injected fault is noticed; the record is the pushes that were made |
| Command line | `lib.rs`, `main.rs`, `process.rs` | none | dispatch | one command per process |

The parts meet in four places that nobody locks as a whole: the remote's refs
(runs of several users, the cascade), the tags of a clone (several runs,
`git fetch`), the pull requests on GitHub (runs, users who merge and close, the
cascade) and the process itself, which can end between any two writes. The hard
behaviours are the interleavings of these writes, values that are read early and
used late (local versions, observed branches, looked-up pull requests, the body in
the event that starts a cascade job, the local default branch), atomic
pushes that succeed in one chunk and fail in the next, and repeats after an
interruption. `PROJECT.json` lists them as hazards, each at its line.

## Modules

| Module | What it is |
|---|---|
| `PatchHistory` | abstract: what version tags promise. One append-only history per identifier; a clone extends a history only if it knows its end |
| `Publication` | `push_to_origin` step by step, for several runs in several clones, with fetches, crashes and the cascade's push |
| `PrePush` | the whole hook: extends `Publication` with lookup, refusal, creation and update of pull requests on GitHub |
| `Cascade` | extends `PrePush` with the jobs that a merge starts |
| `BatchedGraphql` | the request loop of `run_batched_graphql` |
| `MockGithub` | the server of the tests: its answers, faults, limit and record |
| `TestedRun` | extends both: the requests and git commands of a command under test |
| `Collection` | `collect_commits` and `commits_between` as operators on a history, with their reference definitions |
| `LocalStack` | extends it: a user's work with git, the hooks, and pull requests that land |
| `ManageBranch` | the configuration of one branch under `manage`, `unmanage`, the post-checkout hook, users and git |
| `Install` | the hook files under `gherrit install` and users |
| `MC*` | values of the constants for TLC |
| `PublicationProofs`, `PrePushProofs`, `CascadeProofs`, `BatchedGraphqlProofs`, `TestedRunProofs`, `LocalStackProofs`, `ManageBranchProofs`, `InstallProofs` | theorems |

Definitions named "Mutation of ..." are faulty variants of the definition that
follows them; no specification uses them. Each one is a plausible bug, and the
property it is paired with in `PROJECT.json` fails when it takes the
definition's place.

### Publication

`branch` and `tag` are the remote's refs, `localTag` those of each clone. A run
`p` goes through the values of `pc`:

| Action | Code |
|---|---|
| `Start` | `push_to_origin` is called with a collected stack |
| `ObserveBatch` | one `git ls-remote` for at most `QueryBatchLen` identifiers (`remote.rs` 10-34) |
| `PlanTarget` | one turn of the loop over a chunk: local version plus one, lease from the observation. The version is read from the clone at this moment, not when the run began |
| `SendUpdates` | `git push` compares its leases with the refs the server advertises. A ref that has the pushed value already is *up to date*: it is not sent and its lease is not looked at |
| `ApplyPush` | the server updates all refs that were sent or none, if they still are what the push was prepared against |
| `Reject` | the push fails, at git or at the server; `bail!` |
| `Persist` | the tags are written to the clone. The code drops errors (`let _ =`), so any subset may be written |
| `Finish`, `Crash` | the run returns; or ends at any point |
| `Fetch` | a user's `git fetch`: tags that point at a fetched tip come for sure, other tags may follow |
| `CascadeCheckout`, `CascadePush` | the CI job rebases the tip it checked out and force-pushes with a lease |

`ReadVersion` includes 0 for clones in `Unreadable`: the code reads any error of
the reference iterator as "no version" (`unwrap_or(0)`).

### PrePush

`prs` is GitHub's list of pull requests; a body is the record of what it states
(commit, version, parent, child, numbers of the stack's pull requests), not its
text. `phase` is where `run` is: `LookupOne` for each commit, `StopNonOpen` or
`StartPush`, the steps of `Publication`, then `CreateOne` for every commit
without a pull request and `UpdateOne` for every one whose observed title, body
or base differs from the wanted one. What the run updates is decided from `seen`,
the pull requests as they were looked up before the push, as in the code.
GitHub executes one mutation at a time; it refuses a second open pull request
with the same head and base, a base that does not exist, and a change of base of
a pull request that is not open. After an error the operations of the same batch
may still be executed, then the run ends (`GithubError`). `Kill` ends a run
anywhere. `EndPr` is a user who merges the bottom of a stack or closes anything.
`quiet[p]` is a history variable: nobody but `p` wrote to the remote or to GitHub
since `p` began. `Begin` sets it, whatever happened before the run.

`UsersNext` is `Publication` without the cascade, `RunsNext` is `PrePush` without
the users who merge: `Cascade` says itself what follows a merge, and the runs of
`Publication` and `PrePush` have no job that nothing has started. The requests of
one phase are merged into one list: that a batch is one request, halved under
limits, is `BatchedGraphql`'s subject, and its theorems (at most once each, nothing
beyond the batch that failed) are what allows `PrePush` to execute one operation
at a time.

### Cascade

A job exists for every merged pull request. `body` is the body in the event that
started it, which is what the script parses, so it may be older than what GitHub
shows when the job runs. The steps are those of `rebase_stack_child.sh`:

| Action | Code |
|---|---|
| `Merge` | a user merges the bottom of a stack; the workflow starts the job |
| `JobNoMetadata`, `JobTopOfStack` | `extract_stack_child.sh`: no metadata in a body that no run has rendered; no child |
| `JobListChild` | `gh pr list --head`, one of the open pull requests, or an error |
| `JobCheckout` | `gh pr checkout`: the tip that the lease will compare with |
| `JobEdit` | `gh pr edit --base main`; GitHub refuses it for a pull request that has ended |
| `JobRebase`, `JobPush` | `git rebase`, `git push --force-with-lease` |
| `JobFails` | a conflict, a command that fails, a lost runner, at every step (`set -e`) |

`calm` is a history variable of the job: at the moment of the merge no run was under way,
and no other pull request of the same identifier was open. Without it the
properties are false, as the code has nothing that closes the window between the
lookup of a run and its push (`mod.rs` 114-117): such a run publishes another
version of what has just landed. Two jobs for the same child are taken to run one
after the other.

### BatchedGraphql, MockGithub and TestedRun

`cursor` and `batchLen` are `BatchPlan`; `executed` counts what GitHub did with each
operation. `HalveBatch` needs no reason: the length heuristic forces it, GitHub's
resource limits may cause it at any size. A `RetryLimit` response (no data, only
resource errors) is taken to have executed nothing, as the code takes it; any other
failure may have executed any of the operations of the batch, since GitHub goes
on after one that it refuses.

`MockGithub` is the server the tests run against. A request is one step, because
its handler holds the write lock from the limit to the answer. Too many operations
are refused first, then the fault in front of the queue is looked at, then the
operations are executed one after another, and one that is refused leaves a null
and an error. `RefusesCreate` is stricter than `PrePush`'s GitHub: one open pull
request per head, whatever its base. Candidates of other repositories count in a
page. The log of requests is written and never read by a handler; documents that
fail the schema are refused before anything happens and are left out, as no
document of gherrit's is one.

`TestedRun` runs the pre-push hook's three calls (lookups, creations, updates) through
`BatchedGraphql` against that server, with the git commands of a run and of the
commit-msg hook passing through the interceptor. `CallsAreBatched` is the
refinement: every step of every call is one of `BatchedGraphql`, so what is proved
there holds here. `GitPush` and `Report` are two steps, with a kill possible
between them. `Rival` is another client who opens a pull request for a branch
that is there. A test ends with `TearDown`, which complains of faults that are
left; the test of a command that is killed by its timeout panics.

### Collection and LocalStack

A history is the sequence of commits in the order in which they were made; a commit
has parents, the kind of its message and the values of its trailers. An identifier
is the number of the commit for which the hook made it, which says that the
entropy never collides. `BreadthFirst` is gix's default walk with its queue, `UpTo`
the `take_while`, `Checked` the checks in the order of `collect_commits`: autosquash
prefixes of the whole stack first, then the trailers of each commit, then
duplicates. The trailers are read in batches of 120, which changes nothing.

`LocalStack` lets a user commit, amend, copy a message, merge, rebase commit by
commit onto the local or the remote's default branch, abort, detach HEAD, set the
mode of the branch and create it anew, with the hook or past it (`verify`: not
installed, or `--no-verify`). A picked commit keeps its message without the hook.
`place` is `HeadState`: during a rebase HEAD is detached, and the branch is known
from `head-name`. `Push` is the collection and the lookup for the stack; a merged
pull request in it stops the push. Pull requests land by rebase, squash (whose
commit has no trailers) or merge, and others push to the default branch; `Pull` lets the
local one catch up. `line` and `marks` are history: which change a commit is
a form of, whether the hook named it, and whether its message was copied.

### Install

The hooks are looked at one by one and written one by one. An empty file is what a
write leaves that fails after truncating; validation takes it for a foreign hook.
`fs::write` keeps the mode of a file, so `Chmod` matters for files that exist.
`edited` is history: the hooks that users have touched since the command began,
between its look and its write.

### ManageBranch

`conf` holds `branch.<name>.pushRemote`, `.remote` and `.merge`, `managed` the
state in `.gherritManaged`. A process reads its configuration once, when it opens
the repository, so `SetState` reads, decides and plans in one step; the writes
are one `git config` each, and others may come between them.

| Action | Code |
|---|---|
| `SetState` | `set_state` up to its first write: the kind of transition, the drift check against the *recorded* state, the keys to change (`manage.rs` 200-237) |
| `Manage`, `Unmanage` | the commands (`lib.rs` 115-131); without a mode, `manage` asks for the state the branch has |
| `PostCheckout` | the hook: an unmanaged branch whose newest reflog entry is its creation is classified (`manage.rs` 318-378). `born` stands for that entry |
| `WriteKey`, `FailKey` | one `git config`, and git's refusal of a key with several values or of unsetting one that is not set |
| `WriteState` | `gherritManaged` is recorded last |
| `Stop` | the process ends before its next write |
| `Edit`, `EditState`, `Recreate`, `Commit` | users and git, external |

`Many` stands for a key with several values, the last of which GHerrit would not
write; `MainRef` is a value that git or a user sets. `users` is a history
variable: the keys that users have set to something else than the recorded state
expects, and that GHerrit has not overwritten since; `--force` gives up
the claim on all of them, and so does writing the state by hand. `quiet[p]`: only
`p` has written since it began. A branch is not deleted while a command runs on
it. Detached heads and checkouts of files change nothing and are left out.

## Runs

| Run | Instance | What it shows |
|---|---|---|
| `publication_chunks` | 2 users, 2 clones, stacks of 1 and 2 commits, 1 commit a chunk, 2 versions, unreadable refs | versions immutable and gapless; clones and remote agree; every tip is a tagged version; a run's finished chunks are on the remote under the versions it reports; the inductive invariant `IInv` |
| `publication_overwrite` | 2 users, 2 clones, 1 commit and its amendment | **violation**, see below |
| `prepush_one_user` | 1 user, a stack of 2 and its upper commit amended and moved to `main`, chunks of 1, 3 versions, 2 kills, 2 ended pull requests, fair | one open pull request per commit; GitHub after git; an ended one stops the push; success means synced; repeats repair every interruption; the tags implement `PatchHistory`; the inductive invariant `SyncInv` |
| `prepush_two_users` | 2 users, a commit and its amendment; 2 versions, 2 ended pull requests | runs that overtake each other and ambiguous lookups: what a body says of a version is true of the remote |
| `prepush_two_bases` | 2 users | **violation**, see below |
| `cascade` | 1 user, a commit, a child on it, the child alone again; 2 versions, 1 kill, 2 merged or closed pull requests, fair jobs | the child follows; neither side undoes the other's push; what was merged in a calm moment is final; `CascadeInv` |
| `tested_run` | 3 commits, batches of at most 4, limits of 1, 2 and 9 operations, short, medium and too long documents, 6 seeds, 7 scripts of faults, 2 commands, 1 rival, pages of 2 candidates | operations at most once; lookups are right; success, failures and faults mean what they say; every command ends |
| `local_stack` | 5 commits, plain and `squash!`, without a trailer of their own or with one that is no identifier, all commands | identifiers stay with their change; linear stacks are collected exactly; refusals have causes; nothing landed is pushed; `LocalInv` |
| `local_merge` | 5 plain commits, merges | **violation**, see below |
| `manage_branch` | 2 commands at once, 1 stop, 2 edits of any key or of the state, 3 kinds of new branches | what users set stays until `--force`; a recorded state has its configuration; git refuses only keys with several values; the inductive invariant `ManageInv` |
| `manage_tracking` | 1 command, its hook | **violation**, see below |
| `install` | 3 commands, each with or without `--force`, 2 edits | foreign hooks survive; success is complete; `InstallInv` |

Why the bounds are enough to be interesting: two versions let a version exist
that another run plans, or has planned, and a clone know one of two; two
commits with chunks of one let a chunk succeed and the next fail; two runs are
enough for every race over a ref, since every step involves the state of one run
and the shared refs. The two runs of `publication_chunks` have a clone each; for two runs
in one clone the same invariants rest on the theorems, which hold for every `CloneOf`.
Three versions let two interrupted runs publish and a third
repair. `MaxVersion` is the only bound on histories: a run does not begin, or a
version is not planned, above it. `MaxCrashes` and `MaxEvents` count kills and
ended pull requests. In `cascade` the child is published again after its parent was
merged, before, while and after the job moves it. In `tested_run` a call of three
operations passes under the limit of 9 and is halved to single ones under the
limits of 1 and 2, pages of two are exceeded by three forks, and two commands let
the second meet what the first has left; 100 candidates and 64 operations are the
same code with longer loops. In `local_stack` five commits allow a stack of three
above a commit that lands, an amendment in it and a copy; the violating merge takes
five commits as well. In `manage_branch` two edits and a stop suffice for an edit
before and one during a command that meets a half-written configuration. Three
installations let one repair what another left and a third meet an edit.

Symmetry is used where it is sound: the two commands of `manage_branch` are
interchangeable, and so are the two users of `publication_chunks`, each together
with his clone; neither run checks liveness. Deadlock is not checked:
at the bounds, and after a finished test, a system has nothing left to do.

### Fairness

- `PrePush`'s `FairSpec` (`prepush_one_user`): a process that is not
  killed goes on (`WF` of `RunNext`); the user runs `git push` again
  (`WF` of `Begin`) and follows the advice of the error message and of README.md
  to fetch (`WF` of `FetchTags`). There is no fairness on kills or on what others
  do, and no stack is favoured: `Converges` says that from any state in which a run
  begins and nothing is killed any more, *some* stack the user pushes is synced,
  unless somebody ends a pull request. Clones are readable there; with references
  that can never be read, every push of an amended commit is refused for ever.
- `Cascade`'s `CascadeFairSpec`: a runner goes on with its jobs (`WF` of the steps
  of all jobs). Nothing makes users push, and `JobFails` may come at any time: `ChildFollows`
  allows a failed job, which the workflow shows.
- `TestedRun`'s `TestedSpec`: a command that is running goes on (`WF` of its steps); a
  request is answered or fails. No fairness on the test or its timeout.
- `ManageBranch`'s `FairSpec` (`manage_tracking`): the branch is checked out again
  and again, so that its hook runs, and commands go on.

## What was found

Four statements of the documentation are not what the code does; each has a run.

1. **A push can undo a version its clone never saw** (`publication_overwrite`).
   README.md describes the lease on the version tag as a lock that fails when
   somebody has pushed that version. git skips the lease of a ref that already has
   the pushed value. After `v1 = c1` and `v2 = c2`, a clone without local tags
   that pushes `c1` plans `v1`, finds the tag up to date, and its branch lease,
   observed a moment ago, holds: the branch goes back to `c1`.
2. **Two open pull requests for one commit** (`prepush_two_bases`): two runs that
   place a commit on different bases both find no pull request and both create
   one. Every later run for that commit then stops as ambiguous.
3. **A branch made from `origin/main` is never managed** (`manage_tracking`): git
   lets it track `main`, the hook recognises it as a new stack, and the drift
   check takes the tracking keys for manual changes.
4. **A stack with a merge is not collected as it is** (`local_merge`): when the user
   has merged the remote's default branch into the stack and then updates the local
   default branch, the walk from the merge meets its tip before the older commits of
   the stack. These are left out of the push, although one of them may be the parent of
   a commit that is pushed, or have no identifier and would stop the run in a linear stack.

What the models make visible beyond these, without a run of its own:

- A slow run puts a description back: the tag lock does not cover the GitHub phase,
  whose updates are planned from the version the run has published itself and from
  pull requests looked up before it. A run that is overtaken between its push and its
  update writes title and body of the earlier version over those of the later. They are
  true of a published version (`prepush_two_users`) and stay until the next push.
- A push of a stack that is already synced writes: the version is incremented
  whether or not anything changed (`mod.rs` 229-234), so each repeat tags the same
  commit again and rewrites the body, although `agent_docs/testing.md` 27 says that it
  "performs no writes when the observed state already matches the desired state".
- A pull request that is merged before its run has rendered its body has no
  metadata, and its cascade job fails: the child stays where it is.
- After `gherrit unmanage`, the next checkout of a branch without commits of its own
  manages it again, because the hook treats "unmanaged" like "not configured"
  while the newest reflog entry is the branch's creation.
- `--force` cannot repair a key with several values, which `git config` refuses to
  replace after earlier keys were written (`RefusedOnlyMany` says that nothing else
  stops it).
- A write of a hook that fails leaves an empty file, which the next `gherrit install`
  refuses as an unmanaged hook; `--force` gets past it.

## Proofs

The theorems hold for every value of the constants that satisfies the named
assumptions: any number of runs, clones, commits, identifiers, any batch lengths
above zero and any stack without duplicate identifiers (which `collect_commits`
checks). Some of them say in their `ASSUME` for whom they hold:

| Hypothesis | What it says | Without it |
|---|---|---|
| `OneRun` | one run at a time; it may be killed anywhere and the next one follows | two runs create two pull requests (`prepush_two_bases`) or put a branch back (`publication_overwrite`) |
| `OneClone` | all runs work in one clone | another clone publishes versions that this one plans below |
| `Readable` | git lists the clone's tags when it is asked to | every stack is planned as version 1 |
| `FixedBases` | no two stacks place a commit on different bases | `prepush_two_bases` |
| `RebasedOnce` | what the cascade rebases a rebased commit to is that commit | a branch could be any number of rebases away |

The runs of one user (`prepush_one_user`, `cascade`) satisfy the first three and the
last, so the hypotheses are those of worlds that TLC goes through.

### Publication

`PublicationProofs` proves `IInv` invariant and derives the properties from it.
The argument: a version is planned only by a clone that has the tag before it
(`PlanInv`), local tags are remote tags (`LocalTagsPublished`), and remote tags
never move, so when the tag lease holds, the version before the planned one
exists and the planned one does not: the history grows at its end
(`VersionsContiguous`). A tag that was skipped as up to date has the planned
value, and keeps it because tags never move (`SendInv`); so after `ApplyPush`
every target of the chunk is tagged with its planned version, which is what
`Persist` copies and what `RunPublished` and `BranchIsPublishedVersion` need.
`ChunkInv` ties the targets to the positions of the stack, and duplicate
identifiers are excluded by assumption; without it one commit's version would
overwrite another's. The refinement of `PatchHistory` maps `tag` to sequences
(`Newest` is the length, by `VersionsContiguous`) and the newest local tag to
`known`, and shows each step to be a `Publish`, a `Learn` or a stutter.

In one clone a version can only be published on top of one the clone knows
(`KnownBelow`), so nothing is above what a run has planned (`UpperInv`). With one
run at a time every branch is then at its newest version (`AtNewest`): a run that
was killed between the push and its local tags leaves a clone that is one version behind, and
the next run either finds that tag up to date, with the branch where it should be, or is refused.
`NoBlindOverwriteOneRun` follows at the push. With a second run, even in the same
clone, a branch may move away and back between the observation and the push.

### The whole hook

`PrePushProofs` shows that every step of the whole hook is a step of
`Publication` or leaves its variables alone (`PrePushImplementsPublication`), so
all theorems of `Publication` hold of the hook. On top it proves `SyncInv`, which
ties the phase of a run to its publication (`PhaseInv`) and what the run has seen
to GitHub's list (`SeenInv`). The run that steps keeps its own part (`RunAfter`);
for the others the step changes nothing they speak of, pull requests keep number
and head, and tags never move, which is what a body that was true needs to stay
true. That bodies name published versions is one conjunct: an update is written
in a phase in which the whole stack is published (`WriterFacts`), and the tags
below a published version exist because versions have no gap. `PublishedBeforeGitHub`
also needs the base branches to exist; git may send a tag without its branch, so
`BranchInv` carries through the push that a branch that is not sent is there.

`OneOpenPr` has two theorems, because there are two reasons for it. With one run at a
time, what the run takes for missing is missing until it creates it (`OpenInv`). With
any number of runs on fixed bases, a pull request has the base that the stacks give
its commit (`BaseInv`), and GitHub refuses a second one for the same head and base.

`NoPushToClosed` and `SyncedWhenDone` are about runs that nobody disturbs (`quiet`).
`KnowsInv` says what such a run still knows, phase by phase: in the lookup that what it has seen is
what there is; while it pushes and creates, that what it has seen is open and the only
one; while it updates, that each commit before its position has the text it should and
each after it is as it was seen. `NoPushToClosed` needs no
more. For `SyncedWhenDone` `TipInv` adds that the branches are where the run has put
them and that its versions are the newest ones.

### The cascade

`CascadeProofs` first shows that a step of the cascade is a step of `Publication`
and keeps `SyncInv`, so bodies stay true. Then `CascadeInv`: for an
identifier that was merged in a calm moment nothing is open, and no run that works
on it has come further than its lookup (`Ended`). A run that looks it up
later finds no open pull request but an ended one, so it stops; a run that had looked
before was not under way, which is what `calm` says. No run can then create,
publish or update for it (`MergedIsFinal`), and a child that was moved off it is not
moved back, because a run that would move it has the merged parent in its stack.

`TipIsCurrent` for one run at a time and any number of jobs: a job moves a branch only to
the rebase of what is there, and a branch that the push leaves alone is still at the target or its
rebase when the server applies the push (`SentInv`).

### Requests

`BatchedGraphqlProofs` proves that what GitHub has executed is the accepted
prefix, extended at most once by some of the batch that failed. `TestedRunProofs`
carries this over to the three calls of a run against the mock: each is a behaviour
of that loop from its beginning (`CallsAreBatched`), so the theorems hold of each. For
the creations this takes that the operations are as many as the commits without a pull
request (`PlaceFacts`, `MissingFacts`). `RecordInv` follows a push from git to the record;
`FaultInv` counts faults, commands and failures: a command that meets a fault fails before
it can meet another.

`SyncInv` is about what a run knows and what the server has. Its core is `InCall`: after `n`
operations of a call the pull requests of the server are what the run knows already
(`Believed`), with the first `n` creations (`Filled`) or updates (`Revised`) added. One operation
keeps that (`QueryStep`, `CreationStep`, `RevisionStep`), so do those of a batch that has
none refused (`Going`, `GoesOn`), and the batches put together whatever their sizes.
`LookupFindsTheOne` and `SyncedWhenPushed` follow at the end of a call. For
`FailedWithCause` it is shown that a run meets no refusal of its own making (`NotRefused`: nothing
is created twice, what is updated is there, the bases have been pushed), that a
lookup which does not decode has more than one candidate or a page that is cut off
(`UndecodableFacts`), and that only a single document that is too long is given up
(`OneTooLong`). The other client may open a pull request at any step (`RivalKeeps`).
The assumptions are that a test seeds pull requests with numbers of their own, that a stack does not
have a commit twice, and that a request may have one operation and one byte at least.

### Local histories

`LocalStackProofs` proves `KeyInv`: whatever git does to a commit keeps its trailers
and its line, and the hook writes only the number of a commit that is new, so that
an identifier names one change. `StableKey` follows by comparing two commits.

`Ancestors` is a recursive function, and that it is what its recursion says needs a
function that solves it: `Closure` is one (`ClosureStep`, `ReachStep`). Induction over
a history is by its least counterexample (`FirstCommit`). A history that gets longer
leaves what its commits reach (`ReachKept`), so a landing adds only what it brings
(`LandedMore`), and `LandedInv` holds: what the remote's default branch has is of merged
pull requests or has no identifier. Nothing without an identifier is collected, so
`LandedNotPushed` follows from the lookup.

`CollectsMissing` is about what the walk computes. `WalkExists` gives the recursive function
of its steps; `LinearWalkStep` is the induction: on a linear history the walk is at one commit and has been
at exactly those that this one does not reach, later ones first (`Visited`). It takes as many
steps as there are commits at most, so it gets everywhere (`LinearWalk`), and cut at
the ancestor and reversed it is what the ancestor has not, parents first
(`LinearBetween`).

`RefusedWithCause` is about histories with merges too, where the walk starts from both
parents of a merge and what it finds before the ancestor need not be what the ancestor has not.
`CauseInv` says what histories can look like. A merge is one of a default branch, of
which the branch had something to gain, or lands a pull request of one commit on such a branch,
or is a pick of one (`MergeInv`). The default branches have commits made
elsewhere at their tip, and otherwise only copies and what landed by merge (`TrunkInv`). Two uncopied forms of one
change are below `head`, or `tip`, only when one of them is below a landed merge, and a rebase
has neither two forms of one change to apply nor one that its target has (`FreshInv`).
A hooked commit has an identifier (`HookedInv`). The proof has one lemma per action
(`CommitKeeps`, `AmendKeeps`, `CopyKeeps`, `MergeKeeps`, `StartRebaseKeeps`, `PickKeeps`,
`PushKeeps`, `LandPrKeeps`, `LandOnKeeps`); every conjunct also holds in all states of the instance
that `LocalStack.cfg` gives.

`RefusedWithCause` then has two cases. If the stack has a commit made elsewhere, that one has
no trailer of the hook and is a copy: it is the cause. If not, each commit of the push that has
the ancestor below it has it below a single parent, or is a merge of the ancestor itself, as the
first parent or as the second next to a commit of the push (`WayToTrunk`). The walk then
meets the ancestor before anything below it (`ApproachStep`, `ApproachBetween`), what it
has found by then is the push's own and nothing twice (`TidyStep`), and a commit of these without an
identifier is one that was made without the hook. Two of them with one identifier are by `KeyInv`
copies, which are a cause, or two forms of one change, which `FreshInv` allows only below a
landed merge, itself a copy of the push.

### Commands on configuration and hooks

`InstallProofs` proves `InstallInv`: where nobody edits, what validation has found
and what has been written is still so; both properties follow at the step that
writes and at the one that returns.

`ManageBranchProofs` proves `ManageInv`. `UserValuesKept` needs two facts about
every command under way: one that writes keys began with a configuration that
was the recorded state's, or with `--force`, so no user's key is left to it
(`UsersInv`); one that records `unmanaged` on a branch that was never managed
writes nothing, so a key that was drift before is drift after, both states
expecting no value. `RecordedIsApplied` needs `AppliedInv`: while nobody disturbs
a command, each key is either still to be written or as it should be, whatever
the command found; `RefusedOnlyMany` uses the other direction, that every key still
to be written differs from what it is to be. The theorems need only that GHerrit's own values differ from
"not set" and "several values".

### Only model-checked

- Liveness (`Converges`, `ChildFollows`, `CommandEnds`), which is beyond the prover. Every other
  property of a passing run is stated by a theorem.
- The violations, which are counterexamples and need no proof.

## Not modelled

- Texts: messages, the layout of bodies, their size limit and the sparse table of
  versions, JSON, the parsing of `ls-remote` lines and of remote addresses.
- Tokens, remotes other than the default one, the search for the default branch, and GitHub's
  habit of closing pull requests whose head becomes part of their base.
- The client library repeats requests by itself after some errors; a request
  here is executed once. A killed client's last request is taken to be executed before
  the kill or not at all.
- `ManageBranch` knows one branch. `LocalStack` has its state as managed, unmanaged or unset and
  not its other keys.
- Of the test infrastructure: the checks of a document against GitHub's schema
  (`mock_server.rs` 235-540), the environment, directories and repositories of a
  fixture, the normalisation of output for snapshots, the thread of the server. They
  have no state that commands could disagree about.
- The command line, which keeps no state.

Parts without a module of their own are listed with their reasons in `PROJECT.json`.

## What is left

- Sizes of bodies as arithmetic over the number of versions.
