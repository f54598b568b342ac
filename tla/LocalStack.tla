---------------------------- MODULE LocalStack ----------------------------
(***************************************************************************)
(* The local side of GHerrit: a user works on one branch with git, the     *)
(* commit-msg hook (src/commit_msg.rs) gives the commits their             *)
(* identifiers, and the pre-push hook collects the stack (Collection).     *)
(* The hooks act only on a managed branch and where HEAD still belongs to  *)
(* a branch (HeadState in src/util.rs), and each may be missing (Install). *)
(* Meanwhile pull requests land on the default branch of the remote, and   *)
(* the local one lags behind.                                              *)
(***************************************************************************)
EXTENDS Collection

CONSTANTS
  MaxCommits,  \* bound: commits that are made
  Messages,    \* what users may write: the kind and their own trailers
  Merging      \* users merge the remote's default branch into theirs

ASSUME LocalAssumption ==
  /\ MaxCommits \in Nat
  /\ Messages \subseteq [kind : Kinds, ids : Seq({BadId})]
  /\ Merging \in BOOLEAN

VARIABLES
  commits,  \* the history of the clone and the remote
  head,     \* the commit of HEAD
  place,    \* what HEAD is: HeadState
  tip,      \* the commit of the branch
  todo,     \* the commits a rebase has still to apply
  main,     \* refs/heads/<default>, and the same branch of the remote
  mode,     \* gherritManaged of the branch
  open,     \* the commits with an open pull request, as they were pushed
  merged    \* the identifiers with a merged one

gitVars == <<commits, head, place, tip, todo, main>>
githubVars == <<open, merged>>
localVars == <<gitVars, mode, githubVars>>

\* Of every commit the history also says which one it is a later form of (line),
\* and whether the commit-msg hook had to give it an identifier and whether its
\* message was copied (marks).
CommitTypes == [parents : Seq(Nat), kind : Kinds, ids : Seq(Nat),
                line : Nat, marks : SUBSET {"hooked", "copy"}]

Hooked(c) == "hooked" \in commits[c].marks
Copied(c) == "copy" \in commits[c].marks

New == Len(commits) + 1
Has(c) == Reach(commits, c)
Missing(from, to) ==
  LET missing == Has(from) \ Has(to)
  IN {c \in Indices(commits) : c \in missing}
Own == Missing(head, main.local)

\* The stack that a push from here would be about.
Collected == Collect(commits, main.local, head)

-----------------------------------------------------------------------------
(* The commit-msg hook *)

\* Mutation of HookSkips: a rebase counts as a detached HEAD.
HookSkipsPending(kind) ==
  \/ place \in {"Detached", "Pending"}
  \/ mode = "unmanaged"
  \/ kind = "squash"

HookSkips(kind) ==
  \/ place = "Detached"
  \/ mode = "unmanaged"
  \/ kind = "squash"

\* A commit is refused when nobody has decided whether the branch is managed.
HookFails == place # "Detached" /\ mode = "unset"

\* Mutation of MessageIds: the trailer is added without --if-exists doNothing.
MessageIdsAdded(kind, ids) ==
  IF HookSkips(kind) THEN ids ELSE <<New>> \o ids

\* The trailers of the message after the hook.
MessageIds(kind, ids) ==
  IF HookSkips(kind) \/ ids # << >> THEN ids ELSE <<New>>

-----------------------------------------------------------------------------
(* Users and git *)

\* HEAD moves to a new commit, and its branch does when it is on one.
MoveHead(c) ==
  /\ head' = c
  /\ tip' = IF place = "Attached" THEN c ELSE tip

\* A commit with this message is made on HEAD, or in its place.  Its message goes
\* through the commit-msg hook (verify) unless that is not installed or --no-verify
\* is given.
Make(parents, kind, ids, verify, was) ==
  /\ Len(commits) < MaxCommits
  /\ verify => ~HookFails
  /\ commits' = Append(commits,
       [parents |-> parents, kind |-> kind,
        ids |-> IF verify THEN MessageIds(kind, ids) ELSE ids,
        line |-> was.line,
        marks |-> was.marks \cup
          {m \in {"hooked"} : /\ verify /\ ids = << >> /\ kind # "squash"
                              /\ place # "Detached" /\ mode = "managed"}])
  /\ MoveHead(New)
  /\ UNCHANGED <<place, todo, main, mode, githubVars>>

\* What a commit is a later form of.
Nothing == [line |-> New, marks |-> {}]

Commit(m, verify) == Make(<<head>>, m.kind, m.ids, verify, Nothing)

Amend(kind, verify) ==
  /\ head \in Own
  /\ Make(commits[head].parents, kind, commits[head].ids, verify, commits[head])

\* git commit -C, git cherry-pick: the message of another commit.
Copy(c, verify) ==
  /\ c \in Own
  /\ Make(<<head>>, commits[c].kind, commits[c].ids, verify,
          [commits[c] EXCEPT !.marks = @ \cup {"copy"}])

Merge(verify) ==
  /\ Merging /\ place = "Attached"
  /\ main.remote \notin Has(head) /\ head \notin Has(main.remote)
  /\ Make(<<head, main.remote>>, "plain", << >>, verify, Nothing)

\* git rebase onto the local default branch or the remote's.
StartRebase(onto) ==
  /\ place = "Attached" /\ Linear(commits, head)
  /\ Missing(head, onto) # {}
  /\ todo' = Missing(head, onto)
  /\ place' = "Pending"
  /\ head' = onto
  /\ UNCHANGED <<commits, tip, main, mode, githubVars>>

\* The next commit, parents first, is applied, or dropped.
Following == CHOOSE c \in todo : \A d \in todo : c <= d

Pick ==
  /\ place = "Pending" /\ todo # {} /\ Len(commits) < MaxCommits
  /\ commits' = Append(commits, [commits[Following] EXCEPT !.parents = <<head>>])
  /\ head' = New
  /\ todo' = todo \ {Following}
  /\ UNCHANGED <<place, tip, main, mode, githubVars>>

Drop ==
  /\ place = "Pending" /\ todo # {}
  /\ todo' = todo \ {Following}
  /\ UNCHANGED <<commits, head, place, tip, main, mode, githubVars>>

FinishRebase ==
  /\ place = "Pending" /\ todo = {}
  /\ place' = "Attached" /\ tip' = head
  /\ UNCHANGED <<commits, head, todo, main, mode, githubVars>>

AbortRebase ==
  /\ place = "Pending"
  /\ place' = "Attached" /\ head' = tip /\ todo' = {}
  /\ UNCHANGED <<commits, tip, main, mode, githubVars>>

Detach ==
  /\ place = "Attached"
  /\ place' = "Detached"
  /\ UNCHANGED <<commits, head, tip, todo, main, mode, githubVars>>

\* git checkout -B
Reattach ==
  /\ place = "Detached"
  /\ place' = "Attached" /\ tip' = head
  /\ UNCHANGED <<commits, head, todo, main, mode, githubVars>>

\* The branch is created anew, and the post-checkout hook manages it, or is not
\* installed.
Recreate ==
  /\ place = "Attached" /\ head = main.local
  /\ mode' \in {"managed", "unset"} \ {mode}
  /\ UNCHANGED <<gitVars, githubVars>>

\* gherrit manage, gherrit unmanage
SetMode(m) ==
  /\ place # "Detached" /\ mode # m
  /\ mode' = m
  /\ UNCHANGED <<gitVars, githubVars>>

Pull ==
  /\ main.local # main.remote
  /\ main' = [main EXCEPT !.local = main.remote]
  /\ UNCHANGED <<commits, head, place, tip, todo, mode, githubVars>>

-----------------------------------------------------------------------------
(* The pre-push hook and GitHub *)

Ids(S) == UNION {Range(commits[c].ids) : c \in S}

\* Mutation of Pushes: the pull requests are not looked up.
PushesUnseen ==
  /\ place # "Detached" /\ mode = "managed"
  /\ Collected.stack # << >>

\* run, up to the push: nothing is pushed for a stack with a merged pull request.
Pushes ==
  /\ place # "Detached" /\ mode = "managed"
  /\ Collected.stack # << >>
  /\ Ids(Range(Collected.stack)) \cap merged = {}

Push ==
  LET stack == Range(Collected.stack)
  IN /\ Pushes
     /\ open' = {c \in open : Ids({c}) \cap Ids(stack) = {}} \cup stack
     /\ UNCHANGED <<gitVars, mode, merged>>

\* A commit that was made elsewhere.
Foreign(parents, ids, line) ==
  [parents |-> parents, kind |-> "plain", ids |-> ids, line |-> line,
   marks |-> {"copy"}]

\* The default branch of the remote gets a commit.
Land(commit, ids) ==
  /\ Len(commits) < MaxCommits
  /\ commits' = Append(commits, commit)
  /\ main' = [main EXCEPT !.remote = New]
  /\ open' = {c \in open : Ids({c}) \cap ids = {}}
  /\ merged' = merged \cup ids
  /\ UNCHANGED <<head, place, tip, todo, mode>>

\* The pull request of c, the bottom of its stack, is merged: as a copy of the
\* commit, squashed into one without its trailers, or by a merge.
LandPr(c, how) ==
  /\ c \in open
  /\ Missing(c, main.remote) \subseteq {c}
  /\ Land(CASE how = "merge" -> Foreign(<<main.remote, c>>, << >>, New)
            [] how = "rebase" -> Foreign(<<main.remote>>, commits[c].ids, New)
            [] how = "squash" -> Foreign(<<main.remote>>, << >>, New),
          Ids({c}))

LandOther == Land(Foreign(<<main.remote>>, << >>, New), {})

-----------------------------------------------------------------------------
(* The system *)

Init ==
  /\ commits = <<Foreign(<< >>, << >>, 1)>>
  /\ head = 1 /\ tip = 1 /\ place = "Attached" /\ todo = {}
  /\ main = [local |-> 1, remote |-> 1]
  /\ mode = "unset"
  /\ open = {} /\ merged = {}

UserStep ==
  \/ \E verify \in BOOLEAN :
       \/ \E m \in Messages : Commit(m, verify) \/ Amend(m.kind, verify)
       \/ \E c \in Own : Copy(c, verify)
       \/ Merge(verify)
  \/ \E onto \in {main.local, main.remote} : StartRebase(onto)
  \/ Pick \/ Drop \/ FinishRebase \/ AbortRebase
  \/ Detach \/ Reattach \/ Recreate \/ Pull
  \/ \E m \in {"managed", "unmanaged"} : SetMode(m)

Next ==
  \/ UserStep
  \/ Push
  \/ \E c \in Indices(commits), how \in {"rebase", "squash", "merge"} : LandPr(c, how)
  \/ LandOther

Spec == Init /\ [][Next]_localVars

-----------------------------------------------------------------------------
(* Properties *)

\* On a linear history a push is about exactly the commits that the default
\* branch has not, parents first, and it is refused as not based on it only when
\* it is not.
CollectsMissing ==
  Linear(commits, head) =>
    /\ Collected.why = "notAncestor" <=> main.local \notin Has(head)
    /\ Collected.why = "none" =>
         IsOrderOf(commits, Collected.stack, Between(commits, main.local, head))

\* The same for every history, with merges as well.
PreservesTopology ==
  Collected.why = "none" =>
    IsOrderOf(commits, Collected.stack, Between(commits, main.local, head))

\* A push is refused for a missing identifier only if a commit was made without
\* the hook, and for a duplicate one only if a message was copied.
RefusedWithCause ==
  /\ Collected.why = "missing" => \E c \in Own : ~Hooked(c)
  /\ Collected.why = "duplicate" => \E c \in Own : Copied(c)

\* A commit that has landed on the remote is never pushed again, however far the
\* local default branch lags behind.
LandedNotPushed ==
  Pushes => Range(Collected.stack) \cap Has(main.remote) = {}

\* The identifier is a stable key: what the hook gave to a change stays with all
\* later forms of it, and no other change has it, except by copying messages.
StableKey ==
  \A c, d \in Indices(commits) :
    LET first == commits[c].line
    IN Hooked(first) /\ ~Copied(d) /\ commits[d].ids # << >> =>
         (commits[d].ids = commits[first].ids <=> commits[d].line = first)

-----------------------------------------------------------------------------
(* The inductive invariant *)

LocalTypeOK ==
  /\ commits \in Seq(CommitTypes)
  /\ \A c \in Indices(commits) :
       /\ Range(commits[c].parents) \subseteq 1..(c - 1)
       /\ Range(commits[c].ids) \subseteq 0..c
       /\ commits[c].line \in 1..c
  /\ {head, tip} \cup todo \subseteq Indices(commits)
  /\ main \in [local : Indices(commits), remote : Indices(commits)]
  /\ place \in {"Attached", "Pending", "Detached"}
  /\ mode \in {"managed", "unmanaged", "unset"}
  /\ merged \subseteq Nat

\* An identifier is the number of the commit for whose message the hook made it:
\* a form of the same change, but for copies.
KeyAt(c) ==
  /\ commits[commits[c].line].line = commits[c].line
  /\ Hooked(commits[c].line) => commits[c].ids = <<commits[c].line>>
  /\ ~Copied(c) =>
       \A g \in Range(commits[c].ids) \ {BadId} : commits[g].line = commits[c].line

KeyInv == \A c \in Indices(commits) : KeyAt(c)

LocalInv == LocalTypeOK /\ KeyInv
=============================================================================
