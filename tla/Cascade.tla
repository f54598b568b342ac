------------------------------ MODULE Cascade ------------------------------
(***************************************************************************)
(* The cascade composed with runs of the hook: when a pull request is      *)
(* merged, a job of ci/rebase_stack_child.sh reads the child from the body *)
(* that the pull request had at that moment, moves the child's pull        *)
(* request onto the default branch, rebases its branch and force-pushes    *)
(* it.  A job takes its steps while runs of the hook take theirs, and may  *)
(* fail at each of them.                                                   *)
(***************************************************************************)
EXTENDS PrePush

CONSTANT RebaseOf  \* the commit that a rebase makes of every commit

ASSUME RebaseAssumption ==
  /\ RebaseOf \in [Commits -> Rebased]
  /\ \A c \in Commits : GidOf[RebaseOf[c]] = GidOf[c]

VARIABLE jobs  \* one job for every merged pull request

cascadeVars == <<vars, jobs>>

Steps == {"list", "checkout", "edit", "rebase", "push", "done", "failed"}

\* body is in the event that started the job; pr is the child's pull request,
\* 0 before it is known; calm is a history variable: when the parent was merged
\* no run was under way and it was the only open one for its identifier.
Jobs == [parent : Nat, body : Bodies, pr : Nat, step : Steps, calm : BOOLEAN]

Child(j) == j.body.child
ParentOf(j) == prs[j.parent].head

To(j, s) == jobs' = (jobs \ {j}) \cup {[j EXCEPT !.step = s]}

-----------------------------------------------------------------------------
(* Merging *)

Calm(n) == /\ \A p \in Procs : phase[p] = "idle"
           /\ Open(prs[n].head) = {n}

Merge(n) ==
  /\ EndPr(n, "MERGED")
  /\ jobs' = jobs \cup {[parent |-> n, body |-> prs[n].body, pr |-> 0,
                         step |-> "list", calm |-> Calm(n)]}

\* The job is skipped when the pull request was not merged.
Close(n) == EndPr(n, "CLOSED") /\ UNCHANGED jobs

-----------------------------------------------------------------------------
(* A job *)

\* A body that no run has rendered yet has no metadata.
JobNoMetadata(j) ==
  /\ j.step = "list"
  /\ j.body.version = 0
  /\ To(j, "failed")
  /\ UNCHANGED vars

JobTopOfStack(j) ==
  /\ j.step = "list"
  /\ j.body.version # 0 /\ Child(j) = NoGid
  /\ To(j, "done")
  /\ UNCHANGED vars

\* gh pr list --head, the first of the open pull requests.
JobListChild(j) ==
  /\ j.step = "list"
  /\ j.body.version # 0 /\ Child(j) # NoGid
  /\ IF Open(Child(j)) = {}
       THEN To(j, "failed")
       ELSE \E n \in Open(Child(j)) :
              jobs' = (jobs \ {j}) \cup {[j EXCEPT !.step = "checkout", !.pr = n]}
  /\ UNCHANGED vars

\* gh pr checkout.  Two jobs for one child are taken to run one after the other.
JobCheckout(j) ==
  /\ j.step = "checkout"
  /\ \A k \in jobs : Child(k) = Child(j) => k.step \notin {"edit", "rebase", "push"}
  /\ CascadeCheckout(Child(j))
  /\ To(j, "edit")
  /\ UNCHANGED <<prs, syncVars, quiet, countVars>>

\* Mutation of JobEdit: the base of the child is left alone.
JobEditNothing(j) ==
  /\ j.step = "edit"
  /\ To(j, "rebase")
  /\ UNCHANGED vars

\* gh pr edit --base main.
JobEdit(j) ==
  /\ j.step = "edit"
  /\ IF CanUpdate(j.pr, {"base"}, Main)
       THEN /\ prs' = [prs EXCEPT ![j.pr].base = Main]
            /\ quiet' = [p \in Procs |-> FALSE]
            /\ To(j, "rebase")
       ELSE /\ To(j, "failed")
            /\ UNCHANGED <<prs, quiet>>
  /\ UNCHANGED <<pubVars, syncVars, countVars>>

\* git rebase origin/main without a conflict.
JobRebase(j) ==
  /\ j.step = "rebase"
  /\ To(j, "push")
  /\ UNCHANGED vars

\* Mutation of JobPush: the branch is pushed without a lease.
JobPushForced(j) ==
  LET g == Child(j)
  IN /\ j.step = "push"
     /\ branch' = [branch EXCEPT ![g] = RebaseOf[ci[g]]]
     /\ ci' = [ci EXCEPT ![g] = NoRef]
     /\ To(j, "done")
     /\ quiet' = [p \in Procs |-> FALSE]
     /\ UNCHANGED <<tag, localTag, runVars, prs, syncVars, countVars>>

\* git push --force-with-lease, against the tip that was checked out.
JobPush(j) ==
  LET g == Child(j)
  IN /\ j.step = "push"
     /\ CascadePush(g)
     /\ IF branch[g] = ci[g] THEN branch'[g] = RebaseOf[ci[g]] /\ To(j, "done")
                             ELSE To(j, "failed")
     /\ quiet' = [p \in Procs |-> FALSE]
     /\ UNCHANGED <<prs, syncVars, countVars>>

\* A conflict, a command that fails or a runner that is lost: what the job has
\* done stays.
JobFails(j) ==
  /\ j.step \notin {"done", "failed"}
  /\ To(j, "failed")
  /\ UNCHANGED vars

JobStep(j) ==
  \/ JobNoMetadata(j) \/ JobTopOfStack(j) \/ JobListChild(j) \/ JobCheckout(j)
  \/ JobEdit(j) \/ JobRebase(j) \/ JobPush(j)

-----------------------------------------------------------------------------
(* The system *)

CascadeInit == Init /\ jobs = {}

CascadeNext ==
  \/ RunsNext /\ UNCHANGED jobs
  \/ \E n \in Numbers : Merge(n) \/ Close(n)
  \/ \E j \in jobs : JobStep(j) \/ JobFails(j)

CascadeSpec == CascadeInit /\ [][CascadeNext]_cascadeVars

\* A runner goes on with its job.
CascadeFairSpec == CascadeSpec /\ WF_cascadeVars(\E j \in jobs : JobStep(j))

-----------------------------------------------------------------------------
(* Properties *)

JobsTypeOK ==
  /\ jobs \subseteq Jobs
  /\ \A j \in jobs :
       /\ j.parent \in Numbers /\ prs[j.parent].state = "MERGED"
       /\ j.pr \in Numbers \cup {0} /\ (j.step = "list" => j.pr = 0)
       /\ j.step \in {"checkout", "edit", "rebase", "push"} =>
            Child(j) \in Gids /\ j.pr # 0

\* What was merged in a calm moment is final, although runs and jobs that begin
\* later may work with stacks that hold it: it gets no other version, nobody
\* opens or changes a pull request for it, and only a cascade of its own parent
\* moves its branch.
MergedIsFinal ==
  [][\A j \in jobs : j.calm =>
       LET g == ParentOf(j)
       IN /\ tag'[g] = tag[g]
          /\ branch'[g] \in Rebased \cup {branch[g]}
          /\ \A n \in 1..Len(prs') : prs'[n].head = g =>
               n \in Numbers /\ prs'[n] = prs[n]]_cascadeVars

\* A child that a job has moved onto the default branch never goes back onto the
\* branch of its merged parent, whatever stacks users push from then on.
RetargetedForGood ==
  \A j \in jobs : j.calm /\ j.step \in {"rebase", "push", "done"} /\ j.pr # 0 =>
    prs[j.pr].base # ParentOf(j)

\* Neither the hook nor the cascade undoes what the other has pushed: the tip of
\* a branch is the newest version or the rebase of it.
TipIsCurrent ==
  \A g \in Gids :
    LET newest == Newest(tag[g])
    IN IF newest = 0 THEN branch[g] = NoRef
       ELSE branch[g] \in {tag[g][newest], RebaseOf[tag[g][newest]]}

\* The child of a pull request merged in a calm moment leaves its branch, or the
\* job has failed.
ChildFollows ==
  \A g, h \in Gids :
    (\E j \in jobs : j.calm /\ j.step = "list" /\ ParentOf(j) = h /\ Child(j) = g)
    ~> \/ \A n \in Open(g) : prs[n].base # h
       \/ \E j \in jobs : ParentOf(j) = h /\ Child(j) = g /\ j.step = "failed"

-----------------------------------------------------------------------------
(* The inductive invariant, on top of SyncInv *)

\* Nothing is open for the identifier g of a pull request merged in a calm
\* moment, a run that works on g has not come further than its lookup, and what
\* it has found there will stop it.
Ended(g) ==
  /\ Open(g) = {} /\ Historical(g) # {}
  /\ \A p \in Procs : \A i \in 1..Len(want[p]) : GidAt(want[p], i) = g =>
       /\ phase[p] = "lookup"
       /\ i <= step[p] => seen[p][g] # NoPr /\ seen[p][g].pr.state # "OPEN"

CascadeInv ==
  /\ JobsTypeOK
  /\ \A j \in jobs : j.calm => Ended(ParentOf(j))
  /\ RetargetedForGood
=============================================================================
