------------------------------ MODULE PrePush ------------------------------
(***************************************************************************)
(* A whole `gherrit hook pre-push` run on a managed branch (`run` in       *)
(* src/pre_push/mod.rs): it looks up the pull request of every commit,     *)
(* stops if one of them is closed or merged, publishes branches and        *)
(* version tags (module Publication), creates the missing pull requests    *)
(* and updates the title, body and base of the others from what it looked  *)
(* up at the start.  GitHub executes one operation at a time, and a run    *)
(* may end between any two; pull requests are merged and closed meanwhile. *)
(***************************************************************************)
EXTENDS Publication

CONSTANTS
  Main,        \* the default branch
  NoGid,       \* stands for no parent or no child
  NoPr,        \* stands for no pull request
  MaxCrashes,  \* bound: runs that are killed
  MaxEvents    \* bound: pull requests that users merge or close

ASSUME NamesAssumption ==
  Main \notin Gids /\ NoGid \notin Gids /\ MaxCrashes \in Nat /\ MaxEvents \in Nat

VARIABLES
  prs,      \* the pull requests, by number
  phase,    \* where every run is
  want,     \* the stack it has collected
  seen,     \* prs: the pull request found or created for each identifier
  step,     \* the last operation of the current list that GitHub has executed
  err,      \* GitHub has reported an error for one of them
  quiet,    \* history: nobody else has written anything since the run began
  crashes,  \* killed runs
  events    \* merged and closed pull requests

syncVars == <<phase, want, seen, step, err>>
countVars == <<crashes, events>>
vars == <<pubVars, prs, syncVars, quiet, countVars>>

Phases == {"idle", "lookup", "push", "create", "update"}

\* A body is the commit's message alone, or the rendered one: with the pull
\* requests of the stack, the table that links to the versions up to the last
\* and the identifiers of parent and child.
Message(c) ==
  [commit |-> c, version |-> 0, parent |-> NoGid, child |-> NoGid, links |-> << >>]
Bodies == [commit : Commits, version : 0..MaxVersion,
           parent : Gids \cup {NoGid}, child : Gids \cup {NoGid}, links : Seq(Nat)]
PullRequests == [head : Gids, base : Gids \cup {Main},
                 state : {"OPEN", "CLOSED", "MERGED"}, title : Commits, body : Bodies]

Numbers == 1..Len(prs)
Open(g) == {n \in Numbers : prs[n].head = g /\ prs[n].state = "OPEN"}
Historical(g) == {n \in Numbers : prs[n].head = g /\ prs[n].state # "OPEN"}

\* What a run knows of a pull request: the state in which it was looked up.
Entries == [number : Nat, pr : PullRequests]
Entry(n) == [number |-> n, pr |-> prs[n]]
NoneSeen == [g \in Gids |-> NoPr]

ASSUME NoPrAssumption == NoPr \notin Entries

-----------------------------------------------------------------------------
(* The stack and the wanted pull requests *)

GidAt(s, i) == GidOf[s[i]]

\* link_stack: parent, child and base of the i-th commit.
ParentAt(s, i) == IF i = 1 THEN NoGid ELSE GidAt(s, i - 1)
ChildAt(s, i) == IF i = Len(s) THEN NoGid ELSE GidAt(s, i + 1)
BaseAt(s, i) == IF i = 1 THEN Main ELSE GidAt(s, i - 1)

Body(s, i, version, numbers) ==
  [commit |-> s[i], version |-> version, parent |-> ParentAt(s, i),
   child |-> ChildAt(s, i), links |-> numbers]

\* Mutation of DesiredBody: the version is counted again after the push.
DesiredBodyRecounted(p, i) ==
  LET s == stack[p]
  IN Body(s, i, LocalVersion(CloneOf[p], GidAt(s, i)) + 1,
          [j \in 1..Len(s) |-> seen[p][GidAt(s, j)].number])

DesiredBody(p, i) ==
  LET s == stack[p]
  IN Body(s, i, next[p][GidAt(s, i)],
          [j \in 1..Len(s) |-> seen[p][GidAt(s, j)].number])

\* Mutation of Changes: the base is not compared.
ChangesWithoutBase(p, i) ==
  LET s == stack[p]
      pr == seen[p][GidAt(s, i)].pr
  IN {f \in {"title", "body"} : \/ f = "title" /\ pr.title # s[i]
                                \/ f = "body" /\ pr.body # DesiredBody(p, i)}

\* plan_update: the fields in which the observed pull request differs.
Changes(p, i) ==
  LET s == stack[p]
      g == GidAt(s, i)
      pr == seen[p][g].pr
  IN {f \in {"title", "body", "base"} :
        \/ f = "title" /\ pr.title # s[i]
        \/ f = "body" /\ pr.body # DesiredBody(p, i)
        \/ f = "base" /\ pr.base # BaseAt(s, i)}

\* The operations that are still to be executed, of creations and of updates.
ToCreate(p) == {i \in (step[p] + 1)..Len(stack[p]) : seen[p][GidAt(stack[p], i)] = NoPr}
ToUpdate(p) == {i \in (step[p] + 1)..Len(stack[p]) : Changes(p, i) # {}}
First(S) == CHOOSE i \in S : \A j \in S : i <= j

-----------------------------------------------------------------------------
(* What GitHub accepts *)

BaseExists(b) == b = Main \/ branch[b] # NoRef

\* One open pull request for a head and a base.
Taken(g, b) == \E n \in Open(g) : prs[n].base = b

Create(g, b, c) ==
  prs' = Append(prs, [head |-> g, base |-> b, state |-> "OPEN", title |-> c,
                      body |-> Message(c)])

\* The base of a pull request that is not open cannot be changed.
CanUpdate(n, F, b) ==
  "base" \in F =>
    /\ prs[n].state = "OPEN" /\ BaseExists(b)
    /\ \A m \in Open(prs[n].head) \ {n} : prs[m].base # b

\* The pull request pr with the fields in F changed.
Updated(pr, F, title, body, base) ==
  [pr EXCEPT !.title = IF "title" \in F THEN title ELSE @,
             !.body = IF "body" \in F THEN body ELSE @,
             !.base = IF "base" \in F THEN base ELSE @]

-----------------------------------------------------------------------------
(* A run *)

Init ==
  /\ PubInit
  /\ prs = << >>
  /\ phase = [p \in Procs |-> "idle"]
  /\ want = [p \in Procs |-> << >>]
  /\ seen = [p \in Procs |-> NoneSeen]
  /\ step = [p \in Procs |-> 0]
  /\ err = [p \in Procs |-> FALSE]
  /\ quiet = [p \in Procs |-> TRUE]
  /\ crashes = 0
  /\ events = 0

\* Others can no longer take the world for what it was when they began.
Disturb(p) == quiet' = [q \in Procs |-> q = p /\ quiet[q]]

ToIdle(p) ==
  /\ phase' = [phase EXCEPT ![p] = "idle"]
  /\ want' = [want EXCEPT ![p] = << >>]
  /\ seen' = [seen EXCEPT ![p] = NoneSeen]
  /\ step' = [step EXCEPT ![p] = 0]
  /\ err' = [err EXCEPT ![p] = FALSE]
  /\ UNCHANGED quiet

\* collect_commits.  A run begins only below the version bound.
Begin(p, s) ==
  /\ phase[p] = "idle"
  /\ \A i \in 1..Len(s) : Newest(tag[GidAt(s, i)]) < MaxVersion
  /\ phase' = [phase EXCEPT ![p] = "lookup"]
  /\ want' = [want EXCEPT ![p] = s]
  /\ quiet' = [quiet EXCEPT ![p] = TRUE]
  /\ UNCHANGED <<pubVars, prs, seen, step, err, countVars>>

LookedUp(p) == phase[p] = "lookup" /\ step[p] = Len(want[p])
Looking(p) == phase[p] = "lookup" /\ step[p] < Len(want[p])

\* Mutation of Found: only pull requests onto the default branch are looked at.
FoundOnMain(g) ==
  {n \in IF Open(g) # {} THEN Open(g) ELSE Historical(g) : prs[n].base = Main}

\* Mutation of Found: pull requests that are not open are not looked for.
FoundOpen(g) == Open(g)

\* FindPullRequest: the only open pull request, else the only historical one.
Found(g) == IF Open(g) # {} THEN Open(g) ELSE Historical(g)

LookupOne(p) ==
  LET g == GidAt(want[p], step[p] + 1)
  IN /\ Looking(p)
     /\ Cardinality(Found(g)) <= 1
     /\ seen' = [seen EXCEPT ![p][g] =
                   IF Found(g) = {} THEN NoPr ELSE Entry(First(Found(g)))]
     /\ step' = [step EXCEPT ![p] = @ + 1]
     /\ UNCHANGED <<pubVars, prs, phase, want, err, quiet, countVars>>

LookupAmbiguous(p) ==
  /\ Looking(p)
  /\ Cardinality(Found(GidAt(want[p], step[p] + 1))) > 1
  /\ ToIdle(p)
  /\ UNCHANGED <<pubVars, prs, countVars>>

\* Mutation of AllOpen: only merged pull requests stop the run.
NoneMerged(p) == \A g \in Gids : seen[p][g] # NoPr => seen[p][g].pr.state # "MERGED"

\* ensure_pull_requests_open
AllOpen(p) == \A g \in Gids : seen[p][g] # NoPr => seen[p][g].pr.state = "OPEN"

StartPush(p) ==
  /\ LookedUp(p)
  /\ AllOpen(p)
  /\ Start(p, want[p])
  /\ phase' = [phase EXCEPT ![p] = "push"]
  /\ UNCHANGED <<prs, want, seen, step, err, quiet, countVars>>

StopNonOpen(p) ==
  /\ LookedUp(p)
  /\ ~AllOpen(p)
  /\ ToIdle(p)
  /\ UNCHANGED <<pubVars, prs, countVars>>

\* push_to_origin: its steps before and after the server applies a push.
PushStep(p) ==
  /\ phase[p] = "push"
  /\ ObserveBatch(p) \/ PlanTarget(p) \/ SendUpdates(p)
  /\ UNCHANGED <<prs, syncVars, quiet, countVars>>

PushApplied(p) ==
  /\ phase[p] = "push"
  /\ ApplyPush(p)
  /\ Disturb(p)
  /\ UNCHANGED <<prs, syncVars, countVars>>

PushRejected(p) ==
  /\ phase[p] = "push"
  /\ Reject(p)
  /\ ToIdle(p)
  /\ UNCHANGED <<prs, countVars>>

\* Mutation of PushPersisted: GitHub is written to after the first chunk.
PushPersistedOnce(p) ==
  /\ phase[p] = "push"
  /\ Persist(p)
  /\ phase' = [phase EXCEPT ![p] = "create"]
  /\ step' = [step EXCEPT ![p] = 0]
  /\ Disturb(p)
  /\ UNCHANGED <<prs, want, seen, err, countVars>>

PushPersisted(p) ==
  /\ phase[p] = "push"
  /\ Persist(p)
  /\ IF pc'[p] = "published"
       THEN /\ phase' = [phase EXCEPT ![p] = "create"]
            /\ step' = [step EXCEPT ![p] = 0]
       ELSE UNCHANGED <<phase, step>>
  /\ Disturb(p)
  /\ UNCHANGED <<prs, want, seen, err, countVars>>

\* One createPullRequest.  Its pull request is taken to be open from then on.
CreateOne(p) ==
  LET i == First(ToCreate(p))
      g == GidAt(stack[p], i)
      b == BaseAt(stack[p], i)
  IN /\ phase[p] = "create" /\ ToCreate(p) # {}
     /\ step' = [step EXCEPT ![p] = i]
     /\ IF BaseExists(b) /\ ~Taken(g, b)
          THEN /\ Create(g, b, stack[p][i])
               /\ seen' = [seen EXCEPT ![p][g] =
                             [number |-> Len(prs'), pr |-> prs'[Len(prs')]]]
               /\ UNCHANGED err
          ELSE /\ err' = [err EXCEPT ![p] = TRUE]
               /\ UNCHANGED <<prs, seen>>
     /\ Disturb(p)
     /\ UNCHANGED <<pubVars, phase, want, countVars>>

AllCreated(p) ==
  /\ phase[p] = "create" /\ ToCreate(p) = {} /\ ~err[p]
  /\ phase' = [phase EXCEPT ![p] = "update"]
  /\ step' = [step EXCEPT ![p] = 0]
  /\ UNCHANGED <<pubVars, prs, want, seen, err, quiet, countVars>>

\* One updatePullRequest, of the fields that differed when they were looked up.
UpdateOne(p) ==
  LET i == First(ToUpdate(p))
      g == GidAt(stack[p], i)
      n == seen[p][g].number
      F == Changes(p, i)
  IN /\ phase[p] = "update" /\ ToUpdate(p) # {}
     /\ step' = [step EXCEPT ![p] = i]
     /\ IF CanUpdate(n, F, BaseAt(stack[p], i))
          THEN /\ prs' = [prs EXCEPT ![n] =
                    Updated(@, F, stack[p][i], DesiredBody(p, i), BaseAt(stack[p], i))]
               /\ UNCHANGED err
          ELSE /\ err' = [err EXCEPT ![p] = TRUE]
               /\ UNCHANGED prs
     /\ Disturb(p)
     /\ UNCHANGED <<pubVars, phase, want, seen, countVars>>

Complete(p) ==
  /\ phase[p] = "update" /\ ToUpdate(p) = {} /\ ~err[p]
  /\ Finish(p)
  /\ ToIdle(p)
  /\ UNCHANGED <<prs, countVars>>

\* An error of GitHub ends the run at the end of the batch it occurred in.
GithubError(p) ==
  /\ err[p]
  /\ Finish(p)
  /\ ToIdle(p)
  /\ UNCHANGED <<prs, countVars>>

\* The run is killed or one of its requests gets no answer.
Kill(p) ==
  /\ phase[p] # "idle"
  /\ crashes < MaxCrashes
  /\ crashes' = crashes + 1
  /\ IF pc[p] = "idle" THEN UNCHANGED pubVars ELSE Crash(p)
  /\ ToIdle(p)
  /\ UNCHANGED <<prs, events>>

RunNext(p) ==
  \/ LookupOne(p) \/ LookupAmbiguous(p) \/ StartPush(p) \/ StopNonOpen(p)
  \/ PushStep(p) \/ PushApplied(p) \/ PushRejected(p) \/ PushPersisted(p)
  \/ CreateOne(p) \/ AllCreated(p) \/ UpdateOne(p)
  \/ Complete(p) \/ GithubError(p)

-----------------------------------------------------------------------------
(* The users and GitHub *)

FetchTags(cl) ==
  /\ Fetch(cl)
  /\ UNCHANGED <<prs, syncVars, quiet, countVars>>

\* The bottom pull request of a stack is merged, or any one is closed.
EndPr(n, how) ==
  /\ events < MaxEvents
  /\ prs[n].state = "OPEN"
  /\ how = "MERGED" => prs[n].base = Main
  /\ prs' = [prs EXCEPT ![n].state = how]
  /\ events' = events + 1
  /\ quiet' = [p \in Procs |-> FALSE]
  /\ UNCHANGED <<pubVars, syncVars, crashes>>

RunsNext ==
  \/ \E p \in Procs : (\E s \in Stacks : Begin(p, s)) \/ RunNext(p) \/ Kill(p)
  \/ \E cl \in Clones : FetchTags(cl)

Next ==
  \/ RunsNext
  \/ \E n \in Numbers : EndPr(n, "MERGED") \/ EndPr(n, "CLOSED")

Spec == Init /\ [][Next]_vars

\* The user repeats the push, fetching when it is refused.
Fairness ==
  /\ \A p \in Procs : /\ WF_vars(\E s \in Stacks : Begin(p, s))
                      /\ WF_vars(RunNext(p))
  /\ \A cl \in Clones : WF_vars(FetchTags(cl))

FairSpec == Spec /\ Fairness

-----------------------------------------------------------------------------
(* Properties *)

SyncTypeOK ==
  /\ TypeOK
  /\ prs \in Seq(PullRequests)
  /\ phase \in [Procs -> Phases]
  /\ want \in [Procs -> Stacks \cup {<< >>}]
  /\ seen \in [Procs -> [Gids -> Entries \cup {NoPr}]]
  /\ step \in [Procs -> Nat]
  /\ \A p \in Procs : step[p] <= Len(want[p])
  /\ err \in [Procs -> BOOLEAN] /\ quiet \in [Procs -> BOOLEAN]
  /\ crashes \in Nat /\ events \in Nat

\* One pull request is open for an identifier, however runs were interrupted.
OneOpenPr == \A g \in Gids : Cardinality(Open(g)) <= 1

\* Every body that GitHub shows describes a commit that was published as the
\* version it names, and the table in it links to versions that all exist.
BodyVersionPublished ==
  \A n \in Numbers :
    LET g == prs[n].head
        body == prs[n].body
    IN /\ \A v \in 1..body.version : tag[g][v] # NoRef
       /\ body.version # 0 => tag[g][body.version] = body.commit

\* GitHub is written to only when all chunks of the stack are on the remote,
\* each commit as the version the run planned, and all bases exist.
PublishedBeforeGitHub ==
  \A p \in Procs : phase[p] \in {"create", "update"} =>
    \A i \in 1..Len(want[p]) :
      LET g == GidAt(want[p], i)
      IN branch[g] # NoRef /\ tag[g][next[p][g]] = want[p][i]

\* What a run has seen are pull requests for the identifier it looked for.
SeenInv(p) ==
  \A g \in Gids : seen[p][g] # NoPr =>
    seen[p][g].number \in Numbers /\ prs[seen[p][g].number].head = g

\* How the phases of a run fit its publication, and which pull requests it has
\* when it writes to GitHub.
PhaseInv(p) ==
  LET has(i) == seen[p][GidAt(want[p], i)] # NoPr
  IN /\ phase[p] = "idle" <=> want[p] = << >>
     /\ phase[p] \in {"idle", "lookup"} <=> pc[p] = "idle"
     /\ phase[p] \in {"create", "update"} <=> pc[p] = "published"
     /\ pc[p] # "idle" => stack[p] = want[p]
     /\ pc[p] = "published" => done[p] = Len(want[p])
     /\ phase[p] = "create" /\ ~err[p] => \A i \in 1..step[p] : has(i)
     /\ phase[p] = "update" => \A i \in 1..Len(want[p]) : has(i)

\* The inductive invariant, on top of Publication's.
SyncInv ==
  /\ SyncTypeOK
  /\ \A p \in Procs : SeenInv(p) /\ PhaseInv(p)
  /\ BodyVersionPublished

\* A run that nobody disturbs pushes nothing when one of the pull requests of
\* its stack is closed or merged, not even the other commits.
NoPushToClosed ==
  [][\A p \in Procs : PushApplied(p) /\ quiet[p] =>
       \A i \in 1..Len(stack[p]) :
         LET g == GidAt(stack[p], i)
         IN Open(g) # {} \/ Historical(g) = {}]_vars

\* What a push of the stack s is for.
Synced(s) ==
  LET g(i) == GidAt(s, i)
      pr(i) == prs[First(Open(g(i)))]
      version(i) == Newest(tag[g(i)])
  IN /\ \A i \in 1..Len(s) : Cardinality(Open(g(i))) = 1
     /\ \A i \in 1..Len(s) :
          /\ branch[g(i)] = s[i]
          /\ version(i) # 0 /\ tag[g(i)][version(i)] = s[i]
          /\ pr(i).title = s[i]
          /\ pr(i).base = BaseAt(s, i)
          /\ pr(i).body = Body(s, i, version(i),
                               [j \in 1..Len(s) |-> First(Open(g(j)))])

\* A run that succeeds undisturbed leaves every commit of its stack published
\* under its newest version, with one open pull request that says so.
SyncedWhenDone ==
  [][\A p \in Procs : Complete(p) /\ quiet[p] => Synced(stack[p])]_vars

\* A run that begins after the last interruption, wherever the interrupted ones
\* stopped, is the start of a synced stack, unless users end a pull request: then
\* every run for it stops until they have reopened it.
Converges ==
  \A p \in Procs :
    phase[p] = "lookup" /\ crashes = MaxCrashes ~>
      \/ \E s \in Stacks : Synced(s)
      \/ \E n \in Numbers : prs[n].state # "OPEN"
=============================================================================
