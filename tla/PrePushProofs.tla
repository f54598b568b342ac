---------------------------- MODULE PrePushProofs ----------------------------
(* Theorems about PrePush: the hook does to the remote and to the clones what *)
(* Publication does, and what it tells GitHub of versions is true.            *)
EXTENDS PrePush, PublicationProofs, FiniteSetTheorems

-----------------------------------------------------------------------------
(* The hook implements publication *)

\* A run that looks up pull requests has collected one of the stacks.
WantInv ==
  /\ phase \in [Procs -> Phases]
  /\ want \in [Procs -> Stacks \cup {<< >>}]
  /\ \A p \in Procs : phase[p] = "lookup" => want[p] \in Stacks

LEMMA WantInit == Init => WantInv
BY DEF Init, WantInv, Phases

LEMMA WantStep == WantInv /\ [Next]_vars => WantInv'
<1> SUFFICES ASSUME WantInv, [Next]_vars PROVE WantInv' OBVIOUS
<1> USE DEF WantInv, Phases
<1>1. CASE UNCHANGED <<phase, want>>
  BY <1>1
<1>2. ASSUME NEW p \in Procs, ToIdle(p) PROVE WantInv'
  BY <1>2 DEF ToIdle
<1>3. ASSUME NEW p \in Procs, NEW s \in Stacks, Begin(p, s) PROVE WantInv'
  BY <1>3 DEF Begin
<1>4. ASSUME NEW p \in Procs, NEW to \in {"push", "create", "update"},
             phase' = [phase EXCEPT ![p] = to], UNCHANGED want
      PROVE  WantInv'
  BY <1>4
<1>5. ASSUME NEW p \in Procs, RunNext(p)
      PROVE  \/ UNCHANGED <<phase, want>>
             \/ ToIdle(p)
             \/ \E to \in {"push", "create", "update"} :
                  phase' = [phase EXCEPT ![p] = to] /\ UNCHANGED want
  BY <1>5 DEF RunNext, LookupOne, LookupAmbiguous, StartPush, StopNonOpen, PushStep,
              PushApplied, PushRejected, PushPersisted, CreateOne, AllCreated,
              UpdateOne, Complete, GithubError, syncVars
<1>6. ASSUME NEW p \in Procs, Kill(p) PROVE ToIdle(p)
  BY <1>6 DEF Kill
<1>7. \/ UNCHANGED <<phase, want>>
      \/ \E p \in Procs : (\E s \in Stacks : Begin(p, s)) \/ RunNext(p) \/ Kill(p)
  BY DEF Next, RunsNext, FetchTags, EndPr, syncVars, vars
<1> QED BY <1>1, <1>2, <1>3, <1>4, <1>5, <1>6, <1>7

LEMMA StepIsPub == WantInv /\ [Next]_vars => [PubNext]_pubVars
<1> SUFFICES ASSUME WantInv, [Next]_vars PROVE [PubNext]_pubVars OBVIOUS
<1>1. ASSUME NEW p \in Procs, NEW s \in Stacks, Begin(p, s) PROVE UNCHANGED pubVars
  BY <1>1 DEF Begin
<1>2. ASSUME NEW p \in Procs, RunNext(p)
      PROVE  \/ UNCHANGED pubVars
             \/ StartPush(p) /\ Start(p, want[p])
             \/ RunStep(p)
  BY <1>2 DEF RunNext, LookupOne, LookupAmbiguous, StartPush, StopNonOpen, PushStep,
              PushApplied, PushRejected, PushPersisted, CreateOne, AllCreated,
              UpdateOne, Complete, GithubError, RunStep
<1>3. ASSUME NEW p \in Procs, StartPush(p) PROVE want[p] \in Stacks
  BY <1>3 DEF StartPush, LookedUp, WantInv
<1>4. ASSUME NEW p \in Procs, Kill(p) PROVE UNCHANGED pubVars \/ Crash(p)
  BY <1>4 DEF Kill
<1>5. ASSUME NEW cl \in Clones, FetchTags(cl) PROVE Fetch(cl)
  BY <1>5 DEF FetchTags
<1>6. ASSUME NEW n \in Numbers, EndPr(n, "MERGED") \/ EndPr(n, "CLOSED")
      PROVE  UNCHANGED pubVars
  BY <1>6 DEF EndPr
<1>7. CASE UNCHANGED vars
  BY <1>7 DEF vars
<1> QED BY <1>1, <1>2, <1>3, <1>4, <1>5, <1>6, <1>7 DEF Next, RunsNext, PubNext, UsersNext

\* Every behaviour of the hook is one of Publication, as far as refs and tags are
\* concerned: what is proved of Publication holds of whole runs.
THEOREM PrePushImplementsPublication == Spec => PubSpec
<1>1. Init => PubInit BY DEF Init
<1> QED BY <1>1, WantInit, WantStep, StepIsPub, PTL DEF Spec, PubSpec

\* So the invariant of Publication holds during whole runs.
LEMMA PublicationInvariance == Spec => []IInv
BY PrePushImplementsPublication, Invariance, PTL

-----------------------------------------------------------------------------
(* What a run tells GitHub *)

LEMMA FirstFacts ==
  ASSUME NEW S \in SUBSET Nat, S # {}
  PROVE  First(S) \in S /\ \A j \in S : First(S) <= j
BY LeastNat DEF First

\* A run that writes to GitHub has published its whole stack.
LEMMA WriterFacts ==
  ASSUME IInv, SyncInv, NEW p \in Procs, phase[p] \in {"create", "update"}
  PROVE  /\ stack[p] = want[p] /\ want[p] \in Seq(Commits)
         /\ \A i \in 1..Len(want[p]) :
              LET g == GidAt(want[p], i)
              IN /\ want[p][i] \in Commits /\ g \in Gids
                 /\ next[p][g] \in Versions
                 /\ tag[g][next[p][g]] = want[p][i]
<1>1. pc[p] = "published" /\ stack[p] = want[p] /\ done[p] = Len(want[p])
  BY DEF SyncInv, PhaseInv
<1>2. TypeOK /\ RunPublished(p) BY DEF IInv, RunInv
<1>3. /\ stack[p] \in Seq(Commits)
      /\ \A i \in 1..Len(stack[p]) : stack[p][i] \in Commits /\ GidOf[stack[p][i]] \in Gids
  BY <1>2, StackFacts
<1> QED BY <1>1, <1>2, <1>3 DEF RunPublished, GidAt

\* What link_stack gives for a commit of a stack.
LEMMA LinkFacts ==
  ASSUME NEW s \in Seq(Commits), NEW i \in 1..Len(s)
  PROVE  /\ ParentAt(s, i) \in Gids \cup {NoGid}
         /\ ChildAt(s, i) \in Gids \cup {NoGid}
         /\ BaseAt(s, i) \in Gids \cup {Main}
<1>1. \A j \in 1..Len(s) : GidAt(s, j) \in Gids
  BY ActorsAssumption DEF GidAt
<1>2. (i # 1 => i - 1 \in 1..Len(s)) /\ (i # Len(s) => i + 1 \in 1..Len(s))
  OBVIOUS
<1> QED BY <1>1, <1>2 DEF ParentAt, ChildAt, BaseAt

\* The pull request and the body that an update is about.
LEMMA UpdateFacts ==
  ASSUME IInv, SyncInv, NEW p \in Procs, phase[p] = "update",
         NEW i \in 1..Len(want[p])
  PROVE  LET g == GidAt(want[p], i)
         IN /\ seen[p][g].number \in Numbers
            /\ prs[seen[p][g].number].head = g
            /\ DesiredBody(p, i) \in Bodies
            /\ DesiredBody(p, i).version = next[p][g]
            /\ DesiredBody(p, i).commit = want[p][i]
<1> DEFINE s == want[p]
           g == GidAt(s, i)
           links == [j \in 1..Len(s) |-> seen[p][GidAt(s, j)].number]
<1>1. /\ stack[p] = s /\ s \in Seq(Commits)
      /\ \A j \in 1..Len(s) : s[j] \in Commits /\ GidAt(s, j) \in Gids
      /\ next[p][g] \in Versions
  BY WriterFacts
<1>2. \A j \in 1..Len(s) : seen[p][GidAt(s, j)] # NoPr
  BY DEF SyncInv, PhaseInv
<1>3. \A j \in 1..Len(s) : seen[p][GidAt(s, j)].number \in Nat
  BY <1>1, <1>2 DEF SyncInv, SyncTypeOK, Entries
<1>4. links \in Seq(Nat)
  <2>1. Len(s) \in Nat BY <1>1
  <2> QED BY <1>3, <2>1
<1>5. seen[p][g].number \in Numbers /\ prs[seen[p][g].number].head = g
  BY <1>1, <1>2 DEF SyncInv, SeenInv
<1>6. DesiredBody(p, i) = [commit |-> s[i], version |-> next[p][g],
                           parent |-> ParentAt(s, i), child |-> ChildAt(s, i),
                           links |-> links]
  BY <1>1 DEF DesiredBody, Body
<1>7. DesiredBody(p, i) \in Bodies
  <2> HIDE DEF links
  <2> QED BY <1>1, <1>4, <1>6, LinkFacts, BatchAssumption DEF Bodies, Versions
<1> QED BY <1>5, <1>6, <1>7

-----------------------------------------------------------------------------
(* The pull requests of GitHub *)

\* Pull requests are numbered for good, and keep their head.
PrsKept ==
  /\ Len(prs') >= Len(prs)
  /\ \A n \in Numbers : prs'[n].head = prs[n].head

\* All pull requests are well formed and say the truth about versions.
Truthful(pr) ==
  /\ pr \in PullRequests
  /\ \A v \in 1..pr.body.version : tag[pr.head][v] # NoRef
  /\ pr.body.version # 0 => tag[pr.head][pr.body.version] = pr.body.commit

LEMMA TruthfulKept ==
  ASSUME TagsKept, NEW pr, Truthful(pr)
  PROVE  Truthful(pr)'
<1>1. pr.head \in Gids /\ pr.body.version \in 0..MaxVersion /\ pr.body.commit \in Commits
  BY DEF Truthful, PullRequests, Bodies
<1>2. \A v \in 1..pr.body.version : v \in Versions
  BY <1>1, BatchAssumption DEF Versions
<1>3. pr.body.version # 0 => pr.body.version \in 1..pr.body.version
  BY <1>1, BatchAssumption
<1> QED BY <1>1, <1>2, <1>3, ActorsAssumption DEF Truthful, TagsKept

LEMMA TruthfulPrs ==
  ASSUME prs \in Seq(PullRequests)
  PROVE  BodyVersionPublished <=> \A n \in Numbers : Truthful(prs[n])
BY DEF BodyVersionPublished, Truthful, Numbers

LEMMA PrsCreate ==
  ASSUME IInv, SyncInv, NEW p \in Procs, CreateOne(p)
  PROVE  /\ prs' \in Seq(PullRequests) /\ PrsKept
         /\ \A n \in 1..Len(prs') : Truthful(prs'[n])
<1>1. prs \in Seq(PullRequests) /\ \A n \in Numbers : Truthful(prs[n])
  BY TruthfulPrs DEF SyncInv, SyncTypeOK
<1>2. CASE UNCHANGED prs
  BY <1>1, <1>2 DEF PrsKept, Numbers
<1>3. CASE \E i \in 1..Len(want[p]) :
             Create(GidAt(want[p], i), BaseAt(want[p], i), want[p][i])
  <2>1. PICK i \in 1..Len(want[p]) :
          Create(GidAt(want[p], i), BaseAt(want[p], i), want[p][i])
    BY <1>3
  <2> DEFINE new == [head |-> GidAt(want[p], i), base |-> BaseAt(want[p], i),
                     state |-> "OPEN", title |-> want[p][i], body |-> Message(want[p][i])]
  <2>2. prs' = Append(prs, new) BY <2>1 DEF Create
  <2>3. GidAt(want[p], i) \in Gids /\ want[p][i] \in Commits /\ want[p] \in Seq(Commits)
    BY <2>1, WriterFacts DEF CreateOne
  <2>4. BaseAt(want[p], i) \in Gids \cup {Main} BY <2>3, LinkFacts
  <2>5. Message(want[p][i]) \in Bodies
    BY <2>3, BatchAssumption DEF Message, Bodies
  <2>6. new \in PullRequests /\ new.body.version = 0
    BY <2>3, <2>4, <2>5 DEF PullRequests, Message
  <2>7. Truthful(new) BY <2>6 DEF Truthful
  <2> HIDE DEF new
  <2> QED BY <1>1, <2>2, <2>6, <2>7 DEF PrsKept, Numbers
<1>4. phase[p] = "create" /\ ToCreate(p) # {} BY DEF CreateOne
<1>5. stack[p] = want[p] /\ want[p] \in Seq(Commits) BY <1>4, WriterFacts
<1>6. First(ToCreate(p)) \in 1..Len(want[p])
  <2>1. step[p] \in Nat BY DEF SyncInv, SyncTypeOK
  <2>2. ToCreate(p) \in SUBSET (1..Len(want[p])) BY <1>5, <2>1 DEF ToCreate
  <2>3. ToCreate(p) \in SUBSET Nat BY <1>5, <2>2
  <2> QED BY <1>4, <2>2, <2>3, FirstFacts
<1> QED BY <1>2, <1>3, <1>5, <1>6 DEF CreateOne

LEMMA PrsUpdate ==
  ASSUME IInv, SyncInv, NEW p \in Procs, UpdateOne(p)
  PROVE  /\ prs' \in Seq(PullRequests) /\ PrsKept
         /\ \A n \in 1..Len(prs') : Truthful(prs'[n])
<1>1. prs \in Seq(PullRequests) /\ \A n \in Numbers : Truthful(prs[n])
  BY TruthfulPrs DEF SyncInv, SyncTypeOK
<1>2. CASE UNCHANGED prs
  BY <1>1, <1>2 DEF PrsKept, Numbers
<1>3. phase[p] = "update" /\ ToUpdate(p) # {} BY DEF UpdateOne
<1>4. stack[p] = want[p] /\ want[p] \in Seq(Commits) BY <1>3, WriterFacts
<1> DEFINE i == First(ToUpdate(p))
           g == GidAt(want[p], i)
           n == seen[p][g].number
           F == Changes(p, i)
           new == Updated(prs[n], F, want[p][i], DesiredBody(p, i), BaseAt(want[p], i))
<1>5. i \in 1..Len(want[p])
  <2>1. step[p] \in Nat BY DEF SyncInv, SyncTypeOK
  <2>2. ToUpdate(p) \in SUBSET (1..Len(want[p])) BY <1>4, <2>1 DEF ToUpdate
  <2>3. ToUpdate(p) \in SUBSET Nat BY <1>4, <2>2
  <2> QED BY <1>3, <2>2, <2>3, FirstFacts
<1>6. CASE prs' = [prs EXCEPT ![n] = new]
  <2>1. /\ want[p][i] \in Commits /\ g \in Gids
        /\ next[p][g] \in Versions /\ tag[g][next[p][g]] = want[p][i]
    BY <1>3, <1>5, WriterFacts
  <2>2. /\ n \in Numbers /\ prs[n].head = g
        /\ DesiredBody(p, i) \in Bodies
        /\ DesiredBody(p, i).version = next[p][g]
        /\ DesiredBody(p, i).commit = want[p][i]
    BY <1>3, <1>5, UpdateFacts
  <2>3. BaseAt(want[p], i) \in Gids \cup {Main} BY <1>4, <1>5, LinkFacts
  <2>4. prs[n] \in PullRequests /\ Truthful(prs[n]) BY <1>1, <2>2 DEF Numbers
  <2>5. /\ new \in PullRequests /\ new.head = g
        /\ new.body = DesiredBody(p, i) \/ new.body = prs[n].body
    <3> HIDE DEF i, g, n, F
    <3> QED BY <2>1, <2>2, <2>3, <2>4 DEF Updated, PullRequests
  <2>6. \A v \in 1..next[p][g] : tag[g][v] # NoRef
    <3>1. PICK m \in 0..MaxVersion : IsHistoryLength(g, m)
      BY <2>1 DEF IInv, VersionsContiguous
    <3>2. next[p][g] <= m
      BY <2>1, <3>1, ActorsAssumption DEF IsHistoryLength
    <3> QED BY <2>1, <3>1, <3>2, BatchAssumption DEF IsHistoryLength, Versions
  <2>7. Truthful(new)
    <3>1. CASE new.body = DesiredBody(p, i)
      BY <2>1, <2>2, <2>5, <2>6, <3>1 DEF Truthful
    <3>2. CASE new.body = prs[n].body
      BY <2>2, <2>4, <2>5, <3>2 DEF Truthful
    <3> QED BY <2>5, <3>1, <3>2
  <2> HIDE DEF new, n, g, i
  <2> QED BY <1>1, <1>6, <2>2, <2>5, <2>7 DEF PrsKept, Numbers
<1> QED BY <1>2, <1>4, <1>6 DEF UpdateOne

LEMMA PrsEnd ==
  ASSUME SyncInv, NEW n \in Numbers, EndPr(n, "MERGED") \/ EndPr(n, "CLOSED")
  PROVE  /\ prs' \in Seq(PullRequests) /\ PrsKept
         /\ \A k \in 1..Len(prs') : Truthful(prs'[k])
<1>1. prs \in Seq(PullRequests) /\ \A k \in Numbers : Truthful(prs[k])
  BY TruthfulPrs DEF SyncInv, SyncTypeOK
<1>2. PICK how \in {"MERGED", "CLOSED"} : prs' = [prs EXCEPT ![n].state = how]
  BY DEF EndPr
<1> DEFINE new == [prs[n] EXCEPT !.state = how]
<1>3. prs' = [prs EXCEPT ![n] = new] BY <1>2
<1>4. prs[n] \in PullRequests BY <1>1 DEF Numbers
<1>5. new \in PullRequests /\ new.head = prs[n].head /\ new.body = prs[n].body
  BY <1>4 DEF PullRequests
<1>6. Truthful(new)
  BY <1>1, <1>5 DEF Truthful
<1> HIDE DEF new
<1> QED BY <1>1, <1>3, <1>5, <1>6 DEF PrsKept, Numbers

\* Whatever happens, the pull requests stay what they are and true.
LEMMA PrsStep ==
  ASSUME IInv, SyncInv, [PubNext]_pubVars, [Next]_vars
  PROVE  prs' \in Seq(PullRequests) /\ PrsKept /\ BodyVersionPublished'
<1>1. prs \in Seq(PullRequests) /\ \A n \in Numbers : Truthful(prs[n])
  BY TruthfulPrs DEF SyncInv, SyncTypeOK
<1>2. /\ prs' \in Seq(PullRequests) /\ PrsKept
      /\ \A n \in 1..Len(prs') : Truthful(prs'[n])
  <2>1. CASE UNCHANGED prs
    BY <1>1, <2>1 DEF PrsKept, Numbers
  <2>2. ASSUME NEW p \in Procs, RunNext(p)
        PROVE  UNCHANGED prs \/ CreateOne(p) \/ UpdateOne(p)
    BY <2>2 DEF RunNext, LookupOne, LookupAmbiguous, StartPush, StopNonOpen, PushStep,
                PushApplied, PushRejected, PushPersisted, AllCreated, Complete, GithubError
  <2>3. \/ UNCHANGED prs
        \/ \E p \in Procs : CreateOne(p) \/ UpdateOne(p)
        \/ \E n \in Numbers : EndPr(n, "MERGED") \/ EndPr(n, "CLOSED")
    BY <2>2 DEF Next, RunsNext, vars, Begin, Kill, FetchTags
  <2> QED BY <2>1, <2>3, PrsCreate, PrsUpdate, PrsEnd
<1>3. TagsKept BY TagsKeptStep DEF IInv
<1>4. \A pr \in PullRequests : Truthful(pr) =>
        /\ \A v \in 1..pr.body.version : tag'[pr.head][v] # NoRef
        /\ pr.body.version # 0 => tag'[pr.head][pr.body.version] = pr.body.commit
  <2> SUFFICES ASSUME NEW pr \in PullRequests, Truthful(pr)
               PROVE  Truthful(pr)'
    BY DEF Truthful
  <2> QED BY <1>3, TruthfulKept
<1>5. \A n \in 1..Len(prs') : prs'[n] \in PullRequests /\ Truthful(prs'[n])
  BY <1>2 DEF Truthful
<1>6. BodyVersionPublished'
  <2> HIDE DEF Truthful
  <2> QED BY <1>4, <1>5 DEF BodyVersionPublished, Numbers
<1> QED BY <1>2, <1>6

-----------------------------------------------------------------------------
(* What a run knows *)

\* Everything that a run's own invariants speak of is as before, except its
\* lease and its place in a loop.
Untouched(p) ==
  /\ phase'[p] = phase[p] /\ want'[p] = want[p] /\ seen'[p] = seen[p]
  /\ step'[p] = step[p] /\ err'[p] = err[p]
  /\ pc'[p] = pc[p] /\ stack'[p] = stack[p] /\ done'[p] = done[p]

LEMMA SeenKept ==
  ASSUME SyncTypeOK, PrsKept, NEW p \in Procs, SeenInv(p), seen'[p] = seen[p],
         prs' \in Seq(PullRequests)
  PROVE  SeenInv(p)'
<1>1. \A n \in Numbers : n \in 1..Len(prs') /\ prs'[n].head = prs[n].head
  BY DEF PrsKept, Numbers, SyncTypeOK
<1> QED BY <1>1 DEF SeenInv, Numbers

LEMMA UntouchedKept ==
  ASSUME SyncTypeOK, PrsKept, prs' \in Seq(PullRequests), NEW p \in Procs,
         SeenInv(p), PhaseInv(p), Untouched(p)
  PROVE  SeenInv(p)' /\ PhaseInv(p)'
<1>1. SeenInv(p)' BY SeenKept DEF Untouched
<1>2. PhaseInv(p)' BY DEF PhaseInv, Untouched, GidAt
<1> QED BY <1>1, <1>2

\* The steps of one run touch no other.
LEMMA OthersUntouched ==
  ASSUME SyncTypeOK, NEW p \in Procs, NEW q \in Procs, p # q,
         (\E s \in Stacks : Begin(p, s)) \/ RunNext(p) \/ Kill(p)
  PROVE  Untouched(q)
<1> USE DEF SyncTypeOK, TypeOK
<1>1. /\ phase'[q] = phase[q] /\ want'[q] = want[q] /\ seen'[q] = seen[q]
      /\ step'[q] = step[q] /\ err'[q] = err[q]
  BY DEF Begin, RunNext, Kill, LookupOne, LookupAmbiguous, StartPush, StopNonOpen,
         PushStep, PushApplied, PushRejected, PushPersisted, CreateOne, AllCreated,
         UpdateOne, Complete, GithubError, ToIdle, syncVars
<1>2. pc'[q] = pc[q] /\ stack'[q] = stack[q] /\ done'[q] = done[q]
  BY DEF Begin, RunNext, Kill, LookupOne, LookupAmbiguous, StartPush, StopNonOpen,
         PushStep, PushApplied, PushRejected, PushPersisted, CreateOne, AllCreated,
         UpdateOne, Complete, GithubError, Start, ObserveBatch, PlanTarget, SendUpdates,
         ApplyPush, Reject, Persist, Finish, Crash, Reset, pubVars
<1> QED BY <1>1, <1>2 DEF Untouched

\* A run that is over knows nothing.
LEMMA IdleInv ==
  ASSUME SyncTypeOK, NEW p \in Procs, ToIdle(p), pc'[p] = "idle"
  PROVE  SeenInv(p)' /\ PhaseInv(p)'
<1>1. phase'[p] = "idle" /\ want'[p] = << >> /\ seen'[p] = NoneSeen
  BY DEF ToIdle, SyncTypeOK
<1>2. SeenInv(p)' BY <1>1 DEF SeenInv, NoneSeen
<1>3. PhaseInv(p)' BY <1>1 DEF PhaseInv
<1> QED BY <1>2, <1>3

\* The collected stack of a run, once it has one.
LEMMA WantFacts ==
  ASSUME SyncTypeOK, NEW p \in Procs
  PROVE  /\ want[p] \in Seq(Commits) /\ Len(want[p]) \in Nat
         /\ \A i \in 1..Len(want[p]) : GidAt(want[p], i) \in Gids
<1>1. want[p] \in Stacks \/ want[p] = << >> BY DEF SyncTypeOK
<1>2. want[p] \in Seq(Commits)
  <2>1. << >> \in Seq(Commits) OBVIOUS
  <2> QED BY <1>1, <2>1, StacksAssumption
<1> QED BY <1>2, ActorsAssumption DEF GidAt

LEMMA LookupInv ==
  ASSUME SyncInv, NEW p \in Procs, LookupOne(p)
  PROVE  /\ seen' \in [Procs -> [Gids -> Entries \cup {NoPr}]]
         /\ step' \in [Procs -> Nat] /\ step'[p] <= Len(want'[p])
         /\ SeenInv(p)' /\ PhaseInv(p)'
<1> DEFINE g == GidAt(want[p], step[p] + 1)
           found == IF Found(g) = {} THEN NoPr ELSE Entry(First(Found(g)))
<1>1. /\ seen \in [Procs -> [Gids -> Entries \cup {NoPr}]] /\ step \in [Procs -> Nat]
      /\ prs \in Seq(PullRequests)
  BY DEF SyncInv, SyncTypeOK
<1>2. step[p] + 1 \in 1..Len(want[p]) /\ g \in Gids
  BY <1>1, WantFacts DEF SyncInv, LookupOne, Looking
<1>3. Found(g) \in SUBSET Numbers /\ \A n \in Found(g) : prs[n].head = g
  BY DEF Found, Open, Historical
<1>4. found # NoPr => /\ found \in Entries
                      /\ found.number \in Numbers /\ prs[found.number].head = g
  <2>1. CASE Found(g) # {}
    <3>1. Found(g) \in SUBSET Nat BY <1>1, <1>3 DEF Numbers
    <3>2. First(Found(g)) \in Found(g) BY <2>1, <3>1, FirstFacts
    <3>3. First(Found(g)) \in Numbers /\ prs[First(Found(g))].head = g
      BY <1>3, <3>2
    <3>4. prs[First(Found(g))] \in PullRequests /\ First(Found(g)) \in Nat
      BY <1>1, <3>3 DEF Numbers
    <3> QED BY <2>1, <3>3, <3>4 DEF Entry, Entries
  <2> QED BY <2>1
<1> HIDE DEF found
<1>5. /\ seen' = [seen EXCEPT ![p][g] = found] /\ step' = [step EXCEPT ![p] = @ + 1]
      /\ UNCHANGED <<prs, phase, want, pc, stack, done, err>>
      /\ phase[p] = "lookup"
  BY DEF LookupOne, Looking, pubVars, found
<1> HIDE DEF g
<1>6. /\ seen' \in [Procs -> [Gids -> Entries \cup {NoPr}]]
      /\ step' \in [Procs -> Nat] /\ step'[p] <= Len(want'[p])
  BY <1>1, <1>2, <1>4, <1>5 DEF g
<1>7. SeenInv(p)'
  <2>1. SeenInv(p) BY DEF SyncInv
  <2> QED BY <1>1, <1>2, <1>4, <1>5, <2>1 DEF SeenInv, Numbers
<1>8. PhaseInv(p)'
  <2>1. PhaseInv(p) BY DEF SyncInv
  <2> QED BY <1>5, <2>1 DEF PhaseInv
<1> QED BY <1>6, <1>7, <1>8

LEMMA CreateInv ==
  ASSUME IInv, SyncInv, NEW p \in Procs, CreateOne(p),
         prs' \in Seq(PullRequests), PrsKept
  PROVE  /\ seen' \in [Procs -> [Gids -> Entries \cup {NoPr}]]
         /\ step' \in [Procs -> Nat] /\ step'[p] <= Len(want'[p])
         /\ err' \in [Procs -> BOOLEAN]
         /\ SeenInv(p)' /\ PhaseInv(p)'
<1> DEFINE i == First(ToCreate(p))
           g == GidAt(want[p], i)
           new == [number |-> Len(prs'), pr |-> prs'[Len(prs')]]
<1>1. /\ seen \in [Procs -> [Gids -> Entries \cup {NoPr}]] /\ step \in [Procs -> Nat]
      /\ err \in [Procs -> BOOLEAN]
      /\ prs \in Seq(PullRequests)
  BY DEF SyncInv, SyncTypeOK
<1>2. phase[p] = "create" /\ ToCreate(p) # {} BY DEF CreateOne
<1>3. /\ stack[p] = want[p] /\ want[p] \in Seq(Commits)
      /\ \A j \in 1..Len(want[p]) : GidAt(want[p], j) \in Gids
  BY <1>2, WriterFacts
<1>4. /\ i \in (step[p] + 1)..Len(want[p])
      /\ \A j \in (step[p] + 1)..Len(want[p]) :
           seen[p][GidAt(want[p], j)] = NoPr => i <= j
  <2>1. ToCreate(p) \in SUBSET Nat BY <1>1, <1>3 DEF ToCreate
  <2>2. i \in ToCreate(p) /\ \A j \in ToCreate(p) : i <= j
    BY <1>2, <2>1, FirstFacts
  <2> QED BY <1>3, <2>2 DEF ToCreate
<1>5. i \in 1..Len(want[p]) /\ g \in Gids
  BY <1>1, <1>3, <1>4
<1>6. /\ step' = [step EXCEPT ![p] = i]
      /\ UNCHANGED <<phase, want, pc, stack, done>>
      /\ \/ /\ Create(g, BaseAt(want[p], i), want[p][i])
            /\ seen' = [seen EXCEPT ![p][g] = new] /\ UNCHANGED err
         \/ err' = [err EXCEPT ![p] = TRUE] /\ UNCHANGED <<prs, seen>>
  BY <1>3 DEF CreateOne, pubVars
<1>7. SeenInv(p) /\ PhaseInv(p) BY DEF SyncInv
<1>8. step' \in [Procs -> Nat] /\ step'[p] <= Len(want'[p])
  <2> HIDE DEF i
  <2> QED BY <1>1, <1>3, <1>5, <1>6
<1>9. CASE Create(g, BaseAt(want[p], i), want[p][i]) /\ seen' = [seen EXCEPT ![p][g] = new]
           /\ UNCHANGED err
  <2>1. /\ Len(prs') \in 1..Len(prs') /\ prs'[Len(prs')].head = g
    BY <1>1, <1>9 DEF Create
  <2>2. new \in Entries BY <2>1 DEF Entries
  <2>3. new # NoPr BY <2>2, NoPrAssumption
  <2> HIDE DEF i, g
  <2>4. seen' \in [Procs -> [Gids -> Entries \cup {NoPr}]]
    BY <1>1, <1>5, <1>9, <2>2
  <2>5. seen'[p] = [seen[p] EXCEPT ![g] = new] BY <1>1, <1>9
  <2>6. SeenInv(p)'
    <3>1. \A n \in Numbers : n \in 1..Len(prs') /\ prs'[n].head = prs[n].head
      BY <1>1 DEF PrsKept, Numbers
    <3>2. ASSUME NEW h \in Gids, seen'[p][h] # NoPr
          PROVE  seen'[p][h].number \in 1..Len(prs') /\ prs'[seen'[p][h].number].head = h
      <4>1. CASE h = g
        <5>1. seen'[p][h] = new BY <1>1, <1>5, <2>5, <4>1
        <5> QED BY <2>1, <4>1, <5>1
      <4>2. CASE h # g
        <5>1. seen'[p][h] = seen[p][h] BY <1>1, <2>5, <4>2
        <5> QED BY <1>7, <3>1, <3>2, <5>1 DEF SeenInv
      <4> QED BY <4>1, <4>2
    <3> QED BY <3>2 DEF SeenInv, Numbers
  <2>7. \A h \in Gids : seen[p][h] # NoPr => seen'[p][h] # NoPr
    BY <1>1, <1>5, <2>3, <2>5
  <2>8. ~err[p] => \A j \in 1..i : seen'[p][GidAt(want[p], j)] # NoPr
    <3> SUFFICES ASSUME ~err[p], NEW j \in 1..i PROVE seen'[p][GidAt(want[p], j)] # NoPr
      OBVIOUS
    <3>1. j \in 1..Len(want[p]) /\ GidAt(want[p], j) \in Gids BY <1>3, <1>5
    <3>2. CASE j = i BY <1>1, <1>5, <2>3, <2>5, <3>2 DEF g
    <3>3. CASE j <= step[p]
      <4>1. j \in 1..step[p] BY <1>1, <1>3, <3>1, <3>3
      <4>2. seen[p][GidAt(want[p], j)] # NoPr BY <1>2, <1>7, <4>1 DEF PhaseInv
      <4> QED BY <2>7, <3>1, <4>2
    <3>4. CASE j > step[p] /\ j < i
      BY <1>1, <1>4, <2>7, <3>1, <3>4
    <3> QED BY <1>1, <1>5, <3>2, <3>3, <3>4
  <2>9. PhaseInv(p)'
    <3>1. step'[p] = i /\ err'[p] = err[p] BY <1>1, <1>6, <1>9
    <3> QED BY <1>2, <1>6, <1>7, <2>8, <3>1 DEF PhaseInv, GidAt
  <2> QED BY <1>1, <1>8, <1>9, <2>4, <2>6, <2>9
<1>10. CASE err' = [err EXCEPT ![p] = TRUE] /\ UNCHANGED <<prs, seen>>
  <2>1. err'[p] = TRUE /\ err' \in [Procs -> BOOLEAN] BY <1>1, <1>10
  <2>2. SeenInv(p)' BY <1>7, <1>10 DEF SeenInv, Numbers
  <2>3. PhaseInv(p)' BY <1>2, <1>6, <1>7, <1>10, <2>1 DEF PhaseInv, GidAt
  <2> QED BY <1>1, <1>8, <1>10, <2>1, <2>2, <2>3
<1> QED BY <1>6, <1>9, <1>10

\* The types of what a run knows, and its own invariants, after a step of p.
RunAfter(p) ==
  /\ seen' \in [Procs -> [Gids -> Entries \cup {NoPr}]]
  /\ step' \in [Procs -> Nat] /\ step'[p] <= Len(want'[p])
  /\ err' \in [Procs -> BOOLEAN]
  /\ SeenInv(p)' /\ PhaseInv(p)'

LEMMA IdleAfter ==
  ASSUME SyncInv, NEW p \in Procs, ToIdle(p), pc'[p] = "idle"
  PROVE  RunAfter(p)
<1> USE DEF SyncInv, SyncTypeOK
<1>1. NoneSeen \in [Gids -> Entries \cup {NoPr}] BY DEF NoneSeen
<1>2. seen' \in [Procs -> [Gids -> Entries \cup {NoPr}]] /\ err' \in [Procs -> BOOLEAN]
  BY <1>1 DEF ToIdle
<1>3. step' \in [Procs -> Nat] /\ step'[p] = 0 /\ want'[p] = << >>
  BY DEF ToIdle
<1> QED BY <1>2, <1>3, IdleInv DEF RunAfter

\* The steps that end a run.
LEMMA EndInv ==
  ASSUME SyncInv, NEW p \in Procs,
         \/ LookupAmbiguous(p) \/ StopNonOpen(p) \/ PushRejected(p)
         \/ Complete(p) \/ GithubError(p) \/ Kill(p)
  PROVE  RunAfter(p)
<1>1. ToIdle(p)
  BY DEF LookupAmbiguous, StopNonOpen, PushRejected, Complete, GithubError, Kill
<1>2. pc \in [Procs -> PCs] /\ PhaseInv(p) BY DEF SyncInv, SyncTypeOK, TypeOK
<1>3. CASE LookupAmbiguous(p) \/ StopNonOpen(p)
  <2>1. phase[p] = "lookup" /\ pc' = pc
    BY <1>3 DEF LookupAmbiguous, StopNonOpen, Looking, LookedUp, pubVars
  <2>2. pc'[p] = "idle" BY <1>2, <2>1 DEF PhaseInv
  <2> QED BY <1>1, <2>2, IdleAfter
<1>4. CASE PushRejected(p) \/ Complete(p) \/ GithubError(p)
  <2>1. pc'[p] = "idle"
    BY <1>2, <1>4 DEF PushRejected, Complete, GithubError, Reject, Finish, Reset
  <2> QED BY <1>1, <2>1, IdleAfter
<1>5. CASE Kill(p)
  <2>1. pc'[p] = "idle" BY <1>2, <1>5 DEF Kill, Crash, Reset, pubVars
  <2> QED BY <1>1, <2>1, IdleAfter
<1> QED BY <1>3, <1>4, <1>5

LEMMA BeginInv ==
  ASSUME SyncInv, NEW p \in Procs, NEW s \in Stacks, Begin(p, s)
  PROVE  RunAfter(p)
<1> USE DEF SyncInv, SyncTypeOK
<1>1. /\ phase'[p] = "lookup" /\ want'[p] = s
      /\ UNCHANGED <<prs, seen, step, err, pc, stack, done>>
  BY DEF Begin, pubVars
<1>2. s \in Seq(Commits) /\ Len(s) > 0 /\ s # << >> BY StacksAssumption
<1>3. want[p] = << >> /\ pc[p] = "idle" BY DEF PhaseInv, Begin
<1>4. step'[p] <= Len(want'[p])
  <2>1. step[p] <= 0 BY <1>3
  <2> QED BY <1>1, <1>2, <2>1
<1>5. SeenInv(p)' BY <1>1 DEF SeenInv, Numbers
<1>6. PhaseInv(p)' BY <1>1, <1>2, <1>3 DEF PhaseInv
<1> QED BY <1>1, <1>4, <1>5, <1>6 DEF RunAfter

\* The steps of publication that a run takes.
LEMMA PushInv ==
  ASSUME SyncInv, NEW p \in Procs,
         StartPush(p) \/ PushStep(p) \/ PushApplied(p) \/ PushPersisted(p)
  PROVE  RunAfter(p)
<1> USE DEF SyncInv, SyncTypeOK
<1>1. UNCHANGED <<prs, want, seen, err>>
  BY DEF StartPush, PushStep, PushApplied, PushPersisted, syncVars
<1>2. SeenInv(p)' BY <1>1 DEF SeenInv, Numbers
<1>3. pc \in [Procs -> PCs] /\ done \in [Procs -> Nat]
      /\ stack \in [Procs -> Stacks \cup {<< >>}]
  BY DEF TypeOK
<1>4. PhaseInv(p) /\ want[p] \in Seq(Commits) BY WantFacts
<1>5. CASE StartPush(p)
  <2>1. /\ phase[p] = "lookup" /\ phase'[p] = "push" /\ pc'[p] = "observe"
        /\ stack'[p] = want[p] /\ UNCHANGED step
    BY <1>3, <1>5 DEF StartPush, LookedUp, Start
  <2>2. PhaseInv(p)' BY <1>1, <1>4, <2>1 DEF PhaseInv
  <2> QED BY <1>1, <1>2, <2>1, <2>2 DEF RunAfter
<1>6. CASE PushStep(p) \/ PushApplied(p)
  <2>1. /\ phase[p] = "push" /\ UNCHANGED <<phase, step, stack>>
        /\ pc'[p] \in {"observe", "plan", "send", "persist"}
    BY <1>3, <1>4, <1>6 DEF PushStep, PushApplied, ObserveBatch, PlanTarget, SendUpdates,
                            Planned, ApplyPush, PhaseInv, syncVars
  <2>2. PhaseInv(p)' BY <1>1, <1>4, <2>1 DEF PhaseInv
  <2> QED BY <1>1, <1>2, <2>1, <2>2 DEF RunAfter
<1>7. CASE PushPersisted(p)
  <2>1. /\ phase[p] = "push" /\ stack' = stack
        /\ pc'[p] = IF at[p] = Len(stack[p]) THEN "published" ELSE "plan"
        /\ done'[p] = at[p]
    BY <1>3, <1>7 DEF PushPersisted, Persist
  <2>2. stack[p] = want[p] BY <1>4, <2>1 DEF PhaseInv
  <2>3. CASE pc'[p] = "published"
    <3>1. phase'[p] = "create" /\ step'[p] = 0 /\ step' \in [Procs -> Nat]
      BY <1>7, <2>3 DEF PushPersisted
    <3>2. PhaseInv(p)' BY <1>1, <1>4, <2>1, <2>2, <2>3, <3>1 DEF PhaseInv
    <3> QED BY <1>1, <1>2, <1>4, <3>1, <3>2 DEF RunAfter
  <2>4. CASE pc'[p] # "published"
    <3>1. UNCHANGED <<phase, step>> BY <1>7, <2>4 DEF PushPersisted
    <3>2. PhaseInv(p)' BY <1>1, <1>4, <2>1, <2>2, <2>4, <3>1 DEF PhaseInv
    <3> QED BY <1>1, <1>2, <3>1, <3>2 DEF RunAfter
  <2> QED BY <2>3, <2>4
<1> QED BY <1>5, <1>6, <1>7

LEMMA AllCreatedInv ==
  ASSUME IInv, SyncInv, NEW p \in Procs, AllCreated(p)
  PROVE  RunAfter(p)
<1> USE DEF SyncInv, SyncTypeOK
<1>1. /\ phase[p] = "create" /\ phase'[p] = "update" /\ ~err[p] /\ ToCreate(p) = {}
      /\ step' = [step EXCEPT ![p] = 0]
      /\ UNCHANGED <<prs, want, seen, err, pc, stack, done>>
  BY DEF AllCreated, pubVars
<1>2. stack[p] = want[p] /\ want[p] \in Seq(Commits) BY <1>1, WriterFacts
<1>3. PhaseInv(p) /\ SeenInv(p) OBVIOUS
<1>4. \A j \in 1..Len(want[p]) : seen[p][GidAt(want[p], j)] # NoPr
  <2> SUFFICES ASSUME NEW j \in 1..Len(want[p]) PROVE seen[p][GidAt(want[p], j)] # NoPr
    OBVIOUS
  <2>1. CASE j \in 1..step[p] BY <1>1, <1>3, <2>1 DEF PhaseInv
  <2>2. CASE j \in (step[p] + 1)..Len(want[p]) BY <1>1, <1>2, <2>2 DEF ToCreate
  <2> QED BY <1>2, <2>1, <2>2
<1>5. SeenInv(p)' BY <1>1, <1>3 DEF SeenInv, Numbers
<1>6. PhaseInv(p)' BY <1>1, <1>3, <1>4 DEF PhaseInv, GidAt
<1>7. step' \in [Procs -> Nat] /\ step'[p] = 0 BY <1>1
<1> QED BY <1>1, <1>2, <1>5, <1>6, <1>7 DEF RunAfter

LEMMA UpdateInv ==
  ASSUME IInv, SyncInv, NEW p \in Procs, UpdateOne(p),
         prs' \in Seq(PullRequests), PrsKept
  PROVE  RunAfter(p)
<1> USE DEF SyncInv, SyncTypeOK
<1> DEFINE i == First(ToUpdate(p))
<1>1. /\ phase[p] = "update" /\ ToUpdate(p) # {} /\ step' = [step EXCEPT ![p] = i]
      /\ UNCHANGED <<phase, want, seen, pc, stack, done>>
      /\ err' = [err EXCEPT ![p] = TRUE] \/ UNCHANGED err
  BY DEF UpdateOne, pubVars
<1>2. stack[p] = want[p] /\ want[p] \in Seq(Commits) BY <1>1, WriterFacts
<1>3. i \in 1..Len(want[p])
  <2>1. ToUpdate(p) \in SUBSET (1..Len(want[p])) BY <1>2 DEF ToUpdate
  <2>2. ToUpdate(p) \in SUBSET Nat BY <1>2, <2>1
  <2> QED BY <1>1, <2>1, <2>2, FirstFacts
<1> HIDE DEF i
<1>4. step' \in [Procs -> Nat] /\ step'[p] <= Len(want'[p]) BY <1>1, <1>2, <1>3
<1>5. SeenInv(p)' BY <1>1, SeenKept
<1>6. PhaseInv(p)'
  <2>1. PhaseInv(p) OBVIOUS
  <2> QED BY <1>1, <2>1 DEF PhaseInv, GidAt
<1>7. err' \in [Procs -> BOOLEAN] BY <1>1
<1> QED BY <1>1, <1>4, <1>5, <1>6, <1>7 DEF RunAfter

\* Every step of a run keeps its own part of the invariant.
LEMMA RunStepInv ==
  ASSUME IInv, SyncInv, NEW p \in Procs, RunNext(p),
         prs' \in Seq(PullRequests), PrsKept
  PROVE  RunAfter(p)
<1>1. CASE LookupOne(p)
  <2>1. UNCHANGED err /\ err \in [Procs -> BOOLEAN]
    BY <1>1 DEF LookupOne, SyncInv, SyncTypeOK
  <2> QED BY <1>1, <2>1, LookupInv DEF RunAfter
<1>2. CASE CreateOne(p)
  BY <1>2, CreateInv DEF RunAfter
<1>3. CASE ~LookupOne(p) /\ ~CreateOne(p)
  BY <1>3, PushInv, AllCreatedInv, UpdateInv, EndInv DEF RunNext
<1> QED BY <1>1, <1>2, <1>3

\* A step that touches no run but one.
LEMMA RunsAfter ==
  ASSUME SyncInv, NEW p \in Procs, prs' \in Seq(PullRequests), PrsKept,
         (\E s \in Stacks : Begin(p, s)) \/ RunNext(p) \/ Kill(p), RunAfter(p),
         want' \in [Procs -> Stacks \cup {<< >>}]
  PROVE  /\ seen' \in [Procs -> [Gids -> Entries \cup {NoPr}]]
         /\ step' \in [Procs -> Nat] /\ err' \in [Procs -> BOOLEAN]
         /\ \A q \in Procs : step'[q] <= Len(want'[q]) /\ SeenInv(q)' /\ PhaseInv(q)'
<1> SUFFICES ASSUME NEW q \in Procs, q # p
             PROVE  step'[q] <= Len(want'[q]) /\ SeenInv(q)' /\ PhaseInv(q)'
  BY DEF RunAfter
<1>1. Untouched(q) BY OthersUntouched DEF SyncInv
<1>2. step[q] <= Len(want[q]) /\ SyncTypeOK /\ SeenInv(q) /\ PhaseInv(q)
  BY DEF SyncInv, SyncTypeOK
<1>3. step'[q] <= Len(want'[q]) BY <1>1, <1>2 DEF Untouched
<1> QED BY <1>1, <1>2, <1>3, UntouchedKept

\* A step that touches no run at all.
LEMMA NoRunAfter ==
  ASSUME SyncInv, prs' \in Seq(PullRequests), PrsKept,
         UNCHANGED <<syncVars, pc, stack, done>>
  PROVE  /\ seen' \in [Procs -> [Gids -> Entries \cup {NoPr}]]
         /\ step' \in [Procs -> Nat] /\ err' \in [Procs -> BOOLEAN]
         /\ \A q \in Procs : step'[q] <= Len(want'[q]) /\ SeenInv(q)' /\ PhaseInv(q)'
<1>1. /\ SyncTypeOK /\ \A q \in Procs : SeenInv(q) /\ PhaseInv(q) /\ Untouched(q)
  BY DEF SyncInv, syncVars, Untouched
<1>2. \A q \in Procs : SeenInv(q)' /\ PhaseInv(q)' BY <1>1, UntouchedKept
<1> QED BY <1>1, <1>2 DEF SyncTypeOK, syncVars

\* A run that begins has not been disturbed.
BeginsQuiet(p) == quiet' = [quiet EXCEPT ![p] = TRUE]

\* The bookkeeping of a run keeps its types.
LEMMA CountsStep ==
  ASSUME SyncTypeOK, [Next]_vars
  PROVE  quiet' \in [Procs -> BOOLEAN] /\ crashes' \in Nat /\ events' \in Nat
<1> USE DEF SyncTypeOK
<1>1. ASSUME NEW p \in Procs, BeginsQuiet(p) \/ Disturb(p) \/ UNCHANGED quiet
      PROVE  quiet' \in [Procs -> BOOLEAN]
  BY <1>1 DEF BeginsQuiet, Disturb
<1>2. ASSUME NEW p \in Procs, RunNext(p)
      PROVE  (Disturb(p) \/ UNCHANGED quiet) /\ UNCHANGED countVars
  BY <1>2 DEF ToIdle, RunNext, LookupOne, LookupAmbiguous, StartPush, StopNonOpen, PushStep,
              PushApplied, PushRejected, PushPersisted, CreateOne, AllCreated,
              UpdateOne, Complete, GithubError
<1>3. ASSUME NEW p \in Procs, NEW s \in Stacks, Begin(p, s)
      PROVE  BeginsQuiet(p) /\ UNCHANGED countVars
  BY <1>3 DEF Begin, BeginsQuiet
<1>4. ASSUME NEW p \in Procs, Kill(p)
      PROVE  UNCHANGED quiet /\ crashes' = crashes + 1 /\ UNCHANGED events
  BY <1>4 DEF Kill, ToIdle
<1>5. ASSUME NEW cl \in Clones, FetchTags(cl) PROVE UNCHANGED <<quiet, countVars>>
  BY <1>5 DEF FetchTags
<1>6. ASSUME NEW n \in Numbers, EndPr(n, "MERGED") \/ EndPr(n, "CLOSED")
      PROVE  /\ quiet' = [p \in Procs |-> FALSE]
             /\ events' = events + 1 /\ UNCHANGED crashes
  BY <1>6 DEF EndPr
<1>7. CASE UNCHANGED vars BY <1>7 DEF vars, countVars
<1>8. ASSUME NEW p \in Procs, (\E s \in Stacks : Begin(p, s)) \/ RunNext(p) \/ Kill(p)
      PROVE  /\ BeginsQuiet(p) \/ Disturb(p) \/ UNCHANGED quiet
             /\ crashes' \in {crashes, crashes + 1} /\ events' = events
  BY <1>2, <1>3, <1>4, <1>8 DEF countVars
<1>9. ASSUME NEW p \in Procs, (\E s \in Stacks : Begin(p, s)) \/ RunNext(p) \/ Kill(p)
      PROVE  quiet' \in [Procs -> BOOLEAN] /\ crashes' \in Nat /\ events' \in Nat
  BY <1>1, <1>8, <1>9
<1>10. ASSUME NEW cl \in Clones, FetchTags(cl)
       PROVE  quiet' \in [Procs -> BOOLEAN] /\ crashes' \in Nat /\ events' \in Nat
  BY <1>5, <1>10 DEF countVars
<1>11. ASSUME NEW n \in Numbers, EndPr(n, "MERGED") \/ EndPr(n, "CLOSED")
       PROVE  quiet' \in [Procs -> BOOLEAN] /\ crashes' \in Nat /\ events' \in Nat
  <2>1. /\ quiet' = [p \in Procs |-> FALSE]
        /\ events' = events + 1 /\ UNCHANGED crashes
    BY <1>6, <1>11
  <2>2. quiet' \in [Procs -> BOOLEAN] BY <2>1
  <2> QED BY <2>1, <2>2
<1> QED BY <1>7, <1>9, <1>10, <1>11 DEF Next, RunsNext

LEMMA SyncInit == Init => SyncInv
<1> SUFFICES ASSUME Init PROVE SyncInv OBVIOUS
<1>1. TypeOK BY TypeInit DEF Init
<1>2. prs = << >> /\ prs \in Seq(PullRequests) /\ Numbers = {}
  BY DEF Init, Numbers
<1>3. NoneSeen \in [Gids -> Entries \cup {NoPr}] BY DEF NoneSeen
<1>4. SyncTypeOK BY <1>1, <1>2, <1>3 DEF Init, SyncTypeOK, Phases
<1>5. BodyVersionPublished BY <1>2 DEF BodyVersionPublished
<1>6. ASSUME NEW p \in Procs PROVE SeenInv(p) /\ PhaseInv(p)
  BY DEF Init, PubInit, NoneSeen, SeenInv, PhaseInv
<1> QED BY <1>4, <1>5, <1>6 DEF SyncInv

LEMMA SyncStep ==
  ASSUME IInv, SyncInv, [PubNext]_pubVars, [Next]_vars
  PROVE  SyncInv'
<1>1. prs' \in Seq(PullRequests) /\ PrsKept /\ BodyVersionPublished' BY PrsStep
<1>2. SyncTypeOK BY DEF SyncInv
<1>3. TypeOK' BY <1>2, TypeStep DEF SyncTypeOK
<1>4. phase' \in [Procs -> Phases] /\ want' \in [Procs -> Stacks \cup {<< >>}]
  <2>1. WantInv BY DEF SyncInv, SyncTypeOK, PhaseInv, WantInv
  <2> QED BY <2>1, WantStep DEF WantInv
<1>5. quiet' \in [Procs -> BOOLEAN] /\ crashes' \in Nat /\ events' \in Nat
  BY <1>2, CountsStep
<1>6. /\ seen' \in [Procs -> [Gids -> Entries \cup {NoPr}]]
      /\ step' \in [Procs -> Nat] /\ err' \in [Procs -> BOOLEAN]
      /\ \A q \in Procs : step'[q] <= Len(want'[q]) /\ SeenInv(q)' /\ PhaseInv(q)'
  <2>1. ASSUME NEW p \in Procs, (\E s \in Stacks : Begin(p, s)) \/ RunNext(p) \/ Kill(p)
        PROVE  RunAfter(p)
    BY <1>1, <2>1, BeginInv, RunStepInv, EndInv
  <2>2. ASSUME \E p \in Procs : (\E s \in Stacks : Begin(p, s)) \/ RunNext(p) \/ Kill(p)
        PROVE  /\ seen' \in [Procs -> [Gids -> Entries \cup {NoPr}]]
               /\ step' \in [Procs -> Nat] /\ err' \in [Procs -> BOOLEAN]
               /\ \A q \in Procs : step'[q] <= Len(want'[q]) /\ SeenInv(q)' /\ PhaseInv(q)'
    BY <1>1, <1>4, <2>1, <2>2, RunsAfter
  <2>3. CASE UNCHANGED <<syncVars, pc, stack, done>>
    BY <1>1, <2>3, NoRunAfter
  <2>4. ASSUME NEW cl \in Clones, FetchTags(cl) PROVE UNCHANGED <<syncVars, pc, stack, done>>
    BY <2>4 DEF FetchTags, Fetch, runVars
  <2>5. ASSUME NEW n \in Numbers, EndPr(n, "MERGED") \/ EndPr(n, "CLOSED")
        PROVE  UNCHANGED <<syncVars, pc, stack, done>>
    BY <2>5 DEF EndPr, pubVars
  <2>6. CASE UNCHANGED vars BY <2>3, <2>6 DEF vars, pubVars
  <2> QED BY <2>2, <2>3, <2>4, <2>5, <2>6 DEF Next, RunsNext
<1> QED BY <1>1, <1>3, <1>4, <1>5, <1>6 DEF SyncInv, SyncTypeOK

\* What a run knows of its stack and of its pull requests is consistent in every
\* phase, for any number of runs, clones, kills and merges.
THEOREM SyncInvariance == Spec => []SyncInv
<1>1. IInv /\ SyncInv /\ [PubNext]_pubVars /\ [Next]_vars => SyncInv' BY SyncStep
<1>2. Spec => []IInv /\ [][PubNext]_pubVars
  BY PublicationInvariance, PrePushImplementsPublication, PTL DEF PubSpec
<1> QED BY <1>1, <1>2, SyncInit, PTL DEF Spec

\* No body on GitHub ever names a version that is not published, or another
\* commit as that version, or links to a version that does not exist.
THEOREM BodyVersionPublishedHolds == Spec => []BodyVersionPublished
<1>1. SyncInv => BodyVersionPublished BY DEF SyncInv
<1> QED BY <1>1, SyncInvariance, PTL

\* A run writes to GitHub only when its whole stack is on the remote as the
\* versions it planned, and the base of every pull request exists.
THEOREM PublishedBeforeGitHubHolds == Spec => []PublishedBeforeGitHub
<1>1. ASSUME IInv, SyncInv, BranchInv PROVE PublishedBeforeGitHub
  <2> SUFFICES ASSUME NEW p \in Procs, phase[p] \in {"create", "update"},
                      NEW i \in 1..Len(want[p])
               PROVE  LET g == GidAt(want[p], i)
                      IN branch[g] # NoRef /\ tag[g][next[p][g]] = want[p][i]
    BY DEF PublishedBeforeGitHub
  <2> DEFINE g == GidAt(want[p], i)
  <2>1. /\ want[p][i] \in Commits /\ g \in Gids /\ next[p][g] \in Versions
        /\ tag[g][next[p][g]] = want[p][i]
    BY <1>1, WriterFacts
  <2>2. tag[g][next[p][g]] # NoRef BY <2>1, ActorsAssumption
  <2>3. branch[g] # NoRef BY <1>1, <2>1, <2>2 DEF BranchInv
  <2> QED BY <2>1, <2>3
<1>2. Spec => []BranchInv BY PrePushImplementsPublication, BranchInvariance, PTL
<1>3. IInv /\ SyncInv /\ BranchInv => PublishedBeforeGitHub BY <1>1
<1> QED BY <1>2, <1>3, PublicationInvariance, SyncInvariance, PTL

-----------------------------------------------------------------------------
(* One open pull request *)

\* A set of pull requests in which any two are the same has at most one member.
LEMMA AtMostOne ==
  ASSUME NEW S, \A m, n \in S : m = n
  PROVE  Cardinality(S) <= 1
<1>1. CASE S = {} BY <1>1, FS_EmptySet
<1>2. CASE S # {}
  <2>1. PICK n \in S : TRUE BY <1>2
  <2>2. S = {n} BY <2>1
  <2>3. Cardinality({n}) = 1 BY FS_Singleton
  <2> QED BY <2>2, <2>3
<1> QED BY <1>1, <1>2

UniqueOpen == \A g \in Gids : \A m, n \in Open(g) : m = n

LEMMA UniqueOpenSuffices == UniqueOpen => OneOpenPr
BY AtMostOne DEF UniqueOpen, OneOpenPr

\* Nothing is opened: what is open was open before, for the same identifier.
NoneOpened == \A g \in Gids : Open(g)' \subseteq Open(g)

\* Only a creation opens a pull request; an update and the end of a pull request
\* leave head and state of all the others alone.
LEMMA NoneOpenedStep ==
  ASSUME IInv, SyncInv, [Next]_vars, ~ \E p \in Procs : CreateOne(p)
  PROVE  NoneOpened
<1>1. prs \in Seq(PullRequests) BY DEF SyncInv, SyncTypeOK
<1>2. CASE UNCHANGED prs BY <1>2 DEF NoneOpened, Open, Numbers
<1>3. ASSUME NEW n, NEW pr, prs' = [prs EXCEPT ![n] = pr],
             n \in Numbers => /\ pr.head = prs[n].head
                              /\ pr.state = "OPEN" => prs[n].state = "OPEN"
      PROVE  NoneOpened
  BY <1>1, <1>3 DEF NoneOpened, Open, Numbers
<1>4. ASSUME NEW p \in Procs, UpdateOne(p) PROVE NoneOpened
  <2> DEFINE i == First(ToUpdate(p))
             n == seen[p][GidAt(stack[p], i)].number
             pr == Updated(prs[n], Changes(p, i), stack[p][i], DesiredBody(p, i),
                           BaseAt(stack[p], i))
  <2>1. CASE prs' = [prs EXCEPT ![n] = pr]
    <3>1. n \in Numbers => pr.head = prs[n].head /\ pr.state = prs[n].state
      <4>1. n \in Numbers => prs[n] \in PullRequests BY <1>1 DEF Numbers
      <4> HIDE DEF n, i
      <4> QED BY <4>1 DEF Updated, PullRequests
    <3> HIDE DEF n, pr
    <3> QED BY <1>3, <2>1, <3>1
  <2> QED BY <1>2, <1>4, <2>1 DEF UpdateOne
<1>5. ASSUME NEW n \in Numbers, EndPr(n, "MERGED") \/ EndPr(n, "CLOSED") PROVE NoneOpened
  <2>1. PICK how \in {"MERGED", "CLOSED"} : prs' = [prs EXCEPT ![n].state = how]
    BY <1>5 DEF EndPr
  <2> DEFINE pr == [prs[n] EXCEPT !.state = how]
  <2>2. prs' = [prs EXCEPT ![n] = pr] BY <2>1
  <2>3. prs[n] \in PullRequests BY <1>1 DEF Numbers
  <2>4. pr.head = prs[n].head /\ pr.state # "OPEN" BY <2>3 DEF PullRequests
  <2> HIDE DEF pr
  <2> QED BY <1>3, <2>2, <2>4
<1>6. ASSUME NEW p \in Procs, RunNext(p)
      PROVE  UNCHANGED prs \/ UpdateOne(p)
  BY <1>6 DEF RunNext, LookupOne, LookupAmbiguous, StartPush, StopNonOpen, PushStep,
              PushApplied, PushRejected, PushPersisted, AllCreated, Complete, GithubError
<1>7. \/ UNCHANGED prs
      \/ \E p \in Procs : UpdateOne(p)
      \/ \E n \in Numbers : EndPr(n, "MERGED") \/ EndPr(n, "CLOSED")
  BY <1>6 DEF Next, RunsNext, vars, Begin, Kill, FetchTags
<1> QED BY <1>2, <1>4, <1>5, <1>7

\* The commits of its stack that a run has looked up.
LookedAt(p) == IF phase[p] = "lookup" THEN 1..step[p] ELSE 1..Len(want[p])

\* While only one run works on the remote, what it takes for missing is missing
\* until it creates it, however long ago it has looked.
OpenInv ==
  /\ UniqueOpen
  /\ \A p \in Procs : \A i \in LookedAt(p) :
       seen[p][GidAt(want[p], i)] = NoPr => Open(GidAt(want[p], i)) = {}

LEMMA OpenInvInit == Init => OpenInv
BY DEF Init, OpenInv, UniqueOpen, Open, Numbers, LookedAt

LEMMA OpenInvCreate ==
  ASSUME OneRun, IInv, SyncInv, OpenInv, NEW p \in Procs, CreateOne(p)
  PROVE  OpenInv'
<1>1. /\ prs \in Seq(PullRequests) /\ step \in [Procs -> Nat]
      /\ seen \in [Procs -> [Gids -> Entries \cup {NoPr}]]
  BY DEF SyncInv, SyncTypeOK
<1>2. phase[p] = "create" /\ ToCreate(p) # {} /\ UNCHANGED <<phase, want>>
  BY DEF CreateOne
<1>3. /\ stack[p] = want[p] /\ want[p] \in Seq(Commits)
      /\ \A j \in 1..Len(want[p]) : GidAt(want[p], j) \in Gids
  BY <1>2, WriterFacts
<1>4. PICK i \in 1..Len(want[p]) :
        i = First(ToCreate(p)) /\ seen[p][GidAt(want[p], i)] = NoPr
  <2>1. ToCreate(p) \in SUBSET Nat BY <1>1, <1>3 DEF ToCreate
  <2>2. First(ToCreate(p)) \in ToCreate(p) BY <1>2, <2>1, FirstFacts
  <2> DEFINE i == First(ToCreate(p))
  <2>3. i \in (step[p] + 1)..Len(want[p]) /\ seen[p][GidAt(want[p], i)] = NoPr
    BY <1>3, <2>2 DEF ToCreate
  <2> HIDE DEF i
  <2>4. i \in 1..Len(want[p]) BY <1>1, <1>3, <2>3
  <2> QED BY <2>3, <2>4 DEF i
<1>5. PICK g \in Gids : g = GidAt(want[p], i) BY <1>3
<1>6. Open(g) = {} BY <1>2, <1>4, <1>5 DEF OpenInv, LookedAt
<1>7. \A q \in Procs : q = p BY DEF OneRun
<1>8. CASE UNCHANGED <<prs, seen>>
  BY <1>2, <1>7, <1>8 DEF OpenInv, UniqueOpen, Open, Numbers, LookedAt, GidAt
<1>9. CASE /\ Create(g, BaseAt(want[p], i), want[p][i])
           /\ seen' = [seen EXCEPT ![p][g] = [number |-> Len(prs'), pr |-> prs'[Len(prs')]]]
  <2>1. /\ Len(prs') = Len(prs) + 1 /\ prs'[Len(prs')].head = g
        /\ \A n \in Numbers : prs'[n] = prs[n]
    BY <1>1, <1>9 DEF Create, Numbers
  <2>2. Open(g)' \subseteq {Len(prs')}
    BY <1>1, <1>6, <2>1 DEF Open, Numbers
  <2>3. \A h \in Gids \ {g} : Open(h)' = Open(h)
    BY <1>1, <2>1 DEF Open, Numbers
  <2>4. UniqueOpen'
    <3> SUFFICES ASSUME NEW h \in Gids, NEW m \in Open(h)', NEW n \in Open(h)' PROVE m = n
      BY DEF UniqueOpen
    <3>1. CASE h = g BY <2>2, <3>1
    <3>2. CASE h # g BY <2>3, <3>2 DEF OpenInv, UniqueOpen
    <3> QED BY <3>1, <3>2
  <2>5. [number |-> Len(prs'), pr |-> prs'[Len(prs')]] \in Entries
    <3>1. prs' \in Seq(PullRequests) BY PrsCreate
    <3>2. Len(prs') \in 1..Len(prs') BY <1>1, <2>1
    <3> QED BY <3>1, <3>2 DEF Entries
  <2>6. seen'[p][g] # NoPr /\ \A h \in Gids \ {g} : seen'[p][h] = seen[p][h]
    BY <1>1, <1>9, <2>5, NoPrAssumption
  <2>7. ASSUME NEW j \in 1..Len(want[p]), NEW h \in Gids, h = GidAt(want[p], j),
               seen'[p][h] = NoPr
        PROVE  Open(h)' = {}
    <3>1. h # g /\ seen[p][h] = NoPr BY <2>6, <2>7
    <3>2. Open(h) = {} BY <1>2, <2>7, <3>1 DEF OpenInv, LookedAt
    <3> QED BY <2>3, <3>1, <3>2
  <2>8. ASSUME NEW q \in Procs, NEW j \in LookedAt(q)', seen'[q][GidAt(want'[q], j)] = NoPr
        PROVE  Open(GidAt(want[q], j))' = {}
    <3>1. q = p /\ j \in 1..Len(want[p]) BY <1>2, <1>7 DEF LookedAt
    <3>2. PICK h \in Gids : h = GidAt(want[p], j) BY <1>3, <3>1
    <3>3. h = GidAt(want[q], j)' BY <1>2, <3>1, <3>2 DEF GidAt
    <3>4. Open(h)' = {} BY <2>7, <2>8, <3>1, <3>2, <3>3 DEF GidAt
    <3> QED BY <3>3, <3>4 DEF Open
  <2> QED BY <2>4, <2>8 DEF OpenInv, GidAt
<1> QED BY <1>3, <1>4, <1>5, <1>8, <1>9 DEF CreateOne

LEMMA OpenInvStep ==
  ASSUME OneRun, IInv, SyncInv, OpenInv, [Next]_vars
  PROVE  OpenInv'
<1>1. ASSUME NEW p \in Procs, CreateOne(p) PROVE OpenInv'
  BY <1>1, OpenInvCreate
<1>2. CASE ~ \E p \in Procs : CreateOne(p)
  <2>1. NoneOpened BY <1>2, NoneOpenedStep
  <2>2. UniqueOpen' BY <2>1 DEF NoneOpened, OpenInv, UniqueOpen
  <2>3. SyncTypeOK BY DEF SyncInv
  <2>4. ASSUME NEW p \in Procs, LookedAt(p)' = LookedAt(p) \/ LookedAt(p)' = {},
               (want'[p] = want[p] /\ seen'[p] = seen[p]) \/ LookedAt(p)' = {},
               NEW i \in LookedAt(p)', seen'[p][GidAt(want'[p], i)] = NoPr
        PROVE  Open(GidAt(want[p], i))' = {}
    <3>0. i \in LookedAt(p) BY <2>4
    <3>1. i \in 1..Len(want[p])
      <4>1. step[p] \in Nat /\ step[p] <= Len(want[p]) /\ Len(want[p]) \in Nat
        BY <2>3, WantFacts DEF SyncTypeOK
      <4> QED BY <3>0, <4>1 DEF LookedAt
    <3>2. GidAt(want[p], i) \in Gids BY <2>3, <3>1, WantFacts
    <3>3. Open(GidAt(want[p], i)) = {} BY <2>4 DEF OpenInv
    <3> QED BY <2>1, <2>4, <3>2, <3>3 DEF NoneOpened
  <2>5. ASSUME NEW p \in Procs, LookupOne(p),
               NEW i \in LookedAt(p)', seen'[p][GidAt(want'[p], i)] = NoPr
        PROVE  Open(GidAt(want[p], i))' = {}
    <3> DEFINE g == GidAt(want[p], step[p] + 1)
               h == GidAt(want[p], i)
               found == IF Found(g) = {} THEN NoPr ELSE Entry(First(Found(g)))
    <3>1. /\ phase[p] = "lookup" /\ UNCHANGED <<phase, want, prs>>
          /\ step[p] < Len(want[p])
          /\ step' = [step EXCEPT ![p] = @ + 1] /\ seen' = [seen EXCEPT ![p][g] = found]
      BY <2>5 DEF LookupOne, Looking
    <3>2. step[p] \in Nat /\ seen \in [Procs -> [Gids -> Entries \cup {NoPr}]]
          /\ step \in [Procs -> Nat] /\ prs \in Seq(PullRequests)
      BY <2>3 DEF SyncTypeOK
    <3>3. i \in 1..(step[p] + 1) /\ i \in 1..Len(want[p]) /\ step[p] + 1 \in 1..Len(want[p])
      BY <2>3, <2>5, <3>1, <3>2, WantFacts DEF LookedAt
    <3>4. g \in Gids /\ h \in Gids BY <2>3, <3>3, WantFacts
    <3>5. h # g => i \in 1..step[p] BY <3>2, <3>3
    <3>6. CASE h = g
      <4>1. found = NoPr
        <5> HIDE DEF found
        <5> QED BY <2>5, <3>1, <3>2, <3>4, <3>6
      <4>2. Found(g) # {} => Entry(First(Found(g))) \in Entries
        <5>1. Found(g) \in SUBSET Numbers BY DEF Found, Open, Historical
        <5>2. Found(g) \in SUBSET Nat BY <3>2, <5>1 DEF Numbers
        <5>3. Found(g) # {} => First(Found(g)) \in Numbers BY <5>1, <5>2, FirstFacts
        <5> QED BY <3>2, <5>3 DEF Entry, Entries, Numbers
      <4>3. Found(g) = {} BY <4>1, <4>2, NoPrAssumption
      <4>4. Open(g) = {} BY <4>3 DEF Found
      <4> QED BY <2>1, <3>1, <3>4, <3>6, <4>4 DEF NoneOpened
    <3>7. CASE h # g
      <4>1. seen[p][h] = NoPr
        <5> HIDE DEF found
        <5> QED BY <2>5, <3>1, <3>2, <3>4, <3>7
      <4>2. Open(h) = {} BY <3>1, <3>5, <3>7, <4>1 DEF OpenInv, LookedAt
      <4> QED BY <2>1, <3>1, <3>4, <4>2 DEF NoneOpened
    <3> QED BY <3>6, <3>7
  <2>6. ASSUME NEW p \in Procs, ~LookupOne(p)
        PROVE  /\ LookedAt(p)' = LookedAt(p) \/ LookedAt(p)' = {}
               /\ (want'[p] = want[p] /\ seen'[p] = seen[p]) \/ LookedAt(p)' = {}
    <3> USE <2>3 DEF SyncTypeOK
    <3>1. CASE Untouched(p) BY <3>1 DEF Untouched, LookedAt
    <3>2. CASE ToIdle(p)
      BY <3>2 DEF ToIdle, LookedAt
    <3>3. ASSUME NEW s \in Stacks, Begin(p, s) PROVE LookedAt(p)' = {}
      <4>1. want[p] = << >> BY <3>3 DEF Begin, SyncInv, PhaseInv
      <4>2. step[p] = 0 BY <4>1
      <4> QED BY <3>3, <4>2 DEF Begin, LookedAt
    <3>4. CASE StartPush(p)
      BY <3>4 DEF StartPush, LookedUp, LookedAt
    <3>5. CASE PushStep(p) \/ PushApplied(p) \/ PushPersisted(p) \/ AllCreated(p) \/ UpdateOne(p)
      BY <3>5 DEF PushStep, PushApplied, PushPersisted, AllCreated, UpdateOne, LookedAt, syncVars
    <3>6. ASSUME NEW q \in Procs, (\E s \in Stacks : Begin(q, s)) \/ RunNext(q) \/ Kill(q)
          PROVE  \/ Untouched(p) \/ ToIdle(p) \/ \E s \in Stacks : Begin(p, s)
                 \/ StartPush(p)
                 \/ PushStep(p) \/ PushApplied(p) \/ PushPersisted(p) \/ AllCreated(p)
                 \/ UpdateOne(p)
      <4>1. CASE q # p BY <3>6, <4>1, OthersUntouched
      <4>2. CASE q = p
        BY <1>2, <2>6, <3>6, <4>2
           DEF RunNext, Kill, LookupAmbiguous, StopNonOpen, PushRejected, Complete, GithubError
      <4> QED BY <4>1, <4>2
    <3>7. CASE UNCHANGED <<syncVars, pc, stack, done>>
      BY <3>7 DEF syncVars, LookedAt
    <3>8. \/ UNCHANGED <<syncVars, pc, stack, done>>
          \/ \E q \in Procs : (\E s \in Stacks : Begin(q, s)) \/ RunNext(q) \/ Kill(q)
      BY DEF Next, RunsNext, FetchTags, Fetch, EndPr, runVars, pubVars, vars
    <3> QED BY <3>1, <3>2, <3>3, <3>4, <3>5, <3>6, <3>7, <3>8
  <2>7. \A p \in Procs : \A i \in LookedAt(p)' :
          seen'[p][GidAt(want'[p], i)] = NoPr => Open(GidAt(want[p], i))' = {}
    BY <2>4, <2>5, <2>6
  <2> QED BY <2>2, <2>7 DEF OpenInv, GidAt
<1> QED BY <1>1, <1>2

\* With one run at a time there is never a second open pull request for a commit,
\* whatever stacks the user pushes, wherever runs are killed and whatever pull
\* requests are merged or closed meanwhile.
THEOREM OneOpenPrOneRun == ASSUME OneRun PROVE Spec => []OneOpenPr
<1>1. IInv /\ SyncInv /\ OpenInv /\ [Next]_vars => OpenInv' BY OpenInvStep
<1>2. OpenInv => OneOpenPr BY UniqueOpenSuffices DEF OpenInv
<1> QED BY <1>1, <1>2, OpenInvInit, PublicationInvariance, SyncInvariance, PTL DEF Spec

\* The base of a pull request is the one that some stack gives its commit.
StackBased(pr) ==
  \E s \in Stacks : \E i \in 1..Len(s) : pr.head = GidAt(s, i) /\ pr.base = BaseAt(s, i)

BaseInv == UniqueOpen /\ \A n \in Numbers : StackBased(prs[n])

\* No stack places a commit on another base than the other stacks do.
FixedBases ==
  \A s, t \in Stacks : \A i \in 1..Len(s), j \in 1..Len(t) :
    GidAt(s, i) = GidAt(t, j) => BaseAt(s, i) = BaseAt(t, j)

LEMMA BaseInvInit == Init => BaseInv
BY DEF Init, BaseInv, UniqueOpen, Open, Numbers

\* A run that writes to GitHub works on one of the stacks.
LEMMA WriterStack ==
  ASSUME SyncInv, NEW p \in Procs, phase[p] \in {"create", "update"}
  PROVE  want[p] \in Stacks
<1>1. want[p] # << >> BY DEF SyncInv, PhaseInv
<1> QED BY <1>1 DEF SyncInv, SyncTypeOK

LEMMA BaseInvCreate ==
  ASSUME FixedBases, IInv, SyncInv, BaseInv, NEW p \in Procs, CreateOne(p)
  PROVE  BaseInv'
<1>1. prs \in Seq(PullRequests) /\ step \in [Procs -> Nat]
  BY DEF SyncInv, SyncTypeOK
<1>2. phase[p] = "create" /\ ToCreate(p) # {} BY DEF CreateOne
<1>3. /\ stack[p] = want[p] /\ want[p] \in Seq(Commits) /\ want[p] \in Stacks
      /\ \A j \in 1..Len(want[p]) : GidAt(want[p], j) \in Gids
  BY <1>2, WriterFacts, WriterStack
<1>4. PICK i \in 1..Len(want[p]) : i = First(ToCreate(p))
  <2>1. ToCreate(p) \in SUBSET (1..Len(want[p])) BY <1>1, <1>3 DEF ToCreate
  <2>2. ToCreate(p) \in SUBSET Nat BY <1>3, <2>1
  <2> QED BY <1>2, <2>1, <2>2, FirstFacts
<1>5. PICK g \in Gids : g = GidAt(want[p], i) BY <1>3
<1>6. PICK b : b = BaseAt(want[p], i) OBVIOUS
<1>7. CASE UNCHANGED prs
  BY <1>7 DEF BaseInv, UniqueOpen, Open, Numbers
<1>8. CASE Create(g, b, want[p][i]) /\ ~Taken(g, b)
  <2>1. /\ Len(prs') = Len(prs) + 1 /\ \A n \in Numbers : prs'[n] = prs[n]
        /\ prs'[Len(prs')].head = g /\ prs'[Len(prs')].base = b
    BY <1>1, <1>8 DEF Create, Numbers
  <2>2. Open(g) = {}
    <3> SUFFICES ASSUME NEW n \in Open(g) PROVE FALSE OBVIOUS
    <3>1. n \in Numbers /\ prs[n].head = g BY DEF Open
    <3>2. PICK s \in Stacks : \E j \in 1..Len(s) : g = GidAt(s, j) /\ prs[n].base = BaseAt(s, j)
      BY <3>1 DEF BaseInv, StackBased
    <3>3. prs[n].base = b BY <1>3, <1>4, <1>5, <1>6, <3>2 DEF FixedBases
    <3> QED BY <1>8, <3>3 DEF Taken
  <2>3. Open(g)' \subseteq {Len(prs')}
    BY <1>1, <2>1, <2>2 DEF Open, Numbers
  <2>4. \A h \in Gids \ {g} : Open(h)' = Open(h)
    BY <1>1, <2>1 DEF Open, Numbers
  <2>5. UniqueOpen'
    <3> SUFFICES ASSUME NEW h \in Gids, NEW m \in Open(h)', NEW n \in Open(h)' PROVE m = n
      BY DEF UniqueOpen
    <3>1. CASE h = g BY <2>3, <3>1
    <3>2. CASE h # g BY <2>4, <3>2 DEF BaseInv, UniqueOpen
    <3> QED BY <3>1, <3>2
  <2>6. StackBased(prs'[Len(prs')]) BY <1>3, <1>5, <1>6, <2>1 DEF StackBased
  <2>7. \A n \in 1..Len(prs') : n \in Numbers \/ n = Len(prs')
    BY <1>1, <2>1 DEF Numbers
  <2> QED BY <2>1, <2>5, <2>6, <2>7 DEF BaseInv, StackBased, Numbers
<1> QED BY <1>3, <1>4, <1>5, <1>6, <1>7, <1>8 DEF CreateOne

\* Every other step leaves head and base of a pull request alone or gives it the
\* base that its commit has in the stack of a run.
LEMMA BasedKept ==
  ASSUME IInv, SyncInv, BaseInv, [Next]_vars, ~ \E p \in Procs : CreateOne(p)
  PROVE  \A n \in 1..Len(prs') : StackBased(prs'[n])
<1>1. prs \in Seq(PullRequests) BY DEF SyncInv, SyncTypeOK
<1>2. CASE UNCHANGED prs BY <1>2 DEF BaseInv, Numbers
<1>3. ASSUME NEW n, NEW pr, prs' = [prs EXCEPT ![n] = pr], n \in Numbers => StackBased(pr)
      PROVE  \A k \in 1..Len(prs') : StackBased(prs'[k])
  BY <1>1, <1>3 DEF BaseInv, Numbers
<1>4. ASSUME NEW p \in Procs, UpdateOne(p)
      PROVE  \A n \in 1..Len(prs') : StackBased(prs'[n])
  <2>1. phase[p] = "update" /\ ToUpdate(p) # {} BY <1>4 DEF UpdateOne
  <2>2. stack[p] = want[p] /\ want[p] \in Seq(Commits) /\ want[p] \in Stacks
    BY <2>1, WriterFacts, WriterStack
  <2>3. PICK i \in 1..Len(want[p]) : i = First(ToUpdate(p))
    <3>1. ToUpdate(p) \in SUBSET (1..Len(want[p]))
      BY <2>2 DEF ToUpdate, SyncInv, SyncTypeOK
    <3>2. ToUpdate(p) \in SUBSET Nat BY <2>2, <3>1
    <3> QED BY <2>1, <3>1, <3>2, FirstFacts
  <2> DEFINE g == GidAt(want[p], i)
             n == seen[p][g].number
             pr == Updated(prs[n], Changes(p, i), want[p][i], DesiredBody(p, i),
                           BaseAt(want[p], i))
  <2>4. n \in Numbers /\ prs[n].head = g BY <2>1, UpdateFacts
  <2>5. prs[n] \in PullRequests BY <1>1, <2>4 DEF Numbers
  <2>6. pr.head = g /\ (pr.base = prs[n].base \/ pr.base = BaseAt(want[p], i))
    <3> HIDE DEF n, g
    <3> QED BY <2>4, <2>5 DEF Updated, PullRequests
  <2>7. StackBased(pr)
    <3>1. CASE pr.base = prs[n].base
      BY <2>4, <2>6, <3>1 DEF BaseInv, StackBased
    <3>2. CASE pr.base = BaseAt(want[p], i)
      BY <2>2, <2>6, <3>2 DEF StackBased
    <3> QED BY <2>6, <3>1, <3>2
  <2>8. UNCHANGED prs \/ prs' = [prs EXCEPT ![n] = pr]
    BY <1>4, <2>2, <2>3 DEF UpdateOne
  <2> HIDE DEF n, pr
  <2> QED BY <1>2, <1>3, <2>7, <2>8
<1>5. ASSUME NEW n \in Numbers, EndPr(n, "MERGED") \/ EndPr(n, "CLOSED")
      PROVE  \A k \in 1..Len(prs') : StackBased(prs'[k])
  <2>1. PICK how \in {"MERGED", "CLOSED"} : prs' = [prs EXCEPT ![n].state = how]
    BY <1>5 DEF EndPr
  <2> DEFINE pr == [prs[n] EXCEPT !.state = how]
  <2>2. prs' = [prs EXCEPT ![n] = pr] BY <2>1
  <2>3. prs[n] \in PullRequests BY <1>1 DEF Numbers
  <2>4. pr.head = prs[n].head /\ pr.base = prs[n].base BY <2>3 DEF PullRequests
  <2>5. StackBased(pr) BY <2>4 DEF BaseInv, StackBased
  <2> HIDE DEF pr
  <2> QED BY <1>3, <2>2, <2>5
<1>6. ASSUME NEW p \in Procs, RunNext(p)
      PROVE  UNCHANGED prs \/ UpdateOne(p)
  BY <1>6 DEF RunNext, LookupOne, LookupAmbiguous, StartPush, StopNonOpen, PushStep,
              PushApplied, PushRejected, PushPersisted, AllCreated, Complete, GithubError
<1>7. \/ UNCHANGED prs
      \/ \E p \in Procs : UpdateOne(p)
      \/ \E n \in Numbers : EndPr(n, "MERGED") \/ EndPr(n, "CLOSED")
  BY <1>6 DEF Next, RunsNext, vars, Begin, Kill, FetchTags
<1> QED BY <1>2, <1>4, <1>5, <1>7

LEMMA BaseInvStep ==
  ASSUME FixedBases, IInv, SyncInv, BaseInv, [Next]_vars
  PROVE  BaseInv'
<1>1. ASSUME NEW p \in Procs, CreateOne(p) PROVE BaseInv'
  BY <1>1, BaseInvCreate
<1>2. CASE ~ \E p \in Procs : CreateOne(p)
  <2>1. NoneOpened BY <1>2, NoneOpenedStep
  <2>2. UniqueOpen' BY <2>1 DEF NoneOpened, BaseInv, UniqueOpen
  <2>3. \A n \in 1..Len(prs') : StackBased(prs'[n]) BY <1>2, BasedKept
  <2> QED BY <2>2, <2>3 DEF BaseInv, Numbers, StackBased
<1> QED BY <1>1, <1>2

\* Any number of runs at a time open at most one pull request for a commit as
\* long as all their stacks place it on the same base: GitHub refuses the second
\* one.  Moving a commit while two runs push it is what makes it ambiguous.
THEOREM OneOpenPrFixedBases == ASSUME FixedBases PROVE Spec => []OneOpenPr
<1>1. IInv /\ SyncInv /\ BaseInv /\ [Next]_vars => BaseInv' BY BaseInvStep
<1>2. BaseInv => OneOpenPr BY UniqueOpenSuffices DEF BaseInv
<1> QED BY <1>1, <1>2, BaseInvInit, PublicationInvariance, SyncInvariance, PTL DEF Spec

-----------------------------------------------------------------------------
(* What an undisturbed run knows of GitHub *)

\* The run p knows what a lookup for g finds now.
Accurate(p, g) ==
  \/ Found(g) = {} /\ seen[p][g] = NoPr
  \/ \E n \in Numbers : Found(g) = {n} /\ seen[p][g] = Entry(n)

\* There is no pull request for g, or one that is open and that p knows.
Ready(p, g) ==
  \/ Found(g) = {} /\ seen[p][g] = NoPr
  \/ \E n \in Numbers : Open(g) = {n} /\ seen[p][g] = Entry(n)

AsWanted(p, i, pr) ==
  /\ pr.title = want[p][i]
  /\ pr.base = BaseAt(want[p], i)
  /\ pr.body = DesiredBody(p, i)

\* The only open pull request for g, the i-th commit's identifier, is the one that
\* p knows, and it is as wanted once its turn has come.
InTurn(p, i, g) ==
  \E n \in Numbers :
    /\ Open(g) = {n} /\ seen[p][g] # NoPr /\ seen[p][g].number = n
    /\ i > step[p] => seen[p][g].pr = prs[n]
    /\ i <= step[p] /\ ~err[p] => AsWanted(p, i, prs[n])

KnowsInv(p) ==
  quiet[p] =>
    /\ phase[p] = "lookup" => \A i \in 1..step[p] : Accurate(p, GidAt(want[p], i))
    /\ phase[p] \in {"push", "create"} =>
         \A i \in 1..Len(want[p]) : Ready(p, GidAt(want[p], i))
    /\ phase[p] = "update" =>
         \A i \in 1..Len(want[p]) : InTurn(p, i, GidAt(want[p], i))

\* What p knows and what it knows it of are as before, or p is disturbed.
Undisturbed(p) ==
  quiet'[p] =>
    /\ quiet[p] /\ prs' = prs
    /\ phase'[p] = phase[p] /\ want'[p] = want[p] /\ seen'[p] = seen[p]
    /\ step'[p] = step[p] /\ err'[p] = err[p]
    /\ phase[p] = "update" => stack'[p] = stack[p] /\ next'[p] = next[p]

LEMMA KnownKept ==
  ASSUME NEW p \in Procs, NEW g, prs' = prs, seen'[p] = seen[p]
  PROVE  (Accurate(p, g) => Accurate(p, g)') /\ (Ready(p, g) => Ready(p, g)')
BY DEF Accurate, Ready, Open, Found, Historical, Numbers, Entry

LEMMA KnowsKept ==
  ASSUME NEW p \in Procs, KnowsInv(p), Undisturbed(p)
  PROVE  KnowsInv(p)'
<1> SUFFICES ASSUME quiet'[p] PROVE KnowsInv(p)' BY DEF KnowsInv
<1> USE DEF Undisturbed
<1>3. CASE phase[p] = "lookup"
  <2>1. ASSUME NEW i \in 1..step[p] PROVE Accurate(p, GidAt(want[p], i))'
    <3>1. PICK g : g = GidAt(want[p], i) OBVIOUS
    <3>2. Accurate(p, g)' BY <1>3, <3>1, KnownKept DEF KnowsInv
    <3> QED BY <3>1, <3>2 DEF Accurate, Found, Open, Historical, GidAt
  <2> QED BY <1>3, <2>1 DEF KnowsInv
<1>4. CASE phase[p] \in {"push", "create"}
  <2>1. ASSUME NEW i \in 1..Len(want[p]) PROVE Ready(p, GidAt(want[p], i))'
    <3>1. PICK g : g = GidAt(want[p], i) OBVIOUS
    <3>2. Ready(p, g)' BY <1>4, <3>1, KnownKept DEF KnowsInv
    <3> QED BY <3>1, <3>2 DEF Ready, Found, Open, Historical, GidAt
  <2> QED BY <1>4, <2>1 DEF KnowsInv
<1>5. CASE phase[p] = "update"
  <2>1. ASSUME NEW i \in 1..Len(want[p]) PROVE DesiredBody(p, i)' = DesiredBody(p, i)
    BY <1>5 DEF DesiredBody, Body, GidAt, ParentAt, ChildAt
  <2>2. ASSUME NEW i \in 1..Len(want[p]), NEW n \in Numbers, AsWanted(p, i, prs[n])
        PROVE  AsWanted(p, i, prs[n])'
    BY <2>1, <2>2 DEF AsWanted, BaseAt, GidAt
  <2>3. ASSUME NEW i \in 1..Len(want[p]) PROVE InTurn(p, i, GidAt(want[p], i))'
    <3>1. PICK n \in Numbers :
            LET g == GidAt(want[p], i)
            IN /\ Open(g) = {n} /\ seen[p][g] # NoPr /\ seen[p][g].number = n
               /\ i > step[p] => seen[p][g].pr = prs[n]
               /\ i <= step[p] /\ ~err[p] => AsWanted(p, i, prs[n])
      BY <1>5 DEF KnowsInv, InTurn
    <3>2. i <= step[p] /\ ~err[p] => AsWanted(p, i, prs[n])' BY <2>2, <3>1
    <3> QED BY <3>1, <3>2 DEF InTurn, Open, Numbers, GidAt
  <2> QED BY <1>5, <2>3 DEF KnowsInv
<1>6. CASE phase[p] \notin {"lookup", "push", "create", "update"}
  BY <1>6 DEF KnowsInv
<1> QED BY <1>3, <1>4, <1>5, <1>6

\* A run that ends or begins knows nothing yet.
LEMMA KnowsIdle ==
  ASSUME SyncTypeOK, NEW p \in Procs, ToIdle(p)
  PROVE  KnowsInv(p)'
BY DEF SyncTypeOK, ToIdle, KnowsInv

LEMMA KnowsBegin ==
  ASSUME SyncInv, NEW p \in Procs, NEW s \in Stacks, Begin(p, s)
  PROVE  KnowsInv(p)'
<1>1. want[p] = << >> BY DEF Begin, SyncInv, PhaseInv
<1>2. step[p] = 0 BY <1>1 DEF SyncInv, SyncTypeOK
<1>3. phase'[p] = "lookup" /\ step'[p] = 0 BY <1>2 DEF Begin, SyncInv, SyncTypeOK
<1> QED BY <1>3 DEF KnowsInv

\* A finite set of at most one member is the set of any member of it.
LEMMA OnlyMember ==
  ASSUME NEW S, IsFiniteSet(S), Cardinality(S) <= 1, NEW n \in S
  PROVE  S = {n}
<1> SUFFICES ASSUME NEW m \in S, m # n PROVE FALSE OBVIOUS
<1>1. IsFiniteSet({n}) /\ Cardinality({n}) = 1 BY FS_Singleton
<1>2. Cardinality({n} \cup {m}) = 2 BY <1>1, FS_AddElement
<1>3. {n} \cup {m} \subseteq S OBVIOUS
<1>4. Cardinality({n} \cup {m}) <= Cardinality(S) BY <1>3, FS_Subset
<1>5. Cardinality(S) \in Nat BY FS_CardinalityType
<1> QED BY <1>2, <1>4, <1>5

\* What a lookup may find: pull requests for the identifier, finitely many.
LEMMA FoundFacts ==
  ASSUME prs \in Seq(PullRequests), NEW g
  PROVE  /\ Found(g) \in SUBSET Numbers /\ Found(g) \in SUBSET Nat
         /\ IsFiniteSet(Found(g)) /\ IsFiniteSet(Open(g))
         /\ \A n \in Numbers : Entry(n) \in Entries /\ Entry(n) # NoPr
<1>1. Found(g) \subseteq 1..Len(prs) /\ Open(g) \subseteq 1..Len(prs)
  BY DEF Found, Open, Historical, Numbers
<1>2. IsFiniteSet(1..Len(prs)) BY FS_Interval
<1>3. \A n \in Numbers : Entry(n) \in Entries BY DEF Entry, Entries, Numbers
<1> QED BY <1>1, <1>2, <1>3, FS_Subset, NoPrAssumption DEF Numbers

LEMMA KnowsLookup ==
  ASSUME SyncInv, NEW p \in Procs, KnowsInv(p), LookupOne(p)
  PROVE  KnowsInv(p)'
<1>1. /\ seen \in [Procs -> [Gids -> Entries \cup {NoPr}]] /\ step \in [Procs -> Nat]
      /\ prs \in Seq(PullRequests)
  BY DEF SyncInv, SyncTypeOK
<1>2. /\ phase[p] = "lookup" /\ step[p] < Len(want[p]) /\ UNCHANGED <<prs, phase, want, quiet>>
      /\ step'[p] = step[p] + 1
  BY <1>1 DEF LookupOne, Looking
<1>3. want[p] \in Stacks BY <1>2 DEF SyncInv, SyncTypeOK, PhaseInv
<1>4. /\ want[p] \in Seq(Commits) /\ Len(want[p]) \in Nat
      /\ \A i \in 1..Len(want[p]) : GidAt(want[p], i) \in Gids
  BY WantFacts DEF SyncInv
<1>5. step[p] + 1 \in 1..Len(want[p]) /\ 1..step[p] \subseteq 1..Len(want[p])
  BY <1>1, <1>2, <1>4
<1>6. PICK g \in Gids : g = GidAt(want[p], step[p] + 1) BY <1>4, <1>5
<1>7. PICK found : found = IF Found(g) = {} THEN NoPr ELSE Entry(First(Found(g)))
  OBVIOUS
<1>8. seen' = [seen EXCEPT ![p][g] = found] /\ Cardinality(Found(g)) <= 1
  BY <1>6, <1>7 DEF LookupOne
<1>9. /\ Found(g)' = Found(g) /\ Numbers' = Numbers /\ \A n : Entry(n)' = Entry(n)
  BY <1>2 DEF Found, Open, Historical, Numbers, Entry
<1>10. Accurate(p, g)'
  <2>1. seen'[p][g] = found BY <1>1, <1>8
  <2>2. CASE Found(g) = {} BY <1>7, <1>9, <2>1, <2>2 DEF Accurate
  <2>3. CASE Found(g) # {}
    <3>1. PICK n : n = First(Found(g)) OBVIOUS
    <3>2. n \in Found(g) BY <1>1, <2>3, <3>1, FoundFacts, FirstFacts
    <3>3. n \in Numbers /\ Found(g) = {n} BY <1>1, <1>8, <3>2, FoundFacts, OnlyMember
    <3>4. found = Entry(n) BY <1>7, <2>3, <3>1
    <3> QED BY <1>9, <2>1, <3>3, <3>4 DEF Accurate
  <2> QED BY <2>2, <2>3
<1>11. ASSUME quiet'[p], NEW i \in 1..(step[p] + 1) PROVE Accurate(p, GidAt(want[p], i))'
  <2>1. CASE i = step[p] + 1
    BY <1>2, <1>6, <1>10, <2>1 DEF Accurate, Found, Open, Historical, GidAt
  <2>2. CASE i # step[p] + 1
    <3>1. i \in 1..step[p] /\ i \in 1..Len(want[p]) BY <1>1, <1>5, <2>2
    <3>2. PICK h \in Gids : h = GidAt(want[p], i) BY <1>4, <3>1
    <3>3. h # g BY <1>3, <1>5, <1>6, <2>2, <3>1, <3>2, StacksAssumption DEF GidAt
    <3>4. seen'[p][h] = seen[p][h] BY <1>1, <1>8, <3>3
    <3>5. Accurate(p, h) BY <1>2, <1>11, <3>1, <3>2 DEF KnowsInv
    <3>6. Accurate(p, h)'
      BY <1>2, <3>4, <3>5 DEF Accurate, Found, Open, Historical, Numbers, Entry
    <3> QED BY <1>2, <3>2, <3>6 DEF Accurate, Found, Open, Historical, GidAt
  <2> QED BY <2>1, <2>2
<1> QED BY <1>2, <1>11 DEF KnowsInv

\* Its stack is pushed only when all that the lookups have found is open.
LEMMA KnowsStart ==
  ASSUME SyncInv, NEW p \in Procs, KnowsInv(p), StartPush(p)
  PROVE  KnowsInv(p)'
<1>1. /\ phase[p] = "lookup" /\ step[p] = Len(want[p]) /\ AllOpen(p)
      /\ UNCHANGED <<prs, want, seen, quiet>> /\ phase'[p] = "push"
  BY DEF StartPush, LookedUp, SyncInv, SyncTypeOK
<1>2. prs \in Seq(PullRequests) /\ SyncTypeOK BY DEF SyncInv, SyncTypeOK
<1>3. ASSUME quiet[p], NEW i \in 1..Len(want[p]) PROVE Ready(p, GidAt(want[p], i))'
  <2>1. PICK g \in Gids : g = GidAt(want[p], i) BY <1>2, WantFacts
  <2>2. Accurate(p, g) BY <1>1, <1>3, <2>1 DEF KnowsInv
  <2>3. Ready(p, g)
    <3>1. CASE Found(g) = {} /\ seen[p][g] = NoPr BY <3>1 DEF Ready
    <3>2. CASE ~ (Found(g) = {} /\ seen[p][g] = NoPr)
      <4>1. PICK n \in Numbers : Found(g) = {n} /\ seen[p][g] = Entry(n)
        BY <2>2, <3>2 DEF Accurate
      <4>2. prs[n].state = "OPEN"
        <5>1. seen[p][g] # NoPr BY <1>2, <4>1, FoundFacts
        <5>2. seen[p][g].pr.state = "OPEN" BY <1>1, <5>1 DEF AllOpen
        <5> QED BY <4>1, <5>2 DEF Entry
      <4>3. Open(g) = {n} BY <4>1, <4>2 DEF Found, Historical
      <4> QED BY <4>1, <4>3 DEF Ready
    <3> QED BY <3>1, <3>2
  <2>4. Ready(p, g)' BY <1>1, <2>3, KnownKept
  <2> QED BY <1>1, <2>1, <2>4 DEF Ready, Found, Open, Historical, GidAt
<1> QED BY <1>1, <1>3 DEF KnowsInv

\* Publication does not touch pull requests.
LEMMA KnowsPush ==
  ASSUME NEW p \in Procs, KnowsInv(p), quiet'[p] => quiet[p],
         phase[p] \in {"push", "create"}, phase'[p] \in {"push", "create"},
         prs' = prs, want'[p] = want[p], seen'[p] = seen[p]
  PROVE  KnowsInv(p)'
<1>1. ASSUME quiet[p], NEW i \in 1..Len(want[p]) PROVE Ready(p, GidAt(want[p], i))'
  <2>1. PICK g : g = GidAt(want[p], i) OBVIOUS
  <2>2. Ready(p, g)' BY <1>1, <2>1, KnownKept DEF KnowsInv
  <2> QED BY <2>1, <2>2 DEF Ready, Found, Open, Historical, GidAt
<1> QED BY <1>1 DEF KnowsInv

\* The creation of a missing pull request.
LEMMA KnowsCreate ==
  ASSUME IInv, SyncInv, NEW p \in Procs, KnowsInv(p), CreateOne(p)
  PROVE  KnowsInv(p)'
<1>1. /\ prs \in Seq(PullRequests) /\ step \in [Procs -> Nat]
      /\ seen \in [Procs -> [Gids -> Entries \cup {NoPr}]] /\ SyncTypeOK
  BY DEF SyncInv, SyncTypeOK
<1>2. /\ phase[p] = "create" /\ ToCreate(p) # {} /\ UNCHANGED <<phase, want>>
      /\ quiet'[p] = quiet[p]
  BY <1>1 DEF CreateOne, Disturb, SyncTypeOK
<1>3. /\ stack[p] = want[p] /\ want[p] \in Seq(Commits)
      /\ \A j \in 1..Len(want[p]) : GidAt(want[p], j) \in Gids
  BY <1>2, WriterFacts
<1>4. PICK i \in 1..Len(want[p]) :
        i = First(ToCreate(p)) /\ seen[p][GidAt(want[p], i)] = NoPr
  <2>1. ToCreate(p) \in SUBSET Nat BY <1>1, <1>3 DEF ToCreate
  <2>2. First(ToCreate(p)) \in ToCreate(p) BY <1>2, <2>1, FirstFacts
  <2> DEFINE i == First(ToCreate(p))
  <2>3. i \in (step[p] + 1)..Len(want[p]) /\ seen[p][GidAt(want[p], i)] = NoPr
    BY <1>3, <2>2 DEF ToCreate
  <2> HIDE DEF i
  <2>4. i \in 1..Len(want[p]) BY <1>1, <1>3, <2>3
  <2> QED BY <2>3, <2>4 DEF i
<1>5. PICK g \in Gids : g = GidAt(want[p], i) BY <1>3
<1>6. CASE UNCHANGED <<prs, seen>>
  BY <1>2, <1>6, KnowsPush
<1>7. CASE /\ Create(g, BaseAt(want[p], i), want[p][i])
           /\ seen' = [seen EXCEPT ![p][g] = [number |-> Len(prs'), pr |-> prs'[Len(prs')]]]
  <2>1. /\ Len(prs') = Len(prs) + 1 /\ \A n \in Numbers : prs'[n] = prs[n]
        /\ prs'[Len(prs')].head = g /\ prs'[Len(prs')].state = "OPEN"
    BY <1>1, <1>7 DEF Create, Numbers
  <2>2. /\ Numbers' = Numbers \cup {Len(prs')} /\ Len(prs') \notin Numbers
    BY <1>1, <2>1 DEF Numbers
  <2>3. \A h \in Gids \ {g} : Open(h)' = Open(h) /\ Historical(h)' = Historical(h)
    BY <2>1, <2>2 DEF Open, Historical
  <2>4. ASSUME NEW h \in Gids \ {g}, Ready(p, h) PROVE Ready(p, h)'
    <3>1. seen'[p][h] = seen[p][h] BY <1>1, <1>7
    <3>2. Found(h)' = Found(h) BY <2>3 DEF Found
    <3>3. \A n \in Numbers : Entry(n)' = Entry(n) BY <2>1 DEF Entry
    <3> QED BY <2>2, <2>3, <2>4, <3>1, <3>2, <3>3 DEF Ready
  <2>5. ASSUME Ready(p, g) PROVE Ready(p, g)'
    <3>1. Found(g) = {} BY <1>1, <1>4, <1>5, <2>5, FoundFacts DEF Ready
    <3>2. Open(g) = {} BY <3>1 DEF Found
    <3>3. Open(g)' = {Len(prs')} BY <2>1, <2>2, <3>2 DEF Open
    <3>4. seen'[p][g] = [number |-> Len(prs'), pr |-> prs'[Len(prs')]] BY <1>1, <1>7
    <3>5. PICK n : n = Len(prs') OBVIOUS
    <3>6. Entry(n)' = seen'[p][g] BY <3>4, <3>5 DEF Entry
    <3> QED BY <2>2, <3>3, <3>5, <3>6 DEF Ready
  <2>6. ASSUME quiet[p], NEW j \in 1..Len(want[p]) PROVE Ready(p, GidAt(want[p], j))'
    <3>1. PICK h \in Gids : h = GidAt(want[p], j) BY <1>3
    <3>2. Ready(p, h) BY <1>2, <2>6, <3>1 DEF KnowsInv
    <3>3. Ready(p, h)' BY <2>4, <2>5, <3>2
    <3> QED BY <1>2, <3>1, <3>3 DEF Ready, Found, Open, Historical, GidAt
  <2> QED BY <1>2, <2>6 DEF KnowsInv
<1> QED BY <1>3, <1>4, <1>5, <1>6, <1>7 DEF CreateOne

\* Once nothing is missing all pull requests are open and as they were looked up.
LEMMA KnowsCreated ==
  ASSUME IInv, SyncInv, NEW p \in Procs, KnowsInv(p), AllCreated(p)
  PROVE  KnowsInv(p)'
<1>1. /\ phase[p] = "create" /\ phase'[p] = "update" /\ step'[p] = 0
      /\ UNCHANGED <<prs, want, seen, quiet>> /\ prs \in Seq(PullRequests)
  BY DEF AllCreated, SyncInv, SyncTypeOK
<1>2. \A i \in 1..Len(want[p]) : seen[p][GidAt(want[p], i)] # NoPr
  <2>1. PhaseInv(p)' BY AllCreatedInv DEF RunAfter
  <2> QED BY <1>1, <2>1 DEF PhaseInv, GidAt
<1>3. ASSUME quiet[p], NEW i \in 1..Len(want[p]) PROVE InTurn(p, i, GidAt(want[p], i))'
  <2>1. PICK g : g = GidAt(want[p], i) OBVIOUS
  <2>2. Ready(p, g) BY <1>1, <1>3, <2>1 DEF KnowsInv
  <2>3. PICK n \in Numbers : Open(g) = {n} /\ seen[p][g] = Entry(n)
    BY <1>2, <2>1, <2>2 DEF Ready
  <2>4. seen[p][g].number = n /\ seen[p][g].pr = prs[n] BY <2>3 DEF Entry
  <2>5. Open(g)' = {n} /\ n \in Numbers' BY <1>1, <2>3 DEF Open, Numbers
  <2>6. GidAt(want[p], i)' = g /\ ~ (i <= step'[p]) BY <1>1, <2>1 DEF GidAt
  <2>7. InTurn(p, i, g)' BY <1>1, <1>2, <2>1, <2>4, <2>5, <2>6 DEF InTurn
  <2> QED BY <2>6, <2>7 DEF InTurn, Open, Numbers
<1> QED BY <1>1, <1>3 DEF KnowsInv

\* Everything that a desired body is made of.
LEMMA DesiredKept ==
  ASSUME NEW p \in Procs, NEW i, stack'[p] = stack[p], next'[p] = next[p],
         seen'[p] = seen[p]
  PROVE  DesiredBody(p, i)' = DesiredBody(p, i)
BY DEF DesiredBody, Body, GidAt, ParentAt, ChildAt

\* An update leaves its pull request as wanted: the fields that it does not send
\* are as they were looked up, and they were as wanted.
LEMMA UpdatedAsWanted ==
  ASSUME NEW p \in Procs, NEW i, NEW pr \in PullRequests, stack[p] = want[p],
         seen[p][GidAt(want[p], i)].pr = pr
  PROVE  AsWanted(p, i, Updated(pr, Changes(p, i), want[p][i], DesiredBody(p, i),
                                BaseAt(want[p], i)))
<1> DEFINE new == Updated(pr, Changes(p, i), want[p][i], DesiredBody(p, i),
                          BaseAt(want[p], i))
<1>1. /\ "title" \in Changes(p, i) <=> pr.title # want[p][i]
      /\ "body" \in Changes(p, i) <=> pr.body # DesiredBody(p, i)
      /\ "base" \in Changes(p, i) <=> pr.base # BaseAt(want[p], i)
  BY DEF Changes
<1>2. /\ new.title = IF "title" \in Changes(p, i) THEN want[p][i] ELSE pr.title
      /\ new.body = IF "body" \in Changes(p, i) THEN DesiredBody(p, i) ELSE pr.body
      /\ new.base = IF "base" \in Changes(p, i) THEN BaseAt(want[p], i) ELSE pr.base
  BY DEF Updated, PullRequests
<1> HIDE DEF new
<1>3. new.title = want[p][i] /\ new.body = DesiredBody(p, i) /\ new.base = BaseAt(want[p], i)
  BY <1>1, <1>2
<1> QED BY <1>3 DEF AsWanted, new

\* The turn of the i-th commit comes; those between it and the last one are passed
\* over because nothing is to be changed.
LEMMA KnowsUpdate ==
  ASSUME IInv, SyncInv, NEW p \in Procs, KnowsInv(p), UpdateOne(p)
  PROVE  KnowsInv(p)'
<1>1. /\ prs \in Seq(PullRequests) /\ step \in [Procs -> Nat] /\ err \in [Procs -> BOOLEAN]
      /\ SyncTypeOK
  BY DEF SyncInv, SyncTypeOK
<1>2. /\ phase[p] = "update" /\ ToUpdate(p) # {} /\ UNCHANGED <<phase, want, seen, stack, next>>
      /\ quiet'[p] = quiet[p]
  BY <1>1 DEF UpdateOne, Disturb, SyncTypeOK, pubVars
<1>3. /\ stack[p] = want[p] /\ want[p] \in Seq(Commits) /\ want[p] \in Stacks
      /\ \A j \in 1..Len(want[p]) : GidAt(want[p], j) \in Gids
  BY <1>2, WriterFacts, WriterStack
<1>4. PICK i \in 1..Len(want[p]) :
        /\ i = First(ToUpdate(p)) /\ i > step[p]
        /\ \A j \in 1..Len(want[p]) : j > step[p] /\ j < i => Changes(p, j) = {}
  <2>1. ToUpdate(p) \in SUBSET Nat BY <1>1, <1>3 DEF ToUpdate
  <2>2. First(ToUpdate(p)) \in ToUpdate(p) /\ \A j \in ToUpdate(p) : First(ToUpdate(p)) <= j
    BY <1>2, <2>1, FirstFacts
  <2> DEFINE i == First(ToUpdate(p))
  <2>3. /\ i \in (step[p] + 1)..Len(want[p])
        /\ \A j \in (step[p] + 1)..Len(want[p]) : Changes(p, j) # {} => i <= j
    BY <1>3, <2>2 DEF ToUpdate
  <2> HIDE DEF i
  <2>4. i \in 1..Len(want[p]) /\ i > step[p] BY <1>1, <1>3, <2>3
  <2>5. ASSUME NEW j \in 1..Len(want[p]), j > step[p], j < i PROVE Changes(p, j) = {}
    <3>1. j \in (step[p] + 1)..Len(want[p]) BY <1>1, <1>3, <2>5
    <3> QED BY <1>1, <1>3, <2>3, <2>4, <2>5, <3>1
  <2> QED BY <2>4, <2>5 DEF i
<1>5. step'[p] = i BY <1>1, <1>4 DEF UpdateOne
<1>6. \A j : DesiredBody(p, j)' = DesiredBody(p, j) BY <1>2, DesiredKept
<1>7. SUFFICES ASSUME quiet[p] PROVE \A j \in 1..Len(want[p]) : InTurn(p, j, GidAt(want[p], j))'
  BY <1>2 DEF KnowsInv
<1>8. PICK g \in Gids : g = GidAt(want[p], i) BY <1>3
<1>9. PICK n \in Numbers :
        Open(g) = {n} /\ seen[p][g] # NoPr /\ seen[p][g].number = n /\ seen[p][g].pr = prs[n]
  BY <1>2, <1>4, <1>7, <1>8 DEF KnowsInv, InTurn
<1>10. PICK new :
         new = Updated(prs[n], Changes(p, i), want[p][i], DesiredBody(p, i), BaseAt(want[p], i))
  OBVIOUS
<1>11. \/ prs' = [prs EXCEPT ![n] = new] /\ UNCHANGED err
       \/ err' = [err EXCEPT ![p] = TRUE] /\ UNCHANGED prs
  BY <1>3, <1>4, <1>8, <1>9, <1>10 DEF UpdateOne
<1>12. prs[n] \in PullRequests BY <1>1, <1>9 DEF Numbers
<1>13. new.head = prs[n].head /\ new.state = prs[n].state /\ AsWanted(p, i, new)
  <2>1. AsWanted(p, i, new) BY <1>3, <1>8, <1>9, <1>10, <1>12, UpdatedAsWanted
  <2>2. new.head = prs[n].head /\ new.state = prs[n].state
    BY <1>10, <1>12 DEF Updated, PullRequests
  <2> QED BY <2>1, <2>2
<1>14. /\ Numbers' = Numbers /\ \A h \in Gids : Open(h)' = Open(h)
       /\ \A m \in Numbers \ {n} : prs'[m] = prs[m]
  BY <1>1, <1>9, <1>11, <1>13 DEF Open, Numbers
<1>15. ASSUME NEW j \in 1..Len(want[p]), NEW m \in Numbers,
              i >= j /\ ~err'[p] => AsWanted(p, j, prs'[m])
       PROVE  j <= step'[p] /\ ~err'[p] => AsWanted(p, j, prs[m])'
  BY <1>2, <1>3, <1>4, <1>5, <1>6, <1>15 DEF AsWanted, BaseAt, GidAt
<1>16. ASSUME NEW j \in 1..Len(want[p]) PROVE InTurn(p, j, GidAt(want[p], j))'
  <2>1. PICK h \in Gids : h = GidAt(want[p], j) BY <1>3
  <2>2. PICK m \in Numbers :
          /\ Open(h) = {m} /\ seen[p][h] # NoPr /\ seen[p][h].number = m
          /\ j > step[p] => seen[p][h].pr = prs[m]
          /\ j <= step[p] /\ ~err[p] => AsWanted(p, j, prs[m])
    BY <1>2, <1>7, <2>1 DEF KnowsInv, InTurn
  <2>3. prs[n].head = g /\ prs[m].head = h BY <1>9, <2>2 DEF Open
  <2>4. j # i => h # g /\ m # n /\ prs'[m] = prs[m]
    <3>1. j # i => h # g BY <1>3, <1>8, <2>1, StacksAssumption DEF GidAt
    <3> QED BY <1>14, <2>3, <3>1
  <2>5. i >= j /\ ~err'[p] => AsWanted(p, j, prs'[m])
    <3> SUFFICES ASSUME i >= j, ~err'[p] PROVE AsWanted(p, j, prs'[m]) OBVIOUS
    <3>1. ~err[p] /\ prs' = [prs EXCEPT ![n] = new] BY <1>1, <1>11
    <3>2. CASE j = i
      <4>1. m = n BY <1>8, <1>9, <2>1, <2>2, <3>2
      <4>2. prs'[m] = new BY <1>1, <3>1, <4>1 DEF Numbers
      <4> QED BY <1>13, <3>2, <4>2
    <3>3. CASE j # i /\ j <= step[p] BY <2>2, <2>4, <3>1, <3>3
    <3>4. CASE j # i /\ j > step[p]
      <4>1. Changes(p, j) = {} BY <1>3, <1>4, <3>4
      <4>2. seen[p][h].pr = prs[m] /\ prs'[m] = prs[m] BY <2>2, <2>4, <3>4
      <4>3. AsWanted(p, j, prs[m])
        BY <1>3, <2>1, <4>1, <4>2 DEF Changes, AsWanted
      <4> QED BY <4>2, <4>3
    <3> QED BY <1>1, <1>3, <3>2, <3>3, <3>4
  <2>6. j > step'[p] => seen[p][h].pr = prs'[m]
    BY <1>1, <1>3, <1>4, <1>5, <2>2, <2>4
  <2>7. j <= step'[p] /\ ~err'[p] => AsWanted(p, j, prs[m])' BY <1>15, <2>5
  <2>8. m \in Numbers' /\ Open(h)' = {m} BY <1>14, <2>2
  <2>9. InTurn(p, j, h)' BY <1>2, <2>2, <2>6, <2>7, <2>8 DEF InTurn
  <2> QED BY <1>2, <2>1, <2>9 DEF InTurn, AsWanted, DesiredBody, Body, BaseAt, Open, GidAt
<1> QED BY <1>16

KnowsAll == \A p \in Procs : KnowsInv(p)

\* A step of a run disturbs the others if it writes anything.
LEMMA OthersUndisturbed ==
  ASSUME SyncTypeOK, NEW p \in Procs, NEW q \in Procs, p # q,
         (\E s \in Stacks : Begin(p, s)) \/ RunNext(p) \/ Kill(p)
  PROVE  Undisturbed(q)
<1> USE DEF SyncTypeOK, TypeOK
<1>1. Untouched(q) BY OthersUntouched
<1>2. next'[q] = next[q]
  BY DEF Begin, RunNext, Kill, LookupOne, LookupAmbiguous, StartPush, StopNonOpen,
         PushStep, PushApplied, PushRejected, PushPersisted, CreateOne, AllCreated,
         UpdateOne, Complete, GithubError, Start, ObserveBatch, PlanTarget, SendUpdates,
         ApplyPush, Reject, Persist, Finish, Crash, Reset, pubVars
<1>3. CASE UNCHANGED <<prs, quiet>>
  BY <1>1, <1>2, <1>3 DEF Undisturbed, Untouched
<1>4. CASE BeginsQuiet(p) /\ UNCHANGED prs
  BY <1>1, <1>2, <1>4 DEF Undisturbed, Untouched, BeginsQuiet
<1>5. CASE Disturb(p)
  BY <1>5 DEF Undisturbed, Disturb
<1>6. UNCHANGED <<prs, quiet>> \/ (BeginsQuiet(p) /\ UNCHANGED prs) \/ Disturb(p)
  BY DEF BeginsQuiet, ToIdle, Begin, RunNext, Kill, LookupOne, LookupAmbiguous, StartPush,
         StopNonOpen, PushStep, PushApplied, PushRejected, PushPersisted, CreateOne,
         AllCreated, UpdateOne, Complete, GithubError
<1> QED BY <1>3, <1>4, <1>5, <1>6

LEMMA KnowsStep ==
  ASSUME IInv, SyncInv, KnowsAll, [Next]_vars
  PROVE  KnowsAll'
<1>1. SyncTypeOK BY DEF SyncInv
<1>2. ASSUME NEW p \in Procs, RunNext(p) PROVE KnowsInv(p)'
  <2>1. KnowsInv(p) BY DEF KnowsAll
  <2>2. CASE ToIdle(p) BY <1>1, <2>2, KnowsIdle
  <2>3. CASE LookupOne(p) \/ StartPush(p) \/ CreateOne(p) \/ AllCreated(p) \/ UpdateOne(p)
    BY <2>1, <2>3, KnowsLookup, KnowsStart, KnowsCreate, KnowsCreated, KnowsUpdate
  <2>4. CASE PushStep(p) \/ PushApplied(p) \/ PushPersisted(p)
    <3>1. /\ phase[p] = "push" /\ phase'[p] \in {"push", "create"}
          /\ UNCHANGED <<prs, want, seen>> /\ (quiet'[p] => quiet[p])
      BY <1>1, <2>4 DEF PushStep, PushApplied, PushPersisted, Disturb, SyncTypeOK, syncVars
    <3> QED BY <2>1, <3>1, KnowsPush
  <2> QED BY <1>2, <2>2, <2>3, <2>4
          DEF RunNext, LookupAmbiguous, StopNonOpen, PushRejected, Complete, GithubError
<1>3. ASSUME NEW p \in Procs, (\E s \in Stacks : Begin(p, s)) \/ RunNext(p) \/ Kill(p)
      PROVE  KnowsAll'
  <2>1. KnowsInv(p)' BY <1>1, <1>2, <1>3, KnowsBegin, KnowsIdle DEF Kill
  <2>2. ASSUME NEW q \in Procs, q # p PROVE KnowsInv(q)'
    BY <1>1, <1>3, <2>2, OthersUndisturbed, KnowsKept DEF KnowsAll
  <2> QED BY <2>1, <2>2 DEF KnowsAll
<1>4. CASE UNCHANGED <<prs, syncVars, quiet, stack, next>>
  <2>1. \A p \in Procs : Undisturbed(p) BY <1>4 DEF Undisturbed, syncVars
  <2> QED BY <2>1, KnowsKept DEF KnowsAll
<1>5. ASSUME NEW n \in Numbers, EndPr(n, "MERGED") \/ EndPr(n, "CLOSED") PROVE KnowsAll'
  BY <1>5 DEF EndPr, KnowsAll, KnowsInv
<1>6. ASSUME NEW cl \in Clones, FetchTags(cl)
      PROVE  UNCHANGED <<prs, syncVars, quiet, stack, next>>
  BY <1>6 DEF FetchTags, Fetch, runVars
<1>7. CASE UNCHANGED vars BY <1>4, <1>7 DEF vars, pubVars
<1> QED BY <1>3, <1>4, <1>5, <1>6, <1>7 DEF Next, RunsNext

LEMMA KnowsInit == Init => KnowsAll
BY DEF Init, KnowsAll, KnowsInv

LEMMA KnowsInvariance == Spec => []KnowsAll
<1>1. IInv /\ SyncInv /\ KnowsAll /\ [Next]_vars => KnowsAll' BY KnowsStep
<1> QED BY <1>1, KnowsInit, PublicationInvariance, SyncInvariance, PTL DEF Spec

\* As long as nobody disturbs a run, what it looked up before it pushes is still
\* so when the server applies each of its chunks: none of the pull requests of its
\* stack is closed or merged.
THEOREM NoPushToClosedHolds == Spec => NoPushToClosed
<1>1. ASSUME SyncInv, KnowsAll, NEW p \in Procs, PushApplied(p), quiet[p]
      PROVE  \A i \in 1..Len(stack[p]) :
               LET g == GidAt(stack[p], i) IN Open(g) # {} \/ Historical(g) = {}
  <2>1. phase[p] = "push" /\ stack[p] = want[p]
    BY <1>1 DEF PushApplied, ApplyPush, SyncInv, PhaseInv
  <2>2. \A i \in 1..Len(want[p]) : Ready(p, GidAt(want[p], i))
    BY <1>1, <2>1 DEF KnowsAll, KnowsInv
  <2> QED BY <2>1, <2>2 DEF Ready, Found
<1>2. SyncInv /\ KnowsAll =>
        \A p \in Procs : PushApplied(p) /\ quiet[p] =>
          \A i \in 1..Len(stack[p]) :
            LET g == GidAt(stack[p], i) IN Open(g) # {} \/ Historical(g) = {}
  BY <1>1
<1> QED BY <1>2, KnowsInvariance, SyncInvariance, PTL DEF NoPushToClosed

-----------------------------------------------------------------------------
(* What an undisturbed run leaves behind *)

\* What a run has planned and pushed is the newest there is until somebody else
\* writes something.
TipInv(p) == quiet[p] => UpperInv(p) /\ PushedInv(p)
TipAll == \A p \in Procs : TipInv(p)

\* A run that is not at work on a stack has nothing to be out of date.
LEMMA TipIdle ==
  ASSUME TypeOK, NEW p \in Procs, RunInv(p),
         Reset(p) \/ (pc[p] = "idle" /\ UNCHANGED pubVars)
  PROVE  TipInv(p)'
<1>1. ChunkGids(p)' = {} /\ done'[p] = 0
  <2>1. CASE Reset(p) BY <2>1 DEF Reset, TypeOK, ChunkGids, NoRefs
  <2>2. CASE pc[p] = "idle" /\ UNCHANGED pubVars
    BY <2>2, NothingDone DEF pubVars, ChunkGids
  <2> QED BY <2>1, <2>2
<1> QED BY <1>1 DEF TipInv, UpperInv, PushedInv

\* What a step of the hook does to the publication of its run: there is none before
\* or after it, or it takes a step of it, and disturbs the others if it writes.
AtRest(p) ==
  /\ UNCHANGED quiet \/ BeginsQuiet(p)
  /\ UNCHANGED <<branch, tag>>
  /\ Reset(p) \/ (pc[p] = "idle" /\ UNCHANGED pubVars)

Publishes(p) ==
  /\ (quiet' = quiet /\ UNCHANGED <<branch, tag>>) \/ Disturb(p)
  /\ UNCHANGED pubVars \/ (\E s \in Stacks : Start(p, s)) \/ RunStep(p)

LEMMA RunIsPub ==
  ASSUME SyncInv, NEW p \in Procs, RunNext(p) \/ Kill(p) \/ \E s \in Stacks : Begin(p, s)
  PROVE  AtRest(p) \/ Publishes(p)
<1> USE DEF AtRest, Publishes
<1>1. phase[p] = "lookup" => want[p] \in Stacks /\ pc[p] = "idle"
  BY DEF SyncInv, SyncTypeOK, PhaseInv
<1>2. CASE LookupOne(p) \/ AllCreated(p)
  <2>1. UNCHANGED <<pubVars, quiet>> BY <1>2 DEF LookupOne, AllCreated
  <2> QED BY <2>1 DEF pubVars
<1>3. CASE \E s \in Stacks : Begin(p, s)
  <2>1. phase[p] = "idle" /\ UNCHANGED pubVars /\ BeginsQuiet(p) BY <1>3 DEF Begin, BeginsQuiet
  <2>2. pc[p] = "idle" BY <2>1 DEF SyncInv, PhaseInv
  <2> QED BY <2>1, <2>2 DEF pubVars
<1>4. CASE CreateOne(p) \/ UpdateOne(p)
  BY <1>4 DEF CreateOne, UpdateOne
<1>5. CASE StartPush(p)
  BY <1>1, <1>5 DEF StartPush, LookedUp, Start
<1>6. CASE PushStep(p) \/ PushApplied(p) \/ PushPersisted(p)
  BY <1>6 DEF PushStep, PushApplied, PushPersisted, RunStep, ObserveBatch, PlanTarget,
              SendUpdates
<1>7. CASE LookupAmbiguous(p) \/ StopNonOpen(p)
  BY <1>1, <1>7 DEF ToIdle, LookupAmbiguous, StopNonOpen, Looking, LookedUp, pubVars
<1>8. CASE PushRejected(p) \/ Complete(p) \/ GithubError(p)
  BY <1>8 DEF ToIdle, PushRejected, Complete, GithubError, Reject, Finish
<1>9. CASE Kill(p)
  BY <1>9 DEF ToIdle, Kill, Crash, pubVars
<1> QED BY <1>2, <1>3, <1>4, <1>5, <1>6, <1>7, <1>8, <1>9 DEF RunNext

LEMMA OthersRunKept ==
  ASSUME TypeOK, NEW p \in Procs, NEW q \in Procs, p # q,
         (\E s \in Stacks : Start(p, s)) \/ RunStep(p) \/ Reset(p) \/ UNCHANGED pubVars
  PROVE  RunKept(q)
BY DEF TypeOK, RunKept, Start, RunStep, ObserveBatch, PlanTarget, SendUpdates, ApplyPush,
       Reject, Persist, Finish, Reset, pubVars

LEMMA TipStep ==
  ASSUME Readable, IInv, KnownBelow, SyncInv, TipAll, [Next]_vars
  PROVE  TipAll'
<1>1. SyncTypeOK /\ TypeOK /\ \A p \in Procs : RunInv(p) BY DEF SyncInv, SyncTypeOK, IInv
<1>2. ASSUME NEW p \in Procs, TipInv(p), RunKept(p), UNCHANGED <<branch, tag>>,
             quiet'[p] => quiet[p]
      PROVE  TipInv(p)'
  BY <1>2, UpperKept, PushedKept DEF TipInv
<1>3. CASE UNCHANGED <<branch, tag, runVars, quiet>>
  <2>1. \A p \in Procs : RunKept(p) BY <1>3 DEF runVars, RunKept
  <2> QED BY <1>2, <1>3, <2>1 DEF TipAll
<1>4. ASSUME NEW p \in Procs, RunNext(p) \/ Kill(p) \/ \E s \in Stacks : Begin(p, s)
      PROVE  TipAll'
  <2>1. CASE AtRest(p)
    <3> USE <2>1 DEF AtRest
    <3>1. TipInv(p)' BY <1>1, TipIdle
    <3>2. ASSUME NEW q \in Procs, q # p PROVE TipInv(q)'
      <4>1. RunKept(q) BY <1>1, <3>2, OthersRunKept
      <4>2. quiet'[q] => quiet[q] BY <1>1, <3>2 DEF BeginsQuiet, SyncTypeOK
      <4> QED BY <1>2, <4>1, <4>2 DEF TipAll
    <3> QED BY <3>1, <3>2 DEF TipAll
  <2>2. CASE Publishes(p)
    <3> USE <2>2 DEF Publishes
    <3>1. TipInv(p)'
      <4>1. quiet'[p] => quiet[p] BY DEF Disturb
      <4>2. CASE UNCHANGED pubVars
        <5>1. RunKept(p) /\ UNCHANGED <<branch, tag>> BY <4>2 DEF pubVars, RunKept
        <5> QED BY <1>2, <4>1, <5>1 DEF TipAll
      <4>3. CASE (\E s \in Stacks : Start(p, s)) \/ RunStep(p)
        BY <4>1, <4>3, UpperRun, PushedRun DEF TipAll, TipInv, Readable
      <4> QED BY <4>2, <4>3
    <3>2. ASSUME NEW q \in Procs, q # p PROVE TipInv(q)'
      <4>1. RunKept(q) BY <1>1, <3>2, OthersRunKept
      <4>2. CASE quiet' = quiet /\ UNCHANGED <<branch, tag>>
        BY <1>2, <4>1, <4>2 DEF TipAll
      <4>3. CASE Disturb(p) BY <3>2, <4>3 DEF Disturb, TipInv
      <4> QED BY <4>2, <4>3
    <3> QED BY <3>1, <3>2 DEF TipAll
  <2> QED BY <1>4, <2>1, <2>2, RunIsPub
<1>5. ASSUME NEW n \in Numbers, EndPr(n, "MERGED") \/ EndPr(n, "CLOSED") PROVE TipAll'
  BY <1>5 DEF EndPr, TipAll, TipInv
<1>6. ASSUME NEW cl \in Clones, FetchTags(cl) PROVE UNCHANGED <<branch, tag, runVars, quiet>>
  BY <1>6 DEF FetchTags, Fetch
<1>7. CASE UNCHANGED vars BY <1>3, <1>7 DEF vars, pubVars, runVars
<1> QED BY <1>3, <1>4, <1>5, <1>6, <1>7 DEF Next, RunsNext

LEMMA TipInit == Init => TipAll
<1> SUFFICES ASSUME Init, NEW p \in Procs PROVE TipInv(p) BY DEF TipAll
<1>1. ChunkGids(p) = {} /\ done[p] = 0 BY DEF Init, PubInit, ChunkGids, NoRefs
<1> QED BY <1>1 DEF TipInv, UpperInv, PushedInv

\* When nothing is left to do, every pull request of the stack is as it is wanted.
LEMMA CompleteAsWanted ==
  ASSUME IInv, SyncInv, NEW p \in Procs, KnowsInv(p), quiet[p], Complete(p)
  PROVE  \A i \in 1..Len(want[p]) :
           LET g == GidAt(want[p], i)
           IN \E n \in Numbers : /\ Open(g) = {n} /\ seen[p][g].number = n
                                 /\ AsWanted(p, i, prs[n])
<1>1. phase[p] = "update" /\ ToUpdate(p) = {} /\ ~err[p] BY DEF Complete
<1>2. stack[p] = want[p] /\ want[p] \in Seq(Commits) /\ step[p] \in Nat
  BY <1>1, WriterFacts DEF SyncInv, SyncTypeOK
<1> SUFFICES ASSUME NEW i \in 1..Len(want[p])
             PROVE  LET g == GidAt(want[p], i)
                    IN \E n \in Numbers : /\ Open(g) = {n} /\ seen[p][g].number = n
                                          /\ AsWanted(p, i, prs[n])
  OBVIOUS
<1>3. PICK g : g = GidAt(want[p], i) OBVIOUS
<1>4. PICK n \in Numbers :
        /\ Open(g) = {n} /\ seen[p][g] # NoPr /\ seen[p][g].number = n
        /\ i > step[p] => seen[p][g].pr = prs[n]
        /\ i <= step[p] /\ ~err[p] => AsWanted(p, i, prs[n])
  BY <1>1, <1>3 DEF KnowsInv, InTurn
<1>5. AsWanted(p, i, prs[n])
  <2>1. CASE i <= step[p] BY <1>1, <1>4, <2>1
  <2>2. CASE i > step[p]
    <3>1. i \in (step[p] + 1)..Len(want[p]) BY <1>2, <2>2
    <3>2. Changes(p, i) = {} BY <1>1, <1>2, <3>1 DEF ToUpdate
    <3> QED BY <1>2, <1>3, <1>4, <2>2, <3>2 DEF Changes, AsWanted
  <2> QED BY <1>2, <2>1, <2>2
<1> QED BY <1>3, <1>4, <1>5

\* The version that a run has published undisturbed is the newest.
LEMMA CompleteNewest ==
  ASSUME IInv, SyncInv, NEW p \in Procs, TipInv(p), quiet[p], pc[p] = "published",
         NEW i \in 1..Len(stack[p])
  PROVE  LET g == GidAt(stack[p], i)
         IN /\ branch[g] = stack[p][i]
            /\ Newest(tag[g]) = next[p][g] /\ next[p][g] # 0
            /\ tag[g][next[p][g]] = stack[p][i]
<1>1. PICK g : g = GidAt(stack[p], i) OBVIOUS
<1>2. TypeOK /\ RunPublished(p) /\ done[p] = Len(stack[p])
  BY DEF IInv, RunInv, SyncInv, PhaseInv
<1>3. g \in Gids /\ stack[p][i] # NoRef BY <1>1, <1>2, StackFacts, ActorsAssumption DEF GidAt
<1>4. branch[g] = stack[p][i] /\ Upper(g, next[p][g])
  BY <1>1, <1>2 DEF TipInv, UpperInv, PushedInv, GidAt
<1>5. next[p][g] \in Versions /\ tag[g][next[p][g]] = stack[p][i]
  BY <1>1, <1>2 DEF RunPublished, GidAt
<1>6. tag[g] \in [Versions -> Refs] BY <1>2, <1>3 DEF TypeOK, TagStores
<1>7. next[p][g] \in 0..MaxVersion /\ next[p][g] # 0
  BY <1>5, BatchAssumption DEF Versions
<1>8. IsNewest(tag[g], next[p][g]) BY <1>3, <1>4, <1>5 DEF IsNewest, Upper
<1>9. Newest(tag[g]) = next[p][g] BY <1>6, <1>7, <1>8, NewestUnique
<1> QED BY <1>1, <1>4, <1>5, <1>7, <1>9

LEMMA CompleteSynced ==
  ASSUME IInv, SyncInv, NEW p \in Procs, KnowsInv(p), TipInv(p), quiet[p], Complete(p)
  PROVE  Synced(stack[p])
<1> DEFINE s == stack[p]
           number(j) == First(Open(GidAt(s, j)))
<1>1. phase[p] = "update" BY DEF Complete
<1>2. s = want[p] /\ s \in Seq(Commits) /\ pc[p] = "published"
  BY <1>1, WriterFacts DEF SyncInv, PhaseInv
<1>3. ASSUME NEW i \in 1..Len(s)
      PROVE  /\ Cardinality(Open(GidAt(s, i))) = 1
             /\ number(i) = seen[p][GidAt(s, i)].number
             /\ AsWanted(p, i, prs[number(i)])
  <2>1. PICK n \in Numbers :
          /\ Open(GidAt(s, i)) = {n} /\ seen[p][GidAt(s, i)].number = n
          /\ AsWanted(p, i, prs[n])
    BY <1>2, CompleteAsWanted
  <2>2. Cardinality({n}) = 1 BY FS_Singleton
  <2>3. {n} \in SUBSET Nat BY DEF Numbers
  <2>4. First({n}) = n BY <2>3, FirstFacts
  <2> QED BY <2>1, <2>2, <2>4
<1>4. [j \in 1..Len(s) |-> number(j)] = [j \in 1..Len(s) |-> seen[p][GidAt(s, j)].number]
  <2> HIDE DEF number
  <2> QED BY <1>3
<1>5. ASSUME NEW i \in 1..Len(s)
      PROVE  LET g == GidAt(s, i)
                 pr == prs[number(i)]
             IN /\ branch[g] = s[i]
                /\ Newest(tag[g]) # 0 /\ tag[g][Newest(tag[g])] = s[i]
                /\ pr.title = s[i] /\ pr.base = BaseAt(s, i)
                /\ pr.body = Body(s, i, Newest(tag[g]), [j \in 1..Len(s) |-> number(j)])
  <2>1. /\ branch[GidAt(s, i)] = s[i] /\ next[p][GidAt(s, i)] # 0
        /\ Newest(tag[GidAt(s, i)]) = next[p][GidAt(s, i)]
        /\ tag[GidAt(s, i)][next[p][GidAt(s, i)]] = s[i]
    BY <1>2, CompleteNewest
  <2>2. DesiredBody(p, i) = Body(s, i, Newest(tag[GidAt(s, i)]), [j \in 1..Len(s) |-> number(j)])
    <3> HIDE DEF number
    <3> QED BY <1>4, <2>1 DEF DesiredBody
  <2>3. AsWanted(p, i, prs[number(i)]) BY <1>3
  <2> HIDE DEF number
  <2> QED BY <1>2, <2>1, <2>2, <2>3 DEF AsWanted
<1> QED BY <1>3, <1>5 DEF Synced

\* A run that nobody disturbs and that succeeds leaves its whole stack published
\* as the newest versions, and one open pull request for each commit that has its
\* title, its base and the body with the right version and links.  All clones but
\* one, and references that git cannot list, are excluded: a run that does not
\* know the newest version may publish below it.
THEOREM SyncedWhenDoneOneClone == ASSUME OneClone, Readable PROVE Spec => SyncedWhenDone
<1>1. Spec => []KnownBelow BY PrePushImplementsPublication, KnownBelowInvariance, PTL
<1>2. IInv /\ KnownBelow /\ SyncInv /\ TipAll /\ [Next]_vars => TipAll' BY TipStep
<1>3. Spec => []TipAll
  BY <1>1, <1>2, TipInit, PublicationInvariance, SyncInvariance, PTL DEF Spec
<1>4. IInv /\ SyncInv /\ KnowsAll /\ TipAll =>
        \A p \in Procs : Complete(p) /\ quiet[p] => Synced(stack[p])
  BY CompleteSynced DEF KnowsAll, TipAll
<1> QED BY <1>3, <1>4, KnowsInvariance, PublicationInvariance, SyncInvariance, PTL
        DEF SyncedWhenDone

-----------------------------------------------------------------------------
(* Patch histories *)

\* Whole runs, with their lookups, crashes and errors of GitHub, publish patch
\* histories as the abstract specification has them.
THEOREM PrePushImplementsPatchHistory == Spec => ImplementsPatchHistory
BY PrePushImplementsPublication, PublicationImplementsPatchHistory, PTL
=============================================================================
