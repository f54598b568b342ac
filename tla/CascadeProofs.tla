---------------------------- MODULE CascadeProofs ----------------------------
(* Theorems about Cascade: what is proved of runs holds while jobs rebase      *)
(* branches, and what was merged in a calm moment is final.                    *)
EXTENDS Cascade, PrePushProofs

-----------------------------------------------------------------------------
(* The steps of jobs, seen by runs *)

\* A job that has found its child.
ChildKnown(j) == Child(j) \in Gids /\ j.pr \in Numbers

\* A step of the composition is one of PrePush, or one of the three steps of a
\* job that change more than the job.
LEMMA CascadeCases ==
  ASSUME JobsTypeOK, [CascadeNext]_cascadeVars
  PROVE  \/ [Next]_vars
         \/ \E j \in jobs : ChildKnown(j) /\ (JobCheckout(j) \/ JobEdit(j) \/ JobPush(j))
<1>1. CASE RunsNext BY <1>1 DEF Next
<1>2. ASSUME NEW n \in Numbers, Merge(n) \/ Close(n) PROVE Next
  BY <1>2 DEF Merge, Close, Next
<1>3. ASSUME NEW j \in jobs, JobStep(j) \/ JobFails(j)
      PROVE  UNCHANGED vars \/ (ChildKnown(j) /\ (JobCheckout(j) \/ JobEdit(j) \/ JobPush(j)))
  <2>1. j.step \in {"checkout", "edit", "push"} => ChildKnown(j)
    BY <1>3 DEF JobsTypeOK, ChildKnown
  <2>2. JobCheckout(j) \/ JobEdit(j) \/ JobPush(j) => j.step \in {"checkout", "edit", "push"}
    BY DEF JobCheckout, JobEdit, JobPush
  <2>3. JobFails(j) \/ JobNoMetadata(j) \/ JobTopOfStack(j) \/ JobListChild(j) \/ JobRebase(j)
          => UNCHANGED vars
    BY DEF JobFails, JobNoMetadata, JobTopOfStack, JobListChild, JobRebase
  <2> QED BY <1>3, <2>1, <2>2, <2>3 DEF JobStep
<1>4. CASE UNCHANGED cascadeVars BY <1>4 DEF cascadeVars
<1> QED BY <1>1, <1>2, <1>3, <1>4 DEF CascadeNext

\* Such a step is one of Publication, and it leaves the runs alone.
LEMMA JobStepIsPub ==
  ASSUME NEW j \in jobs, ChildKnown(j), JobCheckout(j) \/ JobEdit(j) \/ JobPush(j)
  PROVE  [PubNext]_pubVars /\ UNCHANGED <<syncVars, countVars, pc, stack, done>>
<1>1. CASE JobCheckout(j)
  <2>1. CascadeCheckout(Child(j)) /\ UNCHANGED <<syncVars, countVars>>
    BY <1>1 DEF JobCheckout
  <2> QED BY <2>1 DEF ChildKnown, PubNext, UsersNext, CascadeCheckout, runVars
<1>2. CASE JobEdit(j)
  BY <1>2 DEF JobEdit, pubVars, runVars
<1>3. CASE JobPush(j)
  <2>1. CascadePush(Child(j)) /\ UNCHANGED <<syncVars, countVars>>
    BY <1>3 DEF JobPush
  <2> QED BY <2>1 DEF ChildKnown, PubNext, UsersNext, CascadePush, runVars
<1> QED BY <1>1, <1>2, <1>3

\* A job changes at most the base of its child, which keeps the truth of bodies.
LEMMA JobPrs ==
  ASSUME SyncInv, NEW j \in jobs, ChildKnown(j), JobCheckout(j) \/ JobEdit(j) \/ JobPush(j)
  PROVE  /\ prs' \in Seq(PullRequests) /\ PrsKept
         /\ \A n \in 1..Len(prs') : Truthful(prs'[n])
<1>1. prs \in Seq(PullRequests) /\ \A n \in Numbers : Truthful(prs[n])
  BY TruthfulPrs DEF SyncInv, SyncTypeOK
<1>2. CASE UNCHANGED prs BY <1>1, <1>2 DEF PrsKept, Numbers
<1>3. CASE prs' = [prs EXCEPT ![j.pr].base = Main]
  <2> DEFINE n == j.pr
             new == [prs[n] EXCEPT !.base = Main]
  <2>1. prs' = [prs EXCEPT ![n] = new] BY <1>3
  <2>2. n \in Numbers /\ prs[n] \in PullRequests BY <1>1 DEF ChildKnown, Numbers
  <2>3. new \in PullRequests /\ new.head = prs[n].head /\ new.body = prs[n].body
    BY <2>2 DEF PullRequests
  <2>4. Truthful(new) BY <1>1, <2>2, <2>3 DEF Truthful
  <2> HIDE DEF new, n
  <2> QED BY <1>1, <2>1, <2>2, <2>3, <2>4 DEF PrsKept, Numbers
<1> QED BY <1>2, <1>3 DEF JobCheckout, JobEdit, JobPush

\* The invariants of runs hold across a step of a job.
LEMMA JobSync ==
  ASSUME IInv, SyncInv, NEW j \in jobs, ChildKnown(j),
         JobCheckout(j) \/ JobEdit(j) \/ JobPush(j)
  PROVE  SyncInv'
<1>1. [PubNext]_pubVars /\ UNCHANGED <<syncVars, countVars, pc, stack, done>>
  BY JobStepIsPub
<1>2. /\ prs' \in Seq(PullRequests) /\ PrsKept
      /\ \A n \in 1..Len(prs') : Truthful(prs'[n])
  BY JobPrs
<1>3. TagsKept BY <1>1, TagsKeptStep DEF IInv
<1>4. BodyVersionPublished'
  <2>1. \A n \in 1..Len(prs') : /\ \A v \in 1..prs'[n].body.version : tag'[prs'[n].head][v] # NoRef
                                /\ prs'[n].body.version # 0 =>
                                     tag'[prs'[n].head][prs'[n].body.version] = prs'[n].body.commit
    <3> SUFFICES ASSUME NEW pr, Truthful(pr)
                 PROVE  /\ \A v \in 1..pr.body.version : tag'[pr.head][v] # NoRef
                        /\ pr.body.version # 0 => tag'[pr.head][pr.body.version] = pr.body.commit
      BY <1>2
    <3>1. /\ pr.head \in Gids /\ pr.body.version \in 0..MaxVersion /\ pr.body.commit \in Commits
          /\ \A v \in 1..pr.body.version : v \in Versions
      BY BatchAssumption DEF Truthful, PullRequests, Bodies, Versions
    <3>2. pr.body.version # 0 => pr.body.version \in 1..pr.body.version
      BY <3>1, BatchAssumption
    <3> QED BY <1>3, <3>1, <3>2, ActorsAssumption DEF Truthful, TagsKept
  <2> QED BY <2>1 DEF BodyVersionPublished, Numbers
<1>5. TypeOK' BY <1>1, TypeStep DEF SyncInv, SyncTypeOK
<1>6. quiet' \in [Procs -> BOOLEAN]
  <2>1. UNCHANGED quiet \/ quiet' = [p \in Procs |-> FALSE]
    BY DEF JobCheckout, JobEdit, JobPush
  <2> QED BY <2>1 DEF SyncInv, SyncTypeOK
<1>7. /\ seen' \in [Procs -> [Gids -> Entries \cup {NoPr}]]
      /\ step' \in [Procs -> Nat] /\ err' \in [Procs -> BOOLEAN]
      /\ \A q \in Procs : step'[q] <= Len(want'[q]) /\ SeenInv(q)' /\ PhaseInv(q)'
  BY <1>1, <1>2, NoRunAfter
<1>8. UNCHANGED <<phase, want, crashes, events>> BY <1>1 DEF syncVars, countVars
<1> QED BY <1>2, <1>4, <1>5, <1>6, <1>7, <1>8 DEF SyncInv, SyncTypeOK

-----------------------------------------------------------------------------
(* Runs and jobs together *)

LEMMA CascadeSyncInit == CascadeInit => IInv /\ SyncInv /\ JobsTypeOK
<1>1. Init => IInv BY IInvInit DEF Init
<1> QED BY <1>1, SyncInit DEF CascadeInit, JobsTypeOK

LEMMA CascadePubStep ==
  ASSUME IInv, SyncInv, JobsTypeOK, [CascadeNext]_cascadeVars
  PROVE  [PubNext]_pubVars /\ IInv' /\ SyncInv'
<1>1. [PubNext]_pubVars
  <2>1. WantInv BY DEF SyncInv, SyncTypeOK, PhaseInv, WantInv
  <2> QED BY <2>1, CascadeCases, StepIsPub, JobStepIsPub
<1>2. IInv' BY <1>1, IInvStep
<1>3. SyncInv' BY <1>1, CascadeCases, SyncStep, JobSync
<1> QED BY <1>1, <1>2, <1>3

\* What a step leaves of the pull requests: their number, heads, and what has
\* ended stays ended.
EndedKept ==
  /\ PrsKept
  /\ \A n \in Numbers : prs[n].state # "OPEN" => prs'[n].state = prs[n].state

LEMMA EndedStays ==
  ASSUME IInv, SyncInv, JobsTypeOK, [CascadeNext]_cascadeVars
  PROVE  EndedKept /\ prs' \in Seq(PullRequests)
<1>1. [PubNext]_pubVars BY CascadePubStep
<1>2. prs \in Seq(PullRequests) BY DEF SyncInv, SyncTypeOK
<1>3. PrsKept /\ prs' \in Seq(PullRequests) BY <1>1, CascadeCases, PrsStep, JobPrs
<1>4. CASE UNCHANGED prs BY <1>3, <1>4 DEF EndedKept
<1>5. ASSUME NEW j \in jobs, ChildKnown(j), JobEdit(j)
      PROVE  \A n \in Numbers : prs'[n].state = prs[n].state
  <2>1. UNCHANGED prs \/ prs' = [prs EXCEPT ![j.pr].base = Main] BY <1>5 DEF JobEdit
  <2>2. \A n \in Numbers : prs[n] \in PullRequests BY <1>2 DEF Numbers
  <2> QED BY <1>2, <2>1, <2>2 DEF PullRequests, Numbers
<1>6. ASSUME NEW n \in Numbers, NEW how, EndPr(n, how)
      PROVE  EndedKept
  <2>1. prs[n].state = "OPEN" /\ prs' = [prs EXCEPT ![n].state = how] BY <1>6 DEF EndPr
  <2> QED BY <1>2, <1>3, <2>1 DEF EndedKept, Numbers
<1>7. ASSUME NEW p \in Procs, CreateOne(p) PROVE EndedKept
  <2>1. UNCHANGED prs \/ \E pr : prs' = Append(prs, pr) BY <1>7 DEF CreateOne, Create
  <2> QED BY <1>2, <1>3, <1>4, <2>1 DEF EndedKept, Numbers
<1>8. ASSUME NEW p \in Procs, UpdateOne(p) PROVE EndedKept
  <2>1. UNCHANGED prs \/ \E n, F, title, body, base :
                          prs' = [prs EXCEPT ![n] = Updated(@, F, title, body, base)]
    BY <1>8 DEF UpdateOne
  <2>2. \A pr \in PullRequests : \A F, title, body, base :
          Updated(pr, F, title, body, base).state = pr.state
    BY DEF Updated, PullRequests
  <2>3. ASSUME NEW n, NEW F, NEW title, NEW body, NEW base,
               prs' = [prs EXCEPT ![n] = Updated(@, F, title, body, base)]
        PROVE  \A m \in Numbers : prs'[m].state = prs[m].state
    <3> SUFFICES ASSUME NEW m \in Numbers PROVE prs'[m].state = prs[m].state OBVIOUS
    <3>1. m \in DOMAIN prs /\ prs[m] \in PullRequests BY <1>2 DEF Numbers
    <3>2. prs'[m] = IF m = n THEN Updated(prs[m], F, title, body, base) ELSE prs[m]
      BY <2>3, <3>1
    <3> QED BY <2>2, <3>1, <3>2
  <2> QED BY <1>3, <1>4, <2>1, <2>3 DEF EndedKept
<1>9. ASSUME NEW p \in Procs, RunNext(p)
      PROVE  UNCHANGED prs \/ CreateOne(p) \/ UpdateOne(p)
  BY <1>9 DEF RunNext, LookupOne, LookupAmbiguous, StartPush, StopNonOpen, PushStep,
              PushApplied, PushRejected, PushPersisted, AllCreated, Complete, GithubError
<1>10. \/ UNCHANGED prs
       \/ \E p \in Procs : CreateOne(p) \/ UpdateOne(p)
       \/ \E n \in Numbers : EndPr(n, "MERGED") \/ EndPr(n, "CLOSED")
       \/ \E j \in jobs : ChildKnown(j) /\ JobEdit(j)
  BY <1>9, CascadeCases DEF Next, RunsNext, vars, Begin, Kill, FetchTags, JobCheckout, JobPush
<1> QED BY <1>2, <1>3, <1>4, <1>5, <1>6, <1>7, <1>8, <1>10 DEF EndedKept

LEMMA JobsTypeStep ==
  ASSUME IInv, SyncInv, JobsTypeOK, [CascadeNext]_cascadeVars
  PROVE  JobsTypeOK'
<1>1. EndedKept /\ prs' \in Seq(PullRequests) /\ prs \in Seq(PullRequests)
  BY EndedStays DEF SyncInv, SyncTypeOK
<1>2. Numbers \subseteq Numbers' BY <1>1 DEF EndedKept, PrsKept, Numbers
<1> DEFINE Well(j) == /\ j \in Jobs
                      /\ j.parent \in Numbers' /\ prs'[j.parent].state = "MERGED"
                      /\ j.pr \in Numbers' \cup {0} /\ (j.step = "list" => j.pr = 0)
                      /\ j.step \in {"checkout", "edit", "rebase", "push"} =>
                           Child(j) \in Gids /\ j.pr # 0
<1>3. \A j \in jobs : Well(j)
  <2>1. \A j \in jobs : prs'[j.parent].state = "MERGED"
    BY <1>1 DEF EndedKept, JobsTypeOK
  <2> QED BY <1>2, <2>1 DEF JobsTypeOK
<1>4. ASSUME NEW j \in jobs, NEW s \in Steps \ {"list"}, To(j, s),
             s \in {"checkout", "edit", "rebase", "push"} => ChildKnown(j) /\ j.pr # 0
      PROVE  \A k \in jobs' : Well(k)
  <2>1. Well([j EXCEPT !.step = s])
    BY <1>3, <1>4 DEF Jobs, ChildKnown, Child
  <2> QED BY <1>3, <1>4, <2>1 DEF To
<1>5. ASSUME NEW j \in jobs, JobListChild(j) PROVE \A k \in jobs' : Well(k)
  <2>1. CASE To(j, "failed") BY <1>4, <2>1 DEF Steps
  <2>2. ASSUME NEW n \in Open(Child(j)),
               jobs' = (jobs \ {j}) \cup {[j EXCEPT !.step = "checkout", !.pr = n]}
        PROVE  \A k \in jobs' : Well(k)
    <3>1. n \in Numbers /\ n \in Nat \ {0} /\ prs[n].head = Child(j) BY <1>1 DEF Open, Numbers
    <3>2. Child(j) \in Gids
      <4>1. prs[n] \in PullRequests BY <1>1, <3>1 DEF Numbers
      <4> QED BY <3>1, <4>1 DEF PullRequests
    <3>3. Well([j EXCEPT !.step = "checkout", !.pr = n])
      BY <1>2, <1>3, <3>1, <3>2 DEF Jobs, Steps, Child
    <3> QED BY <1>3, <2>2, <3>3
  <2> QED BY <1>5, <2>1, <2>2 DEF JobListChild
<1>6. ASSUME NEW j \in jobs, JobStep(j) \/ JobFails(j) PROVE \A k \in jobs' : Well(k)
  <2>1. j.step \in {"checkout", "edit", "rebase", "push"} => ChildKnown(j) /\ j.pr # 0
    BY <1>6 DEF JobsTypeOK, ChildKnown
  <2>2. \/ JobListChild(j)
        \/ \E s \in {"done", "failed"} : To(j, s)
        \/ j.step \in {"checkout", "edit", "rebase"} /\ \E s \in {"edit", "rebase", "push"} : To(j, s)
    BY <1>6 DEF JobStep, JobFails, JobNoMetadata, JobTopOfStack, JobCheckout, JobEdit,
                JobRebase, JobPush
  <2> QED BY <1>4, <1>5, <2>1, <2>2 DEF Steps
<1>7. ASSUME NEW n \in Numbers, Merge(n) PROVE \A k \in jobs' : Well(k)
  <2> DEFINE new == [parent |-> n, body |-> prs[n].body, pr |-> 0, step |-> "list",
                     calm |-> Calm(n)]
  <2>1. jobs' = jobs \cup {new} /\ prs' = [prs EXCEPT ![n].state = "MERGED"]
    BY <1>7 DEF Merge, EndPr
  <2>2. n \in Nat /\ prs[n] \in PullRequests BY <1>1 DEF Numbers
  <2>3. prs'[n].state = "MERGED" BY <1>1, <2>1, <2>2 DEF Numbers, PullRequests
  <2>4. new \in Jobs
    <3>1. Calm(n) \in BOOLEAN BY DEF Calm
    <3> QED BY <2>2, <3>1 DEF Jobs, Steps, PullRequests
  <2>5. Well(new) BY <1>2, <2>2, <2>3, <2>4
  <2> QED BY <1>3, <2>1, <2>5
<1>8. ASSUME jobs' = jobs PROVE \A k \in jobs' : Well(k) BY <1>3, <1>8
<1> HIDE DEF Well
<1>9. \A k \in jobs' : Well(k)
  BY <1>6, <1>7, <1>8 DEF CascadeNext, Close, cascadeVars
<1> QED BY <1>9 DEF Well, JobsTypeOK, Child

-----------------------------------------------------------------------------
(* What was merged in a calm moment is final *)

\* What a run does to pull requests it does to those of its stack, which a
\* pull request that has ended for good is not in.
EndedFrame(g) ==
  /\ \A n \in 1..Len(prs') : prs'[n].head = g => n \in Numbers /\ prs'[n] = prs[n]
  /\ \A n \in Numbers : prs'[n].base = g => prs[n].base = g

LEMMA RunFrame ==
  ASSUME IInv, SyncInv, NEW g \in Gids, Ended(g), NEW p \in Procs,
         CreateOne(p) \/ UpdateOne(p)
  PROVE  EndedFrame(g)
<1>1. phase[p] \in {"create", "update"} BY DEF CreateOne, UpdateOne
<1>2. \A i \in 1..Len(want[p]) : GidAt(want[p], i) # g BY <1>1 DEF Ended
<1>3. /\ stack[p] = want[p] /\ want[p] \in Seq(Commits) /\ Len(want[p]) \in Nat
      /\ step[p] \in Nat /\ prs \in Seq(PullRequests)
  BY <1>1, WriterFacts DEF SyncInv, SyncTypeOK
<1>4. \A i \in 1..Len(want[p]) : BaseAt(want[p], i) # g
  <2> SUFFICES ASSUME NEW i \in 1..Len(want[p]) PROVE BaseAt(want[p], i) # g OBVIOUS
  <2>1. i # 1 => i - 1 \in 1..Len(want[p]) BY <1>3
  <2> QED BY <1>2, <2>1, NamesAssumption DEF BaseAt
<1>5. ASSUME NEW i \in 1..Len(want[p]),
             Create(GidAt(want[p], i), BaseAt(want[p], i), want[p][i])
      PROVE  EndedFrame(g)
  <2> DEFINE new == [head |-> GidAt(want[p], i), base |-> BaseAt(want[p], i),
                     state |-> "OPEN", title |-> want[p][i], body |-> Message(want[p][i])]
  <2>1. prs' = Append(prs, new) /\ new.head # g BY <1>2, <1>5 DEF Create
  <2> HIDE DEF new
  <2> QED BY <1>3, <2>1 DEF EndedFrame, Numbers
<1>6. ASSUME NEW i \in 1..Len(want[p]), NEW n \in Numbers, prs[n].head # g, NEW F,
             NEW title, NEW body,
             prs' = [prs EXCEPT ![n] = Updated(@, F, title, body, BaseAt(want[p], i))]
      PROVE  EndedFrame(g)
  <2> DEFINE new == Updated(prs[n], F, title, body, BaseAt(want[p], i))
  <2>1. prs[n] \in PullRequests BY <1>3 DEF Numbers
  <2>2. new.head # g /\ (new.base = g => prs[n].base = g)
    BY <1>4, <1>6, <2>1 DEF Updated, PullRequests
  <2>3. prs' = [prs EXCEPT ![n] = new] BY <1>6
  <2> HIDE DEF new
  <2> QED BY <1>3, <2>2, <2>3 DEF EndedFrame, Numbers
<1>7. CASE UNCHANGED prs BY <1>7 DEF EndedFrame, Numbers
<1>8. CASE CreateOne(p)
  <2>1. ToCreate(p) \in SUBSET (1..Len(want[p])) BY <1>3 DEF ToCreate
  <2>2. ToCreate(p) \in SUBSET Nat BY <1>3, <2>1
  <2>3. First(ToCreate(p)) \in 1..Len(want[p]) BY <1>8, <2>1, <2>2, FirstFacts DEF CreateOne
  <2> QED BY <1>3, <1>5, <1>7, <1>8, <2>3 DEF CreateOne
<1>9. CASE UpdateOne(p)
  <2> DEFINE i == First(ToUpdate(p))
  <2>1. ToUpdate(p) \in SUBSET (1..Len(want[p])) BY <1>3 DEF ToUpdate
  <2>2. ToUpdate(p) \in SUBSET Nat BY <1>3, <2>1
  <2>3. i \in 1..Len(want[p]) BY <1>9, <2>1, <2>2, FirstFacts DEF UpdateOne
  <2>4. /\ seen[p][GidAt(want[p], i)].number \in Numbers
        /\ prs[seen[p][GidAt(want[p], i)].number].head = GidAt(want[p], i)
    BY <1>9, <2>3, UpdateFacts DEF UpdateOne
  <2>5. prs[seen[p][GidAt(want[p], i)].number].head # g BY <1>2, <2>3, <2>4
  <2>6. \/ UNCHANGED prs
        \/ prs' = [prs EXCEPT ![seen[p][GidAt(want[p], i)].number] =
                     Updated(@, Changes(p, i), want[p][i], DesiredBody(p, i),
                             BaseAt(want[p], i))]
    BY <1>3, <1>9 DEF UpdateOne
  <2> HIDE DEF i
  <2> QED BY <1>6, <1>7, <2>3, <2>4, <2>5, <2>6
<1> QED BY <1>8, <1>9

LEMMA FrameStep ==
  ASSUME IInv, SyncInv, JobsTypeOK, [CascadeNext]_cascadeVars, NEW g \in Gids, Ended(g)
  PROVE  EndedFrame(g)
<1>1. prs \in Seq(PullRequests) BY DEF SyncInv, SyncTypeOK
<1>2. \A n \in Numbers : prs[n].state = "OPEN" => prs[n].head # g
  BY DEF Ended, Open
<1>3. CASE UNCHANGED prs BY <1>3 DEF EndedFrame, Numbers
<1>4. ASSUME NEW j \in jobs, ChildKnown(j), JobEdit(j) PROVE EndedFrame(g)
  <2>1. \/ UNCHANGED prs
        \/ prs[j.pr].state = "OPEN" /\ prs' = [prs EXCEPT ![j.pr].base = Main]
    BY <1>4 DEF JobEdit, CanUpdate
  <2> DEFINE n == j.pr
             new == [prs[n] EXCEPT !.base = Main]
  <2>2. n \in Numbers /\ prs[n] \in PullRequests BY <1>1, <1>4 DEF ChildKnown, Numbers
  <2>3. new.base # g /\ new.head = prs[n].head BY <2>2, NamesAssumption DEF PullRequests
  <2>4. UNCHANGED prs \/ (prs[n].state = "OPEN" /\ prs' = [prs EXCEPT ![n] = new])
    BY <2>1
  <2> HIDE DEF new, n
  <2> QED BY <1>1, <1>2, <1>3, <2>2, <2>3, <2>4 DEF EndedFrame, Numbers
<1>5. ASSUME NEW n \in Numbers, NEW how, EndPr(n, how) PROVE EndedFrame(g)
  <2>1. prs[n].state = "OPEN" /\ prs' = [prs EXCEPT ![n].state = how] BY <1>5 DEF EndPr
  <2>2. prs[n] \in PullRequests BY <1>1 DEF Numbers
  <2>3. /\ [prs[n] EXCEPT !.state = how].base = prs[n].base
        /\ [prs[n] EXCEPT !.state = how].head = prs[n].head
    BY <2>2 DEF PullRequests
  <2> QED BY <1>1, <1>2, <2>1, <2>3 DEF EndedFrame, Numbers
<1>6. ASSUME NEW p \in Procs, RunNext(p)
      PROVE  UNCHANGED prs \/ CreateOne(p) \/ UpdateOne(p)
  BY <1>6 DEF RunNext, LookupOne, LookupAmbiguous, StartPush, StopNonOpen, PushStep,
              PushApplied, PushRejected, PushPersisted, AllCreated, Complete, GithubError
<1>7. \/ UNCHANGED prs
      \/ \E p \in Procs : CreateOne(p) \/ UpdateOne(p)
      \/ \E n \in Numbers : EndPr(n, "MERGED") \/ EndPr(n, "CLOSED")
      \/ \E j \in jobs : ChildKnown(j) /\ JobEdit(j)
  BY <1>6, CascadeCases DEF Next, RunsNext, vars, Begin, Kill, FetchTags, JobCheckout, JobPush
<1> QED BY <1>3, <1>4, <1>5, <1>7, RunFrame

\* Its version tags stay, and its branch moves only to a commit of the cascade.
LEMMA RefsStep ==
  ASSUME IInv, SyncInv, JobsTypeOK, [CascadeNext]_cascadeVars, NEW g \in Gids, Ended(g)
  PROVE  tag'[g] = tag[g] /\ branch'[g] \in Rebased \cup {branch[g]}
<1>1. [PubNext]_pubVars BY CascadePubStep
<1>2. TypeOK BY DEF IInv
<1>3. ASSUME NEW p \in Procs, ApplyPush(p)
      PROVE  tag'[g] = tag[g] /\ branch'[g] = branch[g]
  <2>1. pc[p] = "send" /\ stack[p] = want[p] /\ phase[p] = "push"
    BY <1>3 DEF ApplyPush, SyncInv, PhaseInv, SyncTypeOK, Phases
  <2>2. /\ moving[p] \subseteq ChunkGids(p) /\ tagging[p] \subseteq ChunkGids(p)
        /\ \A h \in ChunkGids(p) : \E i \in (done[p] + 1)..at[p] : GidOf[stack[p][i]] = h
    BY DEF IInv, RunInv, SendInv, ChunkInv
  <2>3. done[p] \in Nat /\ at[p] \in Nat /\ at[p] <= Len(stack[p]) /\ Len(want[p]) \in Nat
    BY <1>2, WantFacts DEF TypeOK, SyncInv
  <2>4. \A i \in 1..Len(want[p]) : GidAt(want[p], i) # g BY <2>1 DEF Ended
  <2>5. g \notin ChunkGids(p) BY <2>1, <2>2, <2>3, <2>4 DEF GidAt
  <2> QED BY <1>3, <2>2, <2>5 DEF ApplyPush, Tagged
<1>4. ASSUME NEW h \in Gids, CascadeCheckout(h) \/ CascadePush(h)
      PROVE  tag'[g] = tag[g] /\ branch'[g] \in Rebased \cup {branch[g]}
  <2>1. branch \in [Gids -> Refs] BY <1>2 DEF TypeOK
  <2> QED BY <1>4, <2>1 DEF CascadeCheckout, CascadePush
<1>5. ASSUME NEW p \in Procs, RunStep(p) \/ Crash(p) \/ \E s \in Stacks : Start(p, s)
      PROVE  UNCHANGED <<tag, branch>> \/ ApplyPush(p)
  BY <1>5 DEF RunStep, Crash, Start, ObserveBatch, PlanTarget, SendUpdates, Reject,
              Persist, Finish
<1> QED BY <1>1, <1>3, <1>4, <1>5 DEF PubNext, UsersNext, Fetch, pubVars

\* What a run may have found for it stops the run.
Stopped(g, p) ==
  \A i \in 1..Len(want[p]) : GidAt(want[p], i) = g =>
    /\ phase[p] = "lookup"
    /\ i <= step[p] => seen[p][g] # NoPr /\ seen[p][g].pr.state # "OPEN"

LEMMA LookupStopped ==
  ASSUME SyncInv, NEW g \in Gids, Ended(g), NEW p \in Procs, LookupOne(p)
  PROVE  Stopped(g, p)'
<1> DEFINE k == step[p] + 1
           h == GidAt(want[p], k)
           found == IF Found(h) = {} THEN NoPr ELSE Entry(First(Found(h)))
<1>1. /\ seen \in [Procs -> [Gids -> Entries \cup {NoPr}]] /\ step \in [Procs -> Nat]
      /\ prs \in Seq(PullRequests) /\ Len(want[p]) \in Nat
  BY WantFacts DEF SyncInv, SyncTypeOK
<1>2. /\ UNCHANGED <<want, phase>> /\ step' = [step EXCEPT ![p] = k]
      /\ seen' = [seen EXCEPT ![p][h] = found] /\ phase[p] = "lookup" /\ k <= Len(want[p])
  BY <1>1 DEF LookupOne, Looking
<1>3. h \in Gids
  <2>1. k \in 1..Len(want[p]) BY <1>1, <1>2
  <2> QED BY <2>1, WantFacts DEF SyncInv
<1>4. h = g => found # NoPr /\ found.pr.state # "OPEN"
  <2> SUFFICES ASSUME h = g PROVE found # NoPr /\ found.pr.state # "OPEN" OBVIOUS
  <2>1. Found(h) = Historical(g) /\ Found(h) # {} BY DEF Ended, Found
  <2>2. Historical(g) \in SUBSET Nat BY DEF Historical, Numbers
  <2>3. First(Found(h)) \in Historical(g) BY <2>1, <2>2, FirstFacts
  <2> DEFINE n == First(Found(h))
  <2>4. /\ n \in Numbers /\ prs[n].state # "OPEN" /\ prs[n] \in PullRequests /\ n \in Nat
    BY <1>1, <2>3 DEF Historical, Numbers
  <2>5. found = Entry(n) BY <2>1
  <2>6. Entry(n) \in Entries /\ Entry(n).pr = prs[n] BY <2>4 DEF Entry, Entries
  <2> HIDE DEF n, found
  <2> QED BY <2>4, <2>5, <2>6, NoPrAssumption
<1>5. step'[p] = k /\ want'[p] = want[p] /\ phase'[p] = "lookup" BY <1>1, <1>2
<1>6. seen'[p][g] = IF h = g THEN found ELSE seen[p][g] BY <1>1, <1>2
<1>7. \A i \in 1..Len(want[p]) : GidAt(want[p], i) = g /\ i <= step[p] =>
        seen[p][g] # NoPr /\ seen[p][g].pr.state # "OPEN"
  BY DEF Ended
<1> HIDE DEF found
<1>8. ASSUME NEW i \in 1..Len(want[p]), GidAt(want[p], i) = g, i <= k
      PROVE  seen'[p][g] # NoPr /\ seen'[p][g].pr.state # "OPEN"
  <2>1. i <= step[p] \/ i = k BY <1>1, <1>8
  <2> QED BY <1>4, <1>6, <1>7, <1>8, <2>1
<1> QED BY <1>5, <1>8 DEF Stopped, GidAt

LEMMA RunStopped ==
  ASSUME SyncInv, NEW g \in Gids, Ended(g), NEW p \in Procs,
         (\E s \in Stacks : Begin(p, s)) \/ RunNext(p) \/ Kill(p)
  PROVE  Stopped(g, p)'
<1> USE DEF SyncInv, SyncTypeOK
<1>1. Stopped(g, p) BY DEF Ended, Stopped
<1>2. CASE ToIdle(p)
  <2>1. want'[p] = << >> BY <1>2 DEF ToIdle
  <2> QED BY <2>1 DEF Stopped
<1>3. CASE \E s \in Stacks : Begin(p, s)
  <2>1. phase[p] = "idle" /\ phase'[p] = "lookup" /\ UNCHANGED step BY <1>3 DEF Begin
  <2>2. Len(want[p]) = 0 /\ step[p] \in Nat /\ step[p] <= Len(want[p])
    BY <2>1 DEF PhaseInv
  <2>3. step'[p] = 0 BY <2>1, <2>2
  <2> QED BY <2>1, <2>3 DEF Stopped
<1>4. CASE LookupOne(p) BY <1>4, LookupStopped
<1>5. CASE StartPush(p)
  <2>1. phase[p] = "lookup" /\ step[p] = Len(want[p]) /\ AllOpen(p) /\ UNCHANGED want
    BY <1>5 DEF StartPush, LookedUp
  <2>2. \A i \in 1..Len(want[p]) : GidAt(want[p], i) # g
    <3>1. Len(want[p]) \in Nat BY WantFacts
    <3>2. \A i \in 1..Len(want[p]) : i <= step[p] BY <2>1, <3>1
    <3>3. seen[p][g] # NoPr => seen[p][g].pr.state = "OPEN" BY <2>1 DEF AllOpen
    <3> QED BY <1>1, <3>2, <3>3 DEF Stopped
  <2> QED BY <2>1, <2>2 DEF Stopped, GidAt
<1>6. CASE \/ PushStep(p) \/ PushApplied(p) \/ PushPersisted(p) \/ CreateOne(p)
           \/ AllCreated(p) \/ UpdateOne(p)
  <2>1. phase[p] # "lookup" /\ UNCHANGED want
    BY <1>6 DEF PushStep, PushApplied, PushPersisted, CreateOne, AllCreated, UpdateOne, syncVars
  <2>2. \A i \in 1..Len(want[p]) : GidAt(want[p], i) # g BY <1>1, <2>1 DEF Stopped
  <2> QED BY <2>1, <2>2 DEF Stopped, GidAt
<1> QED BY <1>2, <1>3, <1>4, <1>5, <1>6 DEF RunNext, Kill, LookupAmbiguous, StopNonOpen,
                                          PushRejected, Complete, GithubError

LEMMA EndedStep ==
  ASSUME IInv, SyncInv, JobsTypeOK, [CascadeNext]_cascadeVars, NEW g \in Gids, Ended(g)
  PROVE  Ended(g)'
<1>1. SyncTypeOK BY DEF SyncInv
<1>2. EndedFrame(g) /\ EndedKept BY FrameStep, EndedStays
<1>3. Open(g)' = {} /\ Historical(g)' # {}
  <2>1. \A n \in 1..Len(prs') : prs'[n].head = g => prs'[n].state # "OPEN"
    BY <1>2 DEF EndedFrame, Ended, Open
  <2>2. PICK n \in Numbers : prs[n].head = g /\ prs[n].state # "OPEN"
    BY DEF Ended, Historical
  <2>3. n \in 1..Len(prs') /\ prs'[n].head = g
    BY <1>1, <1>2, <2>2, EndedStays DEF EndedKept, PrsKept, Numbers, SyncTypeOK
  <2> QED BY <2>1, <2>3 DEF Open, Historical, Numbers
<1>4. ASSUME NEW p \in Procs, Untouched(p) PROVE Stopped(g, p)'
  BY <1>4 DEF Untouched, Ended, Stopped, GidAt
<1>5. CASE UNCHANGED <<syncVars, pc, stack, done>>
  BY <1>3, <1>4, <1>5 DEF syncVars, Untouched, Stopped, Ended
<1>6. ASSUME NEW p \in Procs, (\E s \in Stacks : Begin(p, s)) \/ RunNext(p) \/ Kill(p)
      PROVE  Ended(g)'
  <2>1. \A q \in Procs : Stopped(g, q)' BY <1>1, <1>4, <1>6, RunStopped, OthersUntouched
  <2> QED BY <1>3, <2>1 DEF Ended, Stopped
<1>7. \/ UNCHANGED <<syncVars, pc, stack, done>>
      \/ \E p \in Procs : (\E s \in Stacks : Begin(p, s)) \/ RunNext(p) \/ Kill(p)
  BY CascadeCases, JobStepIsPub
    DEF Next, RunsNext, vars, FetchTags, Fetch, EndPr, pubVars, runVars
<1> QED BY <1>5, <1>6, <1>7

\* When a pull request is merged in a calm moment, nothing is left of it.
LEMMA CalmEnded ==
  ASSUME SyncInv, NEW n \in Numbers, Calm(n), Merge(n), NEW g, g = prs[n].head
  PROVE  Ended(g)'
<1>1. /\ prs \in Seq(PullRequests) /\ n \in DOMAIN prs /\ prs[n] \in PullRequests
      /\ prs' = [prs EXCEPT ![n].state = "MERGED"] /\ UNCHANGED want
  BY DEF SyncInv, SyncTypeOK, Merge, EndPr, Numbers, syncVars
<1>2. \A p \in Procs : Len(want'[p]) = 0 BY <1>1 DEF SyncInv, PhaseInv, Calm
<1>3. \A m \in Numbers : prs[m].head = g /\ prs[m].state = "OPEN" => m = n
  BY DEF Calm, Open
<1>4. /\ Len(prs') = Len(prs) /\ prs'[n].state = "MERGED" /\ prs'[n].head = g
      /\ \A m \in Numbers : m # n => prs'[m] = prs[m]
  BY <1>1 DEF Numbers, PullRequests
<1>5. Open(g)' = {}
  <2>1. \A m \in 1..Len(prs') : prs'[m].head = g => prs'[m].state # "OPEN"
    BY <1>3, <1>4 DEF Numbers
  <2> QED BY <2>1 DEF Open, Numbers
<1>6. Historical(g)' # {}
  <2>1. n \in 1..Len(prs') BY <1>4 DEF Numbers
  <2> QED BY <1>4, <2>1 DEF Historical, Numbers
<1> QED BY <1>2, <1>5, <1>6 DEF Ended

-----------------------------------------------------------------------------
(* The invariant *)

\* A job past the edit has its child's pull request on the default branch, or
\* had come that far before.
Edited(k) == k.step \in {"rebase", "push", "done"} /\ k.pr # 0

FromJob(k) ==
  \E j \in jobs :
    /\ k.parent = j.parent /\ k.calm = j.calm
    /\ Edited(k) =>
         \/ Edited(j) /\ k.pr = j.pr
         \/ k.pr \in Numbers /\ prs'[k.pr].base = Main

FromMerge(k) ==
  \E n \in Numbers : /\ Merge(n) /\ k.parent = n /\ k.step = "list"
                     /\ k.calm => Calm(n)

LEMMA JobsAfter ==
  ASSUME SyncInv, JobsTypeOK, [CascadeNext]_cascadeVars
  PROVE  \A k \in jobs' : FromJob(k) \/ FromMerge(k)
<1>1. jobs \subseteq Jobs /\ prs \in Seq(PullRequests)
  BY DEF JobsTypeOK, SyncInv, SyncTypeOK
<1>2. \A j \in jobs : FromJob(j) BY DEF FromJob
<1>3. ASSUME NEW n \in Numbers, Merge(n) PROVE \A k \in jobs' : FromJob(k) \/ FromMerge(k)
  <2> DEFINE new == [parent |-> n, body |-> prs[n].body, pr |-> 0, step |-> "list",
                     calm |-> Calm(n)]
  <2>1. jobs' = jobs \cup {new} BY <1>3 DEF Merge
  <2>2. FromMerge(new) BY <1>3 DEF FromMerge
  <2> HIDE DEF new
  <2> QED BY <1>2, <2>1, <2>2
<1>4. ASSUME NEW j \in jobs, NEW s \in Steps, To(j, s),
             Edited([j EXCEPT !.step = s]) =>
               \/ Edited(j)
               \/ j.pr \in Numbers /\ prs'[j.pr].base = Main
      PROVE  \A k \in jobs' : FromJob(k)
  <2>1. j \in Jobs BY <1>1
  <2>2. FromJob([j EXCEPT !.step = s]) BY <1>4, <2>1 DEF FromJob, Jobs
  <2> QED BY <1>2, <1>4, <2>2 DEF To
<1>5. ASSUME NEW j \in jobs, JobListChild(j) PROVE \A k \in jobs' : FromJob(k)
  <2>1. CASE To(j, "failed")
    <3>1. ~Edited([j EXCEPT !.step = "failed"]) BY <1>1 DEF Edited, Jobs
    <3> QED BY <1>4, <2>1, <3>1 DEF Steps
  <2>2. ASSUME NEW n \in Open(Child(j)),
               jobs' = (jobs \ {j}) \cup {[j EXCEPT !.step = "checkout", !.pr = n]}
        PROVE  \A k \in jobs' : FromJob(k)
    <3>1. FromJob([j EXCEPT !.step = "checkout", !.pr = n])
      BY <1>1 DEF FromJob, Edited, Jobs
    <3> QED BY <1>2, <2>2, <3>1
  <2> QED BY <1>5, <2>1, <2>2 DEF JobListChild
<1>6. ASSUME NEW j \in jobs, JobEdit(j), To(j, "rebase"), prs' = [prs EXCEPT ![j.pr].base = Main]
      PROVE  j.pr \in Numbers /\ prs'[j.pr].base = Main
  <2>1. j.pr \in Numbers BY <1>6 DEF JobsTypeOK, JobEdit
  <2> QED BY <1>1, <1>6, <2>1 DEF Numbers, PullRequests
<1>7. ASSUME NEW j \in jobs, JobStep(j) \/ JobFails(j) PROVE \A k \in jobs' : FromJob(k)
  <2>1. j \in Jobs BY <1>1
  <2>2. \A s \in Steps : /\ [j EXCEPT !.step = s].step = s
                         /\ [j EXCEPT !.step = s].pr = j.pr
    BY <2>1 DEF Jobs
  <2>3. CASE To(j, "failed") \/ To(j, "edit")
    BY <1>4, <2>2, <2>3 DEF Edited, Steps
  <2>4. CASE JobTopOfStack(j)
    <3>1. j.pr = 0 /\ To(j, "done") BY <2>4 DEF JobTopOfStack, JobsTypeOK
    <3> QED BY <1>4, <2>2, <3>1 DEF Edited, Steps
  <2>5. CASE JobEdit(j)
    BY <1>4, <1>6, <2>3, <2>5 DEF JobEdit, Steps
  <2>6. CASE JobRebase(j) \/ JobPush(j)
    <3>1. j.step \in {"rebase", "push"} /\ (To(j, "push") \/ To(j, "done") \/ To(j, "failed"))
      BY <2>6 DEF JobRebase, JobPush
    <3> QED BY <1>4, <2>2, <2>3, <3>1 DEF Edited, Steps
  <2> QED BY <1>5, <1>7, <2>3, <2>4, <2>5, <2>6
        DEF JobStep, JobFails, JobNoMetadata, JobCheckout
<1> QED BY <1>2, <1>3, <1>7 DEF CascadeNext, Close, cascadeVars

LEMMA CascadeInvStep ==
  ASSUME IInv, SyncInv, CascadeInv, [CascadeNext]_cascadeVars
  PROVE  CascadeInv'
<1>1. JobsTypeOK /\ JobsTypeOK' BY JobsTypeStep DEF CascadeInv
<1>2. prs \in Seq(PullRequests) BY DEF SyncInv, SyncTypeOK
<1>3. \A j \in jobs : /\ j.parent \in Numbers /\ ParentOf(j) \in Gids
                      /\ prs'[j.parent].head = ParentOf(j)
  <2>1. PrsKept BY <1>1, EndedStays DEF EndedKept
  <2>2. \A n \in Numbers : prs[n].head \in Gids
    <3>1. \A n \in Numbers : prs[n] \in PullRequests BY <1>2 DEF Numbers
    <3> QED BY <3>1 DEF PullRequests
  <2> QED BY <1>1, <2>1, <2>2 DEF JobsTypeOK, PrsKept, ParentOf
<1>4. ASSUME NEW g \in Gids, NEW j \in jobs, j.calm, ParentOf(j) = g
      PROVE  Ended(g)'
  <2>1. Ended(g)
    <3>1. Ended(ParentOf(j)) BY <1>4 DEF CascadeInv
    <3> QED BY <1>4, <3>1
  <2> QED BY <1>1, <2>1, EndedStep
<1>5. ASSUME NEW k \in jobs', k.calm
      PROVE  \E g \in Gids : prs'[k.parent].head = g /\ Ended(g)'
  <2>1. CASE FromJob(k) BY <1>3, <1>4, <1>5, <2>1 DEF FromJob, ParentOf
  <2>2. CASE FromMerge(k)
    <3>1. k.parent \in Numbers /\ Calm(k.parent) /\ Merge(k.parent)
      BY <1>5, <2>2 DEF FromMerge
    <3>2. PrsKept BY <1>1, EndedStays DEF EndedKept
    <3>3. prs[k.parent].head \in Gids
      <4>1. prs[k.parent] \in PullRequests BY <1>2, <3>1 DEF Numbers
      <4> QED BY <4>1 DEF PullRequests
    <3> QED BY <3>1, <3>2, <3>3, CalmEnded DEF PrsKept
  <2> QED BY <1>1, <2>1, <2>2, JobsAfter
<1>6. \A k \in jobs' : k.calm => Ended(ParentOf(k))'
  BY <1>5 DEF ParentOf, Ended
<1>7. ASSUME NEW k \in jobs', k.calm, Edited(k)
      PROVE  prs'[k.pr].base # prs'[k.parent].head
  <2>1. ~FromMerge(k) BY <1>7 DEF FromMerge, Edited
  <2>2. PICK j \in jobs : /\ k.parent = j.parent /\ k.calm = j.calm
                          /\ \/ Edited(j) /\ k.pr = j.pr
                             \/ k.pr \in Numbers /\ prs'[k.pr].base = Main
    BY <1>1, <1>7, <2>1, JobsAfter DEF FromJob
  <2>3. CASE prs'[k.pr].base = Main BY <1>3, <2>2, <2>3, NamesAssumption
  <2>4. CASE Edited(j) /\ k.pr = j.pr
    <3>1. prs[j.pr].base # ParentOf(j) /\ Ended(ParentOf(j)) /\ j.pr \in Numbers
      BY <1>1, <1>7, <2>2, <2>4 DEF CascadeInv, RetargetedForGood, Edited, JobsTypeOK
    <3>2. EndedFrame(ParentOf(j)) BY <1>1, <1>3, <3>1, FrameStep
    <3> QED BY <1>3, <2>2, <2>4, <3>1, <3>2 DEF EndedFrame
  <2> QED BY <2>2, <2>3, <2>4
<1>8. RetargetedForGood' BY <1>7 DEF RetargetedForGood, Edited, ParentOf
<1> QED BY <1>1, <1>6, <1>8 DEF CascadeInv

-----------------------------------------------------------------------------
(* Theorems *)

LEMMA CascadeInvInit == CascadeInit => CascadeInv
BY DEF CascadeInit, CascadeInv, JobsTypeOK, RetargetedForGood

LEMMA AllInvariance == CascadeSpec => [](IInv /\ SyncInv /\ CascadeInv)
<1>1. CascadeInit => IInv /\ SyncInv /\ CascadeInv BY CascadeSyncInit, CascadeInvInit
<1>2. IInv /\ SyncInv /\ CascadeInv /\ [CascadeNext]_cascadeVars
        => (IInv /\ SyncInv /\ CascadeInv)'
  BY CascadePubStep, CascadeInvStep DEF CascadeInv
<1> QED BY <1>1, <1>2, PTL DEF CascadeSpec

\* Runs and jobs together do to branches and tags what Publication allows, so
\* everything that is proved of it holds while jobs rebase branches.
THEOREM CascadeImplementsPublication == CascadeSpec => PubSpec
<1>1. CascadeInit => PubInit BY DEF CascadeInit, Init
<1>2. IInv /\ SyncInv /\ CascadeInv /\ [CascadeNext]_cascadeVars => [PubNext]_pubVars
  BY CascadePubStep DEF CascadeInv
<1> QED BY <1>1, <1>2, AllInvariance, PTL DEF CascadeSpec, PubSpec

\* Bodies on GitHub name published versions only, while jobs change bases and
\* branches between the steps of a run.
THEOREM CascadeBodyVersionPublished == CascadeSpec => []BodyVersionPublished
<1>1. SyncInv => BodyVersionPublished BY DEF SyncInv
<1> QED BY <1>1, AllInvariance, PTL

\* Once a pull request was merged in a calm moment no run gets past its lookup
\* with it, and a child that was moved onto the default branch stays there.
THEOREM CascadeInvariance == CascadeSpec => []CascadeInv
BY AllInvariance, PTL

\* What was merged in a calm moment is final: no other version, no other pull
\* request, and no change to the merged one.
THEOREM MergedIsFinalHolds == CascadeSpec => MergedIsFinal
<1>1. ASSUME IInv, SyncInv, CascadeInv, [CascadeNext]_cascadeVars, NEW j \in jobs, j.calm
      PROVE  LET g == ParentOf(j)
             IN /\ tag'[g] = tag[g]
                /\ branch'[g] \in Rebased \cup {branch[g]}
                /\ \A n \in 1..Len(prs') : prs'[n].head = g =>
                     n \in Numbers /\ prs'[n] = prs[n]
  <2>1. JobsTypeOK /\ Ended(ParentOf(j)) BY <1>1 DEF CascadeInv
  <2>2. ParentOf(j) \in Gids
    <3>1. prs[j.parent] \in PullRequests
      <4>1. j.parent \in 1..Len(prs) BY <2>1 DEF JobsTypeOK, Numbers
      <4>2. prs \in Seq(PullRequests) BY <1>1 DEF SyncInv, SyncTypeOK
      <4> QED BY <4>1, <4>2
    <3> QED BY <3>1 DEF PullRequests, ParentOf
  <2> QED BY <1>1, <2>1, <2>2, RefsStep, FrameStep DEF EndedFrame
<1>2. IInv /\ SyncInv /\ CascadeInv /\ [CascadeNext]_cascadeVars =>
        [\A j \in jobs : j.calm =>
           LET g == ParentOf(j)
           IN /\ tag'[g] = tag[g]
              /\ branch'[g] \in Rebased \cup {branch[g]}
              /\ \A n \in 1..Len(prs') : prs'[n].head = g =>
                   n \in Numbers /\ prs'[n] = prs[n]]_cascadeVars
  BY <1>1
<1> QED BY <1>2, AllInvariance, PTL DEF CascadeSpec, MergedIsFinal

\* Patch histories are as their abstract specification has them while jobs rebase.
THEOREM CascadeImplementsPatchHistory == CascadeSpec => ImplementsPatchHistory
BY CascadeImplementsPublication, PublicationImplementsPatchHistory, PTL

-----------------------------------------------------------------------------
(* The tip of a branch *)

\* A commit and what rebases make of it.
RebasedOnce == \A c \in Commits : RebaseOf[RebaseOf[c]] = RebaseOf[c]
OrRebased(c) == {c, RebaseOf[c]}

\* A branch that the push does not have to move is still at its target when the
\* server applies it, or at the rebase of it.
SentInv(p) ==
  pc[p] = "send" =>
    \A g \in ChunkGids(p) : g \notin moving[p] => branch[g] \in OrRebased(target[p][g])

CurrentInv ==
  /\ TipIsCurrent
  /\ \A p \in Procs : UpperInv(p) /\ SentInv(p)

\* A job moves a branch to the rebase of what is there.
Rebases(g) ==
  /\ branch[g] # NoRef
  /\ branch' = [branch EXCEPT ![g] = RebaseOf[branch[g]]]
  /\ UNCHANGED <<tag, runVars>>

\* What a step of the composition does to the refs: a run takes a step, or a job.
LEMMA CascadeRefs ==
  ASSUME SyncInv, JobsTypeOK, [CascadeNext]_cascadeVars
  PROVE  \/ UNCHANGED <<branch, tag, runVars>>
         \/ \E p \in Procs : \/ Reset(p) /\ UNCHANGED <<branch, tag>>
                             \/ (\E s \in Stacks : Start(p, s)) \/ RunStep(p)
         \/ \E g \in Gids : Rebases(g)
<1> USE DEF runVars
<1>1. ASSUME NEW p \in Procs, AtRest(p) \/ Publishes(p)
      PROVE  \/ UNCHANGED <<branch, tag, runVars>>
             \/ Reset(p) /\ UNCHANGED <<branch, tag>>
             \/ (\E s \in Stacks : Start(p, s)) \/ RunStep(p)
  BY <1>1 DEF AtRest, Publishes, pubVars
<1>2. ASSUME NEW cl \in Clones, FetchTags(cl) PROVE UNCHANGED <<branch, tag, runVars>>
  BY <1>2 DEF FetchTags, Fetch
<1>3. ASSUME NEW n \in Numbers, EndPr(n, "MERGED") \/ EndPr(n, "CLOSED")
      PROVE  UNCHANGED <<branch, tag, runVars>>
  BY <1>3 DEF EndPr, pubVars
<1>4. ASSUME NEW j \in jobs, ChildKnown(j), JobCheckout(j) \/ JobEdit(j)
      PROVE  UNCHANGED <<branch, tag, runVars>>
  BY <1>4 DEF JobCheckout, JobEdit, CascadeCheckout, pubVars
<1>5. ASSUME NEW j \in jobs, ChildKnown(j), JobPush(j)
      PROVE  UNCHANGED <<branch, tag, runVars>> \/ Rebases(Child(j))
  <2> DEFINE g == Child(j)
  <2>1. ci[g] # NoRef /\ UNCHANGED <<tag, runVars>> BY <1>5 DEF JobPush, CascadePush
  <2>2. CASE branch[g] # ci[g] BY <1>5, <2>1, <2>2 DEF JobPush, CascadePush
  <2>3. CASE branch[g] = ci[g]
    <3>1. PICK c \in Rebased : branch' = [branch EXCEPT ![g] = c]
      BY <1>5, <2>3 DEF JobPush, CascadePush
    <3>2. branch'[g] = RebaseOf[branch[g]] BY <1>5, <2>3 DEF JobPush
    <3>3. branch'[g] = c BY <1>5, <3>1 DEF ChildKnown, SyncInv, SyncTypeOK, TypeOK
    <3> QED BY <2>1, <2>3, <3>1, <3>2, <3>3 DEF Rebases
  <2> QED BY <2>2, <2>3
<1>6. CASE UNCHANGED vars BY <1>6 DEF vars, pubVars
<1> QED BY <1>1, <1>2, <1>3, <1>4, <1>5, <1>6, CascadeCases, RunIsPub
        DEF Next, RunsNext, ChildKnown

\* The push of a chunk makes the planned versions the newest ones, and the
\* branches point at them or at the rebase of them.
LEMMA CurrentApply ==
  ASSUME IInv, KnownBelow, IInv', TipIsCurrent, NEW p \in Procs,
         CloneOf[p] \notin Unreadable, UpperInv(p), SentInv(p), ApplyPush(p)
  PROVE  TipIsCurrent'
<1>1. TypeOK /\ TypeOK' /\ RunInv(p) /\ RunInv(p)' BY DEF IInv
<1>2. /\ pc[p] = "send" /\ pc'[p] = "persist" /\ UNCHANGED <<next, target>>
      /\ branch' = [g \in Gids |-> IF g \in moving[p] THEN target[p][g] ELSE branch[g]]
      /\ tag' = Tagged(p, tag, tagging[p])
      /\ moving[p] \subseteq ChunkGids(p) /\ tagging[p] \subseteq ChunkGids(p)
  BY <1>1 DEF ApplyPush, TypeOK, RunInv, SendInv
<1>3. ChunkGids(p)' = ChunkGids(p) BY <1>2 DEF ChunkGids
<1>4. UpperInv(p)' BY UpperRun DEF RunStep
<1> SUFFICES ASSUME NEW g \in Gids
             PROVE  IF Newest(tag'[g]) = 0 THEN branch'[g] = NoRef
                    ELSE branch'[g] \in OrRebased(tag'[g][Newest(tag'[g])])
  BY DEF TipIsCurrent, OrRebased
<1>5. CASE g \notin ChunkGids(p)
  <2>1. tag'[g] = tag[g] /\ branch'[g] = branch[g] BY <1>2, <1>5 DEF Tagged
  <2> QED BY <2>1 DEF TipIsCurrent, OrRebased
<1>6. CASE g \in ChunkGids(p)
  <2>1. next[p][g] \in Versions /\ tag'[g][next[p][g]] = target[p][g] /\ target[p][g] # NoRef
    BY <1>1, <1>2, <1>3, <1>6 DEF RunInv, PlanInv, SendInv, ChunkGids
  <2>2. \A v \in Versions : tag'[g][v] # NoRef => v <= next[p][g]
    BY <1>2, <1>3, <1>4, <1>6 DEF UpperInv, Upper
  <2>3. next[p][g] \in 0..MaxVersion /\ next[p][g] # 0 BY <2>1, BatchAssumption DEF Versions
  <2>4. tag'[g] \in [Versions -> Refs] BY <1>1 DEF TypeOK, TagStores
  <2>5. IsNewest(tag'[g], next[p][g]) BY <2>1, <2>2 DEF IsNewest
  <2>6. Newest(tag'[g]) = next[p][g] BY <2>3, <2>4, <2>5, NewestUnique
  <2>7. branch'[g] \in OrRebased(target[p][g])
    BY <1>2, <1>6 DEF SentInv, OrRebased
  <2> QED BY <2>1, <2>3, <2>6, <2>7
<1> QED BY <1>5, <1>6

LEMMA CurrentRun ==
  ASSUME IInv, KnownBelow, IInv', TipIsCurrent, NEW p \in Procs,
         CloneOf[p] \notin Unreadable, UpperInv(p), SentInv(p),
         (\E s \in Stacks : Start(p, s)) \/ RunStep(p)
  PROVE  TipIsCurrent' /\ UpperInv(p)' /\ SentInv(p)'
<1>1. UpperInv(p)' BY UpperRun
<1>2. TypeOK BY DEF IInv
<1>3. CASE SendUpdates(p)
  <2>1. /\ moving'[p] = {g \in ChunkGids(p) : BranchMoves(p, g)}
        /\ UNCHANGED <<branch, tag, target>>
    BY <1>2, <1>3 DEF SendUpdates, TypeOK
  <2>2. SentInv(p)' BY <2>1 DEF SentInv, ChunkGids, BranchMoves, OrRebased
  <2> QED BY <1>1, <2>1, <2>2 DEF TipIsCurrent
<1>4. CASE ApplyPush(p)
  <2>1. pc'[p] = "persist" BY <1>2, <1>4 DEF ApplyPush, TypeOK
  <2> QED BY <1>1, <1>4, <2>1, CurrentApply DEF SentInv
<1>5. CASE ~SendUpdates(p) /\ ~ApplyPush(p)
  <2>1. UNCHANGED <<branch, tag>> /\ pc'[p] # "send"
    BY <1>2, <1>5 DEF RunStep, Start, ObserveBatch, PlanTarget, Reject, Persist, Finish, Reset,
                      TypeOK
  <2> QED BY <1>1, <2>1 DEF SentInv, TipIsCurrent
<1> QED BY <1>3, <1>4, <1>5

\* A job rebases what it finds, which is the newest version or the rebase of it.
LEMMA CurrentRebase ==
  ASSUME RebasedOnce, IInv, CurrentInv, NEW g \in Gids, Rebases(g)
  PROVE  CurrentInv'
<1>1. TypeOK /\ TipIsCurrent BY DEF IInv, CurrentInv
<1>2. /\ branch'[g] = RebaseOf[branch[g]] /\ branch[g] # NoRef
      /\ \A h \in Gids \ {g} : branch'[h] = branch[h]
      /\ UNCHANGED <<tag, runVars>>
  BY <1>1 DEF Rebases, TypeOK
<1>3. ASSUME NEW c \in Commits, branch[g] \in OrRebased(c) PROVE branch'[g] \in OrRebased(c)
  BY <1>2, <1>3 DEF OrRebased, RebasedOnce
<1>4. TipIsCurrent'
  <2> SUFFICES ASSUME NEW h \in Gids
               PROVE  IF Newest(tag[h]) = 0 THEN branch'[h] = NoRef
                      ELSE branch'[h] \in OrRebased(tag[h][Newest(tag[h])])
    BY <1>2 DEF TipIsCurrent, OrRebased
  <2>1. CASE h # g BY <1>1, <1>2, <2>1 DEF TipIsCurrent, OrRebased
  <2>2. CASE h = g
    <3>1. Newest(tag[g]) # 0 /\ branch[g] \in OrRebased(tag[g][Newest(tag[g])])
      BY <1>1, <1>2 DEF TipIsCurrent, OrRebased
    <3>2. tag[g] \in [Versions -> Refs] BY <1>1 DEF TypeOK, TagStores
    <3>3. tag[g][Newest(tag[g])] \in Commits
      BY <3>1, <3>2, NewestIsNewest, BatchAssumption DEF IsNewest, Versions, Refs
    <3> QED BY <1>3, <2>2, <3>1, <3>3
  <2> QED BY <2>1, <2>2
<1>5. ASSUME NEW p \in Procs PROVE UpperInv(p)' /\ SentInv(p)'
  <2>1. UpperInv(p) /\ SentInv(p) BY DEF CurrentInv
  <2>2. RunKept(p) BY <1>2 DEF runVars, RunKept
  <2>3. UpperInv(p)' BY <1>2, <2>1, <2>2, UpperKept
  <2>4. SentInv(p)'
    <3> SUFFICES ASSUME pc[p] = "send", NEW h \in ChunkGids(p), h \notin moving[p]
                 PROVE  branch'[h] \in OrRebased(target[p][h])
      BY <2>2 DEF SentInv, ChunkGids, RunKept
    <3>1. branch[h] \in OrRebased(target[p][h]) BY <2>1 DEF SentInv
    <3>2. h \in Gids /\ target[p][h] \in Commits BY <1>1 DEF ChunkGids, TypeOK, Refs
    <3> QED BY <1>2, <1>3, <3>1, <3>2
  <2> QED BY <2>3, <2>4
<1> QED BY <1>4, <1>5 DEF CurrentInv

LEMMA CurrentStep ==
  ASSUME OneRun, Readable, RebasedOnce, IInv, KnownBelow, SyncInv, JobsTypeOK, CurrentInv,
         [CascadeNext]_cascadeVars
  PROVE  CurrentInv'
<1>1. IInv' /\ TypeOK BY CascadePubStep DEF IInv
<1>2. CASE UNCHANGED <<branch, tag, runVars>>
  <2>1. \A p \in Procs : RunKept(p) BY <1>2 DEF runVars, RunKept
  <2>2. \A p \in Procs : UpperInv(p)' BY <1>2, <2>1, UpperKept DEF CurrentInv
  <2>3. \A p \in Procs : SentInv(p)'
    BY <1>2, <2>1 DEF CurrentInv, SentInv, RunKept, ChunkGids
  <2> QED BY <1>2, <2>2, <2>3 DEF CurrentInv, TipIsCurrent
<1>3. ASSUME NEW p \in Procs, Reset(p), UNCHANGED <<branch, tag>> PROVE CurrentInv'
  <2>1. UpperInv(p)' BY <1>1, <1>3, UpperReset
  <2>2. SentInv(p)' BY <1>1, <1>3 DEF Reset, TypeOK, SentInv
  <2>3. \A q \in Procs : q = p BY DEF OneRun
  <2> QED BY <1>3, <2>1, <2>2, <2>3 DEF CurrentInv, TipIsCurrent
<1>4. ASSUME NEW p \in Procs, (\E s \in Stacks : Start(p, s)) \/ RunStep(p) PROVE CurrentInv'
  <2>1. TipIsCurrent' /\ UpperInv(p)' /\ SentInv(p)'
    BY <1>1, <1>4, CurrentRun DEF CurrentInv, Readable
  <2>2. \A q \in Procs : q = p BY DEF OneRun
  <2> QED BY <2>1, <2>2 DEF CurrentInv
<1> QED BY <1>2, <1>3, <1>4, CascadeRefs, CurrentRebase

LEMMA CurrentInit == CascadeInit => CurrentInv
<1> SUFFICES ASSUME CascadeInit PROVE CurrentInv OBVIOUS
<1>1. Init /\ PubInit BY DEF CascadeInit, Init
<1>2. ASSUME NEW p \in Procs PROVE UpperInv(p) /\ SentInv(p)
  <2>1. ChunkGids(p) = {} /\ done[p] = 0 /\ pc[p] = "idle"
    BY <1>1 DEF PubInit, ChunkGids, NoRefs
  <2> QED BY <2>1 DEF UpperInv, SentInv
<1>3. ASSUME NEW g \in Gids PROVE branch[g] = NoRef /\ Newest(tag[g]) = 0
  <2>1. tag[g] \in [Versions -> Refs] /\ \A v \in Versions : tag[g][v] = NoRef
    BY <1>1 DEF PubInit, Refs
  <2>2. IsNewest(tag[g], 0) /\ 0 \in 0..MaxVersion BY <2>1, BatchAssumption DEF IsNewest
  <2>3. Newest(tag[g]) = 0 BY <2>1, <2>2, NewestUnique
  <2> QED BY <1>1, <2>3 DEF PubInit, NoRefs
<1> QED BY <1>2, <1>3 DEF CurrentInv, TipIsCurrent

\* One user and any number of jobs never undo what the other has pushed, whatever
\* is killed in between: every branch is at the newest version of its commit or at
\* the rebase of it.  Two runs at a time may put an older one back.
THEOREM TipIsCurrentOneRun ==
  ASSUME OneRun, Readable, RebasedOnce
  PROVE  CascadeSpec => []TipIsCurrent
<1>1. OneClone BY DEF OneRun, OneClone
<1>2. CascadeSpec => []KnownBelow
  BY <1>1, CascadeImplementsPublication, KnownBelowInvariance, PTL
<1>3. IInv /\ KnownBelow /\ SyncInv /\ CascadeInv /\ CurrentInv /\ [CascadeNext]_cascadeVars
        => CurrentInv'
  BY CurrentStep DEF CascadeInv
<1>4. CurrentInv => TipIsCurrent BY DEF CurrentInv
<1> QED BY <1>2, <1>3, <1>4, CurrentInit, AllInvariance, PTL DEF CascadeSpec
=============================================================================
