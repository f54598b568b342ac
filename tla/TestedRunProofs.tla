--------------------------- MODULE TestedRunProofs ---------------------------
(* Theorems about TestedRun: what the calls of a command are to             *)
(* BatchedGraphql, and what a test learns of faults and pushes.             *)
EXTENDS TestedRun, BatchedGraphqlProofs, FiniteSetTheorems, WellFoundedInduction

-----------------------------------------------------------------------------
(* The commits without a pull request *)

\* The commits of a run.
RunInv == length \in Lengths /\ DOMAIN known = 1..Len(Stack)

LEMMA PlaceFacts ==
  ASSUME RunInv
  PROVE  /\ Place(0) = 0
         /\ \A i \in 1..Len(Stack) : /\ Place(i) \in Nat /\ Place(i - 1) \in Nat
                                     /\ Place(i) = IF known[i] = None THEN Place(i - 1) + 1
                                                   ELSE Place(i - 1)
<1> DEFINE none(i) == {j \in 1..i : known[j] = None}
<1>1. Len(Stack) \in Nat BY TestedRunAssumption
<1>2. ASSUME NEW i \in Nat PROVE IsFiniteSet(none(i)) /\ Cardinality(none(i)) \in Nat
  <2>1. IsFiniteSet(1..i) BY <1>2, FS_Interval
  <2>2. none(i) \subseteq 1..i OBVIOUS
  <2>3. IsFiniteSet(none(i)) BY <2>1, <2>2, FS_Subset
  <2> QED BY <2>3, FS_CardinalityType
<1>3. Place(0) = 0
  <2>1. none(0) = {} OBVIOUS
  <2> QED BY <2>1, FS_EmptySet DEF Place
<1>4. ASSUME NEW i \in 1..Len(Stack)
      PROVE  /\ Place(i) \in Nat /\ Place(i - 1) \in Nat
             /\ Place(i) = IF known[i] = None THEN Place(i - 1) + 1 ELSE Place(i - 1)
  <2>1. i \in Nat /\ i - 1 \in Nat /\ i \notin none(i - 1) BY <1>1, <1>4
  <2>2. none(i) = IF known[i] = None THEN none(i - 1) \cup {i} ELSE none(i - 1)
    <3>1. 1..i = 1..(i - 1) \cup {i} BY <2>1, <1>4
    <3> QED BY <3>1
  <2>3. IsFiniteSet(none(i - 1)) /\ Cardinality(none(i - 1)) \in Nat
        /\ Cardinality(none(i)) \in Nat
    BY <1>2, <2>1
  <2> HIDE DEF none
  <2>4. Cardinality(none(i)) = IF known[i] = None THEN Cardinality(none(i - 1)) + 1
                               ELSE Cardinality(none(i - 1))
    BY <2>1, <2>2, <2>3, FS_AddElement
  <2>5. Place(i) = Cardinality(none(i)) /\ Place(i - 1) = Cardinality(none(i - 1))
    BY DEF none, Place
  <2> QED BY <2>3, <2>4, <2>5
<1> QED BY <1>3, <1>4

\* The places of the commits without one are 1, 2 and so on: none is left out.
LEMMA MissingFacts ==
  ASSUME RunInv
  PROVE  /\ Place(Len(Stack)) \in 0..Len(Stack)
         /\ \A k \in DOMAIN Missing : Missing[k] \in DOMAIN known
                                      /\ known[Missing[k]] = None /\ Place(Missing[k]) = k
<1> DEFINE N == Len(Stack)
<1>1. N \in Nat BY TestedRunAssumption
<1>2. Place(N) \in 0..N
  <2>1. IsFiniteSet(1..N) /\ Cardinality(1..N) = N
    <3> HIDE DEF N
    <3>1. 1 \in Int /\ N \in Int BY <1>1
    <3>2. IsFiniteSet(1..N) /\ Cardinality(1..N) = IF 1 > N THEN 0 ELSE N - 1 + 1
      BY <3>1, FS_Interval, Zenon
    <3> QED BY <1>1, <3>2
  <2>2. {j \in 1..N : known[j] = None} \subseteq 1..N OBVIOUS
  <2>3. Cardinality({j \in 1..N : known[j] = None}) <= N
        /\ IsFiniteSet({j \in 1..N : known[j] = None})
    BY <2>1, <2>2, FS_Subset
  <2>4. Cardinality({j \in 1..N : known[j] = None}) \in Nat BY <2>3, FS_CardinalityType
  <2> QED BY <1>1, <2>3, <2>4 DEF Place
<1>3. ASSUME NEW k \in 1..Place(N)
      PROVE  \E i \in DOMAIN known : known[i] = None /\ Place(i) = k
  <2> DEFINE B == {i \in 0..N : Place(i) >= k}
             R == {ss \in Nat \X Nat : ss[1] < ss[2]}
  <2>1. B \subseteq Nat /\ N \in B BY <1>1, <1>2
  <2>2. IsWellFoundedOn(R, Nat) BY NatLessThanWellFounded DEF OpToRel
  <2>3. PICK i \in B : \A j \in B : ~ (<<j, i>> \in R)
    <3> HIDE DEF R, B
    <3> QED BY <2>1, <2>2, WFMin
  <2>4. k \in Nat /\ k >= 1 BY <1>2
  <2>5. i \in 1..N BY <1>1, <2>3, <2>4, PlaceFacts
  <2>6. i - 1 \in 0..N /\ i - 1 \notin B
    <3>1. i - 1 \in 0..N /\ i - 1 < i /\ i \in Nat BY <1>1, <2>5
    <3>2. ~ (<<i - 1, i>> \in R) => FALSE BY <3>1, <1>1
    <3> HIDE DEF R, B
    <3> QED BY <2>3, <3>1, <3>2
  <2>7. Place(i) \in Nat /\ Place(i - 1) \in Nat /\ Place(i - 1) < k /\ Place(i) >= k
    BY <2>3, <2>4, <2>5, <2>6, PlaceFacts
  <2>8. Place(i) = IF known[i] = None THEN Place(i - 1) + 1 ELSE Place(i - 1)
    BY <2>5, PlaceFacts
  <2>9. known[i] = None /\ Place(i) = k BY <2>4, <2>7, <2>8
  <2> QED BY <2>5, <2>9 DEF RunInv
<1>4. DOMAIN Missing = 1..Place(N) BY DEF Missing
<1>5. ASSUME NEW k \in 1..Place(N)
      PROVE  Missing[k] = CHOOSE i \in DOMAIN known : known[i] = None /\ Place(i) = k
  BY DEF Missing
<1> QED BY <1>2, <1>3, <1>4, <1>5

-----------------------------------------------------------------------------
(* The calls *)

\* A call with one document for each of its operations begins as Init says.
LEMMA NextCallInit ==
  ASSUME NEW ops, NEW lengths \in Costs, Len(ops) = Len(lengths), NextCall(ops, lengths)
  PROVE  Init'
BY DEF NextCall, Init, Ops, ItemCount

LEMMA NoCallStutters == NoCall => UNCHANGED batchVars
BY DEF NoCall

\* The documents of the calls.
LEMMA Documents ==
  ASSUME NEW n \in 0..Len(Stack), NEW l \in Lengths, NEW d,
         d \in [1..n -> {1} \cup Range(l)]
  PROVE  d \in Costs /\ Len(d) = n
<1>1. Range(l) \subseteq UNION {Range(m) : m \in Lengths} OBVIOUS
<1>2. d \in [1..n -> {1} \cup UNION {Range(m) : m \in Lengths}] BY <1>1
<1>3. d \in Costs BY <1>2, TestedRunAssumption
<1>4. Len(d) = n
  <2>1. d \in Seq(Nat) BY <1>3, BatchedAssumption
  <2>2. Len(Stack) \in Nat BY TestedRunAssumption
  <2>3. DOMAIN d = 1..n /\ n \in Nat BY <2>2
  <2>4. DOMAIN d = 1..Len(d) /\ Len(d) \in Nat BY <2>1
  <2> QED BY <2>3, <2>4
<1> QED BY <1>3, <1>4

LEMMA RunInvStep == RunInv /\ [TestedNext]_testedVars => RunInv'
<1> SUFFICES ASSUME RunInv, [TestedNext]_testedVars PROVE RunInv' OBVIOUS
<1>1. UNCHANGED <<length, known>> => RunInv' BY DEF RunInv
<1>2. length' = length /\ DOMAIN known' = DOMAIN known => RunInv' BY DEF RunInv
<1>3. CASE BackOffUnsent \/ Request \/ CallReturns
  BY <1>1, <1>3 DEF BackOffUnsent, Request, CallReturns, TestUnchanged
<1>4. CASE CallFails \/ LsRemote \/ GitPush \/ Report \/ SyncPrs \/ UpdatesDone
  BY <1>1, <1>4 DEF CallFails, LsRemote, GitPush, Report, SyncPrs, UpdatesDone
<1>5. CASE HookGit \/ GitFails \/ StartHook \/ TimeOut \/ TearDown \/ Rival
  BY <1>1, <1>5 DEF HookGit, GitFails, StartHook, TimeOut, TearDown, Rival
<1>6. CASE Found BY <1>2, <1>6 DEF Found
<1>7. CASE StartPush BY <1>2, <1>7 DEF StartPush
<1>8. CASE AllKnown BY <1>1, <1>8 DEF AllKnown, PlanUpdates
<1>9. CASE CreatesDone
  <2>1. DOMAIN CreatesReturned = DOMAIN known BY DEF CreatesReturned
  <2>2. known' = CreatesReturned /\ length' = length BY <1>9 DEF CreatesDone, PlanUpdates
  <2> QED BY <1>2, <2>1, <2>2
<1>10. CASE UNCHANGED testedVars BY <1>1, <1>10 DEF testedVars, testVars
<1> QED BY <1>3, <1>4, <1>5, <1>6, <1>7, <1>8, <1>9, <1>10 DEF TestedNext, Step

\* A step of a command is one of a call, the beginning of another, or none.
LEMMA CallStep == RunInv /\ [TestedNext]_testedVars => [Next \/ Init']_batchVars
<1> SUFFICES ASSUME RunInv, [TestedNext]_testedVars PROVE [Next \/ Init']_batchVars OBVIOUS
<1>0. /\ length \in Lengths /\ DOMAIN known = 1..Len(Stack) /\ DOMAIN Stack = 1..Len(Stack)
      /\ Len(Stack) \in Nat /\ length \in [1..Len(Stack) -> Nat]
  BY TestedRunAssumption DEF RunInv
<1>1. NoCall => [Next \/ Init']_batchVars BY NoCallStutters
<1>2. CASE BackOffUnsent BY <1>2 DEF BackOffUnsent, Next
<1>3. CASE Request
  <2>1. PICK reply : BackOffRefused(reply) \/ Accepted(reply) \/ Failed(reply)
    BY <1>3 DEF Request
  <2>2. CASE BackOffRefused(reply) BY <2>2 DEF BackOffRefused, Next
  <2>3. CASE Accepted(reply) BY <2>3 DEF Accepted, Next
  <2>4. CASE Failed(reply)
    <3>1. FailWith({i \in Current : call[i + 1] \in Range(reply.done)})
      BY <2>4 DEF Failed
    <3>2. {i \in Current : call[i + 1] \in Range(reply.done)} \in SUBSET Current OBVIOUS
    <3>3. FailBatch BY <3>1, <3>2 DEF FailBatch
    <3> QED BY <3>3 DEF Next
  <2> QED BY <2>1, <2>2, <2>3, <2>4
<1>4. CASE CallReturns BY <1>4 DEF CallReturns, Next
<1>5. CASE CallFails \/ Found \/ LsRemote \/ GitPush \/ Report \/ UpdatesDone
  BY <1>1, <1>5 DEF CallFails, Found, LsRemote, GitPush, Report, UpdatesDone
<1>6. CASE HookGit \/ GitFails \/ StartHook \/ TimeOut \/ TearDown \/ Rival
  BY <1>1, <1>6 DEF HookGit, GitFails, StartHook, TimeOut, TearDown, Rival
<1>7. CASE StartPush
  <2> DEFINE ops == [i \in DOMAIN Stack |-> FindOp(Stack[i])]
             ones == [i \in DOMAIN Stack |-> 1]
  <2>1. NextCall(ops, ones) BY <1>7 DEF StartPush
  <2>2. ones \in [1..Len(Stack) -> {1} \cup Range(length)] BY <1>0
  <2>3. Len(ops) = Len(Stack) BY <1>0
  <2> HIDE DEF ops, ones
  <2> QED BY <1>0, <2>1, <2>2, <2>3, Documents, NextCallInit
<1>8. ASSUME NEW prs1, PlanUpdates(prs1) PROVE Init'
  <2> DEFINE ops == [i \in DOMAIN Stack |->
                       UpdateOp(prs1[i].number, IF prs1[i].base = Base(i) THEN None ELSE Base(i),
                                <<i, Command>>)]
  <2>1. NextCall(ops, length) BY <1>8 DEF PlanUpdates
  <2>2. length \in [1..Len(Stack) -> {1} \cup Range(length)] BY <1>0 DEF Range
  <2>3. Len(ops) = Len(Stack) BY <1>0
  <2> HIDE DEF ops
  <2> QED BY <1>0, <2>1, <2>2, <2>3, Documents, NextCallInit
<1>9. CASE AllKnown \/ CreatesDone BY <1>8, <1>9 DEF AllKnown, CreatesDone
<1>10. CASE SyncPrs
  <2> DEFINE ops == [k \in DOMAIN Missing |->
                       CreateOp(Stack[Missing[k]], Base(Missing[k]), <<Missing[k], 0>>)]
             lens == [k \in DOMAIN Missing |-> length[Missing[k]]]
  <2>1. CASE NoCall BY <1>1, <2>1
  <2>2. CASE NextCall(ops, lens)
    <3>1. PICK n \in 0..Len(Stack) : n = Place(Len(Stack)) BY MissingFacts
    <3>2. DOMAIN Missing = 1..n BY <3>1 DEF Missing
    <3>3. \A k \in DOMAIN Missing : Missing[k] \in 1..Len(Stack) BY <1>0, MissingFacts
    <3>4. lens \in [1..n -> {1} \cup Range(length)]
      <4>1. ASSUME NEW k \in 1..n PROVE lens[k] \in Range(length)
        BY <1>0, <3>2, <3>3 DEF Range
      <4>2. lens = [k \in 1..n |-> lens[k]] BY <3>2
      <4> HIDE DEF lens
      <4> QED BY <4>1, <4>2
    <3>5. Len(ops) = n BY <1>0, <3>2
    <3> HIDE DEF ops, lens
    <3> QED BY <1>0, <2>2, <3>4, <3>5, Documents, NextCallInit
  <2> QED BY <1>10, <2>1, <2>2 DEF SyncPrs
<1>11. CASE UNCHANGED testedVars BY <1>11 DEF testedVars
<1> QED BY <1>2, <1>3, <1>4, <1>5, <1>6, <1>7, <1>9, <1>10, <1>11 DEF TestedNext, Step

LEMMA RunInvInit == TestedInit => RunInv
<1> SUFFICES ASSUME TestedInit PROVE RunInv OBVIOUS
<1>1. known = [i \in 1..Len(Stack) |-> None] /\ length \in Lengths BY DEF TestedInit
<1> QED BY <1>1 DEF RunInv

\* Every call of a run is one that run_batched_graphql makes, from its beginning:
\* whatever the server answers and whoever else uses it.
THEOREM CallsAreBatchedHolds == TestedSpec => CallsAreBatched
BY RunInvInit, RunInvStep, CallStep, PTL DEF TestedSpec, CallsAreBatched

\* So what is proved of a call holds of each: results match the operations, what is
\* in doubt is one batch.
THEOREM BatchInvOfCalls == TestedSpec => []BatchInv
<1>1. TestedInit => BatchInv
  <2>1. TestedInit => Init BY DEF TestedInit
  <2> QED BY <2>1, BatchInit
<1>2. Init' => BatchInv' BY BatchInit, PTL
<1>3. BatchInv /\ [Next \/ Init']_batchVars => BatchInv'
  <2> SUFFICES ASSUME BatchInv, [Next \/ Init']_batchVars PROVE BatchInv' OBVIOUS
  <2>1. CASE Init' BY <1>2, <2>1
  <2>2. CASE [Next]_batchVars BY <2>2, BatchStep
  <2> QED BY <2>1, <2>2
<1> QED BY <1>1, <1>3, CallsAreBatchedHolds, PTL DEF TestedSpec, CallsAreBatched

\* No call of any command has GitHub execute an operation twice, whatever
\* faults are injected and whatever limit a request has.
THEOREM CallsExecuteOnce == TestedSpec => []ExecutedAtMostOnce
<1>1. BatchInv => ExecutedAtMostOnce BY DEF BatchInv, ExecutedAtMostOnce
<1> QED BY <1>1, BatchInvOfCalls, PTL

\* After a call that fails only the operations of one batch are in doubt.
THEOREM CallsInDoubt == TestedSpec => []InDoubtIsOneBatch
<1>1. BatchInv => InDoubtIsOneBatch BY DEF BatchInv, InDoubtIsOneBatch
<1> QED BY <1>1, BatchInvOfCalls, PTL

-----------------------------------------------------------------------------
(* The record of the pushes *)

\* All pushes are recorded, but for one that is about to be or whose command was
\* killed.
RecordInv ==
  /\ pushes \in Seq({0, 1}) /\ made \in Seq({0, 1})
  /\ CASE stage = "report" -> exitCode \in {0, 1} /\ made = Append(pushes, exitCode)
       [] stage \in {"killed", "torn"} ->
            made = pushes \/ \E code \in {0, 1} : made = Append(pushes, code)
       [] OTHER -> made = pushes

LEMMA RecordStep == RecordInv /\ [TestedNext]_testedVars => RecordInv'
<1> SUFFICES ASSUME RecordInv, [TestedNext]_testedVars PROVE RecordInv' OBVIOUS
<1> DEFINE others == {"report", "killed", "torn"}
<1>1. ASSUME UNCHANGED <<pushes, made, exitCode, stage>> PROVE RecordInv'
  BY <1>1 DEF RecordInv
<1>2. ASSUME UNCHANGED <<pushes, made>>, stage \notin others, stage' \notin {"report"}
      PROVE  RecordInv'
  BY <1>2 DEF RecordInv
<1>3. CASE BackOffUnsent \/ CallReturns
  BY <1>1, <1>3 DEF BackOffUnsent, CallReturns, TestUnchanged, mockVars
<1>4. CASE Request BY <1>1, <1>4 DEF Request, Graphql, TestUnchanged
<1>5. CASE CallFails \/ Found \/ LsRemote \/ UpdatesDone
  BY <1>2, <1>5 DEF CallFails, Calling, Found, LsRemote, UpdatesDone, Finish, mockVars
<1>6. CASE GitPush
  <2>1. PICK code \in {0, 1} : exitCode' = code /\ made' = Append(made, code)
    BY <1>6 DEF GitPush
  <2>2. stage = "push" /\ stage' = "report" /\ pushes' = pushes BY <1>6 DEF GitPush
  <2>3. made = pushes /\ made \in Seq({0, 1}) BY <2>2 DEF RecordInv
  <2> QED BY <2>1, <2>2, <2>3 DEF RecordInv
<1>7. CASE Report
  <2>1. stage = "report" /\ pushes' = Append(pushes, exitCode) /\ made' = made
        /\ stage' \in {"pushed", "idle"}
    BY <1>7 DEF Report, CompleteGit, Finish
  <2>2. made = Append(pushes, exitCode) /\ exitCode \in {0, 1} BY <2>1 DEF RecordInv
  <2> QED BY <2>1, <2>2 DEF RecordInv
<1>8. CASE SyncPrs BY <1>2, <1>8 DEF SyncPrs, Graphql, Finish
<1>9. CASE AllKnown \/ CreatesDone
  BY <1>2, <1>9 DEF AllKnown, CreatesDone, PlanUpdates, mockVars
<1>10. CASE HookGit \/ GitFails
  BY <1>2, <1>10 DEF HookGit, GitFails, GitFault, Finish, mockVars
<1>11. CASE StartPush \/ StartHook BY <1>2, <1>11 DEF StartPush, StartHook, mockVars
<1>12. CASE TimeOut
  <2>1. stage' = "killed" /\ UNCHANGED <<pushes, made>> BY <1>12 DEF TimeOut, mockVars
  <2> QED BY <2>1 DEF RecordInv
<1>13. CASE TearDown
  <2>1. stage \in {"idle", "killed"} /\ stage' = "torn" /\ UNCHANGED <<pushes, made>>
    BY <1>13 DEF TearDown, mockVars
  <2> QED BY <2>1 DEF RecordInv
<1>14. CASE Rival BY <1>1, <1>14 DEF Rival
<1>15. CASE UNCHANGED testedVars BY <1>1, <1>15 DEF testedVars, testVars, mockVars
<1> QED BY <1>3, <1>4, <1>5, <1>6, <1>7, <1>8, <1>9, <1>10, <1>11, <1>12, <1>13, <1>14, <1>15
        DEF TestedNext, Step

LEMMA RecordInit == TestedInit => RecordInv
BY DEF TestedInit, RecordInv

\* The record that a test reads has every push with its exit code, in order, but
\* for one whose command is about to report it or was killed (git_interceptor.rs).
THEOREM PushesRecordedHolds == TestedSpec => []PushesRecorded
<1>1. TestedInit => RecordInv BY RecordInit
<1>2. RecordInv => PushesRecorded
  <2> SUFFICES ASSUME RecordInv PROVE PushesRecorded OBVIOUS
  <2>1. pushes \in Seq({0, 1}) BY DEF RecordInv
  <2>2. ASSUME NEW code \in {0, 1}, made = Append(pushes, code)
        PROVE  IsPrefix(pushes, made) /\ Len(made) <= Len(pushes) + 1
    BY <2>1, <2>2 DEF IsPrefix
  <2>3. ASSUME made = pushes
        PROVE  IsPrefix(pushes, made) /\ Len(made) <= Len(pushes) + 1
    BY <2>1, <2>3 DEF IsPrefix
  <2>4. made = pushes \/ \E code \in {0, 1} : made = Append(pushes, code)
    BY DEF RecordInv
  <2>5. pushes # made => stage \in {"report", "killed", "torn"} BY DEF RecordInv
  <2> QED BY <2>2, <2>3, <2>4, <2>5 DEF PushesRecorded
<1> QED BY <1>1, <1>2, RecordStep, PTL DEF TestedSpec

-----------------------------------------------------------------------------
(* The faults *)

Outcomes == {"pushed", "ok", "failed", "panic", "unconsumed", "passed"}

\* The faults that were met are those of the commands that have failed, and one
\* more when the command that runs is about to fail.
FaultInv ==
  /\ faults \in Seq(STRING) /\ script \in Seq(STRING) /\ outcomes \in Seq(Outcomes)
  /\ before \in Nat /\ Len(faults) <= before
  /\ Len(script) - before <= Cardinality(Failures)
  /\ Running => \/ Len(faults) = before
                \/ Calling /\ status = "failed" /\ Len(faults) = before - 1
  /\ stage = "idle" =>
       /\ Len(script) - Len(faults) <= Cardinality(Failures)
       /\ outcomes # << >> /\ Last(outcomes) # "failed" => Len(faults) = before
  /\ stage = "torn" /\ Last(outcomes) = "passed" => Len(script) <= Cardinality(Failures)

\* How an outcome counts.
LEMMA FailuresGrow ==
  ASSUME NEW o \in Outcomes, outcomes \in Seq(Outcomes), outcomes' = Append(outcomes, o)
  PROVE  /\ outcomes' \in Seq(Outcomes) /\ outcomes' # << >> /\ Last(outcomes') = o
         /\ Cardinality(Failures) \in Nat
         /\ Cardinality(Failures') = Cardinality(Failures) + (IF o = "failed" THEN 1 ELSE 0)
<1>1. PICK n \in Nat : n = Len(outcomes) OBVIOUS
<1>2. /\ outcomes' \in Seq(Outcomes) /\ Len(outcomes') = n + 1
      /\ DOMAIN outcomes = 1..n /\ DOMAIN outcomes' = 1..(n + 1)
      /\ outcomes'[n + 1] = o /\ \A k \in 1..n : outcomes'[k] = outcomes[k]
      /\ outcomes' # << >>
  <2>1. /\ outcomes' \in Seq(Outcomes) /\ outcomes' # << >> /\ Len(outcomes') = n + 1
        /\ outcomes'[n + 1] = o /\ \A k \in 1..n : outcomes'[k] = outcomes[k]
    BY <1>1
  <2>2. DOMAIN outcomes = 1..n BY <1>1
  <2>3. DOMAIN outcomes' = 1..(n + 1) BY <2>1
  <2> QED BY <2>1, <2>2, <2>3
<1>3. IsFiniteSet(Failures) /\ Cardinality(Failures) \in Nat /\ (n + 1) \notin Failures
  <2>1. 1 \in Int /\ n \in Int OBVIOUS
  <2>2. IsFiniteSet(1..n) BY <2>1, FS_Interval
  <2>3. Failures \subseteq 1..n BY <1>2 DEF Failures
  <2>4. IsFiniteSet(Failures) BY <2>2, <2>3, FS_Subset
  <2> QED BY <2>3, <2>4, FS_CardinalityType
<1>4. Failures' = IF o = "failed" THEN Failures \cup {n + 1} ELSE Failures
  <2>1. 1..(n + 1) = 1..n \cup {n + 1} OBVIOUS
  <2>2. Failures' = {k \in 1..n \cup {n + 1} : outcomes'[k] = "failed"}
    BY <1>2, <2>1 DEF Failures
  <2>3. Failures = {k \in 1..n : outcomes[k] = "failed"} BY <1>2 DEF Failures
  <2> QED BY <1>2, <2>2, <2>3
<1>5. Cardinality(Failures') = Cardinality(Failures) + (IF o = "failed" THEN 1 ELSE 0)
  <2> HIDE DEF Failures
  <2>1. Cardinality(Failures \cup {n + 1}) = Cardinality(Failures) + 1
    BY <1>3, FS_AddElement
  <2> QED BY <1>3, <1>4, <2>1
<1>6. outcomes' # << >> /\ Last(outcomes') = o BY <1>2 DEF Last
<1> QED BY <1>2, <1>3, <1>5, <1>6

\* A request loses a fault only when it is answered with an error.
LEMMA ReplyFaults ==
  ASSUME NEW ops, faults \in Seq(STRING)
  PROVE  \/ Reply(ops).faults = faults
         \/ /\ Reply(ops).errors = "other" /\ faults # << >>
            /\ Reply(ops).faults = Tail(faults)
<1>1. \A errors, left : Denied(errors, left).faults = left /\ Denied(errors, left).errors = errors
  BY DEF Denied
<1>2. Served(ops).faults = faults BY DEF Served
<1>3. CASE OverLimit(ops) BY <1>1, <1>3 DEF Reply
<1>4. CASE ~OverLimit(ops) /\ Faulted(ops)
  <2>1. Reply(ops) = Denied("other", Tail(faults)) BY <1>4 DEF Reply
  <2>2. faults # << >> BY <1>4 DEF Faulted
  <2>3. /\ Denied("other", Tail(faults)).faults = Tail(faults)
        /\ Denied("other", Tail(faults)).errors = "other"
    BY DEF Denied
  <2> QED BY <2>1, <2>2, <2>3, Zenon
<1>5. CASE ~OverLimit(ops) /\ ~Faulted(ops)
  <2>1. Reply(ops) = Served(ops) BY <1>5 DEF Reply
  <2> QED BY <1>2, <2>1
<1> QED BY <1>3, <1>4, <1>5

LEMMA TailFaults ==
  ASSUME faults \in Seq(STRING), faults # << >>
  PROVE  Tail(faults) \in Seq(STRING) /\ Len(Tail(faults)) = Len(faults) - 1
OBVIOUS

\* A step within a command that meets no fault.
LEMMA CommandGoesOn ==
  ASSUME FaultInv, UNCHANGED <<faults, script, outcomes, before>>,
         Running, Len(faults) = before, stage' \notin {"idle", "torn"}
  PROVE  FaultInv'
BY DEF FaultInv, Failures, Running

\* The end of a command.
LEMMA CommandEndsAs ==
  ASSUME FaultInv, NEW o \in Outcomes, Finish(o), UNCHANGED <<script, before>>, Running,
         faults' \in Seq(STRING), Len(faults') <= Len(faults), Len(faults') >= before - 1,
         o = "failed" \/ Len(faults') = before
  PROVE  FaultInv'
<1>1. outcomes' = Append(outcomes, o) /\ stage' = "idle" BY DEF Finish
<1>2. outcomes \in Seq(Outcomes) BY DEF FaultInv
<1>3. PICK n \in Nat : n = Cardinality(Failures) BY <1>1, <1>2, FailuresGrow
<1>4. /\ outcomes' \in Seq(Outcomes) /\ Last(outcomes') = o
      /\ Cardinality(Failures') = n + (IF o = "failed" THEN 1 ELSE 0)
  BY <1>1, <1>2, <1>3, FailuresGrow
<1>5. PICK m \in Nat : m = Cardinality(Failures') BY <1>3, <1>4
<1>6. /\ Len(faults) \in Nat /\ Len(faults') \in Nat /\ Len(script) \in Nat /\ before \in Nat
      /\ Len(faults) <= before /\ Len(script) - before <= n /\ script \in Seq(STRING)
  BY <1>3 DEF FaultInv
<1>7. Len(script) - before <= m /\ Len(script) - Len(faults') <= m
  <2>1. m = n + (IF o = "failed" THEN 1 ELSE 0) BY <1>4, <1>5
  <2>2. m \in {n, n + 1} /\ (o = "failed" => m = n + 1) BY <2>1
  <2>3. PICK a \in Nat, b \in Nat, d \in Nat, e \in Nat :
          a = Len(faults) /\ b = Len(faults') /\ d = Len(script) /\ e = before
    BY <1>6
  <2>4. b >= e - 1 /\ (m = n + 1 \/ b = e) /\ d - e <= n BY <1>6, <2>2, <2>3
  <2>5. d - e <= m /\ d - b <= m BY <2>2, <2>3, <2>4
  <2> QED BY <2>3, <2>5
<1>8. ~Running' BY <1>1 DEF Running
<1>9. script' = script /\ before' = before OBVIOUS
<1>10. /\ faults' \in Seq(STRING) /\ script' \in Seq(STRING) /\ outcomes' \in Seq(Outcomes)
       /\ before' \in Nat /\ Len(script') - before' <= Cardinality(Failures')
       /\ Len(script') - Len(faults') <= Cardinality(Failures')
  BY <1>4, <1>5, <1>6, <1>7, <1>9, Zenon
<1>11. Len(faults') <= before' BY <1>6, <1>9
<1>12. Last(outcomes') # "failed" => Len(faults') = before' BY <1>4, <1>9
<1>13. stage' # "torn" BY <1>1
<1> QED BY <1>8, <1>10, <1>11, <1>12, <1>13, Zenon DEF FaultInv

LEMMA FaultStep == FaultInv /\ [TestedNext]_testedVars => FaultInv'
<1> SUFFICES ASSUME FaultInv, [TestedNext]_testedVars PROVE FaultInv' OBVIOUS
<1>0. /\ faults \in Seq(STRING) /\ script \in Seq(STRING) /\ outcomes \in Seq(Outcomes)
      /\ before \in Nat /\ Len(faults) \in Nat /\ Len(script) \in Nat
      /\ Len(faults) <= before
  BY DEF FaultInv
<1>r. Running /\ (stage \notin {"query", "create", "update"} \/ status # "failed")
        => Len(faults) = before
  BY DEF FaultInv, Calling
<1>f. {"pushed", "ok", "failed", "panic", "unconsumed", "passed"} = Outcomes BY DEF Outcomes
<1>1. CASE BackOffUnsent \/ CallReturns
  <2>1. /\ Calling /\ status = "running" /\ UNCHANGED <<faults, script, outcomes, before, stage>>
    BY <1>1 DEF BackOffUnsent, CallReturns, TestUnchanged, mockVars, Pending, AllAccepted
  <2> QED BY <1>r, <2>1, CommandGoesOn DEF Calling, Running
<1>2. CASE Request
  <2>1. PICK reply : /\ reply = Reply(Batch) /\ Graphql(reply)
                     /\ BackOffRefused(reply) \/ Accepted(reply) \/ Failed(reply)
    BY <1>2 DEF Request
  <2>2. /\ Calling /\ status = "running" /\ UNCHANGED <<script, outcomes, before, stage>>
        /\ faults' = reply.faults
    BY <1>2, <2>1 DEF Request, TestUnchanged, Pending, Graphql
  <2>3. Len(faults) = before BY <1>r, <2>2 DEF Calling, Running
  <2>4. reply.faults = faults
        \/ (reply.errors = "other" /\ faults # << >> /\ reply.faults = Tail(faults))
    BY <1>0, <2>1, ReplyFaults
  <2>5. CASE reply.faults = faults
    BY <2>2, <2>3, <2>5, CommandGoesOn DEF Calling, Running
  <2>6. CASE reply.errors = "other" /\ faults # << >> /\ reply.faults = Tail(faults)
    <3>1. status' = "failed"
      BY <2>1, <2>6 DEF BackOffRefused, Accepted, Succeeds, Failed, FailWith
    <3>2. faults' \in Seq(STRING) /\ Len(faults') = Len(faults) - 1
      BY <1>0, <2>2, <2>6, TailFaults
    <3>3. Calling' /\ stage' \notin {"idle", "torn"} BY <2>2 DEF Calling
    <3>4. Failures' = Failures BY <2>2 DEF Failures
    <3> HIDE DEF Failures
    <3>5. /\ before' = before /\ script' = script /\ outcomes' = outcomes
          /\ Len(faults') = before' - 1 /\ Len(faults') <= before'
      BY <1>0, <2>2, <2>3, <3>2
    <3>6. Len(script') - before' <= Cardinality(Failures') BY <3>4, <3>5 DEF FaultInv
    <3> QED BY <1>0, <3>1, <3>2, <3>3, <3>5, <3>6, Zenon DEF FaultInv
  <2> QED BY <2>4, <2>5, <2>6
<1>3. CASE CallFails
  <2>1. /\ Running /\ Finish("failed") /\ UNCHANGED <<faults, script, before>>
    BY <1>3 DEF CallFails, Calling, Running, mockVars
  <2>2. Len(faults) = before \/ Len(faults) = before - 1 BY <2>1 DEF FaultInv
  <2> QED BY <1>0, <1>f, <2>1, <2>2, CommandEndsAs
<1>4. CASE Found
  <2>1. /\ Running /\ Len(faults) = before /\ UNCHANGED <<faults, script, before>>
    BY <1>4, <1>r DEF Found, Running, mockVars
  <2>2. CASE stage' = "lsRemote" /\ UNCHANGED outcomes BY <2>1, <2>2, CommandGoesOn
  <2>3. CASE Finish("failed") BY <1>0, <1>f, <2>1, <2>3, CommandEndsAs
  <2> QED BY <1>4, <2>2, <2>3 DEF Found
<1>5. CASE LsRemote \/ GitPush
  <2>1. /\ Running /\ stage \notin {"query", "create", "update"}
        /\ UNCHANGED <<faults, script, before, outcomes>> /\ stage' \notin {"idle", "torn"}
    BY <1>5 DEF LsRemote, GitPush, Running, mockVars
  <2> QED BY <1>r, <2>1, CommandGoesOn
<1>6. CASE Report
  <2>1. /\ Running /\ Len(faults) = before /\ UNCHANGED <<faults, script, before>>
    BY <1>6, <1>r DEF Report, Running, CompleteGit
  <2>2. CASE stage' = "pushed" /\ UNCHANGED outcomes BY <2>1, <2>2, CommandGoesOn
  <2>3. CASE Finish("failed") BY <1>0, <1>f, <2>1, <2>3, CommandEndsAs
  <2> QED BY <1>6, <2>2, <2>3 DEF Report
<1>7. CASE SyncPrs
  <2>1. PICK reply : /\ reply = Reply(<<FindOp(Main)>>) /\ Graphql(reply)
                     /\ \/ reply.errors = "none" /\ stage' = "create" /\ UNCHANGED outcomes
                        \/ reply.errors # "none" /\ Finish("failed")
    BY <1>7 DEF SyncPrs
  <2>2. /\ Running /\ Len(faults) = before /\ UNCHANGED <<script, before>>
        /\ faults' = reply.faults
    BY <1>7, <1>r, <2>1 DEF SyncPrs, Running, Graphql
  <2>3. reply.faults = faults
        \/ (reply.errors = "other" /\ faults # << >> /\ reply.faults = Tail(faults))
    BY <1>0, <2>1, ReplyFaults
  <2>4. faults' \in Seq(STRING) /\ Len(faults') <= Len(faults) /\ Len(faults') >= before - 1
        /\ (reply.errors = "none" => faults' = faults)
    <3>1. CASE reply.faults = faults BY <1>0, <2>2, <3>1
    <3>2. CASE reply.errors = "other" /\ faults # << >> /\ reply.faults = Tail(faults)
      <4>1. faults' \in Seq(STRING) /\ Len(faults') = Len(faults) - 1
        BY <2>2, <3>2, <1>0, TailFaults
      <4>2. reply.errors # "none" BY <3>2
      <4> QED BY <1>0, <2>2, <4>1, <4>2
    <3> QED BY <2>3, <3>1, <3>2
  <2>5. CASE reply.errors = "none" /\ stage' = "create" /\ UNCHANGED outcomes
    BY <2>2, <2>4, <2>5, CommandGoesOn
  <2>6. CASE Finish("failed") BY <1>f, <2>2, <2>4, <2>6, CommandEndsAs
  <2> QED BY <2>1, <2>5, <2>6
<1>8. CASE AllKnown \/ CreatesDone
  <2>1. /\ Running /\ Len(faults) = before /\ UNCHANGED <<faults, script, before, outcomes>>
        /\ stage' = "update"
    BY <1>8, <1>r DEF AllKnown, CreatesDone, PlanUpdates, Running, mockVars
  <2> QED BY <2>1, CommandGoesOn
<1>9. CASE UpdatesDone
  <2>1. /\ Running /\ Len(faults) = before /\ UNCHANGED <<faults, script, before>>
        /\ Finish("pushed")
    BY <1>9, <1>r DEF UpdatesDone, Running, mockVars
  <2> QED BY <1>0, <1>f, <2>1, CommandEndsAs
<1>10. CASE HookGit
  <2>1. /\ Running /\ Len(faults) = before /\ UNCHANGED <<faults, script, before>>
    BY <1>10, <1>r DEF HookGit, Running, mockVars
  <2>2. CASE stage' \in {"parse", "insert"} /\ UNCHANGED outcomes BY <2>1, <2>2, CommandGoesOn
  <2>3. CASE Finish("ok") BY <1>0, <1>f, <2>1, <2>3, CommandEndsAs
  <2> QED BY <1>10, <2>2, <2>3 DEF HookGit
<1>11. CASE GitFails
  <2>1. /\ Running /\ Len(faults) = before /\ UNCHANGED <<script, before>> /\ Finish("failed")
        /\ faults # << >> /\ faults' = Tail(faults)
    BY <1>11, <1>r DEF GitFails, GitFault, GitFaulted, Running
  <2>2. faults' \in Seq(STRING) /\ Len(faults') = Len(faults) - 1
    BY <1>0, <2>1, TailFaults
  <2> QED BY <1>0, <1>f, <2>1, <2>2, CommandEndsAs
<1>12. CASE StartPush \/ StartHook
  <2>1. /\ stage = "idle" /\ stage' \in {"query", "var"} /\ before' = Len(faults)
        /\ UNCHANGED <<faults, script, outcomes>>
    BY <1>12 DEF StartPush, StartHook, mockVars
  <2>2. Failures' = Failures /\ Len(script) - Len(faults) <= Cardinality(Failures)
    BY <2>1 DEF Failures, FaultInv
  <2> HIDE DEF Failures
  <2> QED BY <1>0, <2>1, <2>2 DEF FaultInv
<1>13. CASE TimeOut
  <2>1. stage' = "killed" /\ UNCHANGED <<faults, script, outcomes, before>>
    BY <1>13 DEF TimeOut, mockVars
  <2>2. ~Running' /\ Failures' = Failures BY <2>1 DEF Running, Failures
  <2> HIDE DEF Failures
  <2> QED BY <2>1, <2>2 DEF FaultInv
<1>14. CASE TearDown
  <2> DEFINE o == IF stage = "killed" THEN "panic"
                  ELSE IF faults # << >> THEN "unconsumed" ELSE "passed"
  <2>1. /\ stage \in {"idle", "killed"} /\ stage' = "torn"
        /\ outcomes' = Append(outcomes, o) /\ UNCHANGED <<faults, script, before>>
    BY <1>14 DEF TearDown, mockVars
  <2>2. o \in Outcomes /\ o # "failed" BY <1>f
  <2>3. o = "passed" => stage = "idle" /\ faults = << >> BY <2>1
  <2> HIDE DEF o
  <2>4. /\ outcomes' \in Seq(Outcomes) /\ Last(outcomes') = o
        /\ Cardinality(Failures') = Cardinality(Failures)
    BY <1>0, <2>1, <2>2, FailuresGrow
  <2>5. ~Running' /\ stage' # "idle" BY <2>1 DEF Running
  <2>6. o = "passed" => Len(script) <= Cardinality(Failures)
    BY <1>0, <2>1, <2>3 DEF FaultInv
  <2>7. Len(script) - before <= Cardinality(Failures) BY DEF FaultInv
  <2> HIDE DEF Failures
  <2> QED BY <1>0, <2>1, <2>4, <2>5, <2>6, <2>7 DEF FaultInv
<1>15. CASE Rival
  <2>1. Running /\ UNCHANGED <<faults, script, outcomes, before, stage, status>>
    BY <1>15 DEF Rival, NoCall, batchVars
  <2>2. Failures' = Failures /\ Running' = Running /\ Calling' = Calling
    BY <2>1 DEF Failures, Running, Calling
  <2> HIDE DEF Failures
  <2> QED BY <2>1, <2>2 DEF FaultInv
<1>16. CASE UNCHANGED testedVars
  <2>1. UNCHANGED <<faults, script, outcomes, before, stage, status>>
    BY <1>16 DEF testedVars, testVars, mockVars, batchVars
  <2>2. Failures' = Failures /\ Running' = Running /\ Calling' = Calling
    BY <2>1 DEF Failures, Running, Calling
  <2> HIDE DEF Failures
  <2> QED BY <2>1, <2>2 DEF FaultInv
<1> QED BY <1>1, <1>2, <1>3, <1>4, <1>5, <1>6, <1>7, <1>8, <1>9, <1>10, <1>11, <1>12, <1>13,
           <1>14, <1>15, <1>16
        DEF TestedNext, Step

LEMMA FaultInit == TestedInit => FaultInv
<1> SUFFICES ASSUME TestedInit PROVE FaultInv OBVIOUS
<1>1. /\ faults \in Seq(STRING) /\ script = faults /\ outcomes = << >>
      /\ before = Len(faults) /\ stage = "idle"
  BY TestedRunAssumption DEF TestedInit
<1>2. Failures = {} BY <1>1 DEF Failures
<1>3. Cardinality(Failures) = 0 BY <1>2, FS_EmptySet
<1> HIDE DEF Failures
<1> QED BY <1>1, <1>3 DEF FaultInv, Running

\* A fault that a test injects fails exactly one command, the one that meets it: a
\* test that passes has seen a failure for each (test_git.rs, mock_server.rs, and
\* TestContext's check that none is left).
THEOREM FaultFailsCommandHolds == TestedSpec => []FaultFailsCommand
<1>1. FaultInv => FaultFailsCommand
  <2> HIDE DEF Failures
  <2> QED BY DEF FaultInv, FaultFailsCommand, JustEnded
<1> QED BY <1>1, FaultInit, FaultStep, PTL DEF TestedSpec

-----------------------------------------------------------------------------
(* The pull requests of the server *)

\* The least of a set of numbers.
LEMMA LeastNumber ==
  ASSUME NEW S \in SUBSET Nat, S # {}
  PROVE  \E m \in S : \A n \in S : m <= n
<1> DEFINE R == {ss \in Nat \X Nat : ss[1] < ss[2]}
<1>1. IsWellFoundedOn(R, Nat) BY NatLessThanWellFounded DEF OpToRel
<1>2. PICK m \in S : \A n \in S : ~ (<<n, m>> \in R)
  <2> HIDE DEF R
  <2> QED BY <1>1, WFMin
<1>3. ASSUME NEW n \in S PROVE m <= n
  <2>1. ~ (n < m) BY <1>2
  <2> QED BY <2>1
<1> QED BY <1>3

LEMMA PullRequestFacts ==
  ASSUME NEW pr \in PullRequests
  PROVE  /\ pr.number \in Nat /\ pr.head \in Branches /\ pr.base \in Branches
         /\ pr.text \in Nat \X Nat /\ pr.state \in States /\ pr.cross \in BOOLEAN
         /\ pr # None
BY MockAssumption DEF PullRequests

\* A new pull request gets a number that none has.
LEMMA NextNumberFacts ==
  ASSUME NEW ps \in Seq(PullRequests)
  PROVE  NextNumber(ps) \in Nat /\ \A i \in DOMAIN ps : ps[i].number < NextNumber(ps)
<1> DEFINE N == Len(ps)
           number(i) == ps[i].number
           Bounds(m) == {b \in Nat : \A i \in 1..m : number(i) <= b}
           S == {pr.number : pr \in Range(ps)} \cup {0}
<1>1. N \in Nat /\ DOMAIN ps = 1..N /\ \A i \in 1..N : number(i) \in Nat
  <2>1. \A i \in 1..N : ps[i] \in PullRequests OBVIOUS
  <2> QED BY <2>1, PullRequestFacts
<1>2. S \subseteq Nat /\ 0 \in S /\ \A i \in 1..N : number(i) \in S BY <1>1 DEF Range
<1>3. \A y \in S : y = 0 \/ \E i \in 1..N : y = number(i) BY <1>1 DEF Range
<1> HIDE DEF S, number
<1>4. Bounds(N) # {}
  <2> DEFINE B == {m \in 0..N : Bounds(m) = {}}
  <2>1. SUFFICES ASSUME B # {} PROVE FALSE BY <1>1
  <2>2. PICK m \in B : \A k \in B : m <= k
    <3>1. B \in SUBSET Nat BY <1>1
    <3> HIDE DEF B
    <3> QED BY <2>1, <3>1, LeastNumber
  <2>3. m # 0
    <3>1. 0 \in Bounds(0) OBVIOUS
    <3> QED BY <2>2, <3>1
  <2>4. m - 1 \in 0..N /\ m - 1 \notin B
    <3>1. m \in 0..N BY <2>2
    <3>2. m - 1 \in 0..N /\ ~ (m <= m - 1) BY <1>1, <2>3, <3>1
    <3> HIDE DEF B
    <3> QED BY <2>2, <3>2
  <2>5. PICK b \in Nat : \A i \in 1..(m - 1) : number(i) <= b BY <2>4
  <2>6. m \in 1..N /\ number(m) \in Nat BY <1>1, <2>2, <2>3
  <2>7. PICK u \in Nat : u >= b /\ u >= number(m)
    <3>1. b >= number(m) \/ number(m) >= b BY <2>6
    <3> QED BY <2>6, <3>1
  <2>8. \A i \in 1..m : number(i) <= u
    <3>1. ASSUME NEW i \in 1..m PROVE number(i) <= u
      <4>1. i \in 1..(m - 1) \/ i = m BY <2>6
      <4>2. number(i) \in Nat BY <1>1, <2>6
      <4> QED BY <2>5, <2>7, <4>1, <4>2
    <3> QED BY <3>1
  <2>9. u \in Bounds(m) BY <2>8
  <2> QED BY <2>2, <2>9
<1>5. PICK u \in Bounds(N) : \A b \in Bounds(N) : u <= b
  <2>1. Bounds(N) \in SUBSET Nat OBVIOUS
  <2> HIDE DEF Bounds
  <2> QED BY <1>4, <2>1, LeastNumber
<1>6. u \in Nat /\ \A i \in 1..N : number(i) <= u BY <1>5
<1>7. u \in S
  <2> SUFFICES ASSUME u \notin S PROVE FALSE OBVIOUS
  <2>1. u - 1 \in Nat /\ \A i \in 1..N : number(i) <= u - 1
    <3>1. u # 0 BY <1>2
    <3>2. \A i \in 1..N : number(i) # u BY <1>2
    <3> QED BY <1>1, <1>6, <3>1, <3>2
  <2>2. u - 1 \in Bounds(N) BY <2>1
  <2> HIDE DEF Bounds
  <2>3. u <= u - 1 BY <1>5, <2>2
  <2> QED BY <1>6, <2>3
<1>8. \A y \in S : u >= y BY <1>1, <1>3, <1>6
<1>9. Max(S) \in S /\ \A y \in S : Max(S) >= y
  <2>1. \E x \in S : \A y \in S : x >= y BY <1>7, <1>8
  <2> QED BY <2>1 DEF Max
<1>10. NextNumber(ps) = 1 + Max(S) BY DEF NextNumber, S
<1>11. PICK m \in Nat : m = Max(S) BY <1>2, <1>9
<1>12. NextNumber(ps) = 1 + m /\ \A i \in 1..N : m >= number(i) BY <1>2, <1>9, <1>10, <1>11
<1>13. \A i \in 1..N : number(i) < NextNumber(ps) BY <1>1, <1>12
<1> QED BY <1>1, <1>12, <1>13 DEF number

\* What a creation leaves: the others as they are, and one more.
LEMMA CreatedFacts ==
  ASSUME NEW ps \in Seq(PullRequests), Numbered(ps), NEW op,
         op.head \in Branches, op.base \in Branches, op.text \in Nat \X Nat
  PROVE  LET new == PrEntry(NextNumber(ps), op.head, op.base, op.text)
         IN  /\ Created(ps, op) \in Seq(PullRequests) /\ Numbered(Created(ps, op))
             /\ new \in PullRequests
             /\ Range(Created(ps, op)) = Range(ps) \cup {new}
<1> DEFINE new == PrEntry(NextNumber(ps), op.head, op.base, op.text)
           N == Len(ps)
           qs == Created(ps, op)
<1>1. NextNumber(ps) \in Nat /\ \A i \in DOMAIN ps : ps[i].number < NextNumber(ps)
  BY NextNumberFacts
<1>2. new \in PullRequests /\ new.number = NextNumber(ps)
  BY <1>1 DEF PrEntry, PullRequests, States
<1> HIDE DEF new
<1>3. qs = Append(ps, new) BY DEF Created, new
<1>4. /\ N \in Nat /\ DOMAIN ps = 1..N /\ qs \in Seq(PullRequests) /\ DOMAIN qs = 1..(N + 1)
      /\ \A i \in 1..N : qs[i] = ps[i]
      /\ qs[N + 1] = new
  BY <1>2, <1>3
<1> HIDE DEF qs
<1>5. Numbered(qs)
  <2>1. ASSUME NEW i \in 1..N, NEW j \in 1..(N + 1), qs[i].number = qs[j].number PROVE i = j
    <3>1. CASE j \in 1..N BY <1>4, <2>1, <3>1 DEF Numbered
    <3>2. CASE j = N + 1
      <4>1. ps[i] \in PullRequests /\ i \in DOMAIN ps BY <1>4
      <4>2. ps[i].number < NextNumber(ps) /\ ps[i].number \in Nat
        BY <1>1, <4>1, PullRequestFacts
      <4> QED BY <1>1, <1>2, <1>4, <2>1, <3>2, <4>2
    <3> QED BY <1>4, <3>1, <3>2
  <2> QED BY <1>4, <2>1 DEF Numbered
<1>6. Range(qs) = Range(ps) \cup {new}
  <2>1. 1..(N + 1) = 1..N \cup {N + 1} BY <1>4
  <2> QED BY <1>4, <2>1 DEF Range
<1> QED BY <1>2, <1>4, <1>5, <1>6 DEF qs, new

\* What an update leaves: the others as they are, and the one with its number.
LEMMA UpdatedFacts ==
  ASSUME NEW ps \in Seq(PullRequests), Numbered(ps), NEW op,
         op.base \in Branches \cup {None}, op.text \in Nat \X Nat
  PROVE  LET revised(pr) ==
               IF pr.number # op.number THEN pr
               ELSE [pr EXCEPT !.text = op.text, !.base = IF op.base = None THEN @ ELSE op.base]
         IN  /\ Updated(ps, op) \in Seq(PullRequests) /\ Numbered(Updated(ps, op))
             /\ Range(Updated(ps, op)) = {revised(pr) : pr \in Range(ps)}
<1> DEFINE revised(pr) ==
             IF pr.number # op.number THEN pr
             ELSE [pr EXCEPT !.text = op.text, !.base = IF op.base = None THEN @ ELSE op.base]
           N == Len(ps)
           qs == Updated(ps, op)
<1>1. N \in Nat /\ DOMAIN ps = 1..N /\ \A i \in 1..N : ps[i] \in PullRequests OBVIOUS
<1>2. \A pr \in PullRequests : revised(pr) \in PullRequests /\ revised(pr).number = pr.number
  BY DEF PullRequests
<1>3. qs = [i \in 1..N |-> revised(ps[i])] BY <1>1 DEF Updated
<1> HIDE DEF revised, qs
<1>4. DOMAIN qs = 1..N /\ \A i \in 1..N : qs[i] = revised(ps[i]) BY <1>3
<1>5. qs \in Seq(PullRequests)
  <2>1. qs \in [1..N -> PullRequests] BY <1>1, <1>2, <1>3
  <2> QED BY <1>1, <2>1
<1>6. Numbered(qs) BY <1>1, <1>2, <1>4 DEF Numbered
<1>7. Range(qs) = {revised(pr) : pr \in Range(ps)} BY <1>1, <1>4 DEF Range
<1> QED BY <1>5, <1>6, <1>7 DEF revised, qs

-----------------------------------------------------------------------------
(* The documents *)

Unhandled == [prs |-> prs, data |-> << >>, done |-> << >>, errors |-> FALSE]

IsHandling(ops, n, f) ==
  f = [k \in 0..n |-> IF k = 0 THEN Unhandled ELSE Handle(f[k - 1], ops[k])]

\* However many operations a document has, it can be handled.
LEMMA HandlingExists ==
  ASSUME NEW ops, NEW n \in Nat
  PROVE  \E f : IsHandling(ops, n, f)
<1> DEFINE Solves(m, f) == IsHandling(ops, m, f)
           B == {m \in Nat : ~ \E f : Solves(m, f)}
<1>1. SUFFICES ASSUME B # {} PROVE FALSE OBVIOUS
<1>2. PICK m \in B : \A k \in B : m <= k
  <2>1. B \in SUBSET Nat OBVIOUS
  <2> HIDE DEF B
  <2> QED BY <1>1, <2>1, LeastNumber
<1>3. m # 0
  <2> DEFINE f == [k \in 0..0 |-> Unhandled]
  <2>1. Solves(0, f) BY DEF IsHandling
  <2> HIDE DEF f
  <2> QED BY <2>1
<1>4. m - 1 \in Nat /\ m - 1 \notin B BY <1>2, <1>3
<1>5. PICK f : Solves(m - 1, f) BY <1>4
<1> DEFINE g == [k \in 0..m |-> IF k < m THEN f[k] ELSE Handle(f[m - 1], ops[m])]
<1>6. Solves(m, g)
  <2>1. ASSUME NEW k \in 0..m
        PROVE  g[k] = IF k = 0 THEN Unhandled ELSE Handle(g[k - 1], ops[k])
    <3>1. CASE k = 0
      <4>1. f[0] = Unhandled BY <1>4, <1>5 DEF IsHandling
      <4> QED BY <1>3, <3>1, <4>1
    <3>2. CASE k # 0 /\ k < m
      <4>1. f[k] = Handle(f[k - 1], ops[k]) BY <1>4, <1>5, <3>2 DEF IsHandling
      <4>2. g[k] = f[k] /\ g[k - 1] = f[k - 1] BY <3>2
      <4> HIDE DEF g
      <4> QED BY <3>2, <4>1, <4>2
    <3>3. CASE k = m
      <4>1. g[m] = Handle(f[m - 1], ops[m]) /\ g[m - 1] = f[m - 1] BY <1>2, <1>4
      <4> HIDE DEF g
      <4> QED BY <1>3, <3>3, <4>1
    <3> QED BY <3>1, <3>2, <3>3
  <2> QED BY <2>1 DEF IsHandling
<1> HIDE DEF g
<1> QED BY <1>2, <1>6

\* What the recursion of After is about.
LEMMA AfterSteps ==
  ASSUME NEW ops, Len(ops) \in Nat
  PROVE  /\ After(ops)[0] = Unhandled
         /\ \A k \in 1..Len(ops) : After(ops)[k] = Handle(After(ops)[k - 1], ops[k])
<1>1. \E f : IsHandling(ops, Len(ops), f) BY HandlingExists
<1>2. IsHandling(ops, Len(ops), After(ops)) BY <1>1, Zenon DEF After, Unhandled, IsHandling
<1> QED BY <1>2 DEF IsHandling

\* What one operation does to the pull requests.
Applied(ps, op) ==
  CASE op.kind = "create" -> Created(ps, op)
    [] op.kind = "update" -> Updated(ps, op)
    [] OTHER -> ps

\* The document after k operations when none has been refused.
FineAt(ops, k) ==
  /\ ~After(ops)[k].errors
  /\ After(ops)[k].data = [m \in 1..k |-> Value(After(ops)[m - 1].prs, ops[m])]

LEMMA HandleFacts ==
  ASSUME NEW acc, DOMAIN acc = {"prs", "data", "done", "errors"}, NEW op
  PROVE  /\ Refuses(acc.prs, op) => Handle(acc, op).errors
         /\ acc.errors => Handle(acc, op).errors
         /\ ~Refuses(acc.prs, op) =>
              /\ Handle(acc, op).errors = acc.errors
              /\ Handle(acc, op).prs = Applied(acc.prs, op)
              /\ Handle(acc, op).data = Append(acc.data, Value(acc.prs, op))
         /\ DOMAIN Handle(acc, op) = {"prs", "data", "done", "errors"}
<1>1. CASE Refuses(acc.prs, op)
  <2>1. Handle(acc, op) = [acc EXCEPT !.errors = TRUE] BY <1>1 DEF Handle
  <2> QED BY <1>1, <2>1
<1>2. CASE ~Refuses(acc.prs, op)
  <2>1. Handle(acc, op) = [acc EXCEPT !.prs = Applied(acc.prs, op),
                                      !.data = Append(acc.data, Value(acc.prs, op)),
                                      !.done = Append(acc.done, op)]
    BY <1>2 DEF Handle, Applied
  <2> HIDE DEF Applied
  <2> QED BY <1>2, <2>1
<1> QED BY <1>1, <1>2

LEMMA OperationFacts ==
  ASSUME NEW ops, Len(ops) \in Nat, NEW k \in 1..Len(ops)
  PROVE  LET acc == After(ops)[k - 1]
         IN  /\ acc.errors \/ Refuses(acc.prs, ops[k]) => After(ops)[k].errors
             /\ FineAt(ops, k - 1) /\ ~Refuses(acc.prs, ops[k]) =>
                  FineAt(ops, k) /\ After(ops)[k].prs = Applied(acc.prs, ops[k])
<1> DEFINE fields == {"prs", "data", "done", "errors"}
           acc == After(ops)[k - 1]
           B == {m \in 0..Len(ops) : DOMAIN After(ops)[m] # fields}
<1>1. /\ After(ops)[0] = Unhandled
      /\ \A m \in 1..Len(ops) : After(ops)[m] = Handle(After(ops)[m - 1], ops[m])
  BY AfterSteps
<1>2. B = {}
  <2> SUFFICES ASSUME B # {} PROVE FALSE OBVIOUS
  <2>1. PICK m \in B : \A n \in B : m <= n
    <3>1. B \in SUBSET Nat OBVIOUS
    <3> HIDE DEF B
    <3> QED BY <3>1, LeastNumber
  <2>2. m # 0
    <3>1. DOMAIN After(ops)[0] = fields BY <1>1 DEF Unhandled
    <3> QED BY <2>1, <3>1
  <2>3. m \in 1..Len(ops) /\ m - 1 \in 0..Len(ops) /\ ~ (m <= m - 1)
    <3>1. m \in 0..Len(ops) BY <2>1
    <3> QED BY <2>2, <3>1
  <2>4. DOMAIN After(ops)[m - 1] = fields
    <3>1. m - 1 \notin B
      <4> HIDE DEF B
      <4> QED BY <2>1, <2>3
    <3> QED BY <2>3, <3>1
  <2>5. DOMAIN After(ops)[m] = fields
    <3>1. After(ops)[m] = Handle(After(ops)[m - 1], ops[m]) BY <1>1, <2>3
    <3>2. DOMAIN Handle(After(ops)[m - 1], ops[m]) = fields BY <2>4, HandleFacts
    <3> QED BY <3>1, <3>2
  <2> QED BY <2>1, <2>5
<1>3. k - 1 \in 0..Len(ops) /\ DOMAIN acc = fields BY <1>2
<1>4. After(ops)[k] = Handle(acc, ops[k]) BY <1>1
<1> HIDE DEF acc
<1>5. acc.errors \/ Refuses(acc.prs, ops[k]) => After(ops)[k].errors
  BY <1>3, <1>4, HandleFacts
<1>6. ASSUME FineAt(ops, k - 1), ~Refuses(acc.prs, ops[k])
      PROVE  FineAt(ops, k) /\ After(ops)[k].prs = Applied(acc.prs, ops[k])
  <2> DEFINE value(m) == Value(After(ops)[m - 1].prs, ops[m])
             old == [m \in 1..(k - 1) |-> value(m)]
             new == [m \in 1..k |-> value(m)]
  <2>1. /\ After(ops)[k].errors = acc.errors /\ After(ops)[k].prs = Applied(acc.prs, ops[k])
        /\ After(ops)[k].data = Append(acc.data, Value(acc.prs, ops[k]))
    BY <1>3, <1>4, <1>6, HandleFacts
  <2>2. ~acc.errors /\ acc.data = old BY <1>6 DEF FineAt, acc
  <2>3. Value(acc.prs, ops[k]) = value(k) BY DEF acc
  <2> HIDE DEF value
  <2>4. old \in Seq({value(m) : m \in 1..(k - 1)}) /\ Len(old) = k - 1
    <3>1. k - 1 \in Nat OBVIOUS
    <3>2. old \in [1..(k - 1) -> {value(m) : m \in 1..(k - 1)}] OBVIOUS
    <3> QED BY <3>1, <3>2
  <2>5. Append(old, value(k)) = new BY <2>4
  <2> QED BY <2>1, <2>2, <2>3, <2>5 DEF FineAt, value
<1> QED BY <1>5, <1>6 DEF acc

\* A document without errors was without errors all along.
LEMMA FineThroughout ==
  ASSUME NEW ops, Len(ops) \in Nat, ~After(ops)[Len(ops)].errors
  PROVE  \A k \in 0..Len(ops) :
           /\ FineAt(ops, k)
           /\ k > 0 => /\ ~Refuses(After(ops)[k - 1].prs, ops[k])
                       /\ After(ops)[k].prs = Applied(After(ops)[k - 1].prs, ops[k])
<1> DEFINE N == Len(ops)
           errs(k) == After(ops)[k].errors
           refuses(k) == Refuses(After(ops)[k - 1].prs, ops[k])
<1>1. \A k \in 1..N : errs(k - 1) \/ refuses(k) => errs(k) BY OperationFacts
<1> HIDE DEF errs
<1>2. \A k \in 0..N : ~errs(k)
  <2> DEFINE B == {m \in 0..N : errs(N - m)}
  <2> SUFFICES ASSUME NEW k \in 0..N, errs(k) PROVE FALSE OBVIOUS
  <2>1. N - k \in B
    <3>1. N - (N - k) = k OBVIOUS
    <3> QED BY <3>1
  <2>2. PICK m \in B : \A n \in B : m <= n
    <3>1. B \in SUBSET Nat OBVIOUS
    <3> HIDE DEF B
    <3> QED BY <2>1, <3>1, LeastNumber
  <2>3. m # 0
    <3>1. ~errs(N) /\ N - 0 = N BY DEF errs
    <3> QED BY <2>2, <3>1
  <2>4. m \in 1..N /\ m - 1 \in 0..N /\ ~ (m <= m - 1) /\ (N - (m - 1)) - 1 = N - m
        /\ N - (m - 1) \in 1..N
    <3>1. m \in 0..N BY <2>2
    <3> QED BY <2>3, <3>1
  <2>5. errs(N - m) BY <2>2
  <2>6. errs(N - (m - 1)) BY <1>1, <2>4, <2>5
  <2>7. m - 1 \in B BY <2>4, <2>6
  <2> HIDE DEF B
  <2> QED BY <2>2, <2>4, <2>7
<1>3. \A k \in 1..N : ~refuses(k) BY <1>1, <1>2
<1>4. \A k \in 1..N : FineAt(ops, k - 1) =>
                        FineAt(ops, k) /\ After(ops)[k].prs = Applied(After(ops)[k - 1].prs, ops[k])
  BY <1>3, OperationFacts
<1>5. \A k \in 0..N : FineAt(ops, k)
  <2> DEFINE B == {m \in 0..N : ~FineAt(ops, m)}
  <2> SUFFICES ASSUME B # {} PROVE FALSE OBVIOUS
  <2>1. PICK m \in B : \A n \in B : m <= n
    <3>1. B \in SUBSET Nat OBVIOUS
    <3> HIDE DEF B
    <3> QED BY <3>1, LeastNumber
  <2>2. m # 0
    <3>1. After(ops)[0] = Unhandled BY AfterSteps
    <3>2. FineAt(ops, 0) BY <3>1 DEF FineAt, Unhandled
    <3> QED BY <2>1, <3>2
  <2>3. m \in 1..N /\ m - 1 \in 0..N /\ ~ (m <= m - 1)
    <3>1. m \in 0..N BY <2>1
    <3> QED BY <2>2, <3>1
  <2>4. FineAt(ops, m - 1)
    <3>1. m - 1 \notin B
      <4> HIDE DEF B
      <4> QED BY <2>1, <2>3
    <3> QED BY <2>3, <3>1
  <2> QED BY <1>4, <2>1, <2>3, <2>4
<1> QED BY <1>3, <1>4, <1>5

-----------------------------------------------------------------------------
(* The lookup *)

\* The pull requests of a commit among ps, and the open ones.
OwnIn(ps, i) == {pr \in Range(ps) : SameRepo(pr, Stack[i])}
OpenIn(ps, i) == {pr \in OwnIn(ps, i) : pr.state = "OPEN"}

LEMMA FinitelyMany ==
  ASSUME NEW ps \in Seq(PullRequests)
  PROVE  IsFiniteSet(Range(ps)) /\ Range(ps) \subseteq PullRequests
<1>1. Len(ps) \in Nat /\ DOMAIN ps = 1..Len(ps) /\ \A i \in 1..Len(ps) : ps[i] \in PullRequests
  OBVIOUS
<1>2. Range(ps) = {ps[i] : i \in 1..Len(ps)} BY <1>1 DEF Range
<1>3. ps \in Surjection(1..Len(ps), Range(ps))
  <2>1. ps \in [1..Len(ps) -> Range(ps)]
    <3>1. ps \in [1..Len(ps) -> PullRequests] BY <1>1
    <3> QED BY <1>2, <3>1
  <2>2. \A y \in Range(ps) : \E i \in 1..Len(ps) : ps[i] = y BY <1>2
  <2> QED BY <2>1, <2>2 DEF Surjection
<1>4. IsFiniteSet(1..Len(ps)) BY <1>1, FS_Interval
<1>5. IsFiniteSet(Range(ps)) BY <1>3, <1>4, FS_Surjection
<1> QED BY <1>1, <1>2, <1>5

\* A connection has only what matches, and all of it unless it says that there is
\* more.
LEMMA PageFacts ==
  ASSUME NEW ps \in Seq(PullRequests), NEW h, NEW states
  PROVE  LET all == {pr \in Range(ps) : pr.head = h /\ pr.state \in states}
             page == Page(ps, h, states)
         IN  /\ page.nodes \subseteq all
             /\ ~page.more => page.nodes = all
             /\ page.more => Cardinality(Matching(ps, h, states)) > MaxCandidates
<1> DEFINE all == {pr \in Range(ps) : pr.head = h /\ pr.state \in states}
           page == Page(ps, h, states)
           M == Matching(ps, h, states)
           below(j) == {k \in M : k < j}
           first == {j \in M : Cardinality(below(j)) < MaxCandidates}
<1>1. DOMAIN ps = 1..Len(ps) /\ Len(ps) \in Nat OBVIOUS
<1>2. M \subseteq 1..Len(ps) /\ all = {ps[i] : i \in M} BY <1>1 DEF Matching, Range
<1>3. page.nodes = {ps[i] : i \in first} /\ (page.more <=> Cardinality(M) > MaxCandidates)
  BY DEF Page, Nodes
<1> HIDE DEF all, page, M
<1>4. page.nodes \subseteq all BY <1>2, <1>3
<1>5. ASSUME ~page.more PROVE page.nodes = all
  <2>1. IsFiniteSet(M) /\ Cardinality(M) \in Nat
    <3>1. IsFiniteSet(1..Len(ps)) BY <1>1, FS_Interval
    <3> QED BY <1>2, <3>1, FS_Subset, FS_CardinalityType
  <2>2. Cardinality(M) <= MaxCandidates BY <1>3, <1>5, <2>1, MockAssumption
  <2>3. ASSUME NEW j \in M PROVE Cardinality(below(j)) < MaxCandidates
    <3>1. below(j) \subseteq M /\ j \notin below(j) BY <1>1, <1>2
    <3>2. IsFiniteSet(below(j)) /\ Cardinality(below(j)) \in Nat
          /\ Cardinality(below(j)) <= Cardinality(M) /\ Cardinality(below(j)) # Cardinality(M)
      <4> HIDE DEF below
      <4>1. IsFiniteSet(below(j)) /\ Cardinality(below(j)) <= Cardinality(M)
            /\ (Cardinality(M) = Cardinality(below(j)) => M = below(j))
        BY <2>1, <3>1, FS_Subset
      <4> QED BY <3>1, <4>1, FS_CardinalityType
    <3> HIDE DEF below
    <3> QED BY <2>1, <2>2, <3>2, MockAssumption
  <2>4. first = M BY <2>3
  <2> QED BY <1>2, <1>3, <2>4
<1> QED BY <1>3, <1>4, <1>5 DEF all, page, M

\* A lookup that decodes says which pull request of the commit is open, or has
\* ended, or that it has none.
LEMMA LookupFacts ==
  ASSUME NEW ps \in Seq(PullRequests), NEW i,
         Decodes(FindOp(Stack[i]), Value(ps, FindOp(Stack[i])))
  PROVE  LET pr == Selected(Value(ps, FindOp(Stack[i])))
         IN  IF pr = None THEN OwnIn(ps, i) = {}
             ELSE /\ pr \in OwnIn(ps, i)
                  /\ OpenIn(ps, i) = IF pr.state = "OPEN" THEN {pr} ELSE {}
<1> DEFINE h == Stack[i]
           v == Value(ps, FindOp(h))
           all(states) == {pr \in Range(ps) : pr.head = h /\ pr.state \in states}
           ended == {"CLOSED", "MERGED"}
<1>1. v.open = Page(ps, h, {"OPEN"}) /\ v.historical = Page(ps, h, ended)
  BY DEF Value, FindOp
<1>2. /\ ~Ambiguous(v.open)
      /\ Candidates(v.open) = {} => ~Ambiguous(v.historical)
  BY DEF Decodes, FindOp
<1>3. IsFiniteSet(Range(ps)) /\ Range(ps) \subseteq PullRequests BY FinitelyMany
<1>4. ASSUME NEW states, ~Ambiguous(Page(ps, h, states))
      PROVE  LET found == Candidates(Page(ps, h, states))
             IN  /\ found = {pr \in OwnIn(ps, i) : pr.state \in states}
                 /\ found = {} \/ \E pr \in PullRequests : found = {pr}
  <2> DEFINE page == Page(ps, h, states)
             found == Candidates(page)
  <2>1. ~page.more /\ ~(Cardinality(found) > 1) BY <1>4 DEF Ambiguous
  <2>2. page.nodes = all(states) BY <2>1, PageFacts
  <2>3. found = {pr \in OwnIn(ps, i) : pr.state \in states}
    BY <2>2 DEF Candidates, OwnIn, SameRepo
  <2>4. found \subseteq Range(ps) BY <2>3 DEF OwnIn
  <2> HIDE DEF found, page
  <2>5. IsFiniteSet(found) BY <1>3, <2>4, FS_Subset
  <2>6. Cardinality(found) \in Nat BY <2>5, FS_CardinalityType
  <2>7. Cardinality(found) = 0 \/ Cardinality(found) = 1 BY <2>1, <2>6
  <2>8. found = {} \/ \E pr : found = {pr} BY <2>5, <2>7, FS_EmptySet, FS_Singleton
  <2> QED BY <1>3, <2>3, <2>4, <2>8 DEF found, page
<1> DEFINE open == Candidates(v.open)
           past == Candidates(v.historical)
<1>5. open = {pr \in OwnIn(ps, i) : pr.state \in {"OPEN"}}
      /\ (open = {} \/ \E pr \in PullRequests : open = {pr})
  BY <1>1, <1>2, <1>4
<1>6. open = {} => /\ past = {pr \in OwnIn(ps, i) : pr.state \in ended}
                   /\ past = {} \/ \E pr \in PullRequests : past = {pr}
  BY <1>1, <1>2, <1>4
<1>7. \A pr \in OwnIn(ps, i) : pr.state \in {"OPEN"} \cup ended /\ pr # None
  BY <1>3, PullRequestFacts DEF OwnIn, States
<1>8. open = OpenIn(ps, i) BY <1>5 DEF OpenIn
<1>9. Selected(v) = IF open # {} THEN CHOOSE pr \in open : TRUE
                    ELSE IF past # {} THEN CHOOSE pr \in past : TRUE ELSE None
  BY DEF Selected
<1> HIDE DEF open, past, v
<1>10. CASE open # {}
  <2>1. PICK pr \in PullRequests : open = {pr} BY <1>5, <1>10
  <2>2. Selected(v) = pr BY <1>9, <2>1
  <2>3. pr \in OwnIn(ps, i) /\ pr.state = "OPEN" BY <1>5, <2>1
  <2> QED BY <1>7, <1>8, <2>1, <2>2, <2>3 DEF v
<1>11. CASE open = {} /\ past # {}
  <2>1. PICK pr \in PullRequests : past = {pr} BY <1>6, <1>11
  <2>2. Selected(v) = pr BY <1>9, <1>11, <2>1
  <2>3. pr \in OwnIn(ps, i) /\ pr.state # "OPEN" BY <1>6, <1>11, <2>1
  <2> QED BY <1>7, <1>8, <1>11, <2>2, <2>3 DEF v
<1>12. CASE open = {} /\ past = {}
  <2>1. Selected(v) = None BY <1>9, <1>12
  <2>2. OwnIn(ps, i) = {} BY <1>5, <1>6, <1>7, <1>12
  <2> QED BY <2>1, <2>2 DEF v
<1> QED BY <1>10, <1>11, <1>12

\* A lookup that does not decode has a reason.
LEMMA UndecodableFacts ==
  ASSUME NEW ps \in Seq(PullRequests), NEW i,
         ~Decodes(FindOp(Stack[i]), Value(ps, FindOp(Stack[i])))
  PROVE  \/ Cardinality(OpenIn(ps, i)) # 1 /\ OwnIn(ps, i) # {}
         \/ \E states \in {{"OPEN"}, {"CLOSED", "MERGED"}} :
              Cardinality(Matching(ps, Stack[i], states)) > MaxCandidates
<1> DEFINE h == Stack[i]
           v == Value(ps, FindOp(h))
           open == Page(ps, h, {"OPEN"})
           past == Page(ps, h, {"CLOSED", "MERGED"})
<1>1. v.open = open /\ v.historical = past BY DEF Value, FindOp
<1>2. Ambiguous(open) \/ (Candidates(open) = {} /\ Ambiguous(past))
  BY <1>1 DEF Decodes, FindOp
<1>3. IsFiniteSet(Range(ps)) BY FinitelyMany
<1>4. /\ Candidates(open) \subseteq OpenIn(ps, i) /\ (~open.more => Candidates(open) = OpenIn(ps, i))
      /\ open.more => Cardinality(Matching(ps, h, {"OPEN"})) > MaxCandidates
  BY PageFacts DEF Candidates, OpenIn, OwnIn, SameRepo
<1>5. /\ Candidates(past) \subseteq OwnIn(ps, i)
      /\ past.more => Cardinality(Matching(ps, h, {"CLOSED", "MERGED"})) > MaxCandidates
  BY PageFacts DEF Candidates, OwnIn, SameRepo
<1> HIDE DEF open, past
<1>6. IsFiniteSet(OpenIn(ps, i)) /\ OpenIn(ps, i) \subseteq OwnIn(ps, i)
  <2>1. OpenIn(ps, i) \subseteq Range(ps) /\ OpenIn(ps, i) \subseteq OwnIn(ps, i)
    BY DEF OpenIn, OwnIn
  <2> QED BY <1>3, <2>1, FS_Subset
<1>7. CASE open.more \/ past.more BY <1>4, <1>5, <1>7
<1>8. CASE ~open.more /\ ~past.more /\ Cardinality(Candidates(open)) > 1
  <2>1. Cardinality(OpenIn(ps, i)) # 1 BY <1>4, <1>8
  <2>2. OpenIn(ps, i) # {} BY <1>4, <1>8, FS_EmptySet
  <2> QED BY <1>6, <2>1, <2>2
<1>9. CASE ~open.more /\ ~past.more /\ Candidates(open) = {} /\ Cardinality(Candidates(past)) > 1
  <2>1. Cardinality(OpenIn(ps, i)) = 0 BY <1>4, <1>9, FS_EmptySet
  <2>2. Candidates(past) # {}
    <3>1. Cardinality({}) = 0 /\ ~ (0 > 1) BY FS_EmptySet
    <3> QED BY <1>9, <3>1
  <2> QED BY <1>5, <2>1, <2>2
<1> QED BY <1>2, <1>7, <1>8, <1>9 DEF Ambiguous

-----------------------------------------------------------------------------
(* What a run knows *)

\* What a run may believe of a commit is so of the pull requests ps: this one is
\* its only open one, or none is, or it has none, but for the other client's.
Believed(ps, i, pr) ==
  IF pr = None THEN rivals = 0 => OwnIn(ps, i) = {}
  ELSE /\ pr \in OwnIn(ps, i)
       /\ IF pr.state = "OPEN" THEN OpenIn(ps, i) = {pr}
          ELSE rivals = 0 => OpenIn(ps, i) = {}

\* The pull request of a commit, as far as n have been created, and as n have been
\* updated.
Filled(i, n, r) ==
  IF known[i] # None THEN known[i]
  ELSE IF Place(i) <= n THEN PrEntry(r[Place(i)], Stack[i], Base(i), <<i, 0>>) ELSE None

Revised(i, n) ==
  IF i <= n THEN [known[i] EXCEPT !.text = <<i, Command>>, !.base = Base(i)] ELSE known[i]

\* The calls of a run, and their lengths.
Creation(i) == CreateOp(Stack[i], Base(i), <<i, 0>>)
Revision(i) ==
  UpdateOp(known[i].number, IF known[i].base = Base(i) THEN None ELSE Base(i), <<i, Command>>)

CallOps ==
  CASE stage = "query" -> [i \in DOMAIN Stack |-> FindOp(Stack[i])]
    [] stage = "create" -> [k \in DOMAIN Missing |-> Creation(Missing[k])]
    [] stage = "update" -> [i \in DOMAIN Stack |-> Revision(i)]

CallCosts ==
  CASE stage = "query" -> [i \in DOMAIN Stack |-> 1]
    [] stage = "create" -> [k \in DOMAIN Missing |-> length[Missing[k]]]
    [] stage = "update" -> length

\* A call of which n operations have been executed, with the results r.
CallAt(ps, n, r) ==
  /\ ps \in Seq(PullRequests) /\ Numbered(ps)
  /\ r \in Seq(Range(r)) /\ Len(r) = n
  /\ stage = "query" => \A i \in 1..n : Believed(ps, i, Selected(r[i]))
  /\ stage = "create" => /\ \A k \in 1..n : r[k] \in Nat
                         /\ \A i \in DOMAIN Stack : Believed(ps, i, Filled(i, n, r))
  /\ stage = "update" => \A i \in DOMAIN Stack : Believed(ps, i, Revised(i, n))

\* The commits and what is known of them, when a call is made.
KnownInv ==
  /\ RunInv
  /\ known \in [DOMAIN Stack -> PullRequests \cup {None}]
  /\ Command \in Nat
  /\ stage \in {"create", "update"} => \A i \in DOMAIN Stack :
                                         known[i] = None \/ known[i].state = "OPEN"
  /\ stage = "update" => \A i \in DOMAIN Stack : known[i] # None

LEMMA StackFacts ==
  /\ Len(Stack) \in Nat /\ DOMAIN Stack = 1..Len(Stack)
  /\ \A i \in DOMAIN Stack : Stack[i] \in Branches /\ Stack[i] # Main /\ Base(i) \in Branches
                             /\ Base(i) # None /\ Base(i) # Stack[i]
  /\ \A i, j \in DOMAIN Stack : Stack[i] = Stack[j] => i = j
<1>1. Len(Stack) \in Nat /\ DOMAIN Stack = 1..Len(Stack)
      /\ \A i \in 1..Len(Stack) : Stack[i] \in Branches \ {Main}
  BY TestedRunAssumption
<1>2. \A i, j \in DOMAIN Stack : Stack[i] = Stack[j] => i = j
  BY TestedRunAssumption DEF IsInjective
<1>3. ASSUME NEW i \in DOMAIN Stack
      PROVE  Base(i) \in Branches /\ Base(i) # Stack[i] /\ Base(i) # None
  <2>1. CASE i = 1 BY <1>1, <1>3, <2>1, MockAssumption DEF Base
  <2>2. CASE i # 1
    <3>1. i - 1 \in DOMAIN Stack /\ i - 1 # i BY <1>1, <1>3, <2>2
    <3>2. Base(i) = Stack[i - 1] BY <2>2 DEF Base
    <3> QED BY <1>1, <1>2, <1>3, <3>1, <3>2, MockAssumption
  <2> QED BY <2>1, <2>2
<1> QED BY <1>1, <1>2, <1>3

\* Two commits without a pull request have different places.
LEMMA PlacesDiffer ==
  ASSUME RunInv, NEW i \in DOMAIN Stack, NEW j \in DOMAIN Stack,
         known[i] = None, known[j] = None, Place(i) = Place(j)
  PROVE  i = j
<1> DEFINE none(m) == {k \in 1..m : known[k] = None}
<1>1. ASSUME NEW m \in DOMAIN Stack, NEW n \in DOMAIN Stack, m < n, known[n] = None
      PROVE  Place(m) # Place(n)
  <2>1. m \in Nat /\ n \in Nat BY StackFacts
  <2>2. none(m) \subseteq none(n) /\ n \in none(n) /\ n \notin none(m) BY <1>1, <2>1
  <2>3. IsFiniteSet(none(n))
    <3>1. IsFiniteSet(1..n) /\ none(n) \subseteq 1..n BY <2>1, FS_Interval
    <3> HIDE DEF none
    <3> QED BY <3>1, FS_Subset
  <2> HIDE DEF none
  <2>4. Cardinality(none(m)) # Cardinality(none(n)) BY <2>2, <2>3, FS_Subset
  <2> QED BY <2>4 DEF none, Place
<1> QED BY <1>1, StackFacts

LEMMA AppendFacts ==
  ASSUME NEW r, r \in Seq(Range(r)), NEW v
  PROVE  LET s == Append(r, v)
         IN  /\ s \in Seq(Range(s)) /\ Len(s) = Len(r) + 1
             /\ \A k \in 1..Len(r) : s[k] = r[k]
             /\ s[Len(r) + 1] = v
<1> DEFINE A == Range(r) \cup {v}
           s == Append(r, v)
<1>1. r \in Seq(A)
  <2>1. Range(r) \subseteq A OBVIOUS
  <2> QED BY <2>1
<1>2. s \in Seq(A) /\ Len(s) = Len(r) + 1 /\ s[Len(r) + 1] = v
      /\ \A k \in 1..Len(r) : s[k] = r[k]
  <2>1. v \in A OBVIOUS
  <2> HIDE DEF A
  <2> QED BY <1>1, <2>1
<1> HIDE DEF s
<1>3. s \in Seq(Range(s))
  <2>1. DOMAIN s = 1..Len(s) /\ Len(s) \in Nat
    <3> HIDE DEF A
    <3> QED BY <1>2
  <2>2. s \in [1..Len(s) -> Range(s)] BY <1>2, <2>1 DEF Range
  <2> QED BY <2>1, <2>2
<1> QED BY <1>2, <1>3 DEF s

\* A query that decodes.
LEMMA QueryStep ==
  ASSUME KnownInv, stage = "query", NEW ps, NEW n \in Nat, NEW r, CallAt(ps, n, r),
         Decodes(FindOp(Stack[n + 1]), Value(ps, FindOp(Stack[n + 1])))
  PROVE  CallAt(ps, n + 1, Append(r, Value(ps, FindOp(Stack[n + 1]))))
<1> DEFINE v == Value(ps, FindOp(Stack[n + 1]))
           s == Append(r, v)
<1>1. /\ ps \in Seq(PullRequests) /\ r \in Seq(Range(r)) /\ Len(r) = n
      /\ \A i \in 1..n : Believed(ps, i, Selected(r[i]))
  BY DEF CallAt
<1> HIDE DEF v
<1>2. s \in Seq(Range(s)) /\ Len(s) = n + 1 /\ (\A k \in 1..n : s[k] = r[k]) /\ s[n + 1] = v
  BY <1>1, AppendFacts
<1> HIDE DEF s
<1>3. Believed(ps, n + 1, Selected(v)) BY <1>1, LookupFacts DEF Believed, v
<1>4. \A i \in 1..(n + 1) : Believed(ps, i, Selected(s[i]))
  <2>1. ASSUME NEW i \in 1..(n + 1) PROVE Believed(ps, i, Selected(s[i]))
    <3>1. CASE i \in 1..n BY <1>1, <1>2, <3>1
    <3>2. CASE i = n + 1 BY <1>2, <1>3, <3>2
    <3> QED BY <3>1, <3>2
  <2> QED BY <2>1
<1> QED BY <1>2, <1>4 DEF CallAt, s, v

LEMMA OnlyOneNumber ==
  ASSUME NEW ps, Numbered(ps), NEW p \in Range(ps), NEW q \in Range(ps), p.number = q.number
  PROVE  p = q
BY DEF Numbered, Range

LEMMA OwnFacts ==
  ASSUME NEW ps, NEW i \in DOMAIN Stack, NEW j \in DOMAIN Stack, i # j
  PROVE  \A p \in OwnIn(ps, i) : p \in Range(ps) /\ p.head = Stack[i] /\ p.head # Stack[j]
BY StackFacts DEF OwnIn, SameRepo

\* A creation that is not refused, of the commit that is next.
LEMMA CreationStep ==
  ASSUME KnownInv, stage = "create", NEW ps, NEW n \in Nat, NEW r, CallAt(ps, n, r),
         NEW j \in DOMAIN Stack, known[j] = None, Place(j) = n + 1,
         ~RefusesCreate(ps, Creation(j))
  PROVE  CallAt(Created(ps, Creation(j)), n + 1, Append(r, NextNumber(ps)))
<1> DEFINE qs == Created(ps, Creation(j))
           m == NextNumber(ps)
           s == Append(r, m)
           new == PrEntry(m, Stack[j], Base(j), <<j, 0>>)
<1>1. /\ ps \in Seq(PullRequests) /\ Numbered(ps) /\ r \in Seq(Range(r)) /\ Len(r) = n
      /\ \A k \in 1..n : r[k] \in Nat
      /\ \A i \in DOMAIN Stack : Believed(ps, i, Filled(i, n, r))
  BY DEF CallAt
<1>2. s \in Seq(Range(s)) /\ Len(s) = n + 1 /\ (\A k \in 1..n : s[k] = r[k]) /\ s[n + 1] = m
  BY <1>1, AppendFacts
<1>3. m \in Nat BY <1>1, NextNumberFacts
<1>4. /\ qs \in Seq(PullRequests) /\ Numbered(qs) /\ new \in PullRequests
      /\ Range(qs) = Range(ps) \cup {new}
  <2>1. /\ Creation(j).head = Stack[j] /\ Creation(j).base = Base(j)
        /\ Creation(j).text = <<j, 0>>
    BY DEF Creation, CreateOp
  <2>2. <<j, 0>> \in Nat \X Nat BY StackFacts
  <2>3. Stack[j] \in Branches /\ Base(j) \in Branches BY StackFacts
  <2> QED BY <1>1, <2>1, <2>2, <2>3, CreatedFacts
<1>5. OpenIn(ps, j) = {}
  <2>1. \A pr \in Range(ps) : ~ (SameRepo(pr, Stack[j]) /\ pr.state = "OPEN")
    BY DEF RefusesCreate, Creation, CreateOp
  <2> QED BY <2>1 DEF OpenIn, OwnIn
<1>6. new.head = Stack[j] /\ ~new.cross /\ new.state = "OPEN" BY DEF PrEntry
<1> HIDE DEF qs, m, s, new
<1>7. ASSUME NEW i \in DOMAIN Stack, i # j
      PROVE  /\ OwnIn(qs, i) = OwnIn(ps, i) /\ OpenIn(qs, i) = OpenIn(ps, i)
             /\ Filled(i, n + 1, s) = Filled(i, n, r)
  <2>1. Stack[i] # Stack[j] BY <1>7, StackFacts
  <2>2. OwnIn(qs, i) = OwnIn(ps, i) BY <1>4, <1>6, <2>1 DEF OwnIn, SameRepo
  <2>3. Filled(i, n + 1, s) = Filled(i, n, r)
    <3>1. CASE known[i] # None BY <3>1 DEF Filled
    <3>2. CASE known[i] = None
      <4>1. Place(i) # n + 1 BY <1>7, <3>2, PlacesDiffer DEF KnownInv
      <4>2. Place(i) \in Nat
        <5>1. i \in 1..Len(Stack) BY StackFacts
        <5> QED BY <5>1, PlaceFacts DEF KnownInv
      <4>3. CASE Place(i) <= n
        <5>1. Place(i) # 0
          <6>1. i \in 1..Len(Stack) BY StackFacts
          <6>2. Place(i) = Place(i - 1) + 1 /\ Place(i - 1) \in Nat
            BY <3>2, <6>1, PlaceFacts DEF KnownInv
          <6> QED BY <6>2
        <5>2. s[Place(i)] = r[Place(i)] /\ Place(i) <= n + 1 BY <1>2, <4>2, <4>3, <5>1
        <5> QED BY <3>2, <4>3, <5>2 DEF Filled
      <4>4. CASE ~ (Place(i) <= n)
        <5>1. ~ (Place(i) <= n + 1) BY <4>1, <4>2, <4>4
        <5> QED BY <3>2, <4>4, <5>1 DEF Filled
      <4> QED BY <4>3, <4>4
    <3> QED BY <3>1, <3>2
  <2> QED BY <2>2, <2>3 DEF OpenIn
<1>8. Believed(qs, j, Filled(j, n + 1, s))
  <2>1. Filled(j, n + 1, s) = new BY <1>2 DEF Filled, new
  <2>2. new # None BY <1>4, PullRequestFacts
  <2>3. OwnIn(qs, j) = OwnIn(ps, j) \cup {new} BY <1>4, <1>6 DEF OwnIn, SameRepo
  <2>4. OpenIn(qs, j) = {new} BY <1>5, <1>6, <2>3 DEF OpenIn
  <2> QED BY <1>6, <2>1, <2>2, <2>3, <2>4 DEF Believed
<1>9. \A i \in DOMAIN Stack : Believed(qs, i, Filled(i, n + 1, s))
  <2>1. ASSUME NEW i \in DOMAIN Stack, i # j PROVE Believed(qs, i, Filled(i, n + 1, s))
    BY <1>1, <1>7, <2>1 DEF Believed
  <2> QED BY <1>8, <2>1
<1>10. \A k \in 1..(n + 1) : s[k] \in Nat
  <2>1. \A k \in 1..(n + 1) : k \in 1..n \/ k = n + 1 OBVIOUS
  <2> QED BY <1>1, <1>2, <1>3, <2>1
<1> QED BY <1>2, <1>4, <1>9, <1>10 DEF CallAt, qs, s, m

\* An update that is not refused, of the commit that is next.
LEMMA RevisionStep ==
  ASSUME KnownInv, stage = "update", NEW ps, NEW n \in Nat, NEW r, CallAt(ps, n, r),
         n + 1 \in DOMAIN Stack, NEW v
  PROVE  CallAt(Updated(ps, Revision(n + 1)), n + 1, Append(r, v))
<1> DEFINE j == n + 1
           op == Revision(j)
           qs == Updated(ps, op)
           s == Append(r, v)
           revised(pr) ==
             IF pr.number # op.number THEN pr
             ELSE [pr EXCEPT !.text = op.text, !.base = IF op.base = None THEN @ ELSE op.base]
<1>1. /\ ps \in Seq(PullRequests) /\ Numbered(ps) /\ r \in Seq(Range(r)) /\ Len(r) = n
      /\ \A i \in DOMAIN Stack : Believed(ps, i, Revised(i, n))
  BY DEF CallAt
<1>2. s \in Seq(Range(s)) /\ Len(s) = n + 1 BY <1>1, AppendFacts
<1>3. /\ op.number = known[j].number /\ op.text = <<j, Command>>
      /\ op.base = IF known[j].base = Base(j) THEN None ELSE Base(j)
  BY DEF Revision, UpdateOp
<1>4. j \in Nat /\ j \in DOMAIN Stack /\ Base(j) \in Branches /\ Base(j) # None
      /\ Command \in Nat
  BY StackFacts DEF KnownInv
<1>5. /\ qs \in Seq(PullRequests) /\ Numbered(qs) /\ Range(qs) = {revised(pr) : pr \in Range(ps)}
  <2>1. op.base \in Branches \cup {None} /\ op.text \in Nat \X Nat BY <1>3, <1>4
  <2> HIDE DEF op
  <2> QED BY <1>1, <2>1, UpdatedFacts
<1>6. \A i \in DOMAIN Stack : known[i] \in PullRequests /\ known[i].state = "OPEN"
  BY DEF KnownInv
<1>7. \A i \in DOMAIN Stack : /\ Revised(i, n) \in PullRequests
                              /\ Revised(i, n).state = "OPEN" /\ Revised(i, n) # None
  <2>1. ASSUME NEW i \in DOMAIN Stack
        PROVE  Revised(i, n) \in PullRequests /\ Revised(i, n).state = "OPEN"
    <3>1. known[i] \in PullRequests /\ known[i].state = "OPEN" BY <1>6
    <3>2. Base(i) \in Branches /\ <<i, Command>> \in Nat \X Nat BY <1>4, StackFacts
    <3> QED BY <3>1, <3>2 DEF Revised, PullRequests
  <2> QED BY <2>1, PullRequestFacts
<1>8. \A i \in DOMAIN Stack : Revised(i, n) \in OwnIn(ps, i) /\ OpenIn(ps, i) = {Revised(i, n)}
  BY <1>1, <1>7 DEF Believed
<1>9. Revised(j, n) = known[j] BY <1>4 DEF Revised
<1>10. \A pr \in PullRequests : /\ revised(pr).head = pr.head /\ revised(pr).cross = pr.cross
                                /\ revised(pr).state = pr.state
  BY DEF PullRequests
<1>11. Range(ps) \subseteq PullRequests BY <1>1, FinitelyMany
<1>12. ASSUME NEW i \in DOMAIN Stack
       PROVE  revised(Revised(i, n)) = Revised(i, n + 1)
  <2>1. CASE i = j
    <3>1. revised(known[j]) = [known[j] EXCEPT !.text = <<j, Command>>, !.base = Base(j)]
      <4>1. known[j] \in PullRequests BY <1>4, <1>6
      <4> HIDE DEF op
      <4> QED BY <1>3, <1>4, <4>1 DEF PullRequests
    <3>2. Revised(j, n + 1) = [known[j] EXCEPT !.text = <<j, Command>>, !.base = Base(j)]
      BY <1>4 DEF Revised
    <3> QED BY <1>9, <2>1, <3>1, <3>2
  <2>2. CASE i # j
    <3>1. Revised(i, n).number # op.number
      <4>1. Revised(i, n) \in OwnIn(ps, i) /\ known[j] \in OwnIn(ps, j) BY <1>4, <1>8, <1>9
      <4>2. Revised(i, n).head # known[j].head /\ Revised(i, n) \in Range(ps)
            /\ known[j] \in Range(ps)
        BY <1>4, <2>2, <4>1, OwnFacts DEF OwnIn, SameRepo
      <4> QED BY <1>1, <1>3, <4>2, OnlyOneNumber
    <3>2. Revised(i, n + 1) = Revised(i, n)
      <4>1. i <= n + 1 <=> i <= n BY <1>4, <2>2, StackFacts
      <4> QED BY <4>1 DEF Revised
    <3> QED BY <3>1, <3>2
  <2> QED BY <2>1, <2>2
<1> HIDE DEF op, qs, s, revised
<1>13. ASSUME NEW i \in DOMAIN Stack PROVE Believed(qs, i, Revised(i, n + 1))
  <2>1. OpenIn(qs, i) = {revised(pr) : pr \in OpenIn(ps, i)}
    BY <1>5, <1>10, <1>11 DEF OpenIn, OwnIn, SameRepo
  <2>2. OpenIn(qs, i) = {Revised(i, n + 1)} BY <1>8, <1>12, <2>1
  <2>3. Revised(i, n + 1) \in OwnIn(qs, i) /\ Revised(i, n + 1).state = "OPEN"
    BY <2>2 DEF OpenIn
  <2>4. Revised(i, n + 1) # None
    <3>1. Revised(i, n + 1) \in Range(qs) BY <2>3 DEF OwnIn
    <3>2. Range(qs) \subseteq PullRequests BY <1>5, FinitelyMany
    <3> QED BY <3>1, <3>2, PullRequestFacts
  <2> QED BY <2>2, <2>3, <2>4 DEF Believed
<1> QED BY <1>2, <1>5, <1>13 DEF CallAt, qs, op, s

-----------------------------------------------------------------------------
(* The batches of a call *)

\* What is so at the beginning, and after every step, is so throughout.
LEMMA Throughout ==
  ASSUME NEW N \in Nat, NEW S, 0 \in S, \A k \in 1..N : k - 1 \in S => k \in S
  PROVE  0..N \subseteq S
<1> DEFINE B == {m \in 0..N : m \notin S}
<1> SUFFICES ASSUME B # {} PROVE FALSE OBVIOUS
<1>1. PICK m \in B : \A n \in B : m <= n
  <2>1. B \in SUBSET Nat OBVIOUS
  <2> HIDE DEF B
  <2> QED BY <2>1, LeastNumber
<1>2. m \in 0..N /\ m \notin S BY <1>1
<1>3. m \in 1..N /\ m - 1 \in 0..N /\ ~ (m <= m - 1)
  <2>1. m # 0 BY <1>2
  <2> QED BY <1>2, <2>1
<1>4. m - 1 \notin B
  <2> HIDE DEF B
  <2> QED BY <1>1, <1>3
<1> QED BY <1>2, <1>3, <1>4

\* A call has as many documents as operations, in their order.
LEMMA CallOpsFacts ==
  ASSUME KnownInv, Calling
  PROVE  /\ CallOps \in Seq(Range(CallOps)) /\ Len(CallOps) = Len(CallCosts)
         /\ CallCosts \in Seq(Nat)
         /\ stage # "create" => Len(CallOps) = Len(Stack)
         /\ stage = "create" => Len(CallOps) = Place(Len(Stack))
         /\ \A k \in 1..Len(CallOps) :
              CASE stage = "query" -> k \in DOMAIN Stack /\ CallOps[k] = FindOp(Stack[k])
                                      /\ CallCosts[k] = 1
                [] stage = "create" -> /\ Missing[k] \in DOMAIN Stack /\ known[Missing[k]] = None
                                       /\ Place(Missing[k]) = k
                                       /\ CallOps[k] = Creation(Missing[k])
                                       /\ CallCosts[k] = length[Missing[k]]
                [] stage = "update" -> k \in DOMAIN Stack /\ CallOps[k] = Revision(k)
                                       /\ CallCosts[k] = length[k]
<1> DEFINE N == Len(Stack)
           P == Place(N)
<1>1. /\ N \in Nat /\ DOMAIN Stack = 1..N /\ DOMAIN known = 1..N /\ length \in [1..N -> Nat]
      /\ RunInv
  BY StackFacts, TestedRunAssumption DEF KnownInv, RunInv
<1>2. P \in 0..N /\ DOMAIN Missing = 1..P
      /\ \A k \in 1..P : Missing[k] \in 1..N /\ known[Missing[k]] = None /\ Place(Missing[k]) = k
  BY <1>1, MissingFacts DEF Missing
<1>3. ASSUME NEW n \in Nat, NEW f, f = [k \in 1..n |-> f[k]]
      PROVE  f \in Seq(Range(f)) /\ Len(f) = n
  <2>1. f \in [1..n -> Range(f)] BY <1>3 DEF Range
  <2> QED BY <2>1
<1> HIDE DEF N, P
<1>4. CASE stage = "query"
  <2>1. CallOps = [i \in 1..N |-> FindOp(Stack[i])] /\ CallCosts = [i \in 1..N |-> 1]
    BY <1>1, <1>4 DEF CallOps, CallCosts
  <2>2. CallOps \in Seq(Range(CallOps)) /\ Len(CallOps) = N BY <1>1, <1>3, <2>1
  <2>3. CallCosts \in Seq(Nat) /\ Len(CallCosts) = N BY <1>1, <2>1
  <2>4. \A k \in 1..N : CallOps[k] = FindOp(Stack[k]) /\ CallCosts[k] = 1 BY <2>1
  <2> QED BY <1>1, <1>4, <2>2, <2>3, <2>4 DEF N
<1>5. CASE stage = "create"
  <2>1. /\ CallOps = [k \in 1..P |-> Creation(Missing[k])]
        /\ CallCosts = [k \in 1..P |-> length[Missing[k]]]
    BY <1>2, <1>5 DEF CallOps, CallCosts
  <2>2. CallOps \in Seq(Range(CallOps)) /\ Len(CallOps) = P BY <1>1, <1>2, <1>3, <2>1
  <2>3. CallCosts \in Seq(Nat) /\ Len(CallCosts) = P BY <1>1, <1>2, <2>1
  <2>4. \A k \in 1..P : CallOps[k] = Creation(Missing[k]) /\ CallCosts[k] = length[Missing[k]]
    BY <2>1
  <2> QED BY <1>1, <1>2, <1>5, <2>2, <2>3, <2>4 DEF N, P
<1>6. CASE stage = "update"
  <2>1. CallOps = [i \in 1..N |-> Revision(i)] /\ CallCosts = length
    BY <1>1, <1>6 DEF CallOps, CallCosts
  <2>2. CallOps \in Seq(Range(CallOps)) /\ Len(CallOps) = N BY <1>1, <1>3, <2>1
  <2>3. CallCosts \in Seq(Nat) /\ Len(CallCosts) = N BY <1>1, <2>1
  <2>4. \A k \in 1..N : CallOps[k] = Revision(k) /\ CallCosts[k] = length[k] BY <2>1
  <2> QED BY <1>1, <1>6, <2>2, <2>3, <2>4 DEF N
<1> QED BY <1>4, <1>5, <1>6 DEF Calling

\* The call that a command makes is the one of its stage, and has come as far as its
\* batches say.
InCall == Calling /\ call = CallOps /\ cost = CallCosts /\ CallAt(prs, cursor, results)

LEMMA BatchFacts ==
  ASSUME KnownInv, BatchInv, InCall, Pending
  PROVE  /\ cursor \in Nat /\ End \in Nat /\ End <= Len(CallOps) /\ Len(CallOps) \in Nat
         /\ Len(Batch) = End - cursor /\ Len(Batch) \in Nat \ {0}
         /\ DOMAIN Batch = 1..Len(Batch)
         /\ \A k \in 1..Len(Batch) : Batch[k] = CallOps[cursor + k]
                                     /\ cursor + k \in 1..Len(CallOps)
<1> DEFINE N == Len(CallOps)
<1>1. /\ CallOps \in Seq(Range(CallOps)) /\ Len(CallOps) = Len(CallCosts)
      /\ N \in Nat /\ ItemCount = N
  BY CallOpsFacts DEF InCall, ItemCount
<1>2. /\ cursor \in 0..N /\ batchLen \in 1..MaxBatchLen /\ MaxBatchLen \in Nat /\ cursor < N
  BY <1>1, BatchedAssumption DEF BatchInv, TypeOK, Pending
<1>3. cursor \in Nat /\ End \in (cursor + 1)..N BY <1>1, <1>2 DEF End
<1>4. Batch = SubSeq(CallOps, cursor + 1, End) BY DEF Batch, InCall
<1> HIDE DEF N
<1>5. PICK a \in Nat, b \in Nat : a = cursor /\ b = End /\ a + 1 <= b /\ b <= N
  BY <1>1, <1>3
<1>6. Batch = [k \in 1..(b - a) |-> CallOps[a + k]]
  <2>1. Batch = [k \in 1..(1 + b - (a + 1)) |-> CallOps[k + (a + 1) - 1]]
    BY <1>4, <1>5 DEF SubSeq
  <2>2. 1 + b - (a + 1) = b - a /\ \A k \in 1..(b - a) : k + (a + 1) - 1 = a + k OBVIOUS
  <2> QED BY <2>1, <2>2
<1>7. Len(Batch) = b - a /\ DOMAIN Batch = 1..Len(Batch)
  <2>1. b - a \in Nat BY <1>5
  <2> QED BY <1>6, <2>1
<1>8. \A k \in 1..(b - a) : a + k \in 1..N BY <1>1, <1>5
<1> QED BY <1>1, <1>5, <1>6, <1>7, <1>8 DEF N

\* One more value behind the ones of a call and of its batch.
LEMMA ValuesAppend ==
  ASSUME NEW r, r \in Seq(Range(r)), NEW k \in Nat \ {0}, NEW f
  PROVE  r \o [m \in 1..k |-> f[m]] = Append(r \o [m \in 1..(k - 1) |-> f[m]], f[k])
<1> DEFINE d == [m \in 1..(k - 1) |-> f[m]]
           e == [m \in 1..k |-> f[m]]
           A == Range(r) \cup {f[m] : m \in 1..k}
<1>1. r \in Seq(A)
  <2>1. Range(r) \subseteq A OBVIOUS
  <2> QED BY <2>1
<1>2. d \in Seq(A) /\ Len(d) = k - 1 /\ e \in Seq(A) /\ Len(e) = k /\ f[k] \in A
  <2>1. k \in Nat /\ k - 1 \in Nat /\ k \in 1..k OBVIOUS
  <2>2. d \in [1..(k - 1) -> A] /\ e \in [1..k -> A] /\ f[k] \in A OBVIOUS
  <2> HIDE DEF A
  <2>3. d \in Seq(A) /\ Len(d) = k - 1 BY <2>1, <2>2
  <2>4. e \in Seq(A) /\ Len(e) = k BY <2>1, <2>2
  <2> QED BY <2>2, <2>3, <2>4
<1>3. \A m \in 1..(k - 1) : d[m] = e[m] OBVIOUS
<1>4. e[k] = f[k] OBVIOUS
<1> HIDE DEF A, d, e
<1>5. r \o e = Append(r \o d, f[k]) BY <1>1, <1>2, <1>3, <1>4
<1> QED BY <1>5 DEF d, e

\* A batch of which k operations have been executed, and none refused.
Going(k) ==
  /\ FineAt(Batch, k)
  /\ CallAt(After(Batch)[k].prs, cursor + k, results \o After(Batch)[k].data)

LEMMA GoingBegins ==
  ASSUME KnownInv, BatchInv, InCall, Pending
  PROVE  Going(0)
<1>1. After(Batch)[0] = Unhandled BY BatchFacts, AfterSteps
<1>2. FineAt(Batch, 0) BY <1>1 DEF FineAt, Unhandled
<1>3. results \in Seq(Range(results)) BY DEF InCall, CallAt
<1>4. results \o << >> = results BY <1>3
<1>5. cursor + 0 = cursor BY BatchFacts
<1>6. After(Batch)[0].prs = prs /\ After(Batch)[0].data = << >> BY <1>1 DEF Unhandled
<1> QED BY <1>2, <1>4, <1>5, <1>6 DEF Going, InCall

LEMMA GoesOn ==
  ASSUME KnownInv, BatchInv, InCall, Pending, NEW k \in 1..Len(Batch), Going(k - 1),
         ~Refuses(After(Batch)[k - 1].prs, Batch[k]),
         Decodes(Batch[k], Value(After(Batch)[k - 1].prs, Batch[k]))
  PROVE  Going(k)
<1> DEFINE ps == After(Batch)[k - 1].prs
           op == Batch[k]
           n == cursor + (k - 1)
           old == After(Batch)[k - 1].data
           new == After(Batch)[k].data
           value == [m \in 1..k |-> Value(After(Batch)[m - 1].prs, Batch[m])]
           r == results \o old
<1>1. /\ cursor \in Nat /\ Len(Batch) \in Nat /\ k \in Nat \ {0} /\ n \in Nat
      /\ n + 1 = cursor + k /\ op = CallOps[n + 1] /\ n + 1 \in 1..Len(CallOps)
  <2>1. cursor \in Nat /\ Len(Batch) \in Nat /\ op = CallOps[cursor + k]
        /\ cursor + k \in 1..Len(CallOps)
    BY BatchFacts
  <2>2. k \in Nat \ {0} BY <2>1
  <2>3. n \in Nat /\ n + 1 = cursor + k BY <2>1, <2>2
  <2> HIDE DEF n
  <2> QED BY <2>1, <2>2, <2>3
<1>2. FineAt(Batch, k - 1) /\ FineAt(Batch, k) /\ After(Batch)[k].prs = Applied(ps, op)
  BY <1>1, OperationFacts DEF Going
<1>3. results \o new = Append(r, Value(ps, op))
  <2>1. results \in Seq(Range(results)) BY DEF InCall, CallAt
  <2>2. /\ old = [m \in 1..(k - 1) |-> Value(After(Batch)[m - 1].prs, Batch[m])]
        /\ new = [m \in 1..k |-> Value(After(Batch)[m - 1].prs, Batch[m])]
    BY <1>2 DEF FineAt
  <2>3. old = [m \in 1..(k - 1) |-> value[m]]
    <3>1. \A m \in 1..(k - 1) : value[m] = Value(After(Batch)[m - 1].prs, Batch[m]) OBVIOUS
    <3> HIDE DEF value, old
    <3> QED BY <2>2, <3>1
  <2>4. new = [m \in 1..k |-> value[m]] /\ value[k] = Value(ps, op) BY <2>2
  <2>5. k \in Nat \ {0} BY <1>1
  <2> HIDE DEF old, new, value, ps, op
  <2>6. results \o new = Append(results \o old, value[k])
    <3>1. results \o [m \in 1..k |-> value[m]]
            = Append(results \o [m \in 1..(k - 1) |-> value[m]], value[k])
      BY <2>1, <2>5, ValuesAppend
    <3> QED BY <2>3, <2>4, <3>1
  <2> QED BY <2>4, <2>6
<1>4. CallAt(ps, n, r) BY DEF Going
<1>5. ~Refuses(ps, op) /\ Decodes(op, Value(ps, op)) OBVIOUS
<1> HIDE DEF ps, op, n, old, new, r
<1>6. CallAt(Applied(ps, op), n + 1, Append(r, Value(ps, op)))
  <2>1. CASE stage = "query"
    <3>1. op = FindOp(Stack[n + 1]) BY <1>1, <2>1, CallOpsFacts DEF InCall
    <3>2. op.kind = "query" BY <3>1 DEF FindOp
    <3>3. Applied(ps, op) = ps BY <3>2 DEF Applied
    <3> QED BY <1>1, <1>4, <1>5, <2>1, <3>1, <3>3, QueryStep
  <2>2. CASE stage = "create"
    <3>1. PICK j \in DOMAIN Stack : known[j] = None /\ Place(j) = n + 1 /\ op = Creation(j)
      BY <1>1, <2>2, CallOpsFacts DEF InCall
    <3>2. op.kind = "create" BY <3>1 DEF Creation, CreateOp
    <3>3. Applied(ps, op) = Created(ps, op) /\ Value(ps, op) = NextNumber(ps)
          /\ ~RefusesCreate(ps, op)
      BY <1>5, <3>2 DEF Applied, Value, Refuses
    <3> QED BY <1>1, <1>4, <2>2, <3>1, <3>3, CreationStep
  <2>3. CASE stage = "update"
    <3>1. n + 1 \in DOMAIN Stack /\ op = Revision(n + 1)
      BY <1>1, <2>3, CallOpsFacts DEF InCall
    <3>2. op.kind = "update" BY <3>1 DEF Revision, UpdateOp
    <3>3. Applied(ps, op) = Updated(ps, op) BY <3>2 DEF Applied
    <3> QED BY <1>1, <1>4, <2>3, <3>1, <3>3, RevisionStep
  <2> QED BY <2>1, <2>2, <2>3 DEF InCall, Calling
<1> QED BY <1>1, <1>2, <1>3, <1>6 DEF Going, ps, new

\* The pull requests of the server, its branches and its limit.
ServerInv ==
  /\ prs \in Seq(PullRequests) /\ Numbered(prs)
  /\ Main \in refs /\ limit \in Nat \ {0} /\ rivals \in Nat

\* The branches are there when the run creates or changes pull requests.
PushedInv ==
  stage \in {"pushed", "create", "update"} \/ (stage = "report" /\ exitCode = 0) =>
    Range(Stack) \subseteq refs

\* Without the other client no mutation is refused: a commit for which one is
\* created has none, the one that is updated is there, and so are the branches.
LEMMA NotRefused ==
  ASSUME KnownInv, ServerInv, PushedInv, Calling, rivals = 0,
         NEW n \in Nat, NEW ps, NEW r, CallAt(ps, n, r), n + 1 \in 1..Len(CallOps)
  PROVE  ~Refuses(ps, CallOps[n + 1])
<1> DEFINE op == CallOps[n + 1]
<1>1. stage # "query" => \A i \in DOMAIN Stack : Stack[i] \in refs /\ Base(i) \in refs
  <2> SUFFICES ASSUME stage # "query", NEW i \in DOMAIN Stack
               PROVE  Stack[i] \in refs /\ Base(i) \in refs
    OBVIOUS
  <2>1. Range(Stack) \subseteq refs /\ Main \in refs BY DEF PushedInv, ServerInv, Calling
  <2>2. \A j \in DOMAIN Stack : Stack[j] \in refs BY <2>1 DEF Range
  <2>3. i # 1 => i - 1 \in DOMAIN Stack BY StackFacts
  <2> QED BY <2>1, <2>2, <2>3 DEF Base
<1>2. CASE stage = "query"
  <2>1. op = FindOp(Stack[n + 1]) BY <1>2, CallOpsFacts
  <2>2. op.kind = "query" BY <2>1 DEF FindOp
  <2> QED BY <2>2 DEF Refuses
<1>3. CASE stage = "create"
  <2>1. PICK j \in DOMAIN Stack : known[j] = None /\ Place(j) = n + 1 /\ op = Creation(j)
    BY <1>3, CallOpsFacts
  <2>2. op.kind = "create" /\ op.head = Stack[j] /\ op.base = Base(j)
    BY <2>1 DEF Creation, CreateOp
  <2>3. Believed(ps, j, Filled(j, n, r)) BY <1>3 DEF CallAt
  <2>4. Filled(j, n, r) = None
    <3>1. ~ (Place(j) <= n) BY <2>1
    <3> QED BY <2>1, <3>1 DEF Filled
  <2>5. OwnIn(ps, j) = {} BY <2>3, <2>4 DEF Believed
  <2>6. \A pr \in Range(ps) : ~SameRepo(pr, Stack[j]) BY <2>5 DEF OwnIn
  <2>7. Base(j) # Stack[j] /\ Stack[j] \in refs /\ Base(j) \in refs BY <1>1, <1>3, StackFacts
  <2> HIDE DEF op
  <2>8. ~RefusesCreate(ps, op) BY <2>2, <2>6, <2>7 DEF RefusesCreate
  <2> QED BY <2>2, <2>8 DEF Refuses, op
<1>4. CASE stage = "update"
  <2> DEFINE j == n + 1
  <2>1. j \in DOMAIN Stack /\ op = Revision(j) BY <1>4, CallOpsFacts
  <2>2. /\ op.kind = "update" /\ op.number = known[j].number
        /\ op.base = None \/ op.base = Base(j)
    BY <2>1 DEF Revision, UpdateOp
  <2>3. known[j] \in PullRequests /\ known[j].state = "OPEN" /\ known[j] # None
    <3>1. known[j] \in PullRequests \cup {None} /\ known[j] # None BY <1>4, <2>1 DEF KnownInv
    <3> QED BY <1>4, <2>1, <3>1 DEF KnownInv
  <2>4. known[j] \in Range(ps) /\ known[j].head = Stack[j] /\ Numbered(ps)
    <3>1. Believed(ps, j, Revised(j, n)) /\ Numbered(ps) BY <1>4, <2>1 DEF CallAt
    <3>2. Revised(j, n) = known[j] BY DEF Revised
    <3>3. known[j] \in OwnIn(ps, j) BY <2>3, <3>1, <3>2 DEF Believed
    <3> QED BY <3>1, <3>3 DEF OwnIn, SameRepo
  <2>5. Node(ps, op) # {} /\ \A pr \in Node(ps, op) : pr = known[j]
    BY <2>2, <2>4, OnlyOneNumber DEF Node
  <2>6. Stack[j] # None /\ Base(j) # Stack[j] /\ Base(j) \in refs /\ Base(j) # None
    BY <1>1, <1>4, <2>1, StackFacts, MockAssumption
  <2> HIDE DEF op, j
  <2>7. ~RefusesUpdate(ps, op) BY <2>2, <2>4, <2>5, <2>6 DEF RefusesUpdate
  <2> QED BY <2>2, <2>7 DEF Refuses, op
<1> QED BY <1>2, <1>3, <1>4 DEF Calling

\* Only a query can have a value that does not decode, and no query is refused.
LEMMA OnlyQueries ==
  ASSUME KnownInv, BatchInv, InCall, Pending, NEW k \in 1..Len(Batch)
  PROVE  /\ stage # "query" => \A v : Decodes(Batch[k], v)
         /\ stage = "query" =>
              /\ cursor + k \in DOMAIN Stack /\ Batch[k] = FindOp(Stack[cursor + k])
              /\ \A ps : ~Refuses(ps, Batch[k]) /\ Applied(ps, Batch[k]) = ps
<1>1. Batch[k] = CallOps[cursor + k] /\ cursor + k \in 1..Len(CallOps) BY BatchFacts
<1>2. CASE stage = "query"
  <2>1. cursor + k \in DOMAIN Stack /\ Batch[k] = FindOp(Stack[cursor + k])
    BY <1>1, <1>2, CallOpsFacts DEF InCall
  <2>2. Batch[k].kind = "query" BY <2>1 DEF FindOp
  <2> QED BY <1>2, <2>1, <2>2 DEF Refuses, Applied
<1>3. CASE stage = "create"
  <2>1. Batch[k] = Creation(Missing[cursor + k]) BY <1>1, <1>3, CallOpsFacts DEF InCall
  <2>2. Batch[k].kind = "create" BY <2>1 DEF Creation, CreateOp
  <2> QED BY <1>3, <2>2 DEF Decodes
<1>4. CASE stage = "update"
  <2>1. Batch[k] = Revision(cursor + k) BY <1>1, <1>4, CallOpsFacts DEF InCall
  <2>2. Batch[k].kind = "update" BY <2>1 DEF Revision, UpdateOp
  <2> QED BY <1>4, <2>2 DEF Decodes
<1> QED BY <1>2, <1>3, <1>4 DEF InCall, Calling

\* A batch of queries changes nothing, and none of them is refused.
LEMMA QueriesOnly ==
  ASSUME KnownInv, BatchInv, InCall, Pending, stage = "query"
  PROVE  \A k \in 0..Len(Batch) : FineAt(Batch, k) /\ After(Batch)[k].prs = prs
<1> DEFINE N == Len(Batch)
           S == {k \in 0..N : FineAt(Batch, k) /\ After(Batch)[k].prs = prs}
<1>1. N \in Nat BY BatchFacts
<1>2. 0 \in S
  <2>1. After(Batch)[0] = Unhandled BY <1>1, AfterSteps
  <2>2. FineAt(Batch, 0) /\ After(Batch)[0].prs = prs BY <2>1 DEF FineAt, Unhandled
  <2> QED BY <1>1, <2>2
<1>3. ASSUME NEW k \in 1..N, k - 1 \in S PROVE k \in S
  <2>1. FineAt(Batch, k - 1) /\ After(Batch)[k - 1].prs = prs BY <1>3
  <2>2. ~Refuses(prs, Batch[k]) /\ Applied(prs, Batch[k]) = prs BY <1>3, OnlyQueries
  <2>3. FineAt(Batch, k) /\ After(Batch)[k].prs = Applied(After(Batch)[k - 1].prs, Batch[k])
    BY <1>1, <1>3, <2>1, <2>2, OperationFacts
  <2> QED BY <1>1, <1>3, <2>1, <2>2, <2>3
<1> HIDE DEF S
<1>4. 0..N \subseteq S BY <1>1, <1>2, <1>3, Throughout
<1> QED BY <1>4 DEF S

\* A reply as a whole: what denies it, and what it says otherwise.
LEMMA ReplyFacts ==
  ASSUME NEW ops, faults \in Seq(STRING)
  PROVE  /\ Reply(ops).errors = "limit" => Len(ops) > limit
         /\ Reply(ops).errors # "none" =>
              \/ Reply(ops).prs = prs
              \/ Reply(ops).prs = After(ops)[Len(ops)].prs
         /\ Reply(ops).errors = "none" =>
              /\ ~After(ops)[Len(ops)].errors
              /\ Reply(ops).data = After(ops)[Len(ops)].data
              /\ Reply(ops).prs = After(ops)[Len(ops)].prs
         /\ Reply(ops).errors = "other" =>
              \/ faults # << >> /\ Reply(ops).faults = Tail(faults)
              \/ After(ops)[Len(ops)].errors
         /\ Reply(ops).errors \in {"none", "limit", "other"}
<1> DEFINE h == After(ops)[Len(ops)]
<1>1. /\ Served(ops).errors = (IF h.errors THEN "other" ELSE "none")
      /\ Served(ops).data = h.data /\ Served(ops).prs = h.prs
  BY DEF Served, Handled
<1>2. CASE OverLimit(ops)
  <2>1. Reply(ops) = Denied("limit", faults) /\ Len(ops) > limit BY <1>2 DEF Reply, OverLimit
  <2>2. Denied("limit", faults).errors = "limit" /\ Denied("limit", faults).prs = prs
    BY DEF Denied
  <2> QED BY <2>1, <2>2
<1>3. CASE ~OverLimit(ops) /\ Faulted(ops)
  <2>1. Reply(ops) = Denied("other", Tail(faults)) /\ faults # << >>
    BY <1>3 DEF Reply, Faulted
  <2>2. /\ Denied("other", Tail(faults)).errors = "other"
        /\ Denied("other", Tail(faults)).prs = prs
        /\ Denied("other", Tail(faults)).faults = Tail(faults)
    BY DEF Denied
  <2> QED BY <2>1, <2>2
<1>4. CASE ~OverLimit(ops) /\ ~Faulted(ops)
  <2>1. Reply(ops) = Served(ops) BY <1>4 DEF Reply
  <2> QED BY <1>1, <2>1
<1> QED BY <1>2, <1>3, <1>4

\* When every result decodes and nothing is refused, the call has come further.
LEMMA AcceptedFacts ==
  ASSUME KnownInv, BatchInv, FaultInv, InCall, Pending, Succeeds(Reply(Batch))
  PROVE  CallAt(Reply(Batch).prs, End, results \o Reply(Batch).data)
<1> DEFINE N == Len(Batch)
           S == {k \in 0..N : Going(k)}
<1>1. N \in Nat /\ cursor + N = End BY BatchFacts
<1>2. /\ ~After(Batch)[N].errors /\ Reply(Batch).data = After(Batch)[N].data
      /\ Reply(Batch).prs = After(Batch)[N].prs
  BY ReplyFacts DEF Succeeds, FaultInv
<1>3. \A k \in 0..N : /\ FineAt(Batch, k)
                      /\ k > 0 => ~Refuses(After(Batch)[k - 1].prs, Batch[k])
  BY <1>1, <1>2, FineThroughout
<1>4. ASSUME NEW k \in 1..N
      PROVE  Decodes(Batch[k], Value(After(Batch)[k - 1].prs, Batch[k]))
  <2>1. Reply(Batch).data[k] = Value(After(Batch)[k - 1].prs, Batch[k])
    <3>1. FineAt(Batch, N) BY <1>1, <1>3
    <3> QED BY <1>2, <3>1 DEF FineAt
  <2>2. k \in DOMAIN Batch BY BatchFacts
  <2> QED BY <2>1, <2>2 DEF Succeeds
<1>5. 0 \in S BY <1>1, GoingBegins
<1>6. ASSUME NEW k \in 1..N, k - 1 \in S PROVE k \in S
  <2>1. ~Refuses(After(Batch)[k - 1].prs, Batch[k])
    <3>1. k \in 0..N /\ k > 0 BY <1>1
    <3> QED BY <1>3, <3>1
  <2>2. Going(k) BY <1>4, <1>6, <2>1, GoesOn
  <2> QED BY <1>1, <2>2
<1>7. 0..N \subseteq S
  <2> HIDE DEF S
  <2> QED BY <1>1, <1>5, <1>6, Throughout
<1>8. Going(N) BY <1>1, <1>7
<1> QED BY <1>1, <1>2, <1>8 DEF Going

\* What the server has of the operations of a call: branches, and texts.
WellFormed(op) ==
  /\ op.kind = "create" => /\ op.head \in Branches /\ op.base \in Branches
                           /\ op.text \in Nat \X Nat
  /\ op.kind = "update" => op.base \in Branches \cup {None} /\ op.text \in Nat \X Nat

LEMMA AppliedFacts ==
  ASSUME NEW ps \in Seq(PullRequests), Numbered(ps), NEW op, WellFormed(op)
  PROVE  Applied(ps, op) \in Seq(PullRequests) /\ Numbered(Applied(ps, op))
<1>1. CASE op.kind = "create"
  <2>1. Created(ps, op) \in Seq(PullRequests) /\ Numbered(Created(ps, op))
    BY <1>1, CreatedFacts DEF WellFormed
  <2> QED BY <1>1, <2>1 DEF Applied
<1>2. CASE op.kind = "update"
  <2>1. Updated(ps, op) \in Seq(PullRequests) /\ Numbered(Updated(ps, op))
    BY <1>2, UpdatedFacts DEF WellFormed
  <2> QED BY <1>2, <2>1 DEF Applied
<1>3. CASE op.kind \notin {"create", "update"} BY <1>3 DEF Applied
<1> QED BY <1>1, <1>2, <1>3

LEMMA WellFormedOps ==
  ASSUME KnownInv, Calling, NEW k \in 1..Len(CallOps)
  PROVE  WellFormed(CallOps[k])
<1>1. CASE stage = "query"
  <2>1. CallOps[k] = FindOp(Stack[k]) BY <1>1, CallOpsFacts
  <2>2. CallOps[k].kind = "query" BY <2>1 DEF FindOp
  <2> QED BY <2>2 DEF WellFormed
<1>2. CASE stage = "create"
  <2>1. PICK j \in DOMAIN Stack : CallOps[k] = Creation(j) BY <1>2, CallOpsFacts
  <2>2. j \in Nat /\ Stack[j] \in Branches /\ Base(j) \in Branches BY StackFacts
  <2>3. WellFormed(Creation(j)) BY <2>2 DEF WellFormed, Creation, CreateOp
  <2> QED BY <2>1, <2>3
<1>3. CASE stage = "update"
  <2>1. k \in DOMAIN Stack /\ CallOps[k] = Revision(k) BY <1>3, CallOpsFacts
  <2>2. k \in Nat /\ Base(k) \in Branches /\ Command \in Nat
    BY <2>1, StackFacts DEF KnownInv
  <2> HIDE DEF Command
  <2>3. WellFormed(Revision(k)) BY <2>2 DEF WellFormed, Revision, UpdateOp
  <2> QED BY <2>1, <2>3
<1> QED BY <1>1, <1>2, <1>3 DEF Calling

\* Whatever it refuses, the server has pull requests with numbers of their own.
LEMMA ServedFacts ==
  ASSUME NEW ops, Len(ops) \in Nat, prs \in Seq(PullRequests), Numbered(prs),
         \A k \in 1..Len(ops) : WellFormed(ops[k])
  PROVE  LET qs == After(ops)[Len(ops)].prs IN qs \in Seq(PullRequests) /\ Numbered(qs)
<1> DEFINE fine(acc) == /\ DOMAIN acc = {"prs", "data", "done", "errors"}
                        /\ acc.prs \in Seq(PullRequests) /\ Numbered(acc.prs)
           S == {k \in 0..Len(ops) : fine(After(ops)[k])}
<1>1. /\ After(ops)[0] = Unhandled
      /\ \A k \in 1..Len(ops) : After(ops)[k] = Handle(After(ops)[k - 1], ops[k])
  BY AfterSteps
<1>2. 0 \in S
  <2>1. fine(Unhandled) BY DEF Unhandled
  <2> HIDE DEF fine
  <2> QED BY <1>1, <2>1
<1>3. ASSUME NEW acc, fine(acc), NEW op, WellFormed(op) PROVE fine(Handle(acc, op))
  <2>1. DOMAIN Handle(acc, op) = {"prs", "data", "done", "errors"} BY <1>3, HandleFacts
  <2>2. CASE Refuses(acc.prs, op)
    <3>1. Handle(acc, op) = [acc EXCEPT !.errors = TRUE] BY <2>2 DEF Handle
    <3>2. Handle(acc, op).prs = acc.prs BY <1>3, <3>1
    <3> QED BY <1>3, <2>1, <3>2
  <2>3. CASE ~Refuses(acc.prs, op)
    <3>1. Handle(acc, op).prs = Applied(acc.prs, op) BY <1>3, <2>3, HandleFacts
    <3> QED BY <1>3, <2>1, <3>1, AppliedFacts
  <2> QED BY <2>2, <2>3
<1> HIDE DEF fine
<1>4. ASSUME NEW k \in 1..Len(ops), k - 1 \in S PROVE k \in S
  BY <1>1, <1>3, <1>4
<1> HIDE DEF S
<1>5. 0..Len(ops) \subseteq S BY <1>2, <1>4, Throughout
<1> QED BY <1>5 DEF S, fine

\* What makes a lookup fail: a commit with pull requests of which not exactly one is
\* open, or more of them than a page holds.
Undecided(ps, i) ==
  \/ Cardinality(OpenIn(ps, i)) # 1 /\ OwnIn(ps, i) # {}
  \/ \E states \in {{"OPEN"}, {"CLOSED", "MERGED"}} :
       Cardinality(Matching(ps, Stack[i], states)) > MaxCandidates

\* A batch that fails has met a fault, or a query that does not decode, or the other
\* client has been there.
LEMMA FailedFacts ==
  ASSUME KnownInv, BatchInv, FaultInv, ServerInv, PushedInv, InCall, Pending, rivals = 0,
         Reply(Batch).errors # "limit", ~Succeeds(Reply(Batch))
  PROVE  \/ Len(Reply(Batch).faults) < before
         \/ Reply(Batch).prs = prs /\ \E i \in DOMAIN Stack : Undecided(prs, i)
<1> DEFINE N == Len(Batch)
           reply == Reply(Batch)
           S == {k \in 0..N : Going(k)}
<1>1. N \in Nat /\ DOMAIN Batch = 1..N /\ cursor \in Nat BY BatchFacts
<1>2. faults \in Seq(STRING) /\ Len(faults) <= before /\ before \in Nat BY DEF FaultInv
<1>3. SUFFICES ASSUME ~ (faults # << >> /\ reply.faults = Tail(faults))
      PROVE  reply.prs = prs /\ \E i \in DOMAIN Stack : Undecided(prs, i)
  <2>1. faults # << >> => Len(Tail(faults)) = Len(faults) - 1 /\ Len(faults) \in Nat
    BY <1>2, TailFaults
  <2>2. faults # << >> /\ reply.faults = Tail(faults) => Len(reply.faults) < before
    BY <1>2, <2>1
  <2> QED BY <2>2
<1>4. ASSUME NEW k \in 1..N, Going(k - 1)
      PROVE  ~Refuses(After(Batch)[k - 1].prs, Batch[k])
  <2>1. /\ Batch[k] = CallOps[cursor + k] /\ cursor + k \in 1..Len(CallOps)
    BY BatchFacts
  <2>2. cursor + (k - 1) \in Nat /\ cursor + (k - 1) + 1 = cursor + k BY <1>1
  <2>3. CallAt(After(Batch)[k - 1].prs, cursor + (k - 1),
               results \o After(Batch)[k - 1].data)
    BY <1>4 DEF Going
  <2>4. cursor + (k - 1) + 1 \in 1..Len(CallOps) BY <2>1, <2>2
  <2>5. ~Refuses(After(Batch)[k - 1].prs, CallOps[cursor + (k - 1) + 1])
    BY <2>2, <2>3, <2>4, NotRefused DEF InCall
  <2> QED BY <2>1, <2>2, <2>5
<1>5. CASE stage # "query"
  <2>1. 0 \in S BY <1>1, GoingBegins
  <2>2. ASSUME NEW k \in 1..N, k - 1 \in S PROVE k \in S
    <3>1. ~Refuses(After(Batch)[k - 1].prs, Batch[k]) BY <1>4, <2>2
    <3>2. Decodes(Batch[k], Value(After(Batch)[k - 1].prs, Batch[k])) BY <1>5, OnlyQueries
    <3>3. Going(k) BY <2>2, <3>1, <3>2, GoesOn
    <3> QED BY <1>1, <3>3
  <2>3. 0..N \subseteq S
    <3> HIDE DEF S
    <3> QED BY <1>1, <2>1, <2>2, Throughout
  <2>4. ~After(Batch)[N].errors
    <3>1. Going(N) BY <1>1, <2>3
    <3> QED BY <3>1 DEF Going, FineAt
  <2>5. reply.errors = "none" BY <1>2, <1>3, <2>4, ReplyFacts
  <2>6. \A i \in DOMAIN Batch : Decodes(Batch[i], reply.data[i]) BY <1>1, <1>5, OnlyQueries
  <2> HIDE DEF reply
  <2>7. Succeeds(reply) BY <2>5, <2>6 DEF Succeeds
  <2> QED BY <2>7 DEF reply
<1>6. CASE stage = "query"
  <2>1. \A k \in 0..N : FineAt(Batch, k) /\ After(Batch)[k].prs = prs BY <1>6, QueriesOnly
  <2>2. FineAt(Batch, N) /\ After(Batch)[N].prs = prs BY <1>1, <2>1
  <2>3. reply.errors = "none" BY <1>2, <1>3, <2>2, ReplyFacts DEF FineAt
  <2>4. reply.prs = prs /\ reply.data = After(Batch)[N].data BY <1>2, <2>2, <2>3, ReplyFacts
  <2>5. PICK k \in 1..N : ~Decodes(Batch[k], reply.data[k])
    <3> HIDE DEF reply
    <3> QED BY <1>1, <2>3 DEF Succeeds, reply
  <2>6. reply.data[k] = Value(After(Batch)[k - 1].prs, Batch[k])
    <3> HIDE DEF reply
    <3> QED BY <2>2, <2>4 DEF FineAt
  <2>7. After(Batch)[k - 1].prs = prs BY <1>1, <2>1
  <2>8. cursor + k \in DOMAIN Stack /\ Batch[k] = FindOp(Stack[cursor + k])
    BY <1>6, OnlyQueries
  <2>9. ~Decodes(FindOp(Stack[cursor + k]), Value(prs, FindOp(Stack[cursor + k])))
    <3> HIDE DEF reply
    <3> QED BY <2>5, <2>6, <2>7, <2>8
  <2>10. Undecided(prs, cursor + k) BY <2>9, UndecodableFacts DEF ServerInv, Undecided
  <2> QED BY <2>4, <2>8, <2>10
<1> QED BY <1>5, <1>6

\* A document that exceeds the limit alone is too long.
LEMMA OneTooLong ==
  ASSUME cursor \in Nat, End = cursor + 1, ExceedsLimit, cost[cursor + 1] \in Nat
  PROVE  cost[cursor + 1] > MaxQueryBytes
<1> DEFINE c == cursor
           is(f) == f = [n \in c..End |-> IF n = c THEN 0 ELSE f[n - 1] + cost[n]]
           f0 == [n \in c..End |-> IF n = c THEN 0 ELSE cost[n]]
<1>1. is(f0)
  <2>1. \A n \in c..End : n = c \/ n = c + 1 OBVIOUS
  <2>2. \A n \in c..End : f0[n] = IF n = c THEN 0 ELSE f0[n - 1] + cost[n]
    <3>1. f0[c] = 0 /\ f0[c + 1] = cost[c + 1] /\ c # c + 1 /\ (c + 1) - 1 = c OBVIOUS
    <3>2. f0[c + 1] = f0[(c + 1) - 1] + cost[c + 1] BY <3>1
    <3> HIDE DEF f0
    <3> QED BY <2>1, <3>1, <3>2
  <2>3. f0 = [n \in c..End |-> f0[n]] OBVIOUS
  <2> HIDE DEF f0
  <2> QED BY <2>2, <2>3
<1> DEFINE size == CHOOSE f : is(f)
<1>2. is(size)
  <2> HIDE DEF is, f0
  <2> QED BY <1>1
<1>3. size[End] > MaxQueryBytes BY DEF ExceedsLimit
<1> HIDE DEF size
<1>4. size[c] = 0 /\ size[c + 1] = size[(c + 1) - 1] + cost[c + 1]
  <2>1. c \in c..End /\ c + 1 \in c..End /\ c # c + 1 OBVIOUS
  <2> QED BY <1>2, <2>1
<1>5. (c + 1) - 1 = c OBVIOUS
<1> QED BY <1>3, <1>4, <1>5

-----------------------------------------------------------------------------
(* The inductive invariant of a run *)

Publishing == {"lsRemote", "push", "report", "pushed"}

\* What the run knows is so while it publishes, and open what it changes.
KnowsInv ==
  /\ known \in [DOMAIN Stack -> PullRequests \cup {None}]
  /\ stage \in Publishing \cup {"create", "update"} =>
       \A i \in DOMAIN Stack : known[i] = None \/ known[i].state = "OPEN"
  /\ stage \in Publishing => \A i \in DOMAIN Stack : Believed(prs, i, known[i])
  /\ stage = "update" => \A i \in DOMAIN Stack : known[i] # None

CallInv == Calling /\ status # "failed" => InCall

\* A call that has failed has a cause already.
CauseInv == (Calling /\ status \in {"failed", "tooLarge"}) \/ JustEnded("failed") => Cause

SyncInv ==
  ServerInv /\ KnowsInv /\ CallInv /\ PushedInv /\ CauseInv /\ SyncedWhenPushed

\* What is known of a run and of its calls from the invariants above.
ContextInv == RunInv /\ BatchInv /\ RecordInv /\ FaultInv

LEMMA KnownInvHolds == ContextInv /\ KnowsInv => KnownInv
<1> SUFFICES ASSUME ContextInv, KnowsInv PROVE KnownInv OBVIOUS
<1>1. Command \in Nat
  <2>1. outcomes \in Seq(Outcomes) BY DEF ContextInv, FaultInv
  <2> QED BY <2>1 DEF Command
<1> HIDE DEF Command
<1> QED BY <1>1 DEF ContextInv, KnowsInv, KnownInv

LEMMA CausesOf ==
  ASSUME NEW i \in DOMAIN Stack
  PROVE  Undecided(prs, i) => Cause
BY DEF Undecided, Cause, OpenIn, OwnIn, OwnOpen, OwnPrs

LEMMA CauseStays ==
  ASSUME Cause, UNCHANGED <<faults, before, exitCode, rivals, length, prs>>
  PROVE  Cause'
BY DEF Cause, OwnOpen, OwnPrs

\* What the run believes, when nothing that it is about changes.
LEMMA BelievedStays ==
  ASSUME UNCHANGED <<prs, rivals>>, NEW i, NEW pr
  PROVE  Believed(prs, i, pr) <=> Believed(prs, i, pr)'
BY DEF Believed, OpenIn, OwnIn

LEMMA CallStays ==
  ASSUME UNCHANGED <<stage, known, length, outcomes>>
  PROVE  /\ CallOps' = CallOps /\ CallCosts' = CallCosts
         /\ rivals' = rivals /\ CallAt(prs', cursor', results') => CallAt(prs, cursor, results)'
<1>1. \A i : Place(i)' = Place(i) BY DEF Place
<1>2. Missing' = Missing BY DEF Missing, Place
<1>3. \A i : Revision(i)' = Revision(i) BY DEF Revision, Command
<1>4. CallOps' = CallOps /\ CallCosts' = CallCosts BY <1>2, <1>3 DEF CallOps, CallCosts
<1>5. ASSUME rivals' = rivals, CallAt(prs', cursor', results')
      PROVE  CallAt(prs, cursor, results)'
  <2>1. \A i : Filled(i, cursor', results') = Filled(i, cursor, results)' BY <1>1 DEF Filled
  <2>2. \A i : Revised(i, cursor') = Revised(i, cursor)' BY DEF Revised, Command
  <2>3. \A i, pr : Believed(prs', i, pr) <=> Believed(prs, i, pr)'
    BY <1>5 DEF Believed, OpenIn, OwnIn
  <2> QED BY <1>5, <2>1, <2>2, <2>3 DEF CallAt
<1> QED BY <1>4, <1>5

\* The command has ended, or rests.
LEMMA RunRests ==
  ASSUME SyncInv, UNCHANGED <<prs, refs, limit, rivals>>,
         known' \in [DOMAIN Stack -> PullRequests \cup {None}],
         stage' \notin Publishing \cup {"query", "create", "update"},
         CauseInv', SyncedWhenPushed'
  PROVE  SyncInv'
<1>1. ServerInv' BY DEF SyncInv, ServerInv
<1>2. KnowsInv' BY DEF KnowsInv
<1>3. CallInv' BY DEF CallInv, Calling
<1>4. PushedInv' BY DEF PushedInv, Publishing
<1> QED BY <1>1, <1>2, <1>3, <1>4 DEF SyncInv

\* The command goes on to publish.
LEMMA RunPublishes ==
  ASSUME SyncInv, stage \in Publishing, stage' \in Publishing,
         UNCHANGED <<prs, limit, rivals, known>>, refs \subseteq refs', PushedInv'
  PROVE  SyncInv'
<1>1. ServerInv' BY DEF SyncInv, ServerInv
<1>2. KnowsInv'
  <2>1. \A i \in DOMAIN Stack : Believed(prs, i, known[i])'
    <3>1. \A i \in DOMAIN Stack : Believed(prs, i, known[i]) BY DEF SyncInv, KnowsInv
    <3> QED BY <3>1 DEF Believed, OpenIn, OwnIn
  <2> QED BY <2>1 DEF SyncInv, KnowsInv, Publishing
<1>3. CallInv' BY DEF CallInv, Calling, Publishing
<1>4. CauseInv' /\ SyncedWhenPushed'
  BY DEF CauseInv, SyncedWhenPushed, JustEnded, Calling, Publishing
<1> QED BY <1>1, <1>2, <1>3, <1>4 DEF SyncInv

LEMMA EndsAs ==
  ASSUME FaultInv, NEW o \in Outcomes, Finish(o)
  PROVE  /\ \A p : JustEnded(p)' <=> p = o
         /\ stage' = "idle" /\ outcomes' # << >> /\ Len(outcomes') = Command
<1>1. outcomes \in Seq(Outcomes) BY DEF FaultInv
<1>2. outcomes' = Append(outcomes, o) /\ stage' = "idle" BY DEF Finish
<1>3. Len(outcomes') = Len(outcomes) + 1 /\ outcomes'[Len(outcomes')] = o /\ outcomes' # << >>
  BY <1>1, <1>2
<1>4. Last(outcomes') = o BY <1>3 DEF Last
<1>5. Len(outcomes') = Command BY <1>3 DEF Command
<1>6. \A p : JustEnded(p)' <=> p = o BY <1>2, <1>3, <1>4, Zenon DEF JustEnded
<1> QED BY <1>2, <1>3, <1>5, <1>6

\* A command that ends as failed, with a cause; and one that ends otherwise.
LEMMA EndsWithCause ==
  ASSUME SyncInv, FaultInv, Finish("failed"), Cause', UNCHANGED <<prs, refs, limit, rivals>>,
         known' \in [DOMAIN Stack -> PullRequests \cup {None}]
  PROVE  SyncInv'
<1>1. "failed" \in Outcomes BY DEF Outcomes
<1>2. stage' = "idle" /\ ~JustEnded("pushed")' BY <1>1, EndsAs
<1>3. CauseInv' BY DEF CauseInv
<1>4. SyncedWhenPushed' BY <1>2 DEF SyncedWhenPushed
<1> QED BY <1>2, <1>3, <1>4, RunRests DEF Publishing

\* A step of a call.
LEMMA CallContinues ==
  ASSUME SyncInv, Calling, TestUnchanged, UNCHANGED <<refs, limit>>,
         prs' \in Seq(PullRequests), Numbered(prs'),
         status' # "failed" => cost = CallCosts /\ cost' = cost /\ call = CallOps
                               /\ CallAt(prs', cursor', results'),
         status' \in {"failed", "tooLarge"} => Cause'
  PROVE  SyncInv'
<1>1. /\ UNCHANGED <<length, stage, call, known, exitCode, outcomes, rivals, refs, limit>>
      /\ stage \in {"query", "create", "update"}
  BY DEF TestUnchanged, Calling
<1>2. ServerInv' BY <1>1 DEF SyncInv, ServerInv, Numbered
<1>3. KnowsInv' BY <1>1 DEF SyncInv, KnowsInv, Publishing
<1>4. CallInv'
  <2>1. ASSUME status' # "failed" PROVE InCall'
    <3>1. CallAt(prs, cursor, results)' /\ CallOps' = CallOps /\ CallCosts' = CallCosts
      BY <1>1, <2>1, CallStays
    <3>2. Calling' BY <1>1 DEF Calling
    <3> QED BY <1>1, <2>1, <3>1, <3>2 DEF InCall
  <2> QED BY <2>1 DEF CallInv
<1>5. PushedInv' BY <1>1 DEF SyncInv, PushedInv
<1>6. CauseInv' /\ SyncedWhenPushed' BY <1>1 DEF CauseInv, SyncedWhenPushed, JustEnded
<1> QED BY <1>2, <1>3, <1>4, <1>5, <1>6 DEF SyncInv

\* Every call that is under way has come as far as InCall says.
LEMMA UnderWay ==
  ASSUME ContextInv, SyncInv, Calling, status = "running"
  PROVE  /\ InCall /\ KnownInv /\ FaultInv /\ BatchInv /\ ServerInv /\ PushedInv
         /\ prs \in Seq(PullRequests) /\ Numbered(prs)
         /\ cost = CallCosts /\ call = CallOps /\ CallAt(prs, cursor, results)
BY KnownInvHolds DEF SyncInv, CallInv, InCall, ContextInv, ServerInv

LEMMA BackOffUnsentKeeps ==
  ASSUME ContextInv, SyncInv, BackOffUnsent
  PROVE  SyncInv'
<1>1. /\ Calling /\ Pending /\ ExceedsLimit /\ UNCHANGED results /\ TestUnchanged
      /\ UNCHANGED <<prs, refs, faults, limit>>
      /\ HalveBatch \/ ItemTooLarge
  BY DEF BackOffUnsent, mockVars
<1>2. status = "running" BY <1>1 DEF Pending
<1>3. /\ InCall /\ KnownInv /\ FaultInv /\ BatchInv
      /\ prs \in Seq(PullRequests) /\ Numbered(prs)
      /\ cost = CallCosts /\ call = CallOps /\ CallAt(prs, cursor, results)
  BY <1>1, <1>2, UnderWay
<1>4. cost' = cost /\ cursor' = cursor BY <1>1 DEF HalveBatch, ItemTooLarge
<1>5. prs' \in Seq(PullRequests) /\ Numbered(prs') /\ CallAt(prs', cursor', results')
  BY <1>1, <1>3, <1>4
<1>6. ASSUME status' \in {"failed", "tooLarge"} PROVE Cause'
  <2>1. ItemTooLarge BY <1>1, <1>2, <1>6 DEF HalveBatch
  <2> DEFINE k == cursor + 1
  <2>2. cursor \in Nat /\ End = cursor + 1 /\ k \in 1..Len(CallOps)
    BY <1>1, <1>3, <2>1, BatchFacts DEF ItemTooLarge
  <2>3. cost[k] \in Nat BY <1>1, <1>3, <2>2, CallOpsFacts
  <2>4. cost[k] > MaxQueryBytes BY <1>1, <2>2, <2>3, OneTooLong
  <2>5. \E i \in DOMAIN Stack : length[i] > MaxQueryBytes
    <3>1. CASE stage = "query"
      <4>1. cost[k] = 1 BY <1>1, <1>3, <2>2, <3>1, CallOpsFacts
      <4> QED BY <2>4, <4>1, BatchedAssumption
    <3>2. CASE stage = "create"
      <4>1. Missing[k] \in DOMAIN Stack /\ cost[k] = length[Missing[k]]
        BY <1>1, <1>3, <2>2, <3>2, CallOpsFacts
      <4> QED BY <2>4, <4>1
    <3>3. CASE stage = "update"
      <4>1. k \in DOMAIN Stack /\ cost[k] = length[k]
        BY <1>1, <1>3, <2>2, <3>3, CallOpsFacts
      <4> QED BY <2>4, <4>1
    <3> QED BY <1>1, <3>1, <3>2, <3>3 DEF Calling
  <2>6. Cause BY <2>5 DEF Cause
  <2> QED BY <1>1, <2>6, CauseStays DEF TestUnchanged
<1> QED BY <1>1, <1>3, <1>4, <1>5, <1>6, CallContinues

LEMMA RequestKeeps ==
  ASSUME ContextInv, SyncInv, Request
  PROVE  SyncInv'
<1> DEFINE reply == Reply(Batch)
<1>1. /\ Calling /\ Pending /\ ~ExceedsLimit /\ Graphql(reply) /\ TestUnchanged
      /\ BackOffRefused(reply) \/ Accepted(reply) \/ Failed(reply)
  BY DEF Request
<1>2. status = "running" BY <1>1 DEF Pending
<1>3. /\ InCall /\ KnownInv /\ FaultInv /\ BatchInv /\ ServerInv /\ PushedInv
      /\ prs \in Seq(PullRequests) /\ Numbered(prs)
      /\ cost = CallCosts /\ call = CallOps /\ CallAt(prs, cursor, results)
  BY <1>1, <1>2, UnderWay
<1> HIDE DEF reply
<1>4. prs' = reply.prs /\ faults' = reply.faults /\ UNCHANGED <<refs, limit>>
  BY <1>1 DEF Graphql
<1>5. faults \in Seq(STRING) BY <1>3 DEF FaultInv
<1>6. prs' \in Seq(PullRequests) /\ Numbered(prs')
  <2>1. Len(Batch) \in Nat /\ \A k \in 1..Len(Batch) : WellFormed(Batch[k])
    BY <1>1, <1>3, BatchFacts, WellFormedOps
  <2>2. LET qs == After(Batch)[Len(Batch)].prs IN qs \in Seq(PullRequests) /\ Numbered(qs)
    BY <1>3, <2>1, ServedFacts
  <2>3. reply.prs = prs \/ reply.prs = After(Batch)[Len(Batch)].prs
    BY <1>5, ReplyFacts DEF reply
  <2> QED BY <1>3, <1>4, <2>2, <2>3
<1>7. CASE BackOffRefused(reply)
  <2>1. reply.errors = "limit" /\ (HalveBatch \/ ItemTooLarge) /\ UNCHANGED results
    BY <1>7 DEF BackOffRefused
  <2>2. Len(Batch) > limit /\ limit >= 1 /\ limit \in Nat
    BY <1>3, <1>5, <2>1, ReplyFacts DEF reply, ServerInv
  <2>3. ~ItemTooLarge
    <3>1. Len(Batch) = End - cursor BY <1>1, <1>3, BatchFacts
    <3> QED BY <2>2, <3>1 DEF ItemTooLarge
  <2>4. cost' = cost /\ cursor' = cursor /\ status' = "running"
    BY <1>2, <2>1, <2>3 DEF HalveBatch
  <2>5. reply.prs = prs
    <3>1. OverLimit(Batch) BY <2>2 DEF OverLimit
    <3>2. reply = Denied("limit", faults) BY <3>1 DEF reply, Reply
    <3> QED BY <3>2 DEF Denied
  <2>6. CallAt(prs', cursor', results') BY <1>3, <1>4, <2>1, <2>4, <2>5
  <2> QED BY <1>1, <1>3, <1>4, <1>6, <2>4, <2>6, CallContinues
<1>8. CASE Accepted(reply)
  <2>1. Succeeds(reply) /\ AcceptBatch /\ results' = results \o reply.data
    BY <1>8 DEF Accepted
  <2>2. cost' = cost /\ cursor' = End /\ status' = "running" BY <1>2, <2>1 DEF AcceptBatch
  <2>3. CallAt(reply.prs, End, results \o reply.data)
    BY <1>1, <1>3, <2>1, AcceptedFacts DEF reply
  <2>4. CallAt(prs', cursor', results') BY <1>4, <2>1, <2>2, <2>3
  <2> QED BY <1>1, <1>3, <1>4, <1>6, <2>2, <2>4, CallContinues
<1>9. CASE Failed(reply)
  <2>1. reply.errors # "limit" /\ ~Succeeds(reply) /\ status' = "failed"
    BY <1>9 DEF Failed, FailWith
  <2>2. Cause'
    <3>1. UNCHANGED <<before, exitCode, rivals, length>> BY <1>1 DEF TestUnchanged
    <3>2. CASE rivals > 0 BY <3>1, <3>2 DEF Cause
    <3>3. CASE rivals = 0
      <4>1. \/ Len(reply.faults) < before
            \/ reply.prs = prs /\ \E i \in DOMAIN Stack : Undecided(prs, i)
        BY <1>1, <1>3, <2>1, <3>3, FailedFacts DEF reply
      <4>2. CASE Len(reply.faults) < before BY <1>4, <3>1, <4>2 DEF Cause
      <4>3. CASE reply.prs = prs /\ \E i \in DOMAIN Stack : Undecided(prs, i)
        <5>1. \E i \in DOMAIN Stack : Undecided(prs', i) BY <1>4, <4>3
        <5> QED BY <5>1 DEF Cause, Undecided, OpenIn, OwnIn, OwnOpen, OwnPrs
      <4> QED BY <4>1, <4>2, <4>3
    <3>4. rivals \in Nat BY <1>3 DEF ServerInv
    <3> QED BY <3>2, <3>3, <3>4
  <2> QED BY <1>1, <1>4, <1>6, <2>1, <2>2, CallContinues
<1> QED BY <1>1, <1>7, <1>8, <1>9

LEMMA CallReturnsKeeps ==
  ASSUME ContextInv, SyncInv, CallReturns
  PROVE  SyncInv'
<1>1. /\ Calling /\ AllAccepted /\ UNCHANGED results /\ TestUnchanged
      /\ UNCHANGED <<prs, refs, limit>>
  BY DEF CallReturns, mockVars
<1>2. /\ status = "running" /\ status' = "done" /\ cost' = cost /\ cursor' = cursor
  BY <1>1 DEF AllAccepted
<1>3. /\ prs \in Seq(PullRequests) /\ Numbered(prs)
      /\ cost = CallCosts /\ call = CallOps /\ CallAt(prs, cursor, results)
  BY <1>1, <1>2, UnderWay
<1>4. prs' \in Seq(PullRequests) /\ Numbered(prs') /\ CallAt(prs', cursor', results')
  BY <1>1, <1>2, <1>3
<1> QED BY <1>1, <1>2, <1>3, <1>4, CallContinues

LEMMA CallFailsKeeps ==
  ASSUME ContextInv, SyncInv, CallFails
  PROVE  SyncInv'
<1>1. /\ Calling /\ status \in {"failed", "tooLarge"} /\ Finish("failed")
      /\ UNCHANGED <<prs, refs, faults, limit, length, known, exitCode, before, rivals>>
  BY DEF CallFails, mockVars
<1>2. Cause BY <1>1 DEF SyncInv, CauseInv
<1>3. Cause' BY <1>1, <1>2, CauseStays
<1>4. known' \in [DOMAIN Stack -> PullRequests \cup {None}]
  BY <1>1 DEF SyncInv, KnowsInv
<1> QED BY <1>1, <1>3, <1>4, EndsWithCause DEF ContextInv

\* A call that is done has come to its end.
LEMMA CallDone ==
  ASSUME ContextInv, SyncInv, Calling, status = "done"
  PROVE  /\ KnownInv /\ CallAt(prs, cursor, results) /\ prs \in Seq(PullRequests)
         /\ cursor = IF stage = "create" THEN Place(Len(Stack)) ELSE Len(Stack)
<1>1. KnownInv BY KnownInvHolds DEF SyncInv
<1>2. InCall BY DEF SyncInv, CallInv
<1>3. cursor = ItemCount BY DEF ContextInv, BatchInv, OutputsMatch
<1>4. ItemCount = Len(CallOps) BY <1>1, <1>2, CallOpsFacts DEF InCall, ItemCount
<1>5. Len(CallOps) = IF stage = "create" THEN Place(Len(Stack)) ELSE Len(Stack)
  BY <1>1, CallOpsFacts
<1> QED BY <1>1, <1>2, <1>3, <1>4, <1>5 DEF InCall, SyncInv, ServerInv

LEMMA FoundKeeps ==
  ASSUME ContextInv, SyncInv, Found
  PROVE  SyncInv'
<1>1. /\ stage = "query" /\ status = "done"
      /\ known' = [i \in DOMAIN known |-> Selected(results[i])]
      /\ UNCHANGED <<prs, refs, faults, limit, length, exitCode, before, rivals>>
  BY DEF Found, mockVars
<1>2. /\ KnownInv /\ CallAt(prs, Len(Stack), results) /\ prs \in Seq(PullRequests)
  BY <1>1, CallDone DEF Calling
<1>3. DOMAIN known = DOMAIN Stack /\ DOMAIN Stack = 1..Len(Stack)
  BY <1>2, StackFacts DEF KnownInv, RunInv
<1>4. \A i \in DOMAIN Stack : Believed(prs, i, known'[i]) BY <1>1, <1>2, <1>3 DEF CallAt
<1>5. known' \in [DOMAIN Stack -> PullRequests \cup {None}]
  <2>1. ASSUME NEW i \in DOMAIN Stack PROVE known'[i] \in PullRequests \cup {None}
    <3>1. known'[i] # None => known'[i] \in OwnIn(prs, i) BY <1>4 DEF Believed
    <3> QED BY <1>2, <3>1, FinitelyMany DEF OwnIn
  <2>2. known' = [i \in DOMAIN Stack |-> known'[i]] BY <1>1, <1>3
  <2> QED BY <2>1, <2>2
<1>6. CASE \A i \in DOMAIN known : known'[i] # None => known'[i].state = "OPEN"
  <2>1. stage' = "lsRemote" BY <1>6 DEF Found
  <2>2. ServerInv' BY <1>1 DEF SyncInv, ServerInv
  <2>3. KnowsInv'
    <3>1. \A i \in DOMAIN Stack : Believed(prs, i, known[i])'
      BY <1>1, <1>4 DEF Believed, OpenIn, OwnIn
    <3> QED BY <1>3, <1>5, <1>6, <2>1, <3>1 DEF KnowsInv
  <2>4. CallInv' /\ CauseInv' BY <2>1 DEF CallInv, CauseInv, Calling, JustEnded
  <2>5. PushedInv' /\ SyncedWhenPushed' BY <2>1 DEF PushedInv, SyncedWhenPushed, JustEnded
  <2> QED BY <2>2, <2>3, <2>4, <2>5 DEF SyncInv
<1>7. CASE ~ \A i \in DOMAIN known : known'[i] # None => known'[i].state = "OPEN"
  <2>1. PICK i \in DOMAIN Stack : known'[i] # None /\ known'[i].state # "OPEN" BY <1>3, <1>7
  <2>2. Finish("failed") BY <1>7 DEF Found
  <2>3. known'[i] \in OwnIn(prs, i) /\ (rivals = 0 => OpenIn(prs, i) = {})
    BY <1>4, <2>1 DEF Believed
  <2>4. Cause
    <3>1. CASE rivals > 0 BY <3>1 DEF Cause
    <3>2. CASE rivals = 0
      <4>1. Cardinality(OpenIn(prs, i)) = 0 BY <2>3, <3>2, FS_EmptySet
      <4>2. OwnIn(prs, i) # {} BY <2>3
      <4>3. Undecided(prs, i) BY <4>1, <4>2 DEF Undecided
      <4> QED BY <4>3, CausesOf
    <3>3. rivals \in Nat BY DEF SyncInv, ServerInv
    <3> QED BY <3>1, <3>2, <3>3
  <2>5. Cause' BY <1>1, <2>4, CauseStays
  <2> QED BY <1>1, <1>5, <2>2, <2>5, EndsWithCause DEF ContextInv
<1> QED BY <1>6, <1>7

\* The git commands of the push.
LEMMA PublishingKeeps ==
  ASSUME ContextInv, SyncInv, LsRemote \/ GitPush \/ Report
  PROVE  SyncInv'
<1>1. CASE LsRemote
  <2>1. /\ stage = "lsRemote" /\ stage' = "push"
        /\ UNCHANGED <<prs, refs, limit, rivals, known>>
    BY <1>1 DEF LsRemote, mockVars
  <2>2. PushedInv' BY <2>1 DEF PushedInv
  <2> QED BY <2>1, <2>2, RunPublishes DEF Publishing
<1>2. CASE GitPush
  <2>1. /\ stage = "push" /\ stage' = "report" /\ UNCHANGED <<prs, limit, rivals, known>>
        /\ refs \subseteq refs' /\ (exitCode' = 0 => Range(Stack) \subseteq refs')
    BY <1>2 DEF GitPush
  <2>2. PushedInv' BY <2>1 DEF PushedInv
  <2> QED BY <2>1, <2>2, RunPublishes DEF Publishing
<1>3. CASE Report
  <2>1. /\ stage = "report" /\ UNCHANGED <<prs, refs, faults, limit, rivals, known, exitCode>>
    BY <1>3 DEF Report, CompleteGit
  <2>2. CASE exitCode = 0
    <3>1. stage' = "pushed" BY <1>3, <2>2 DEF Report
    <3>2. PushedInv' BY <2>1, <2>2, <3>1 DEF SyncInv, PushedInv
    <3> QED BY <2>1, <3>1, <3>2, RunPublishes DEF Publishing
  <2>3. CASE exitCode # 0
    <3>1. exitCode = 1 BY <2>1, <2>3 DEF ContextInv, RecordInv
    <3>2. Finish("failed") BY <1>3, <2>3 DEF Report
    <3>3. Cause' BY <2>1, <3>1 DEF Cause
    <3>4. known' \in [DOMAIN Stack -> PullRequests \cup {None}]
      BY <2>1 DEF SyncInv, KnowsInv
    <3> QED BY <2>1, <3>2, <3>3, <3>4, EndsWithCause DEF ContextInv
  <2> QED BY <2>2, <2>3
<1> QED BY <1>1, <1>2, <1>3

\* A call begins: what the run knows has not been used yet.
LEMMA CallBegins ==
  ASSUME SyncInv, UNCHANGED <<refs, limit, rivals>>, prs' = prs,
         stage' \in {"query", "create", "update"},
         call' = CallOps', cost' = CallCosts', cursor' = 0, results' = << >>,
         status' = "running", KnowsInv', PushedInv',
         stage' = "create" => \A i \in DOMAIN Stack : Believed(prs, i, Filled(i, 0, << >>))',
         stage' = "update" => \A i \in DOMAIN Stack : Believed(prs, i, known[i])'
  PROVE  SyncInv'
<1>1. ServerInv' BY DEF SyncInv, ServerInv, Numbered
<1>2. CallAt(prs, cursor, results)'
  <2>1. << >> \in Seq(Range(<< >>)) /\ Len(<< >>) = 0 OBVIOUS
  <2>2. prs' \in Seq(PullRequests) /\ Numbered(prs') BY <1>1 DEF ServerInv
  <2>3. stage' = "update" => \A i \in DOMAIN Stack : Believed(prs, i, Revised(i, 0))'
    <3>1. \A i \in DOMAIN Stack : Revised(i, 0)' = known'[i] BY StackFacts DEF Revised
    <3> QED BY <3>1 DEF Believed, OpenIn, OwnIn
  <2>4. stage' = "create" =>
          \A i \in DOMAIN Stack : Believed(prs, i, Filled(i, cursor, results))'
    BY DEF Filled, Believed, OpenIn, OwnIn, Place
  <2>5. stage' = "update" => \A i \in DOMAIN Stack : Believed(prs, i, Revised(i, cursor))'
    BY <2>3 DEF Revised, Believed, OpenIn, OwnIn, Command
  <2> QED BY <2>1, <2>2, <2>4, <2>5 DEF CallAt
<1>3. CallInv' BY <1>2 DEF CallInv, InCall, Calling
<1>4. CauseInv' /\ SyncedWhenPushed' BY DEF CauseInv, SyncedWhenPushed, JustEnded
<1> QED BY <1>1, <1>3, <1>4 DEF SyncInv

LEMMA StartPushKeeps ==
  ASSUME ContextInv, SyncInv, StartPush
  PROVE  SyncInv'
<1>1. /\ stage' = "query" /\ UNCHANGED <<prs, refs, limit, rivals>>
      /\ known' = [i \in DOMAIN known |-> None]
      /\ call' = [i \in DOMAIN Stack |-> FindOp(Stack[i])]
      /\ cost' = [i \in DOMAIN Stack |-> 1]
      /\ cursor' = 0 /\ results' = << >> /\ status' = "running"
  BY DEF StartPush, NextCall, mockVars
<1>2. call' = CallOps' /\ cost' = CallCosts' BY <1>1 DEF CallOps, CallCosts
<1>3. KnowsInv'
  <2>1. known' \in [DOMAIN Stack -> PullRequests \cup {None}]
    BY <1>1 DEF SyncInv, KnowsInv
  <2> QED BY <1>1, <2>1 DEF KnowsInv, Publishing
<1>4. PushedInv' BY <1>1 DEF PushedInv
<1> QED BY <1>1, <1>2, <1>3, <1>4, CallBegins

\* The commits that are missing, when there are none and when the run creates them.
LEMMA PlaceBounds ==
  ASSUME RunInv, NEW i \in DOMAIN Stack, known[i] = None
  PROVE  Place(i) \in 1..Place(Len(Stack)) /\ Place(Len(Stack)) \in Nat
<1> DEFINE none(m) == {j \in 1..m : known[j] = None}
           N == Len(Stack)
<1>1. N \in Nat /\ i \in 1..N BY StackFacts
<1>2. Place(i) = Place(i - 1) + 1 /\ Place(i - 1) \in Nat /\ Place(i) \in Nat
  BY <1>1, PlaceFacts
<1>3. Place(N) \in Nat
  <2>1. Place(N) \in 0..N BY MissingFacts
  <2> QED BY <1>1, <2>1
<1>4. none(i) \subseteq none(N) /\ IsFiniteSet(none(N))
  <2>1. 1..i \subseteq 1..N /\ none(N) \subseteq 1..N BY <1>1
  <2>2. IsFiniteSet(1..N) BY <1>1, FS_Interval
  <2> QED BY <2>1, <2>2, FS_Subset
<1> HIDE DEF none
<1>5. Cardinality(none(i)) <= Cardinality(none(N)) BY <1>4, FS_Subset
<1>6. Place(i) <= Place(N) BY <1>5 DEF none, Place
<1> QED BY <1>2, <1>3, <1>6

LEMMA SyncPrsKeeps ==
  ASSUME ContextInv, SyncInv, SyncPrs
  PROVE  SyncInv'
<1> DEFINE ops == <<FindOp(Main)>>
           reply == Reply(ops)
<1>1. /\ stage = "pushed" /\ Graphql(reply)
      /\ UNCHANGED <<length, known, exitCode, before, rivals>>
  BY DEF SyncPrs
<1>2. faults \in Seq(STRING) /\ limit \in Nat \ {0} /\ Len(faults) <= before /\ before \in Nat
  BY DEF ContextInv, FaultInv, SyncInv, ServerInv
<1>3. Len(ops) = 1 /\ ops[1] = FindOp(Main) OBVIOUS
<1> HIDE DEF ops
<1>4. After(ops)[1].prs = prs /\ ~After(ops)[1].errors
  <2>1. After(ops)[0] = Unhandled BY <1>3, AfterSteps
  <2>2. FineAt(ops, 0) /\ After(ops)[0].prs = prs BY <2>1 DEF FineAt, Unhandled
  <2>3. ops[1].kind = "query" BY <1>3 DEF FindOp
  <2>4. ~Refuses(prs, ops[1]) /\ Applied(prs, ops[1]) = prs BY <2>3 DEF Refuses, Applied
  <2>5. 1 \in 1..Len(ops) /\ 1 - 1 = 0 BY <1>3
  <2>6. FineAt(ops, 1) /\ After(ops)[1].prs = prs
    BY <1>3, <2>2, <2>4, <2>5, OperationFacts
  <2> QED BY <2>6 DEF FineAt
<1>5. /\ reply.errors # "none" => faults # << >> /\ reply.faults = Tail(faults)
      /\ reply.prs = prs
  <2>1. After(ops)[Len(ops)].prs = prs /\ ~After(ops)[Len(ops)].errors BY <1>3, <1>4
  <2>2. ~ (Len(ops) > limit) BY <1>2, <1>3
  <2>3. reply.errors \in {"none", "other"} BY <1>2, <2>2, ReplyFacts
  <2>4. reply.prs = prs BY <1>2, <2>1, <2>3, ReplyFacts
  <2>5. reply.errors = "other" => faults # << >> /\ reply.faults = Tail(faults)
    BY <1>2, <2>1, ReplyFacts
  <2> QED BY <2>3, <2>4, <2>5
<1>6. known' \in [DOMAIN Stack -> PullRequests \cup {None}] BY <1>1 DEF SyncInv, KnowsInv
<1> HIDE DEF reply
<1>7. prs' = prs /\ faults' = reply.faults /\ UNCHANGED <<refs, limit>>
  BY <1>1, <1>5 DEF Graphql
<1>8. CASE reply.errors = "none"
  <2>1. /\ stage' = "create"
        /\ call' = [k \in DOMAIN Missing |->
                     CreateOp(Stack[Missing[k]], Base(Missing[k]), <<Missing[k], 0>>)]
        /\ cost' = [k \in DOMAIN Missing |-> length[Missing[k]]]
        /\ cursor' = 0 /\ results' = << >> /\ status' = "running"
    BY <1>8 DEF SyncPrs, NextCall, reply, ops
  <2>2. Missing' = Missing BY <1>1 DEF Missing, Place
  <2>3. call' = CallOps' /\ cost' = CallCosts'
    BY <1>1, <2>1, <2>2 DEF CallOps, CallCosts, Creation
  <2>4. KnowsInv' BY <1>1, <1>6, <2>1 DEF SyncInv, KnowsInv, Publishing
  <2>5. PushedInv' BY <1>1, <1>7, <2>1 DEF SyncInv, PushedInv
  <2>6. \A i \in DOMAIN Stack : Believed(prs, i, Filled(i, 0, << >>))'
    <3>1. ASSUME NEW i \in DOMAIN Stack PROVE Filled(i, 0, << >>)' = known[i]
      <4>1. Place(i)' = Place(i) BY <1>1 DEF Place
      <4>2. known[i] = None => ~ (Place(i) <= 0) BY PlaceBounds DEF ContextInv
      <4> QED BY <1>1, <4>1, <4>2 DEF Filled
    <3>2. \A i \in DOMAIN Stack : Believed(prs, i, known[i])
      BY <1>1 DEF SyncInv, KnowsInv, Publishing
    <3> QED BY <1>1, <1>7, <3>1, <3>2 DEF Believed, OpenIn, OwnIn
  <2> QED BY <1>1, <1>7, <2>1, <2>3, <2>4, <2>5, <2>6, CallBegins
<1>9. CASE reply.errors # "none"
  <2>1. Finish("failed") BY <1>9 DEF SyncPrs, reply, ops
  <2>2. Len(faults') < before'
    <3>1. faults # << >> /\ reply.faults = Tail(faults) BY <1>5, <1>9
    <3>2. Len(Tail(faults)) = Len(faults) - 1 /\ Len(faults) \in Nat
      BY <1>2, <3>1, TailFaults
    <3> QED BY <1>1, <1>2, <1>7, <3>1, <3>2
  <2>3. Cause' BY <2>2 DEF Cause
  <2> QED BY <1>1, <1>6, <1>7, <2>1, <2>3, EndsWithCause DEF ContextInv
<1> QED BY <1>8, <1>9

LEMMA AllKnownKeeps ==
  ASSUME ContextInv, SyncInv, AllKnown
  PROVE  SyncInv'
<1>1. /\ stage = "pushed" /\ Missing = << >> /\ stage' = "update" /\ known' = known
      /\ UNCHANGED <<prs, refs, limit, length, outcomes, rivals>>
      /\ call' = [i \in DOMAIN Stack |->
                   UpdateOp(known[i].number, IF known[i].base = Base(i) THEN None ELSE Base(i),
                            <<i, Command>>)]
      /\ cost' = length /\ cursor' = 0 /\ results' = << >> /\ status' = "running"
  BY DEF AllKnown, PlanUpdates, NextCall, mockVars
<1>2. call' = CallOps' /\ cost' = CallCosts'
  BY <1>1 DEF CallOps, CallCosts, Revision, Command
<1>3. \A i \in DOMAIN Stack : known[i] # None
  <2> SUFFICES ASSUME NEW i \in DOMAIN Stack, known[i] = None PROVE FALSE OBVIOUS
  <2>1. DOMAIN Missing = 1..Place(Len(Stack)) BY DEF Missing
  <2>2. Place(i) \in DOMAIN Missing BY <2>1, PlaceBounds DEF ContextInv
  <2>3. DOMAIN Missing = {} BY <1>1
  <2> QED BY <2>2, <2>3
<1>4. KnowsInv' BY <1>1, <1>3 DEF SyncInv, KnowsInv, Publishing
<1>5. PushedInv' BY <1>1 DEF SyncInv, PushedInv
<1>6. \A i \in DOMAIN Stack : Believed(prs, i, known[i])'
  <2>1. \A i \in DOMAIN Stack : Believed(prs, i, known[i])
    BY <1>1 DEF SyncInv, KnowsInv, Publishing
  <2> QED BY <1>1, <2>1 DEF Believed, OpenIn, OwnIn
<1> QED BY <1>1, <1>2, <1>4, <1>5, <1>6, CallBegins

LEMMA CreatesDoneKeeps ==
  ASSUME ContextInv, SyncInv, CreatesDone
  PROVE  SyncInv'
<1> DEFINE P == Place(Len(Stack))
<1>1. /\ stage = "create" /\ status = "done" /\ stage' = "update" /\ known' = CreatesReturned
      /\ UNCHANGED <<prs, refs, limit, length, outcomes, rivals>>
      /\ call' = [i \in DOMAIN Stack |->
                   UpdateOp(known'[i].number,
                            IF known'[i].base = Base(i) THEN None ELSE Base(i), <<i, Command>>)]
      /\ cost' = length /\ cursor' = 0 /\ results' = << >> /\ status' = "running"
  BY DEF CreatesDone, PlanUpdates, NextCall, mockVars
<1>2. KnownInv /\ CallAt(prs, P, results) /\ prs \in Seq(PullRequests)
  BY <1>1, CallDone DEF Calling
<1>3. call' = CallOps' /\ cost' = CallCosts'
  BY <1>1 DEF CallOps, CallCosts, Revision, Command
<1>4. ASSUME NEW i \in DOMAIN Stack
      PROVE  /\ known'[i] = Filled(i, P, results)
             /\ known'[i] \in PullRequests /\ known'[i].state = "OPEN"
  <2>1. known'[i] = IF known[i] # None THEN known[i]
                    ELSE PrEntry(results[Place(i)], Stack[i], Base(i), <<i, 0>>)
    BY <1>1, <1>2 DEF CreatesReturned, KnownInv, RunInv
  <2>2. CASE known[i] # None
    <3>1. known[i] \in PullRequests \cup {None} /\ known[i].state = "OPEN"
      BY <1>1, <1>2, <2>2 DEF KnownInv
    <3> QED BY <2>1, <2>2, <3>1 DEF Filled
  <2>3. CASE known[i] = None
    <3>1. Place(i) \in 1..P /\ P \in Nat BY <1>2, <2>3, PlaceBounds DEF KnownInv
    <3>2. results[Place(i)] \in Nat BY <1>1, <1>2, <3>1 DEF CallAt
    <3> DEFINE new == PrEntry(results[Place(i)], Stack[i], Base(i), <<i, 0>>)
    <3>3. new \in PullRequests /\ new.state = "OPEN"
      <4>1. Stack[i] \in Branches /\ Base(i) \in Branches /\ i \in Nat BY StackFacts
      <4> QED BY <3>2, <4>1 DEF PrEntry, PullRequests, States
    <3>4. Place(i) <= P BY <3>1
    <3> HIDE DEF P
    <3> QED BY <2>1, <2>3, <3>3, <3>4 DEF Filled
  <2> QED BY <2>2, <2>3
<1>5. known' \in [DOMAIN Stack -> PullRequests \cup {None}]
  <2>1. known' = [i \in DOMAIN Stack |-> known'[i]]
    BY <1>1, <1>2, StackFacts DEF CreatesReturned, KnownInv, RunInv
  <2> QED BY <1>4, <2>1
<1>6. \A i \in DOMAIN Stack : known'[i] # None BY <1>4, PullRequestFacts
<1>7. KnowsInv' BY <1>1, <1>4, <1>5, <1>6 DEF KnowsInv, Publishing
<1>8. PushedInv' BY <1>1 DEF SyncInv, PushedInv
<1>9. \A i \in DOMAIN Stack : Believed(prs, i, known[i])'
  <2>1. \A i \in DOMAIN Stack : Believed(prs, i, known'[i]) BY <1>1, <1>2, <1>4 DEF CallAt
  <2> QED BY <1>1, <2>1 DEF Believed, OpenIn, OwnIn
<1> QED BY <1>1, <1>3, <1>7, <1>8, <1>9, CallBegins

LEMMA UpdatesDoneKeeps ==
  ASSUME ContextInv, SyncInv, UpdatesDone
  PROVE  SyncInv'
<1>1. /\ stage = "update" /\ status = "done" /\ Finish("pushed")
      /\ UNCHANGED <<prs, refs, limit, rivals, known>>
  BY DEF UpdatesDone, mockVars
<1>2. KnownInv /\ CallAt(prs, Len(Stack), results) /\ prs \in Seq(PullRequests)
  BY <1>1, CallDone DEF Calling
<1>3. /\ stage' = "idle" /\ Len(outcomes') = Command
      /\ \A p : JustEnded(p)' <=> p = "pushed"
  <2>1. "pushed" \in Outcomes BY DEF Outcomes
  <2> QED BY <1>1, <2>1, EndsAs DEF ContextInv
<1>4. CauseInv' BY <1>3 DEF CauseInv, Calling
<1>5. ASSUME NEW i \in DOMAIN Stack
      PROVE  /\ Cardinality(OwnOpen(i)) = 1
             /\ \A pr \in OwnOpen(i) : pr.base = Base(i) /\ pr.text = <<i, Command>>
  <2> DEFINE new == [known[i] EXCEPT !.text = <<i, Command>>, !.base = Base(i)]
  <2>1. Revised(i, Len(Stack)) = new BY StackFacts DEF Revised
  <2>2. known[i] \in PullRequests /\ known[i].state = "OPEN"
    <3>1. known[i] \in PullRequests \cup {None} /\ known[i] # None BY <1>1, <1>2 DEF KnownInv
    <3> QED BY <1>1, <1>2, <3>1 DEF KnownInv
  <2>3. /\ new \in PullRequests /\ new.state = "OPEN" /\ new.base = Base(i)
        /\ new.text = <<i, Command>>
    <3>1. Base(i) \in Branches /\ <<i, Command>> \in Nat \X Nat
      <4>1. Base(i) \in Branches /\ i \in Nat /\ Command \in Nat
        BY <1>2, StackFacts DEF KnownInv
      <4> QED BY <4>1
    <3> QED BY <2>2, <3>1 DEF PullRequests
  <2>4. Believed(prs, i, new) BY <1>1, <1>2, <2>1 DEF CallAt
  <2> HIDE DEF new
  <2>5. OpenIn(prs, i) = {new} BY <2>3, <2>4, PullRequestFacts DEF Believed
  <2>6. OwnOpen(i) = {new} BY <2>5 DEF OwnOpen, OwnPrs, OpenIn, OwnIn
  <2>7. Cardinality({new}) = 1 BY FS_Singleton
  <2> QED BY <2>3, <2>6, <2>7
<1>6. SyncedWhenPushed'
  <2>1. \A i \in DOMAIN Stack : OwnOpen(i)' = OwnOpen(i) BY <1>1 DEF OwnOpen, OwnPrs
  <2> HIDE DEF OwnOpen
  <2>2. \A i \in DOMAIN Stack :
          /\ Cardinality(OwnOpen(i)') = 1
          /\ \A pr \in OwnOpen(i)' : pr.base = Base(i) /\ pr.text = <<i, Len(outcomes')>>
    BY <1>3, <1>5, <2>1
  <2> QED BY <2>2 DEF SyncedWhenPushed
<1>7. known' \in [DOMAIN Stack -> PullRequests \cup {None}] BY <1>1 DEF SyncInv, KnowsInv
<1> QED BY <1>1, <1>3, <1>4, <1>6, <1>7, RunRests DEF Publishing

\* The hook, and the steps of the test.
LEMMA OthersKeep ==
  ASSUME ContextInv, SyncInv,
         StartHook \/ HookGit \/ GitFails \/ TimeOut \/ TearDown
  PROVE  SyncInv'
<1>1. /\ UNCHANGED <<prs, refs, limit, rivals, known, exitCode, before, length>>
          \/ StartHook \/ GitFails
      /\ UNCHANGED <<prs, refs, limit, rivals, known>>
      /\ known' \in [DOMAIN Stack -> PullRequests \cup {None}]
  BY DEF StartHook, HookGit, GitFails, GitFault, TimeOut, TearDown, mockVars, SyncInv, KnowsInv
<1>2. CASE GitFails
  <2>1. Finish("failed") /\ faults # << >> /\ faults' = Tail(faults) /\ before' = before
    BY <1>2 DEF GitFails, GitFault, GitFaulted
  <2>2. faults \in Seq(STRING) /\ Len(faults) <= before /\ before \in Nat
    BY DEF ContextInv, FaultInv
  <2>3. Len(faults') = Len(faults) - 1 /\ Len(faults) \in Nat BY <2>1, <2>2, TailFaults
  <2>4. Len(faults') < before' BY <2>1, <2>2, <2>3
  <2>5. Cause' BY <2>4 DEF Cause
  <2> QED BY <1>1, <2>1, <2>5, EndsWithCause DEF ContextInv
<1>3. CASE StartHook \/ TimeOut \/ TearDown \/ (HookGit /\ stage' \in {"parse", "insert"})
  <2>1. stage' \in {"var", "killed", "torn", "parse", "insert"}
    BY <1>3 DEF StartHook, TimeOut, TearDown
  <2>2. CauseInv' /\ SyncedWhenPushed' BY <2>1 DEF CauseInv, SyncedWhenPushed, JustEnded, Calling
  <2> QED BY <1>1, <2>1, <2>2, RunRests DEF Publishing
<1>4. CASE HookGit /\ stage' \notin {"parse", "insert"}
  <2>1. Finish("ok") BY <1>4 DEF HookGit
  <2>2. "ok" \in Outcomes BY DEF Outcomes
  <2>3. stage' = "idle" /\ \A p : JustEnded(p)' <=> p = "ok"
    BY <2>1, <2>2, EndsAs DEF ContextInv
  <2>4. CauseInv' /\ SyncedWhenPushed' BY <2>3 DEF CauseInv, SyncedWhenPushed, Calling
  <2> QED BY <1>1, <2>3, <2>4, RunRests DEF Publishing
<1> QED BY <1>2, <1>3, <1>4

\* The other client's pull request is the first open one of its commit, and of what a
\* run believes it contradicts nothing that it may rely on.
LEMMA RivalKeeps ==
  ASSUME ContextInv, SyncInv, Rival
  PROVE  SyncInv'
<1>1. /\ UNCHANGED <<refs, limit, faults, length, stage, known, exitCode, before, outcomes>>
      /\ UNCHANGED <<batchVars, call, results>> /\ rivals' = rivals + 1 /\ Running
  BY DEF Rival, NoCall
<1>2. PICK i \in DOMAIN Stack :
        LET op == CreateOp(Stack[i], Main, <<0, 0>>)
        IN  ~Refuses(prs, op) /\ prs' = Created(prs, op)
  BY DEF Rival
<1> DEFINE op == CreateOp(Stack[i], Main, <<0, 0>>)
           new == PrEntry(NextNumber(prs), Stack[i], Main, <<0, 0>>)
<1>3. /\ op.kind = "create" /\ op.head = Stack[i] /\ op.base = Main /\ op.text = <<0, 0>>
  BY DEF CreateOp
<1>4. prs \in Seq(PullRequests) /\ Numbered(prs) /\ rivals \in Nat BY DEF SyncInv, ServerInv
<1>5. ~RefusesCreate(prs, op) /\ prs' = Created(prs, op) BY <1>2, <1>3 DEF Refuses
<1> HIDE DEF op
<1>6. /\ prs' \in Seq(PullRequests) /\ Numbered(prs') /\ Range(prs') = Range(prs) \cup {new}
  <2>1. op.head \in Branches /\ op.base \in Branches /\ op.text \in Nat \X Nat
    BY <1>3, StackFacts, MockAssumption
  <2> QED BY <1>3, <1>4, <1>5, <2>1, CreatedFacts
<1>7. OpenIn(prs, i) = {}
  <2>1. \A pr \in Range(prs) : ~ (SameRepo(pr, Stack[i]) /\ pr.state = "OPEN")
    BY <1>3, <1>5 DEF RefusesCreate
  <2> QED BY <2>1 DEF OpenIn, OwnIn
<1>8. new.head = Stack[i] BY DEF PrEntry
<1> HIDE DEF new
<1>9. rivals' \in Nat /\ rivals' > 0 /\ rivals' # 0 BY <1>1, <1>4
<1>10. ASSUME NEW j \in DOMAIN Stack, NEW pr, Believed(prs, j, pr)
       PROVE  Believed(prs, j, pr)'
  <2>1. CASE pr = None BY <1>9, <2>1 DEF Believed
  <2>2. CASE pr # None /\ pr.state # "OPEN"
    <3>1. pr \in OwnIn(prs, j) BY <1>10, <2>2 DEF Believed
    <3>2. pr \in OwnIn(prs', j) BY <1>6, <3>1 DEF OwnIn
    <3>3. pr \in OwnIn(prs, j)' BY <3>2 DEF OwnIn
    <3> QED BY <1>9, <2>2, <3>3 DEF Believed
  <2>3. CASE pr # None /\ pr.state = "OPEN"
    <3>1. pr \in OwnIn(prs, j) /\ OpenIn(prs, j) = {pr} BY <1>10, <2>3 DEF Believed
    <3>2. Stack[j] # Stack[i] BY <1>7, <3>1, StackFacts
    <3>3. OwnIn(prs', j) = OwnIn(prs, j) BY <1>6, <1>8, <3>2 DEF OwnIn, SameRepo
    <3>4. OwnIn(prs, j)' = OwnIn(prs, j) /\ OpenIn(prs, j)' = OpenIn(prs, j)
      BY <3>3 DEF OpenIn, OwnIn
    <3> QED BY <2>3, <3>1, <3>4 DEF Believed
  <2> QED BY <2>1, <2>2, <2>3
<1>11. ServerInv' BY <1>1, <1>6, <1>9 DEF SyncInv, ServerInv, Numbered
<1>12. KnowsInv'
  <2>1. stage \in Publishing => \A j \in DOMAIN Stack : Believed(prs, j, known[j])'
    <3> SUFFICES ASSUME stage \in Publishing, NEW j \in DOMAIN Stack
                 PROVE  Believed(prs, j, known[j])'
      OBVIOUS
    <3>1. Believed(prs, j, known[j]) BY DEF SyncInv, KnowsInv
    <3>2. PICK pr : pr = known[j] OBVIOUS
    <3>3. Believed(prs, j, pr)' BY <1>10, <3>1, <3>2
    <3> QED BY <1>1, <3>2, <3>3 DEF Believed
  <2> QED BY <1>1, <2>1 DEF SyncInv, KnowsInv
<1>13. CallInv'
  <2> SUFFICES ASSUME Calling', status' # "failed" PROVE InCall' BY DEF CallInv
  <2>1. InCall BY <1>1 DEF SyncInv, CallInv, Calling, batchVars
  <2>2. CallOps' = CallOps /\ CallCosts' = CallCosts BY <1>1, CallStays
  <2>3. cursor \in 0..Len(CallOps)
    <3>1. cursor \in 0..Len(cost) BY DEF ContextInv, BatchInv, TypeOK, ItemCount
    <3> QED BY <2>1, <3>1, CallOpsFacts, KnownInvHolds DEF InCall, SyncInv
  <2>4. CallAt(prs, cursor, results) BY <2>1 DEF InCall
  <2>5. CASE stage = "query"
    <3>1. 1..cursor \subseteq DOMAIN Stack
      <4>1. Len(CallOps) = Len(Stack)
        BY <2>1, <2>5, CallOpsFacts, KnownInvHolds DEF InCall, SyncInv
      <4> QED BY <2>3, <4>1, StackFacts
    <3>2. ASSUME NEW j \in 1..cursor PROVE Believed(prs, j, Selected(results[j]))'
      <4>1. PICK pr : pr = Selected(results[j]) OBVIOUS
      <4>2. Believed(prs, j, pr)'
        <5>1. Believed(prs, j, pr) BY <2>4, <2>5, <4>1 DEF CallAt
        <5> QED BY <1>10, <3>1, <5>1
      <4>3. Selected(results'[j]) = pr BY <1>1, <4>1
      <4> QED BY <4>2, <4>3 DEF Believed
    <3>3. CallAt(prs, cursor, results)'
      BY <1>1, <1>6, <2>4, <2>5, <3>2 DEF CallAt, batchVars, Numbered
    <3> QED BY <1>1, <2>1, <2>2, <3>3 DEF InCall, Calling, batchVars
  <2>6. CASE stage = "create"
    <3>1. ASSUME NEW j \in DOMAIN Stack PROVE Believed(prs, j, Filled(j, cursor, results))'
      <4>1. PICK pr : pr = Filled(j, cursor, results) OBVIOUS
      <4>2. Believed(prs, j, pr)'
        <5>1. Believed(prs, j, pr) BY <2>4, <2>6, <4>1 DEF CallAt
        <5> QED BY <1>10, <5>1
      <4>3. Filled(j, cursor, results)' = pr
        BY <1>1, <4>1 DEF batchVars, Filled, Place
      <4> QED BY <4>2, <4>3 DEF Believed
    <3>2. CallAt(prs, cursor, results)'
      BY <1>1, <1>6, <2>4, <2>6, <3>1 DEF CallAt, batchVars, Numbered
    <3> QED BY <1>1, <2>1, <2>2, <3>2 DEF InCall, Calling, batchVars
  <2>7. CASE stage = "update"
    <3>1. ASSUME NEW j \in DOMAIN Stack PROVE Believed(prs, j, Revised(j, cursor))'
      <4>1. PICK pr : pr = Revised(j, cursor) OBVIOUS
      <4>2. Believed(prs, j, pr)'
        <5>1. Believed(prs, j, pr) BY <2>4, <2>7, <4>1 DEF CallAt
        <5> QED BY <1>10, <5>1
      <4>3. Revised(j, cursor)' = pr BY <1>1, <4>1 DEF batchVars, Revised, Command
      <4> QED BY <4>2, <4>3 DEF Believed
    <3>2. CallAt(prs, cursor, results)'
      BY <1>1, <1>6, <2>4, <2>7, <3>1 DEF CallAt, batchVars, Numbered
    <3> QED BY <1>1, <2>1, <2>2, <3>2 DEF InCall, Calling, batchVars
  <2> QED BY <2>1, <2>5, <2>6, <2>7 DEF InCall, Calling
<1>14. PushedInv' BY <1>1 DEF SyncInv, PushedInv
<1>15. Cause' BY <1>9 DEF Cause
<1>16. SyncedWhenPushed' BY <1>1 DEF SyncedWhenPushed, JustEnded, Running
<1> QED BY <1>11, <1>12, <1>13, <1>14, <1>15, <1>16 DEF SyncInv, CauseInv

LEMMA SyncStep == ContextInv /\ SyncInv /\ [TestedNext]_testedVars => SyncInv'
<1> SUFFICES ASSUME ContextInv, SyncInv, [TestedNext]_testedVars PROVE SyncInv' OBVIOUS
<1>1. CASE BackOffUnsent \/ Request \/ CallReturns \/ CallFails
  BY <1>1, BackOffUnsentKeeps, RequestKeeps, CallReturnsKeeps, CallFailsKeeps
<1>2. CASE StartPush \/ Found \/ LsRemote \/ GitPush \/ Report
  BY <1>2, StartPushKeeps, FoundKeeps, PublishingKeeps
<1>3. CASE SyncPrs \/ AllKnown \/ CreatesDone \/ UpdatesDone
  BY <1>3, SyncPrsKeeps, AllKnownKeeps, CreatesDoneKeeps, UpdatesDoneKeeps
<1>4. CASE StartHook \/ HookGit \/ GitFails \/ TimeOut \/ TearDown
  BY <1>4, OthersKeep
<1>5. CASE Rival BY <1>5, RivalKeeps
<1>6. CASE UNCHANGED testedVars
  <2>1. /\ UNCHANGED <<prs, refs, limit, rivals, known, stage, call, results, length>>
        /\ UNCHANGED <<outcomes, faults, before, exitCode>> /\ UNCHANGED batchVars
    BY <1>6 DEF testedVars, mockVars, testVars
  <2>2. cost' = cost /\ cursor' = cursor /\ status' = status BY <2>1 DEF batchVars
  <2>3. ServerInv' BY <2>1 DEF SyncInv, ServerInv, Numbered
  <2>4. KnowsInv'
    BY <2>1 DEF SyncInv, KnowsInv, Believed, OpenIn, OwnIn
  <2>5. CallInv'
    <3> SUFFICES ASSUME Calling', status' # "failed" PROVE InCall' BY DEF CallInv
    <3>1. InCall BY <2>1, <2>2 DEF SyncInv, CallInv, Calling
    <3>2. CallAt(prs', cursor', results') BY <2>1, <2>2, <3>1 DEF InCall
    <3> QED BY <2>1, <2>2, <3>1, <3>2, CallStays DEF InCall, Calling
  <2>6. PushedInv' BY <2>1 DEF SyncInv, PushedInv
  <2>7. CauseInv' BY <2>1, <2>2, CauseStays DEF SyncInv, CauseInv, Calling, JustEnded
  <2>8. SyncedWhenPushed'
    BY <2>1 DEF SyncInv, SyncedWhenPushed, JustEnded, OwnOpen, OwnPrs
  <2> QED BY <2>3, <2>4, <2>5, <2>6, <2>7, <2>8 DEF SyncInv
<1> QED BY <1>1, <1>2, <1>3, <1>4, <1>5, <1>6 DEF TestedNext, Step

LEMMA SyncInit == TestedInit => SyncInv
<1> SUFFICES ASSUME TestedInit PROVE SyncInv OBVIOUS
<1>1. /\ prs \in Seeds /\ refs = {Main} /\ limit \in Limits /\ stage = "idle" /\ rivals = 0
      /\ known = [i \in 1..Len(Stack) |-> None] /\ outcomes = << >>
  BY DEF TestedInit
<1>2. ServerInv BY <1>1, TestedRunAssumption DEF ServerInv
<1>3. KnowsInv BY <1>1, StackFacts DEF KnowsInv, Publishing
<1> QED BY <1>1, <1>2, <1>3
        DEF SyncInv, CallInv, PushedInv, CauseInv, SyncedWhenPushed, Calling, JustEnded

\* What a run knows of the pull requests agrees with what the server holds.
THEOREM SyncInvHolds == TestedSpec => []SyncInv
<1>1. TestedInit /\ [][TestedNext]_testedVars => []RunInv BY RunInvInit, RunInvStep, PTL
<1>2. TestedInit /\ [][TestedNext]_testedVars => []RecordInv BY RecordInit, RecordStep, PTL
<1>3. TestedInit /\ [][TestedNext]_testedVars => []FaultInv BY FaultInit, FaultStep, PTL
<1>4. RunInv /\ BatchInv /\ RecordInv /\ FaultInv => ContextInv BY DEF ContextInv
<1> QED BY <1>1, <1>2, <1>3, <1>4, BatchInvOfCalls, SyncInit, SyncStep, PTL DEF TestedSpec

\* While a run publishes, what it has looked up is so, whatever the server has from
\* before and whoever else uses it: the pull request that it has chosen is the only
\* open one of its commit, and where it has found none there is none but the other
\* client's (select and ensure_pull_requests_open, the page of mock_server.rs).
THEOREM LookupFindsTheOneHolds == TestedSpec => []LookupFindsTheOne
<1>1. SyncInv => LookupFindsTheOne
  <2> SUFFICES ASSUME SyncInv, stage \in Publishing, NEW i \in DOMAIN known
               PROVE  IF known[i] = None THEN rivals = 0 => OwnPrs(i) = {}
                      ELSE OwnOpen(i) = {known[i]}
    BY DEF LookupFindsTheOne, Publishing
  <2>1. Believed(prs, i, known[i]) /\ (known[i] = None \/ known[i].state = "OPEN")
    <3>1. i \in DOMAIN Stack BY DEF SyncInv, KnowsInv
    <3> QED BY <3>1 DEF SyncInv, KnowsInv
  <2>2. OwnPrs(i) = OwnIn(prs, i) /\ OwnOpen(i) = OpenIn(prs, i)
    BY DEF OwnPrs, OwnOpen, OwnIn, OpenIn
  <2> QED BY <2>1, <2>2 DEF Believed
<1> QED BY <1>1, SyncInvHolds, PTL

\* A run that ends as pushed leaves every commit with exactly one open pull request,
\* on the branch below it and with the text of this run: whatever was created or
\* updated in which batch, and whatever failed in runs before.
THEOREM SyncedWhenPushedHolds == TestedSpec => []SyncedWhenPushed
<1>1. SyncInv => SyncedWhenPushed BY DEF SyncInv
<1> QED BY <1>1, SyncInvHolds, PTL

\* No command fails without a cause: backing off ends in a batch that the server takes,
\* no mutation of a run is refused for what the run itself has done, and every query
\* that does not decode is about a commit that has no one pull request to choose.
THEOREM FailedWithCauseHolds == TestedSpec => []FailedWithCause
<1>1. SyncInv => FailedWithCause BY DEF SyncInv, CauseInv, FailedWithCause
<1> QED BY <1>1, SyncInvHolds, PTL
=============================================================================
