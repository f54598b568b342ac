------------------------- MODULE ManageBranchProofs -------------------------
(* Theorems about ManageBranch, for every value of its constants. *)
EXTENDS ManageBranch, TLAPS

LEMMA ExpectedFacts ==
  ASSUME NEW s
  PROVE  /\ Expected(s) \in Configs
         /\ s \notin Managed => \A k \in Keys : Expected(s)[k] = Unset
<1>1. ASSUME s \notin Managed, NEW k \in Keys PROVE Expected(s)[k] = Unset
  BY <1>1 DEF Expected
<1>2. ASSUME NEW k \in Keys PROVE Expected(s)[k] \in Values
  <2>1. CASE s \notin Managed BY <1>1, <2>1 DEF Values
  <2>2. CASE s \in Managed
    <3>1. Expected(s)[k] \in {IF s = "public" THEN DefaultRemote ELSE ".", ".", OwnRef}
      BY <2>2 DEF Expected, Keys
    <3> QED BY <3>1 DEF Values, OwnValues
  <2> QED BY <2>1, <2>2
<1>3. Expected(s) \in Configs BY <1>2 DEF Expected, Configs
<1> QED BY <1>1, <1>3

LEMMA NewConfigFacts == NewConfigs \subseteq Configs
<1>1. Expected("none") \in Configs BY ExpectedFacts
<1>2. \A ref \in {MainRef, OwnRef} : Tracking(ref) \in Configs
  BY DEF Tracking, Configs, Values, OwnValues, Keys
<1> QED BY <1>1, <1>2 DEF NewConfigs

\* The next key is one of those to write.
LEMMA NextKeyFacts ==
  ASSUME TypeOK, NEW p \in Procs, Pending(p)
  PROVE  NextKey(p) \in plan[p].todo /\ NextKey(p) \in Keys
<1>1. plan[p].todo \in SUBSET Keys /\ plan[p].todo # {}
  BY DEF TypeOK, Pending, Plans
<1>2. \E k \in plan[p].todo : \A j \in plan[p].todo : Rank[k] <= Rank[j]
  BY <1>1 DEF Keys, Rank
<1> QED BY <1>1, <1>2 DEF NextKey

LEMMA ManageInit == Init => ManageInv
<1> SUFFICES ASSUME Init PROVE ManageInv OBVIOUS
<1>1. conf \in Configs BY NewConfigFacts DEF Init
<1>2. Active = {} BY DEF Init, Active
<1>3. TypeOK
  BY <1>1, ValuesAssumption DEF Init, TypeOK, States, SetKeys
<1>4. \A k \in users : conf[k] # Expected(managed)[k]
  BY ExpectedFacts DEF Init, SetKeys, Managed
<1> QED BY <1>2, <1>3, <1>4 DEF ManageInv, UsersInv, AppliedInv

\* A command begins.
LEMMA SetStateStep ==
  ASSUME ManageInv, NEW p \in Procs, NEW to \in {"unmanaged"} \cup Managed,
         NEW force \in BOOLEAN, SetState(p, to, force)
  PROVE  ManageInv'
<1> DEFINE new == [todo |-> IF Reconciles(managed, to) THEN Changes(to) ELSE {},
                   to |-> to, reconcile |-> Reconciles(managed, to)]
<1>1. /\ plan' = [plan EXCEPT ![p] = new] /\ quiet' = [quiet EXCEPT ![p] = TRUE]
      /\ UNCHANGED <<conf, managed, born, edits, stops>>
      /\ users' = IF force /\ Reconciles(managed, to) THEN {} ELSE users
  BY DEF SetState
<1>2. TypeOK /\ UsersInv /\ AppliedInv BY DEF ManageInv
<1>3. new \in Plans
  BY DEF Plans, Changes, Reconciles
<1>4. TypeOK' BY <1>1, <1>2, <1>3 DEF TypeOK
<1>5. \A q \in Procs : q # p => plan'[q] = plan[q] /\ quiet'[q] = quiet[q]
  BY <1>1, <1>2 DEF TypeOK
<1>6. plan'[p] = new /\ quiet'[p] = TRUE BY <1>1, <1>2 DEF TypeOK
<1>7. users' \subseteq users BY <1>1
<1>8. Reconciles(managed, to) => users' = {}
  <2>1. CASE force BY <1>1, <2>1
  <2>2. CASE ~force
    <3>1. Reconciles(managed, to) => conf = Expected(managed)
      BY <2>2 DEF SetState, Drifted
    <3> QED BY <1>1, <1>2, <2>2, <3>1 DEF UsersInv
  <2> QED BY <2>1, <2>2
<1>9. ~Reconciles(managed, to) => to = "unmanaged" /\ managed \in {"none", "unmanaged"}
  BY DEF Reconciles
<1> HIDE DEF new
<1>10. UsersInv'
  <2>1. \A k \in users' : conf'[k] # Expected(managed')[k]
    BY <1>1, <1>2, <1>7 DEF UsersInv
  <2>2. ASSUME NEW q \in Active', q # p
        PROVE  IF plan'[q].reconcile
                 THEN users' = {}
                 ELSE /\ plan'[q].todo = {} /\ plan'[q].to = "unmanaged"
                      /\ users' = {} \/ managed' \in {"none", "unmanaged"}
    <3>1. q \in Active BY <1>5, <2>2 DEF Active
    <3> QED BY <1>1, <1>2, <1>5, <1>7, <2>2, <3>1 DEF UsersInv, Active
  <2>3. IF plan'[p].reconcile
          THEN users' = {}
          ELSE /\ plan'[p].todo = {} /\ plan'[p].to = "unmanaged"
               /\ users' = {} \/ managed' \in {"none", "unmanaged"}
    BY <1>1, <1>6, <1>8, <1>9 DEF new
  <2> QED BY <2>1, <2>2, <2>3 DEF UsersInv
<1>11. AppliedInv'
  <2>1. ASSUME NEW q \in Active', q # p, quiet'[q], plan'[q].reconcile
        PROVE  plan'[q].todo = {k \in Keys : conf'[k] # Expected(plan'[q].to)[k]}
    <3>1. q \in Active /\ quiet[q] BY <1>1, <1>5, <2>1 DEF Active
    <3> QED BY <1>1, <1>2, <1>5, <2>1, <3>1 DEF AppliedInv
  <2>2. plan'[p].reconcile =>
          plan'[p].todo = {k \in Keys : conf'[k] # Expected(plan'[p].to)[k]}
    BY <1>1, <1>6 DEF new, Changes
  <2> QED BY <2>1, <2>2 DEF AppliedInv
<1> QED BY <1>4, <1>10, <1>11 DEF ManageInv

LEMMA WriteKeyStep ==
  ASSUME ManageInv, NEW p \in Procs, WriteKey(p)
  PROVE  ManageInv'
<1> DEFINE k == NextKey(p)
           v == Expected(plan[p].to)[k]
<1>1. TypeOK /\ UsersInv /\ AppliedInv BY DEF ManageInv
<1>2. /\ plan[p] # NoPlan /\ plan[p] \in Plans /\ plan[p].todo # {}
      /\ k \in Keys /\ k \in plan[p].todo /\ p \in Active
  BY <1>1, NextKeyFacts DEF WriteKey, Pending, TypeOK, Active
<1>3. /\ conf' = [conf EXCEPT ![k] = v] /\ users' = users \ {k}
      /\ plan' = [plan EXCEPT ![p].todo = @ \ {k}]
      /\ quiet' = [q \in Procs |-> q = p /\ quiet[q]]
      /\ UNCHANGED <<managed, born, edits, stops>>
  BY DEF WriteKey, Disturb
<1>4. v \in Values BY <1>2, ExpectedFacts DEF Configs
<1> HIDE DEF k, v
<1>5. plan'[p] = [plan[p] EXCEPT !.todo = @ \ {k}] BY <1>1, <1>3 DEF TypeOK
<1>6. plan'[p] \in Plans /\ plan'[p].todo = plan[p].todo \ {k}
      /\ plan'[p].to = plan[p].to /\ plan'[p].reconcile = plan[p].reconcile
  BY <1>2, <1>5 DEF Plans
<1>7. \A q \in Procs : q # p => plan'[q] = plan[q] BY <1>1, <1>3 DEF TypeOK
<1>8. TypeOK'
  <2>1. conf' \in Configs BY <1>1, <1>3, <1>4 DEF TypeOK, Configs
  <2>2. plan' \in [Procs -> Plans \cup {NoPlan}] BY <1>1, <1>3, <1>5, <1>6 DEF TypeOK
  <2>3. quiet' \in [Procs -> BOOLEAN] BY <1>1, <1>3 DEF TypeOK
  <2> QED BY <1>1, <1>3, <2>1, <2>2, <2>3 DEF TypeOK
<1>9. users = {} /\ plan[p].reconcile BY <1>1, <1>2 DEF UsersInv
<1>10. UsersInv'
  <2>1. Active' \subseteq Active BY <1>2, <1>7 DEF Active
  <2>2. users' = {} BY <1>3, <1>9
  <2>3. ASSUME NEW q \in Active', ~plan'[q].reconcile
        PROVE  plan'[q].todo = {} /\ plan'[q].to = "unmanaged"
    BY <1>1, <1>6, <1>7, <1>9, <2>1, <2>3 DEF UsersInv, Active
  <2> QED BY <2>2, <2>3 DEF UsersInv
<1>11. AppliedInv'
  <2> SUFFICES ASSUME NEW q \in Active', quiet'[q], plan'[q].reconcile
               PROVE  plan'[q].todo = {j \in Keys : conf'[j] # Expected(plan'[q].to)[j]}
    BY DEF AppliedInv
  <2>1. q = p /\ quiet[p] BY <1>3 DEF Active
  <2>2. plan[p].todo = {j \in Keys : conf[j] # Expected(plan[p].to)[j]}
    BY <1>1, <1>2, <1>9, <2>1 DEF AppliedInv
  <2>3. ASSUME NEW j \in Keys
        PROVE  j \in plan'[p].todo <=> conf'[j] # Expected(plan[p].to)[j]
    <3>1. CASE j = k
      <4>1. conf'[j] = v BY <1>1, <1>3, <3>1 DEF TypeOK, Configs
      <4> QED BY <1>6, <3>1, <4>1 DEF v
    <3>2. CASE j # k
      <4>1. conf'[j] = conf[j] BY <1>1, <1>3, <3>2 DEF TypeOK, Configs
      <4> QED BY <1>6, <2>2, <3>2, <4>1
    <3> QED BY <3>1, <3>2
  <2>4. plan'[p].todo \subseteq Keys BY <1>6, <2>2
  <2> QED BY <1>6, <2>1, <2>3, <2>4
<1> QED BY <1>8, <1>10, <1>11 DEF ManageInv

\* What is left of the commands when one is over.
LEMMA OverFacts ==
  ASSUME TypeOK, NEW p \in Procs, plan' = [plan EXCEPT ![p] = NoPlan]
  PROVE  /\ plan' \in [Procs -> Plans \cup {NoPlan}]
         /\ Active' = Active \ {p}
         /\ \A q \in Active' : plan'[q] = plan[q]
BY DEF TypeOK, Active

\* A command ends before its time.
LEMMA EndStep ==
  ASSUME ManageInv, NEW p \in Procs, FailKey(p) \/ Stop(p)
  PROVE  ManageInv'
<1>1. TypeOK /\ UsersInv /\ AppliedInv BY DEF ManageInv
<1>2. /\ plan' = [plan EXCEPT ![p] = NoPlan]
      /\ UNCHANGED <<conf, managed, born, quiet, users, edits>>
      /\ stops' \in {stops, stops + 1}
  BY DEF FailKey, Stop
<1>3. /\ plan' \in [Procs -> Plans \cup {NoPlan}] /\ Active' \subseteq Active
      /\ \A q \in Active' : plan'[q] = plan[q]
  BY <1>1, <1>2, OverFacts
<1>4. TypeOK' BY <1>1, <1>2, <1>3 DEF TypeOK
<1>5. UsersInv' BY <1>1, <1>2, <1>3 DEF UsersInv
<1>6. AppliedInv' BY <1>1, <1>2, <1>3 DEF AppliedInv
<1> QED BY <1>4, <1>5, <1>6 DEF ManageInv

\* What a command records is the state whose configuration it has written, or
\* that the branch, never managed, is not to be.
LEMMA RecordFacts ==
  ASSUME ManageInv, NEW p \in Procs, WriteState(p)
  PROVE  /\ managed' \in {"unmanaged"} \cup Managed
         /\ \A k \in users : conf[k] # Expected(managed')[k]
         /\ quiet[p] /\ plan[p].reconcile => conf = Expected(managed')
<1>1. TypeOK /\ UsersInv /\ AppliedInv BY DEF ManageInv
<1>2. p \in Active /\ plan[p].todo = {} /\ managed' = plan[p].to
  BY DEF WriteState, Active
<1>3. plan[p] \in Plans BY <1>1, <1>2 DEF TypeOK, Active
<1>4. \A k \in users : conf[k] # Expected(managed')[k]
  <2>1. CASE users = {} BY <2>1
  <2>2. CASE users # {}
    <3>1. managed' = "unmanaged" /\ managed \in {"none", "unmanaged"}
      BY <1>1, <1>2, <2>2 DEF UsersInv
    <3>2. \A k \in Keys : Expected(managed)[k] = Expected(managed')[k]
      BY <3>1, ExpectedFacts DEF Managed
    <3> QED BY <1>1, <3>2 DEF UsersInv, TypeOK
  <2> QED BY <2>1, <2>2
<1>5. ASSUME quiet[p], plan[p].reconcile PROVE conf = Expected(managed')
  <2>1. \A k \in Keys : conf[k] = Expected(managed')[k]
    BY <1>1, <1>2, <1>5 DEF AppliedInv
  <2>2. conf \in Configs /\ Expected(managed') \in Configs
    BY <1>1, ExpectedFacts DEF TypeOK
  <2> QED BY <2>1, <2>2 DEF Configs
<1> QED BY <1>2, <1>3, <1>4, <1>5 DEF Plans

LEMMA WriteStateStep ==
  ASSUME ManageInv, NEW p \in Procs, WriteState(p)
  PROVE  ManageInv'
<1>1. TypeOK /\ UsersInv /\ AppliedInv BY DEF ManageInv
<1>2. /\ plan' = [plan EXCEPT ![p] = NoPlan] /\ managed' = plan[p].to
      /\ quiet' = [q \in Procs |-> q = p /\ quiet[q]] /\ p \in Active
      /\ UNCHANGED <<conf, born, users, edits, stops>>
  BY DEF WriteState, Disturb, Active
<1>3. /\ plan' \in [Procs -> Plans \cup {NoPlan}] /\ Active' = Active \ {p}
      /\ \A q \in Active' : plan'[q] = plan[q]
  BY <1>1, <1>2, OverFacts
<1>4. TypeOK'
  <2>1. quiet' \in [Procs -> BOOLEAN] BY <1>1, <1>2 DEF TypeOK
  <2>2. managed' \in States BY RecordFacts DEF States, Managed
  <2> QED BY <1>1, <1>2, <1>3, <2>1, <2>2 DEF TypeOK
<1>5. UsersInv'
  <2>1. users # {} => managed' = "unmanaged" BY <1>1, <1>2 DEF UsersInv
  <2> QED BY <1>1, <1>2, <1>3, <2>1, RecordFacts DEF UsersInv
<1>6. AppliedInv'
  <2>1. \A q \in Active' : ~quiet'[q] BY <1>2, <1>3 DEF Active
  <2> QED BY <2>1 DEF AppliedInv
<1> QED BY <1>4, <1>5, <1>6 DEF ManageInv

\* Users and git.
LEMMA UserStep ==
  ASSUME ManageInv,
         \/ \E k \in Keys, v \in Values : Edit(k, v)
         \/ \E s \in HandStates : EditState(s)
         \/ \E c \in NewConfigs : Recreate(c)
         \/ Commit
  PROVE  ManageInv'
<1>1. TypeOK /\ UsersInv /\ AppliedInv BY DEF ManageInv
<1>2. ASSUME NEW k \in Keys, NEW v \in Values, Edit(k, v) PROVE ManageInv'
  <2>1. /\ conf' = [conf EXCEPT ![k] = v] /\ edits' = edits + 1
        /\ quiet' = [p \in Procs |-> FALSE]
        /\ UNCHANGED <<managed, born, plan, stops>>
        /\ users' = IF Active = {} /\ v # Expected(managed)[k] THEN users \cup {k}
                                                               ELSE users \ {k}
    BY <1>2 DEF Edit, Undisturbed
  <2>2. TypeOK'
    <3>1. conf' \in Configs BY <1>1, <2>1 DEF TypeOK, Configs
    <3>2. quiet' \in [Procs -> BOOLEAN] BY <2>1
    <3> QED BY <1>1, <2>1, <3>1, <3>2 DEF TypeOK
  <2>3. UsersInv'
    <3>1. Active' = Active BY <2>1 DEF Active
    <3>2. \A j \in users' : conf'[j] # Expected(managed')[j]
      BY <1>1, <2>1 DEF UsersInv, TypeOK, Configs
    <3>3. Active # {} => users' \subseteq users BY <2>1
    <3> QED BY <1>1, <2>1, <3>1, <3>2, <3>3 DEF UsersInv
  <2>4. AppliedInv' BY <2>1 DEF AppliedInv, Active
  <2> QED BY <2>2, <2>3, <2>4 DEF ManageInv
<1>3. ASSUME NEW s \in HandStates, EditState(s) PROVE ManageInv'
  <2>1. /\ managed' = s /\ users' = {} /\ edits' = edits + 1
        /\ quiet' = [p \in Procs |-> FALSE] /\ UNCHANGED <<conf, born, plan, stops>>
    BY <1>3 DEF EditState, Undisturbed
  <2>2. quiet' \in [Procs -> BOOLEAN] BY <2>1
  <2>3. TypeOK' BY <1>1, <2>1, <2>2, ValuesAssumption DEF TypeOK
  <2>4. UsersInv' BY <1>1, <2>1 DEF UsersInv, Active
  <2>5. AppliedInv' BY <2>1 DEF AppliedInv, Active
  <2> QED BY <2>3, <2>4, <2>5 DEF ManageInv
<1>4. ASSUME NEW c \in NewConfigs, Recreate(c) PROVE ManageInv'
  <2>1. /\ conf' = c /\ managed' = "none" /\ born' = TRUE /\ users' = SetKeys(c)
        /\ edits' = edits + 1 /\ Active = {} /\ UNCHANGED <<plan, quiet, stops>>
    BY <1>4 DEF Recreate
  <2>2. Active' = {} BY <2>1 DEF Active
  <2>3. TypeOK' BY <1>1, <2>1, NewConfigFacts DEF TypeOK, States, SetKeys
  <2>4. \A k \in users' : conf'[k] # Expected(managed')[k]
    BY <2>1, ExpectedFacts DEF SetKeys, Managed
  <2> QED BY <2>2, <2>3, <2>4 DEF ManageInv, UsersInv, AppliedInv
<1>5. CASE Commit
  <2>1. born' \in BOOLEAN /\ UNCHANGED <<conf, managed, plan, quiet, users, edits, stops>>
    BY <1>5 DEF Commit
  <2>2. TypeOK' BY <1>1, <2>1 DEF TypeOK
  <2>3. UsersInv' BY <1>1, <2>1 DEF UsersInv, Active
  <2>4. AppliedInv' BY <1>1, <2>1 DEF AppliedInv, Active
  <2> QED BY <2>2, <2>3, <2>4 DEF ManageInv
<1> QED BY <1>2, <1>3, <1>4, <1>5

LEMMA ManageStep == ManageInv /\ [Next]_vars => ManageInv'
<1> SUFFICES ASSUME ManageInv, [Next]_vars PROVE ManageInv' OBVIOUS
<1>1. ASSUME NEW p \in Procs, Manage(p) \/ Unmanage(p) \/ PostCheckout(p)
      PROVE  \E to \in {"unmanaged"} \cup Managed, force \in BOOLEAN :
                SetState(p, to, force)
  <2>1. Preserved \in Managed BY DEF Preserved, Managed
  <2> QED BY <1>1, <2>1 DEF Manage, Unmanage, PostCheckout, Managed
<1>2. ASSUME NEW p \in Procs, Manage(p) \/ Unmanage(p) \/ PostCheckout(p)
      PROVE  ManageInv'
  BY <1>1, <1>2, SetStateStep
<1>3. CASE UNCHANGED vars
  BY <1>3 DEF vars, ManageInv, TypeOK, UsersInv, AppliedInv, Active
<1> QED BY <1>2, <1>3, WriteKeyStep, EndStep, WriteStateStep, UserStep DEF Next

\* The invariant holds whatever several commands, users and git do to the keys of
\* a branch, and wherever commands stop.
THEOREM ManageInvariance == Spec => []ManageInv
BY ManageInit, ManageStep, PTL DEF Spec

\* Without --force a value that users have set is neither overwritten nor adopted.
THEOREM UserValuesKeptHolds == Spec => UserValuesKept
<1>1. ASSUME ManageInv, [Next]_vars
      PROVE  [\A p \in Procs :
                /\ WriteKey(p) => NextKey(p) \notin users
                /\ WriteState(p) => \A k \in users : conf[k] # Expected(managed')[k]]_vars
  <2>1. ASSUME NEW p \in Procs, WriteKey(p) PROVE users = {}
    <3>1. p \in Active /\ plan[p].todo # {} BY <2>1 DEF WriteKey, Pending, Active
    <3> QED BY <1>1, <3>1 DEF ManageInv, UsersInv
  <2> QED BY <1>1, <2>1, RecordFacts
<1> QED BY <1>1, ManageInvariance, PTL DEF Spec, UserValuesKept

\* A command that nobody disturbs leaves all keys as the state it records wants
\* them, whatever half-written configuration it found.
THEOREM RecordedIsAppliedHolds == Spec => RecordedIsApplied
<1>1. ASSUME ManageInv
      PROVE  \A p \in Procs : WriteState(p) /\ quiet[p] /\ plan[p].reconcile =>
               conf = Expected(managed')
  BY <1>1, RecordFacts
<1> QED BY <1>1, ManageInvariance, PTL DEF RecordedIsApplied

\* git refuses a write of an undisturbed command only where a key has several
\* values.
THEOREM RefusedOnlyManyHolds == Spec => RefusedOnlyMany
<1>1. ASSUME ManageInv, NEW p \in Procs, FailKey(p), quiet[p]
      PROVE  conf[NextKey(p)] = Many
  <2> DEFINE k == NextKey(p)
  <2>1. TypeOK /\ UsersInv /\ AppliedInv BY <1>1 DEF ManageInv
  <2>2. Pending(p) /\ p \in Active /\ plan[p].todo # {}
    BY <1>1 DEF FailKey, Pending, Active
  <2>3. k \in plan[p].todo BY <2>1, <2>2, NextKeyFacts
  <2>4. plan[p].reconcile BY <2>1, <2>2 DEF UsersInv
  <2>5. conf[k] # Expected(plan[p].to)[k] BY <1>1, <2>1, <2>2, <2>3, <2>4 DEF AppliedInv
  <2>6. Refused(k, Expected(plan[p].to)[k]) BY <1>1 DEF FailKey
  <2> QED BY <2>5, <2>6 DEF Refused
<1>2. ASSUME ManageInv
      PROVE  \A p \in Procs : FailKey(p) /\ quiet[p] => conf[NextKey(p)] = Many
  BY <1>1, <1>2
<1> QED BY <1>2, ManageInvariance, PTL DEF RefusedOnlyMany
=============================================================================
