---------------------------- MODULE ManageBranch ----------------------------
(***************************************************************************)
(* How GHerrit keeps the configuration of one branch (src/manage.rs):      *)
(* `manage`, `unmanage` and the post-checkout hook read the branch's keys  *)
(* once, when the process opens the repository, and then write them one    *)
(* `git config` at a time, the management state last.  Several commands    *)
(* may run at once, any of them may end between two writes, and users and  *)
(* git edit the same keys.                                                 *)
(***************************************************************************)
EXTENDS Integers

CONSTANTS
  Procs,          \* gherrit commands that run at once
  DefaultRemote,  \* gherrit.remote, or "origin"
  OwnRef,         \* refs/heads/<the branch>
  MainRef,        \* the ref of a default branch
  Unset,          \* stands for a key that is not set
  Many,           \* stands for a key with several values, the last a foreign one
  UserValues,     \* what users and git write to a key, besides GHerrit's values
  HandStates,     \* the management states that users write by hand
  NoPlan,         \* stands for no command
  MaxEdits,       \* bound: edits by users and git
  MaxStops        \* bound: commands that end half way

VARIABLES
  conf,     \* branch.<name>.pushRemote, .remote and .merge
  managed,  \* branch.<name>.gherritManaged
  born,     \* the newest reflog entry of the branch is its creation
  plan,     \* what a command has still to write
  quiet,    \* nobody else has written anything since the command began
  users,    \* the keys that users have set against the recorded state
  edits, stops

vars == <<conf, managed, born, plan, quiet, users, edits, stops>>

States == {"none", "unmanaged", "private", "public", "invalid"}
Managed == {"private", "public"}

\* BranchConfigKey::ALL
Keys == {"pushRemote", "remote", "merge"}
Rank == [k \in Keys |-> CASE k = "pushRemote" -> 1 [] k = "remote" -> 2 [] k = "merge" -> 3]

OwnValues == {".", DefaultRemote, OwnRef}
Values == OwnValues \cup UserValues \cup {MainRef, Unset}
Configs == [Keys -> Values]
Plans == [todo : SUBSET Keys, to : {"unmanaged"} \cup Managed, reconcile : BOOLEAN]

\* A value that GHerrit writes can be told from no value and from several.
ASSUME ValuesAssumption ==
  /\ Unset \notin OwnValues /\ Many \notin OwnValues
  /\ HandStates \subseteq States
  /\ NoPlan \notin Plans
  /\ MaxEdits \in Nat /\ MaxStops \in Nat

-----------------------------------------------------------------------------
(* The decisions *)

\* BranchConfig::expected
Expected(state) ==
  [k \in Keys |->
     IF state \notin Managed THEN Unset
     ELSE CASE k = "pushRemote" -> IF state = "public" THEN DefaultRemote ELSE "."
            [] k = "remote" -> "."
            [] k = "merge" -> OwnRef]

\* Mutation of Reconciles: unmanaging leaves the keys alone.
ReconcilesOnlyManaged(old, to) == to \in Managed

\* transition_kind: unmanaging a branch that was never managed touches no key.
Reconciles(old, to) == ~ (old \in {"none", "unmanaged"} /\ to = "unmanaged")
NoChange(old, to) == old = "unmanaged" /\ to = "unmanaged"

\* Mutation of Drifted: the keys are compared with the requested state's.
DriftedFromRequest(to) == conf # Expected(to)

\* drift_decision compares with the recorded state, whatever is requested.
Drifted(to) == conf # Expected(managed)

\* Mutation of Changes: the keys in which the two states differ.
ChangesOfState(to) ==
  {k \in Keys : Expected(managed)[k] # Expected(to)[k]}

\* changes_to: the keys to write.
Changes(to) == {k \in Keys : conf[k] # Expected(to)[k]}

\* What `gherrit manage` without a mode asks for.
Preserved == IF managed \in Managed THEN managed ELSE "private"

\* classify_post_checkout_branch, for a new branch: it is shared if it tracks
\* another branch than a default one.
Shared == conf["remote"] # Unset /\ conf["merge"] \notin {Unset, MainRef}

Active == {p \in Procs : plan[p] # NoPlan}

\* git config refuses to replace or unset several values, and to unset none.
Refused(k, v) == conf[k] = Many \/ (v = Unset /\ conf[k] = Unset)

-----------------------------------------------------------------------------
(* The commands *)

\* A branch as `git checkout -b` makes it: without upstream, or tracking a
\* default branch or the remote branch of its name.
Tracking(ref) ==
  [k \in Keys |-> CASE k = "pushRemote" -> Unset
                    [] k = "remote" -> DefaultRemote
                    [] k = "merge" -> ref]
NewConfigs == {Expected("none"), Tracking(MainRef), Tracking(OwnRef)}
SetKeys(c) == {k \in Keys : c[k] # Unset}

Init ==
  /\ conf \in NewConfigs
  /\ managed = "none"
  /\ born = TRUE
  /\ plan = [p \in Procs |-> NoPlan]
  /\ quiet = [p \in Procs |-> TRUE]
  /\ users = SetKeys(conf)
  /\ edits = 0
  /\ stops = 0

\* set_state up to its first write.  A command that has nothing to do, that is
\* blocked by drift or that finds an invalid state changes nothing.
SetState(p, to, force) ==
  /\ plan[p] = NoPlan
  /\ managed # "invalid" /\ ~NoChange(managed, to)
  /\ Reconciles(managed, to) => ~Drifted(to) \/ force
  /\ plan' = [plan EXCEPT ![p] =
       [todo |-> IF Reconciles(managed, to) THEN Changes(to) ELSE {},
        to |-> to, reconcile |-> Reconciles(managed, to)]]
  /\ quiet' = [quiet EXCEPT ![p] = TRUE]
  /\ users' = IF force /\ Reconciles(managed, to) THEN {} ELSE users
  /\ UNCHANGED <<conf, managed, born, edits, stops>>

Manage(p) ==
  \E force \in BOOLEAN, to \in Managed \cup {Preserved} : SetState(p, to, force)

Unmanage(p) == \E force \in BOOLEAN : SetState(p, "unmanaged", force)

\* post_checkout of the branch: only one that is not managed and has no commits
\* of its own is classified.
PostCheckout(p) ==
  /\ managed \notin Managed
  /\ born
  /\ SetState(p, IF Shared THEN "unmanaged" ELSE "private", FALSE)

Disturb(p) == quiet' = [q \in Procs |-> q = p /\ quiet[q]]

\* Keys are written in a fixed order.
NextKey(p) == CHOOSE k \in plan[p].todo : \A j \in plan[p].todo : Rank[k] <= Rank[j]
Pending(p) == plan[p] # NoPlan /\ plan[p].todo # {}

\* apply_config_update of the next key.
WriteKey(p) ==
  LET k == NextKey(p)
      v == Expected(plan[p].to)[k]
  IN /\ Pending(p)
     /\ ~Refused(k, v)
     /\ conf' = [conf EXCEPT ![k] = v]
     /\ plan' = [plan EXCEPT ![p].todo = @ \ {k}]
     /\ users' = users \ {k}
     /\ Disturb(p)
     /\ UNCHANGED <<managed, born, edits, stops>>

\* git fails, and the command with it: earlier writes stay, the state is not
\* recorded.
FailKey(p) ==
  LET k == NextKey(p)
  IN /\ Pending(p)
     /\ Refused(k, Expected(plan[p].to)[k])
     /\ plan' = [plan EXCEPT ![p] = NoPlan]
     /\ UNCHANGED <<conf, managed, born, quiet, users, edits, stops>>

WriteState(p) ==
  /\ plan[p] # NoPlan /\ plan[p].todo = {}
  /\ managed' = plan[p].to
  /\ plan' = [plan EXCEPT ![p] = NoPlan]
  /\ Disturb(p)
  /\ UNCHANGED <<conf, born, users, edits, stops>>

\* The command is killed, or cannot lock the configuration file.
Stop(p) ==
  /\ plan[p] # NoPlan
  /\ stops < MaxStops
  /\ stops' = stops + 1
  /\ plan' = [plan EXCEPT ![p] = NoPlan]
  /\ UNCHANGED <<conf, managed, born, quiet, users, edits>>

-----------------------------------------------------------------------------
(* Users and git *)

Undisturbed == [p \in Procs |-> FALSE]

\* A key is edited, also by `git branch --set-upstream-to` or `git branch -m`.
\* While a command runs the edit races with it and nothing is promised.
Edit(k, v) ==
  /\ edits < MaxEdits
  /\ conf[k] # v
  /\ conf' = [conf EXCEPT ![k] = v]
  /\ users' = IF Active = {} /\ v # Expected(managed)[k] THEN users \cup {k}
                                                          ELSE users \ {k}
  /\ edits' = edits + 1
  /\ quiet' = Undisturbed
  /\ UNCHANGED <<managed, born, plan, stops>>

\* Whoever writes the state by hand takes the keys for GHerrit's.
EditState(s) ==
  /\ edits < MaxEdits
  /\ managed # s
  /\ managed' = s
  /\ users' = {}
  /\ edits' = edits + 1
  /\ quiet' = Undisturbed
  /\ UNCHANGED <<conf, born, plan, stops>>

\* The branch is deleted and created again.
Recreate(c) ==
  /\ Active = {}
  /\ edits < MaxEdits
  /\ conf' = c /\ managed' = "none" /\ born' = TRUE /\ users' = SetKeys(c)
  /\ edits' = edits + 1
  /\ UNCHANGED <<plan, quiet, stops>>

Commit ==
  /\ born
  /\ born' = FALSE
  /\ UNCHANGED <<conf, managed, plan, quiet, users, edits, stops>>

Next ==
  \/ \E p \in Procs : \/ Manage(p) \/ Unmanage(p) \/ PostCheckout(p)
                      \/ WriteKey(p) \/ FailKey(p) \/ WriteState(p) \/ Stop(p)
  \/ \E k \in Keys, v \in Values : Edit(k, v)
  \/ \E s \in HandStates : EditState(s)
  \/ \E c \in NewConfigs : Recreate(c)
  \/ Commit

Spec == Init /\ [][Next]_vars

\* The branch is checked out again and again, and commands go on.
Fairness ==
  \A p \in Procs :
    WF_vars(PostCheckout(p) \/ WriteKey(p) \/ FailKey(p) \/ WriteState(p))

FairSpec == Spec /\ Fairness

-----------------------------------------------------------------------------
(* Properties *)

TypeOK ==
  /\ conf \in Configs
  /\ managed \in States
  /\ born \in BOOLEAN
  /\ plan \in [Procs -> Plans \cup {NoPlan}]
  /\ quiet \in [Procs -> BOOLEAN]
  /\ users \subseteq Keys
  /\ edits \in Nat /\ stops \in Nat

\* What users have set is drift; no command that writes keys is on its way while
\* there is any, and one that only records a state leaves it drift.
UsersInv ==
  /\ \A k \in users : conf[k] # Expected(managed)[k]
  /\ \A p \in Active :
       IF plan[p].reconcile
         THEN users = {}
         ELSE /\ plan[p].todo = {} /\ plan[p].to = "unmanaged"
              /\ users = {} \/ managed \in {"none", "unmanaged"}

\* For a command that nobody disturbs the keys it has still to write are those
\* that are not yet as it wants them.
AppliedInv ==
  \A p \in Active : quiet[p] /\ plan[p].reconcile =>
    plan[p].todo = {k \in Keys : conf[k] # Expected(plan[p].to)[k]}

\* The inductive invariant.
ManageInv == TypeOK /\ UsersInv /\ AppliedInv

\* Without --force no command overwrites a value that users have set, also after
\* commands that stopped half way, and none comes to own it by recording a state
\* in which it happens to be the expected one.
UserValuesKept ==
  [][\A p \in Procs :
       /\ WriteKey(p) => NextKey(p) \notin users
       /\ WriteState(p) => \A k \in users : conf[k] # Expected(managed')[k]]_vars

\* A command that nobody disturbs and that records a state has put all keys in
\* order for it, whatever half-written configuration earlier ones left.
RecordedIsApplied ==
  [][\A p \in Procs : WriteState(p) /\ quiet[p] /\ plan[p].reconcile =>
       conf = Expected(managed')]_vars

\* A branch that was created locally is managed sooner or later, unless the user
\* decides otherwise or commits to it before.
LocalBranchManaged ==
  born /\ managed = "none" /\ ~Shared ~> managed # "none" \/ ~born

\* git refuses a write of a command that nobody disturbs only if the key has
\* several values: in particular no key is unset that is not set, whatever users
\* and earlier commands left, and --force and repeats get everywhere else.
RefusedOnlyMany ==
  [][\A p \in Procs : FailKey(p) /\ quiet[p] => conf[NextKey(p)] = Many]_vars
=============================================================================
