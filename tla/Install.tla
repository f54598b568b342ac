------------------------------ MODULE Install ------------------------------
(***************************************************************************)
(* `gherrit install` (src/install.rs): the three hooks are checked one by  *)
(* one, and if none of them is somebody else's, or with --force, they are  *)
(* written one by one and made executable.  Each of these steps may fail,  *)
(* the command may be killed between them, and users edit hooks meanwhile. *)
(***************************************************************************)
EXTENDS Integers, Sequences

CONSTANTS
  HooksInside,  \* the hooks directory lies in the repository
  MaxInstalls,  \* bound: commands that are started
  MaxHookEdits  \* bound: hooks that users write or delete

ASSUME InstallAssumption ==
  HooksInside \in BOOLEAN /\ MaxInstalls \in Nat /\ MaxHookEdits \in Nat

REQUIRED_HOOKS == <<"pre-push", "commit-msg", "post-checkout">>
Positions == 1..Len(REQUIRED_HOOKS)
Hooks == {REQUIRED_HOOKS[i] : i \in Positions}

VARIABLES
  hook,      \* every hook file: what it holds and its mode
  ipc,       \* where the command is
  at,        \* the position of the hook it works on
  force,     \* --force
  conflicts, \* the hooks it has found to be somebody else's
  edited,    \* history: the hooks that users have touched since it began
  installs, hookEdits  \* what is bounded

installVars == <<hook, ipc, at, force, conflicts, edited, installs, hookEdits>>

\* An empty file is what a write leaves that fails or is killed half way.
Contents == {"none", "foreign", "empty", "ours"}
Files == [content : Contents, mode : {"644", "755"}]

\* The file contains PROLOGUE.
Ours(h) == hook[h].content = "ours"

\* What validation takes for a conflict.
Unmanaged(h) == hook[h].content \in {"foreign", "empty"}

\* git runs a hook only if it is executable.
Active(h) == Ours(h) /\ hook[h].mode = "755"

Current == REQUIRED_HOOKS[at]

InstallInit ==
  /\ hook \in [Hooks -> {[content |-> "none", mode |-> "644"],
                         [content |-> "foreign", mode |-> "755"]}]
  /\ ipc = "idle" /\ at = 1 /\ force = FALSE
  /\ conflicts = {} /\ edited = {} /\ installs = 0 /\ hookEdits = 0

-----------------------------------------------------------------------------
(* The command *)

\* resolve_hooks_dir.  A refusal changes nothing and is left out.
BeginInstall(f, allowGlobal) ==
  /\ ipc = "idle" /\ installs < MaxInstalls
  /\ HooksInside \/ allowGlobal
  /\ ipc' = "validate" /\ at' = 1 /\ force' = f
  /\ conflicts' = {} /\ edited' = {}
  /\ installs' = installs + 1
  /\ UNCHANGED <<hook, hookEdits>>

\* Mutation of Validate: the last hook is not looked at.
ValidateButLast ==
  /\ ipc = "validate" /\ at \in Positions
  /\ conflicts' = conflicts \cup
       (IF Unmanaged(Current) /\ at < Len(REQUIRED_HOOKS) THEN {Current} ELSE {})
  /\ at' = at + 1
  /\ UNCHANGED <<hook, ipc, force, edited, installs, hookEdits>>

Validate ==
  /\ ipc = "validate" /\ at \in Positions
  /\ conflicts' = conflicts \cup (IF Unmanaged(Current) THEN {Current} ELSE {})
  /\ at' = at + 1
  /\ UNCHANGED <<hook, ipc, force, edited, installs, hookEdits>>

Refuse ==
  /\ ipc = "validate" /\ at \notin Positions
  /\ conflicts # {} /\ ~force
  /\ ipc' = "idle"
  /\ UNCHANGED <<hook, at, force, conflicts, edited, installs, hookEdits>>

Validated ==
  /\ ipc = "validate" /\ at \notin Positions
  /\ conflicts = {} \/ force
  /\ ipc' = "write" /\ at' = 1
  /\ UNCHANGED <<hook, force, conflicts, edited, installs, hookEdits>>

\* fs::write keeps the mode of a file that is there.
Write ==
  /\ ipc = "write" /\ at \in Positions
  /\ hook' = [hook EXCEPT ![Current].content = "ours"]
  /\ ipc' = "chmod"
  /\ UNCHANGED <<at, force, conflicts, edited, installs, hookEdits>>

\* The file is truncated and nothing more is written.
WriteFails ==
  /\ ipc = "write" /\ at \in Positions
  /\ hook' = [hook EXCEPT ![Current].content = "empty"]
  /\ ipc' = "idle"
  /\ UNCHANGED <<at, force, conflicts, edited, installs, hookEdits>>

\* Mutation of Chmod: a file that was not written anew is left as it is.
ChmodSkipped ==
  /\ ipc = "chmod"
  /\ ipc' = "write" /\ at' = at + 1
  /\ UNCHANGED <<hook, force, conflicts, edited, installs, hookEdits>>

\* A file that has been deleted meanwhile ends the command.
Chmod ==
  /\ ipc = "chmod"
  /\ hook[Current].content # "none"
  /\ hook' = [hook EXCEPT ![Current].mode = "755"]
  /\ ipc' = "write" /\ at' = at + 1
  /\ UNCHANGED <<force, conflicts, edited, installs, hookEdits>>

Installed ==
  /\ ipc = "write" /\ at \notin Positions
  /\ ipc' = "idle"
  /\ UNCHANGED <<hook, at, force, conflicts, edited, installs, hookEdits>>

\* A file cannot be read, opened or made executable, or the command is killed.
InstallStops ==
  /\ ipc # "idle"
  /\ ipc' = "idle"
  /\ UNCHANGED <<hook, at, force, conflicts, edited, installs, hookEdits>>

InstallStep ==
  \/ Validate \/ Refuse \/ Validated \/ Write \/ WriteFails \/ Chmod
  \/ Installed \/ InstallStops

\* Users write hooks of their own and delete files.
EditHook(h, file) ==
  /\ hookEdits < MaxHookEdits
  /\ hook[h] # file
  /\ hook' = [hook EXCEPT ![h] = file]
  /\ edited' = edited \cup {h}
  /\ hookEdits' = hookEdits + 1
  /\ UNCHANGED <<ipc, at, force, conflicts, installs>>

UserFiles ==
  {[content |-> "foreign", mode |-> "755"], [content |-> "none", mode |-> "644"]}

InstallNext ==
  \/ \E f, g \in BOOLEAN : BeginInstall(f, g)
  \/ InstallStep
  \/ \E h \in Hooks, file \in UserFiles : EditHook(h, file)

InstallSpec == InstallInit /\ [][InstallNext]_installVars

-----------------------------------------------------------------------------
(* Properties *)

InstallTypeOK ==
  /\ hook \in [Hooks -> Files]
  /\ ipc \in {"idle", "validate", "write", "chmod"}
  /\ at \in 1..(Len(REQUIRED_HOOKS) + 1)
  /\ ipc = "chmod" => at \in Positions
  /\ force \in BOOLEAN /\ conflicts \subseteq Hooks /\ edited \subseteq Hooks
  /\ installs \in Nat /\ hookEdits \in Nat

\* Without --force a hook that is not GHerrit's is never overwritten, and as long
\* as there is one no other is written either; only a hook that a user has put
\* there after the command looked may be lost.
ForeignKept ==
  [][(Write \/ WriteFails) /\ ~force =>
       \A i \in Positions : i >= at /\ Unmanaged(REQUIRED_HOOKS[i]) =>
         REQUIRED_HOOKS[i] \in edited]_installVars

\* A command that succeeds has all hooks in place and executable, also those that
\* an earlier, interrupted command left without the executable bit, unless users
\* touched them meanwhile.
InstallComplete ==
  [][Installed => \A h \in Hooks \ edited : Active(h)]_installVars

-----------------------------------------------------------------------------
(* The inductive invariant *)

\* What the command has found and written is still so where nobody has edited.
InstallInv ==
  /\ InstallTypeOK
  /\ \A i \in Positions :
       LET h == REQUIRED_HOOKS[i]
       IN h \notin edited =>
            /\ ipc = "validate" /\ i < at /\ Unmanaged(h) => h \in conflicts
            /\ ipc \in {"write", "chmod"} /\ i >= at /\ ~force =>
                 ~Unmanaged(h)
            /\ ipc \in {"write", "chmod"} /\ i < at => Active(h)
            /\ ipc = "chmod" /\ i = at => Ours(h)
=============================================================================
