--------------------------- MODULE InstallProofs ---------------------------
(* Theorems about Install: what is somebody else's is kept, and success means *)
(* that all hooks are in place.                                               *)
EXTENDS Install, TLAPS

LEMMA HooksFacts ==
  /\ Positions = 1..3
  /\ \A i \in Positions : REQUIRED_HOOKS[i] \in Hooks
  /\ \A h \in Hooks : \E i \in Positions : h = REQUIRED_HOOKS[i]
  /\ \A i, j \in Positions : REQUIRED_HOOKS[i] = REQUIRED_HOOKS[j] => i = j
<1>1. Positions = 1..3 BY DEF Positions, REQUIRED_HOOKS
<1>2. /\ REQUIRED_HOOKS[1] = "pre-push" /\ REQUIRED_HOOKS[2] = "commit-msg"
      /\ REQUIRED_HOOKS[3] = "post-checkout"
  BY DEF REQUIRED_HOOKS
<1> QED BY <1>1, <1>2 DEF Hooks

LEMMA InstallStart == InstallInit => InstallInv
<1> SUFFICES ASSUME InstallInit PROVE InstallInv OBVIOUS
<1>1. InstallTypeOK
  <2>1. Len(REQUIRED_HOOKS) = 3 BY DEF REQUIRED_HOOKS
  <2>2. hook \in [Hooks -> Files] BY DEF InstallInit, Files, Contents
  <2>3. at \in 1..(Len(REQUIRED_HOOKS) + 1) BY <2>1 DEF InstallInit
  <2> QED BY <2>2, <2>3 DEF InstallInit, InstallTypeOK
<1> QED BY <1>1 DEF InstallInit, InstallInv

\* What InstallInv says of the i-th hook.
HookInv(i) ==
  LET h == REQUIRED_HOOKS[i]
  IN h \notin edited =>
       /\ ipc = "validate" /\ i < at /\ Unmanaged(h) => h \in conflicts
       /\ ipc \in {"write", "chmod"} /\ i >= at /\ ~force => ~Unmanaged(h)
       /\ ipc \in {"write", "chmod"} /\ i < at => Active(h)
       /\ ipc = "chmod" /\ i = at => Ours(h)

LEMMA InvParts == InstallInv <=> InstallTypeOK /\ \A i \in Positions : HookInv(i)
BY DEF InstallInv, HookInv

LEMMA TypeStep == InstallTypeOK /\ [InstallNext]_installVars => InstallTypeOK'
<1> SUFFICES ASSUME InstallTypeOK, [InstallNext]_installVars PROVE InstallTypeOK' OBVIOUS
<1> USE HooksFacts DEF InstallTypeOK
<1>0. Len(REQUIRED_HOOKS) = 3 BY DEF REQUIRED_HOOKS
<1>1. CASE UNCHANGED installVars BY <1>1 DEF installVars
<1>2. ASSUME NEW f \in BOOLEAN, NEW g \in BOOLEAN, BeginInstall(f, g) PROVE InstallTypeOK'
  BY <1>0, <1>2 DEF BeginInstall
<1>3. CASE Validate BY <1>0, <1>3 DEF Validate, Current
<1>4. CASE Refuse \/ InstallStops \/ Installed
  BY <1>4 DEF Refuse, InstallStops, Installed
<1>5. CASE Validated BY <1>0, <1>5 DEF Validated
<1>6. CASE Write \/ WriteFails BY <1>6 DEF Write, WriteFails, Current, Files, Contents
<1>7. CASE Chmod
  <2>1. at \in Positions /\ Current \in Hooks BY <1>7 DEF Chmod, Current
  <2>2. [hook[Current] EXCEPT !.mode = "755"] \in Files BY <2>1 DEF Files
  <2>3. hook' \in [Hooks -> Files] BY <1>7, <2>1, <2>2 DEF Chmod
  <2> QED BY <1>0, <1>7, <2>1, <2>3 DEF Chmod
<1>8. ASSUME NEW h \in Hooks, NEW file \in UserFiles, EditHook(h, file) PROVE InstallTypeOK'
  <2>1. file \in Files BY DEF UserFiles, Files, Contents
  <2>2. hook' \in [Hooks -> Files] BY <1>8, <2>1 DEF EditHook
  <2> QED BY <1>8, <2>2 DEF EditHook
<1> QED BY <1>1, <1>2, <1>3, <1>4, <1>5, <1>6, <1>7, <1>8 DEF InstallNext, InstallStep

LEMMA HookStep ==
  ASSUME InstallInv, [InstallNext]_installVars, NEW i \in Positions
  PROVE  HookInv(i)'
<1> DEFINE h == REQUIRED_HOOKS[i]
<1> USE DEF Unmanaged, Active, Ours, Current
<1>1. InstallTypeOK /\ HookInv(i) /\ i \in 1..3 /\ h \in Hooks
  BY InvParts, HooksFacts
<1>2. at \in 1..4 /\ (ipc = "chmod" => at \in Positions)
  BY <1>1 DEF InstallTypeOK, REQUIRED_HOOKS
<1>3. CASE UNCHANGED installVars
  BY <1>1, <1>3 DEF HookInv, installVars
<1>4. ASSUME NEW f \in BOOLEAN, NEW g \in BOOLEAN, BeginInstall(f, g) PROVE HookInv(i)'
  BY <1>1, <1>4 DEF BeginInstall, HookInv
<1>5. CASE Validate
  <2>1. at = i \/ (i < at' => i < at) BY <1>1, <1>2, <1>5 DEF Validate
  <2> QED BY <1>1, <1>2, <1>5, <2>1 DEF Validate, HookInv
<1>6. CASE Refuse \/ InstallStops \/ Installed
  BY <1>1, <1>6 DEF HookInv, Refuse, InstallStops, Installed
<1>7. CASE Validated
  <2>1. i < at BY <1>1, <1>2, <1>7, HooksFacts DEF Validated
  <2> QED BY <1>1, <1>7, <2>1 DEF Validated, HookInv
<1>8. CASE Write
  <2>1. at \in Positions /\ (REQUIRED_HOOKS[at] = h => at = i)
    BY <1>8, HooksFacts DEF Write
  <2>2. CASE at = i
    BY <1>1, <1>2, <1>8, <2>2, HooksFacts DEF Write, HookInv, InstallTypeOK
  <2>3. CASE at # i
    <3>1. hook'[h] = hook[h] BY <1>1, <1>8, <2>1, <2>3 DEF Write, InstallTypeOK
    <3> QED BY <1>1, <1>8, <2>3, <3>1 DEF Write, HookInv
  <2> QED BY <2>2, <2>3
<1>9. CASE WriteFails
  BY <1>1, <1>9 DEF WriteFails, HookInv
<1>10. CASE Chmod
  <2>1. at \in Positions /\ (REQUIRED_HOOKS[at] = h => at = i)
    BY <1>2, <1>10, HooksFacts DEF Chmod
  <2>2. CASE at = i
    <3>1. hook'[h] = [hook[h] EXCEPT !.mode = "755"]
      BY <1>1, <1>10, <2>2 DEF Chmod, InstallTypeOK
    <3>2. hook'[h].content = hook[h].content /\ hook'[h].mode = "755"
      BY <1>1, <3>1 DEF InstallTypeOK, Files
    <3> QED BY <1>1, <1>2, <1>10, <2>2, <3>2 DEF Chmod, HookInv
  <2>3. CASE at # i
    <3>1. hook'[h] = hook[h] BY <1>1, <1>10, <2>1, <2>3 DEF Chmod, InstallTypeOK
    <3>2. (i < at' => i < at) /\ (i >= at' => i >= at)
      BY <1>1, <1>2, <1>10, <2>3 DEF Chmod
    <3> QED BY <1>1, <1>10, <3>1, <3>2 DEF Chmod, HookInv
  <2> QED BY <2>2, <2>3
<1>11. ASSUME NEW k \in Hooks, NEW file \in UserFiles, EditHook(k, file) PROVE HookInv(i)'
  <2>1. h = k \/ hook'[h] = hook[h] BY <1>1, <1>11 DEF EditHook, InstallTypeOK
  <2> QED BY <1>1, <1>11, <2>1 DEF EditHook, HookInv
<1> QED BY <1>3, <1>4, <1>5, <1>6, <1>7, <1>8, <1>9, <1>10, <1>11 DEF InstallNext, InstallStep

\* What a command has found and written stays so where no user has edited.
THEOREM InstallInvariance == InstallSpec => []InstallInv
<1>1. InstallInv /\ [InstallNext]_installVars => InstallInv'
  <2> SUFFICES ASSUME InstallInv, [InstallNext]_installVars PROVE InstallInv' OBVIOUS
  <2>1. InstallTypeOK' BY TypeStep DEF InstallInv
  <2>2. \A i \in Positions : HookInv(i)' BY HookStep
  <2> QED BY <2>1, <2>2 DEF InstallInv, HookInv
<1> QED BY <1>1, InstallStart, PTL DEF InstallSpec

\* No hook that is not GHerrit's is overwritten, and none is written while there
\* is one, unless it came after the command looked.
THEOREM ForeignKeptHolds == InstallSpec => ForeignKept
<1>1. InstallInv => ((Write \/ WriteFails) /\ ~force =>
        \A i \in Positions : i >= at /\ Unmanaged(REQUIRED_HOOKS[i]) =>
          REQUIRED_HOOKS[i] \in edited)
  BY InvParts DEF HookInv, Write, WriteFails
<1> QED BY <1>1, InstallInvariance, PTL DEF InstallSpec, ForeignKept

\* A command that succeeds leaves every hook that no user has touched meanwhile in
\* place and executable.
THEOREM InstallCompleteHolds == InstallSpec => InstallComplete
<1>1. InstallInv => (Installed => \A h \in Hooks \ edited : Active(h))
  <2> SUFFICES ASSUME InstallInv, Installed, NEW h \in Hooks \ edited PROVE Active(h)
    OBVIOUS
  <2>1. PICK i \in Positions : h = REQUIRED_HOOKS[i] BY HooksFacts
  <2>2. i < at
    BY HooksFacts DEF Installed, InstallInv, InstallTypeOK, REQUIRED_HOOKS
  <2> QED BY <2>1, <2>2, InvParts DEF HookInv, Installed
<1> QED BY <1>1, InstallInvariance, PTL DEF InstallSpec, InstallComplete
=============================================================================
