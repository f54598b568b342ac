---------------------------- MODULE PatchHistory ----------------------------
(***************************************************************************)
(* What the version tags of gherrit promise ("Version Tags" and            *)
(* "Optimistic Concurrency Control" in README.md): every gherrit-pr-id has *)
(* one history of published versions, shared by all clones.  A history is  *)
(* only ever appended to, the commits of one push are appended together,   *)
(* and a clone appends only to a history whose end it already knows.       *)
(***************************************************************************)
EXTENDS Naturals, Sequences

CONSTANTS
  Clones,   \* local repositories
  Gids,     \* gherrit-pr-ids
  Commits   \* commit objects

VARIABLES
  history,  \* history[g]: the commits published for g, version 1 first
  known     \* known[cl][g]: the newest version of g the clone has heard of

historyVars == <<history, known>>

Init ==
  /\ history = [g \in Gids |-> << >>]
  /\ known = [cl \in Clones |-> [g \in Gids |-> 0]]

\* A clone appends one version to each of some histories, in one step; it knows
\* the end of every one of them.
Publish(cl) ==
  /\ history' \in [Gids -> Seq(Commits)]
  /\ \A g \in Gids : history'[g] # history[g] =>
       /\ known[cl][g] = Len(history[g])
       /\ \E c \in Commits : history'[g] = Append(history[g], c)
  /\ UNCHANGED known

\* A clone hears of versions that have been published.
Learn(cl) ==
  /\ known' \in [Clones -> [Gids -> Nat]]
  /\ \A other \in Clones \ {cl} : known'[other] = known[other]
  /\ \A g \in Gids : known[cl][g] <= known'[cl][g] /\ known'[cl][g] <= Len(history[g])
  /\ UNCHANGED history

Next == \E cl \in Clones : Publish(cl) \/ Learn(cl)

Spec == Init /\ [][Next]_historyVars
=============================================================================
