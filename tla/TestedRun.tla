----------------------------- MODULE TestedRun -----------------------------
(***************************************************************************)
(* Commands of gherrit run by a test (TestContext and TestCommand in       *)
(* testutil) against the mock server: the requests that a pre-push run      *)
(* makes, each call through the batches of BatchedGraphql, and the git      *)
(* commands of the push and of the commit-msg hook, which the interceptor   *)
(* (test_git.rs) passes on to git unless a fault is injected.               *)
(*                                                                         *)
(* A test seeds pull requests, a limit and a queue of faults, runs one      *)
(* command after another, and is torn down.  A second client of the server, *)
(* another user of GitHub, may open pull requests meanwhile.                 *)
(***************************************************************************)
EXTENDS BatchedGraphql, MockGithub

CONSTANTS
  Stack,        \* the identifiers of the commits, from the base to the tip
  Lengths,      \* how long the documents of the commits' mutations may be
  Seeds,        \* the pull requests a test begins with
  Scripts,      \* the faults a test injects
  Limits,       \* the operations a request may have
  MaxCommands,  \* bound: commands of a test
  MaxRivals     \* bound: pull requests opened by the other client

\* Of pull requests with these numbers no two are the same.
Numbered(ps) == \A i, j \in DOMAIN ps : ps[i].number = ps[j].number => i = j

\* collect_commits refuses a stack with the same identifier twice.  A call has one
\* document for each commit at most: Costs includes the lengths of all such calls.
ASSUME TestedRunAssumption ==
  /\ Stack \in Seq(Branches \ {Main}) /\ IsInjective(Stack)
  /\ Seeds \subseteq Seq(PullRequests) /\ \A ps \in Seeds : Numbered(ps)
  /\ Lengths \subseteq [1..Len(Stack) -> Nat]
  /\ \A n \in 0..Len(Stack) : [1..n -> {1} \cup UNION {Range(l) : l \in Lengths}] \subseteq Costs
  /\ Scripts \subseteq Seq(STRING)
  /\ Limits \subseteq Nat \ {0}
  /\ MaxCommands \in Nat /\ MaxRivals \in Nat

VARIABLES
  length,    \* the lengths of the documents of the commits' mutations
  script,    \* the faults that were injected
  stage,     \* what the command does next; "idle" between commands
  call,      \* the operations of the call in progress
  results,   \* what its accepted batches returned
  known,     \* the pull request of every commit, as the run knows it
  exitCode,  \* of the command's git push
  before,    \* the length of the queue of faults when the command began
  outcomes,  \* how the commands of the test ended
  made,      \* the exit codes of all the pushes that were made
  rivals     \* pull requests the other client opened

testVars == <<length, script, stage, call, results, known, exitCode, before, outcomes,
              made, rivals>>
testedVars == <<batchVars, mockVars, testVars>>

Command == Len(outcomes) + 1
Running == stage \notin {"idle", "killed", "torn"}
Base(i) == IF i = 1 THEN Main ELSE Stack[i - 1]

TestedInit ==
  /\ Init /\ cost = << >>
  /\ prs \in Seeds /\ refs = {Main} /\ faults \in Scripts /\ limit \in Limits /\ pushes = << >>
  /\ length \in Lengths
  /\ script = faults
  /\ stage = "idle" /\ call = << >> /\ results = << >>
  /\ known = [i \in 1..Len(Stack) |-> None]
  /\ exitCode = None /\ before = Len(faults) /\ outcomes = << >>
  /\ made = << >> /\ rivals = 0

\* Mutation of NextCall: the length to which the last call has backed off stays.
NextCallShorter(ops, lengths) ==
  /\ call' = ops /\ results' = << >>
  /\ cost' = lengths /\ cursor' = 0
  /\ executed' = [i \in 0..(Len(ops) - 1) |-> 0]
  /\ outputs' = << >> /\ status' = "running"
  /\ UNCHANGED batchLen

\* run_batched_graphql on operations with documents of these lengths.
NextCall(ops, lengths) ==
  /\ call' = ops /\ results' = << >>
  /\ cost' = lengths /\ cursor' = 0 /\ batchLen' = MaxBatchLen
  /\ executed' = [i \in 0..(Len(ops) - 1) |-> 0]
  /\ outputs' = << >> /\ status' = "running"

NoCall == UNCHANGED <<batchVars, call, results>>

\* A command ends.
Finish(outcome) ==
  /\ stage' = "idle"
  /\ outcomes' = Append(outcomes, outcome)

-----------------------------------------------------------------------------
(* A pre-push run *)

\* batch_fetch_prs begins.
StartPush ==
  /\ stage = "idle" /\ Command <= MaxCommands
  /\ stage' = "query"
  /\ before' = Len(faults)
  /\ known' = [i \in DOMAIN known |-> None]
  /\ NextCall([i \in DOMAIN Stack |-> FindOp(Stack[i])], [i \in DOMAIN Stack |-> 1])
  /\ exitCode' = None
  /\ UNCHANGED <<mockVars, length, script, outcomes, made, rivals>>

Calling == stage \in {"query", "create", "update"}

\* The operations of the current batch.
Batch == SubSeq(call, cursor + 1, End)

Candidates(page) == {pr \in page.nodes : ~pr.cross}

\* select in decode, which fails on a connection it cannot choose from.
Ambiguous(page) == page.more \/ Cardinality(Candidates(page)) > 1

Decodes(op, value) ==
  op.kind = "query" =>
    /\ ~Ambiguous(value.open)
    /\ Candidates(value.open) = {} => ~Ambiguous(value.historical)

\* Open pull requests before ended ones.
Selected(value) ==
  IF Candidates(value.open) # {} THEN CHOOSE pr \in Candidates(value.open) : TRUE
  ELSE IF Candidates(value.historical) # {} THEN CHOOSE pr \in Candidates(value.historical) : TRUE
  ELSE None

Succeeds(reply) ==
  /\ reply.errors = "none"
  /\ \A i \in DOMAIN Batch : Decodes(Batch[i], reply.data[i])

TestUnchanged == UNCHANGED <<length, script, stage, call, known, exitCode, before, outcomes,
                             made, rivals>>

\* The document is too long to be sent.
BackOffUnsent ==
  /\ Calling /\ Pending /\ ExceedsLimit
  /\ HalveBatch \/ ItemTooLarge
  /\ UNCHANGED <<mockVars, results>> /\ TestUnchanged

\* The server answers with a resource limit and without data.
BackOffRefused(reply) ==
  /\ reply.errors = "limit"
  /\ HalveBatch \/ ItemTooLarge
  /\ UNCHANGED results

Accepted(reply) ==
  /\ Succeeds(reply)
  /\ AcceptBatch
  /\ results' = results \o reply.data

\* Errors of another kind, or a value that does not decode: the server has
\* executed what it has not refused.
Failed(reply) ==
  /\ reply.errors # "limit" /\ ~Succeeds(reply)
  /\ FailWith({i \in Current : call[i + 1] \in Range(reply.done)})
  /\ UNCHANGED results

Request ==
  /\ Calling /\ Pending /\ ~ExceedsLimit
  /\ \E reply \in {Reply(Batch)} :
       /\ Graphql(reply)
       /\ BackOffRefused(reply) \/ Accepted(reply) \/ Failed(reply)
  /\ TestUnchanged

CallReturns == Calling /\ AllAccepted /\ UNCHANGED <<mockVars, results>> /\ TestUnchanged

CallFails ==
  /\ Calling /\ status \in {"failed", "tooLarge"}
  /\ Finish("failed")
  /\ NoCall
  /\ UNCHANGED <<mockVars, length, script, known, exitCode, before, made, rivals>>

\* ensure_pull_requests_open, and git ls-remote unless it refuses.
Found ==
  /\ stage = "query" /\ status = "done"
  /\ known' = [i \in DOMAIN known |-> Selected(results[i])]
  /\ IF \A i \in DOMAIN known : known'[i] # None => known'[i].state = "OPEN"
     THEN stage' = "lsRemote" /\ UNCHANGED outcomes
     ELSE Finish("failed")
  /\ NoCall
  /\ UNCHANGED <<mockVars, length, script, exitCode, before, made, rivals>>

LsRemote ==
  /\ stage = "lsRemote" /\ ~GitFaulted("ls-remote")
  /\ stage' = "push"
  /\ NoCall
  /\ UNCHANGED <<mockVars, length, script, known, exitCode, before, outcomes, made, rivals>>

\* git push, which the interceptor always passes on: git may refuse it.
GitPush ==
  /\ stage = "push"
  /\ \E code \in {0, 1} :
       /\ exitCode' = code
       /\ refs' = IF code = 0 THEN refs \cup Range(Stack) ELSE refs
       /\ made' = Append(made, code)
  /\ stage' = "report"
  /\ NoCall
  /\ UNCHANGED <<prs, faults, limit, pushes>>
  /\ UNCHANGED <<length, script, known, before, outcomes, rivals>>

\* The interceptor reports the exit code and exits with it.
Report ==
  /\ stage = "report"
  /\ CompleteGit(exitCode)
  /\ IF exitCode = 0 THEN stage' = "pushed" /\ UNCHANGED outcomes ELSE Finish("failed")
  /\ NoCall
  /\ UNCHANGED <<length, script, known, exitCode, before, made, rivals>>

\* The commits without a pull request, in their order: the k-th is in place k.
Place(i) == Cardinality({j \in 1..i : known[j] = None})
Missing ==
  [k \in 1..Place(Len(Stack)) |-> CHOOSE i \in DOMAIN known : known[i] = None /\ Place(i) = k]

\* sync_prs: fetch_repo_id and batch_create_prs, if a pull request is missing.
SyncPrs ==
  /\ stage = "pushed" /\ Missing # << >>
  /\ \E reply \in {Reply(<<FindOp(Main)>>)} :
       /\ Graphql(reply)
       /\ IF reply.errors = "none"
          THEN /\ stage' = "create" /\ UNCHANGED outcomes
               /\ NextCall([k \in DOMAIN Missing |->
                              CreateOp(Stack[Missing[k]], Base(Missing[k]), <<Missing[k], 0>>)],
                           [k \in DOMAIN Missing |-> length[Missing[k]]])
          ELSE Finish("failed") /\ NoCall
  /\ UNCHANGED <<length, script, known, exitCode, before, made, rivals>>

\* plan_update for every pull request: the body states the new version, so it
\* always differs; the base is sent when it does.
PlanUpdates(prs1) ==
  /\ stage' = "update"
  /\ known' = prs1
  /\ NextCall([i \in DOMAIN Stack |->
                 UpdateOp(prs1[i].number, IF prs1[i].base = Base(i) THEN None ELSE Base(i),
                          <<i, Command>>)],
              length)

\* Mutation of CreatesReturned: the results go to the commits in reverse.
CreatesReversed ==
  LET place(i) == Cardinality({j \in i..Len(Stack) : known[j] = None})
  IN  [i \in DOMAIN known |->
        IF known[i] # None THEN known[i] ELSE PrEntry(results[place(i)], Stack[i], Base(i), <<i, 0>>)]

\* The pull requests that were created, in the order of the missing ones.
CreatesReturned ==
  [i \in DOMAIN known |->
    IF known[i] # None THEN known[i] ELSE PrEntry(results[Place(i)], Stack[i], Base(i), <<i, 0>>)]

AllKnown ==
  /\ stage = "pushed" /\ Missing = << >>
  /\ PlanUpdates(known)
  /\ UNCHANGED <<mockVars, length, script, exitCode, before, outcomes, made, rivals>>

CreatesDone ==
  /\ stage = "create" /\ status = "done"
  /\ PlanUpdates(CreatesReturned)
  /\ UNCHANGED <<mockVars, length, script, exitCode, before, outcomes, made, rivals>>

UpdatesDone ==
  /\ stage = "update" /\ status = "done"
  /\ Finish("pushed")
  /\ NoCall
  /\ UNCHANGED <<mockVars, length, script, known, exitCode, before, made, rivals>>

-----------------------------------------------------------------------------
(* The commit-msg hook *)

\* It asks git var, then git interpret-trailers to parse the message and, when
\* there is no identifier, to insert one.
StartHook ==
  /\ stage = "idle" /\ Command <= MaxCommands
  /\ stage' = "var"
  /\ before' = Len(faults)
  /\ exitCode' = None
  /\ NoCall
  /\ UNCHANGED <<mockVars, length, script, known, outcomes, made, rivals>>

Asks(at) == IF at = "var" THEN "var" ELSE "interpret-trailers"

HookGit ==
  /\ stage \in {"var", "parse", "insert"} /\ ~GitFaulted(Asks(stage))
  /\ \/ stage = "var" /\ stage' = "parse" /\ UNCHANGED outcomes
     \/ stage = "parse" /\ stage' = "insert" /\ UNCHANGED outcomes
     \/ stage \in {"parse", "insert"} /\ Finish("ok")
  /\ NoCall
  /\ UNCHANGED <<mockVars, length, script, known, exitCode, before, made, rivals>>

\* A fault is injected into a git command: git does not run, the command fails.
GitFails ==
  /\ \/ stage = "lsRemote" /\ GitFault("ls-remote")
     \/ stage \in {"var", "parse", "insert"} /\ GitFault(Asks(stage))
  /\ Finish("failed")
  /\ NoCall
  /\ UNCHANGED <<length, script, known, exitCode, before, made, rivals>>

-----------------------------------------------------------------------------
(* The test *)

\* TestCommand::output kills the group of a command that takes too long, and
\* the test panics.
TimeOut ==
  /\ Running
  /\ stage' = "killed"
  /\ NoCall
  /\ UNCHANGED <<mockVars, length, script, known, exitCode, before, outcomes, made, rivals>>

\* TestContext::drop: the server stops, and faults that are left are an error.
TearDown ==
  /\ stage \in {"idle", "killed"} /\ stage' = "torn"
  /\ NoCall
  /\ outcomes' = Append(outcomes, IF stage = "killed" THEN "panic"
                                  ELSE IF faults # << >> THEN "unconsumed" ELSE "passed")
  /\ UNCHANGED <<mockVars, length, script, known, exitCode, before, made, rivals>>

\* The other client opens a pull request for a branch that has been pushed.
Rival ==
  /\ rivals < MaxRivals /\ Running
  /\ \E i \in DOMAIN Stack :
       LET op == CreateOp(Stack[i], Main, <<0, 0>>)
       IN  ~Refuses(prs, op) /\ prs' = Created(prs, op)
  /\ rivals' = rivals + 1
  /\ NoCall
  /\ UNCHANGED <<refs, faults, limit, pushes>>
  /\ UNCHANGED <<length, script, stage, known, exitCode, before, outcomes, made>>

Step ==
  \/ BackOffUnsent \/ Request \/ CallReturns \/ CallFails
  \/ Found \/ LsRemote \/ GitPush \/ Report \/ SyncPrs \/ AllKnown \/ CreatesDone \/ UpdatesDone
  \/ HookGit \/ GitFails

TestedNext == Step \/ StartPush \/ StartHook \/ TimeOut \/ TearDown \/ Rival

\* A command runs on; nothing makes a test start one or time out.
TestedSpec == TestedInit /\ [][TestedNext]_testedVars /\ WF_testedVars(Step)

-----------------------------------------------------------------------------
(* Properties *)

JustEnded(outcome) == stage = "idle" /\ outcomes # << >> /\ Last(outcomes) = outcome
OwnPrs(i) == {pr \in Range(prs) : SameRepo(pr, Stack[i])}
OwnOpen(i) == {pr \in OwnPrs(i) : pr.state = "OPEN"}
Failures == {k \in DOMAIN outcomes : outcomes[k] = "failed"}

\* What the lookup says is so when the run publishes: a pull request it has
\* chosen is the only open one of the commit in this repository, and where it
\* has found none there is none, open or ended.
LookupFindsTheOne ==
  stage \in {"lsRemote", "push", "report", "pushed"} =>
    \A i \in DOMAIN known :
      IF known[i] = None THEN rivals = 0 => OwnPrs(i) = {}
      ELSE OwnOpen(i) = {known[i]}

\* A run that succeeds leaves every commit with exactly one open pull request,
\* with the text of that commit and that run, on the branch below it.
SyncedWhenPushed ==
  JustEnded("pushed") =>
    \A i \in DOMAIN Stack :
      /\ Cardinality(OwnOpen(i)) = 1
      /\ \A pr \in OwnOpen(i) : pr.base = Base(i) /\ pr.text = <<i, Len(outcomes)>>

\* What a command may fail for.
Cause ==
  \/ Len(faults) < before
  \/ exitCode = 1
  \/ rivals > 0
  \/ \E i \in DOMAIN Stack :
       \/ length[i] > MaxQueryBytes
       \/ Cardinality(OwnOpen(i)) # 1 /\ OwnPrs(i) # {}
       \/ \E states \in {{"OPEN"}, {"CLOSED", "MERGED"}} :
            Cardinality(Matching(prs, Stack[i], states)) > MaxCandidates

\* A command fails for a reason: a fault, a push that git refused, a pull request
\* that has ended or cannot be chosen, a document that is too long, or the other
\* client.  Backing off finds a size the server takes whatever its limit.
FailedWithCause == JustEnded("failed") => Cause

\* An injected fault is noticed: it fails the command that met it, and that
\* command meets no other, so a test that passes has seen one failure a fault.
FaultFailsCommand ==
  /\ stage = "idle" =>
       /\ Len(script) - Len(faults) <= Cardinality(Failures)
       /\ outcomes # << >> /\ ~JustEnded("failed") => Len(faults) = before
  /\ stage = "torn" /\ Last(outcomes) = "passed" => Len(script) <= Cardinality(Failures)

\* The record a test reads names all pushes with their exit codes, but for the
\* one of a command that is about to report it or was killed before.
PushesRecorded ==
  /\ IsPrefix(pushes, made)
  /\ Len(made) <= Len(pushes) + 1
  /\ pushes # made => stage \in {"report", "killed", "torn"}

\* Every call of a run, whatever the server answers and whoever else uses it, is
\* one that BatchedGraphql describes, from its beginning: what is proved of that
\* module holds of each.
CallsAreBatched == [][Next \/ Init']_batchVars

\* Every command ends, whatever the limit of the server, however long the
\* documents are and whatever fails.
CommandEnds == Running ~> ~Running
=============================================================================
