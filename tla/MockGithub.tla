----------------------------- MODULE MockGithub -----------------------------
(***************************************************************************)
(* The server that stands for GitHub and for faults of git in the tests of *)
(* gherrit (mock_server.rs and git_interceptor.rs in testutil): pull       *)
(* requests, the branches of the bare remote, a queue of faults to inject, *)
(* a limit of operations a request, and the pushes git was seen to make.   *)
(*                                                                         *)
(* A handler runs under the write lock of the state, so a request is one   *)
(* step.  The log of requests and the checks of a document against the     *)
(* schema are left out: gherrit's documents pass them.                     *)
(***************************************************************************)
EXTENDS Integers, Sequences, SequencesExt, FiniteSetsExt

CONSTANTS
  Branches,       \* the names of branches
  Main,           \* the default branch
  MaxCandidates,  \* MAX_PULL_REQUEST_CANDIDATES (100)
  None            \* no value

\* A text is that of a commit, written in a run of a test.
States == {"OPEN", "CLOSED", "MERGED"}
PullRequests == [number : Nat, head : Branches, base : Branches, text : Nat \X Nat,
                 state : States, cross : BOOLEAN]

ASSUME MockAssumption ==
  /\ Main \in Branches
  /\ MaxCandidates \in Nat \ {0}
  /\ None \notin Branches /\ None \notin PullRequests

VARIABLES
  prs,     \* the pull requests, in order of creation
  refs,    \* the branches of the remote
  faults,  \* MockState::faults: the next one to inject first
  limit,   \* max_graphql_operations_per_request
  pushes   \* git_interceptor::State::pushes: the exit codes

mockVars == <<prs, refs, faults, limit, pushes>>

\* PrEntry::mock; pull requests from other repositories are marked.
PrEntry(number, head, base, text) ==
  [number |-> number, head |-> head, base |-> base, text |-> text,
   state |-> "OPEN", cross |-> FALSE]

SameRepo(pr, head) == pr.head = head /\ ~pr.cross

\* The operations of a document.
FindOp(head) == [kind |-> "query", head |-> head]
CreateOp(head, base, text) == [kind |-> "create", head |-> head, base |-> base, text |-> text]
UpdateOp(number, base, text) ==
  [kind |-> "update", number |-> number, base |-> base, text |-> text]

\* The pull requests an update is for: one, or none.
Node(ps, op) == {pr \in Range(ps) : pr.number = op.number}

RefusesCreate(ps, op) ==
  \/ op.base = op.head
  \/ ~({op.base, op.head} \subseteq refs)
  \/ \E pr \in Range(ps) : SameRepo(pr, op.head) /\ pr.state = "OPEN"

RefusesUpdate(ps, op) ==
  \/ op.base # None /\ op.base \notin refs
  \/ Node(ps, op) = {}
  \/ \E pr \in Node(ps, op) : pr.head = op.base

Refuses(ps, op) ==
  \/ op.kind = "create" /\ RefusesCreate(ps, op)
  \/ op.kind = "update" /\ RefusesUpdate(ps, op)

NextNumber(ps) == 1 + Max({pr.number : pr \in Range(ps)} \cup {0})

Created(ps, op) == Append(ps, PrEntry(NextNumber(ps), op.head, op.base, op.text))

Updated(ps, op) ==
  [i \in DOMAIN ps |->
    IF ps[i].number # op.number THEN ps[i]
    ELSE [ps[i] EXCEPT !.text = op.text, !.base = IF op.base = None THEN @ ELSE op.base]]

Matching(ps, head, states) == {i \in DOMAIN ps : ps[i].head = head /\ ps[i].state \in states}

\* The first ones of a connection, up to its length.
Nodes(ps, matching) ==
  {ps[i] : i \in {j \in matching : Cardinality({k \in matching : k < j}) < MaxCandidates}}

\* Mutation of Page: the connection always says that it is complete.
PageComplete(ps, head, states) ==
  [nodes |-> Nodes(ps, Matching(ps, head, states)), more |-> FALSE]

\* A connection of pull requests: those of other repositories count, too.
Page(ps, head, states) ==
  LET matching == Matching(ps, head, states)
  IN  [nodes |-> Nodes(ps, matching), more |-> Cardinality(matching) > MaxCandidates]

\* The value of an operation that is not refused.
Value(ps, op) ==
  CASE op.kind = "query" -> [open |-> Page(ps, op.head, {"OPEN"}),
                             historical |-> Page(ps, op.head, {"CLOSED", "MERGED"})]
    [] op.kind = "create" -> NextNumber(ps)
    [] op.kind = "update" -> None

\* One operation after another: one that is refused leaves a null and an error,
\* and the ones after it are executed all the same.
Handle(acc, op) ==
  IF Refuses(acc.prs, op) THEN [acc EXCEPT !.errors = TRUE]
  ELSE [acc EXCEPT !.prs = CASE op.kind = "create" -> Created(@, op)
                             [] op.kind = "update" -> Updated(@, op)
                             [] OTHER -> @,
                   !.data = Append(@, Value(acc.prs, op)),
                   !.done = Append(@, op)]

\* A document after each of its operations.
After(ops) ==
  LET after[n \in 0..Len(ops)] ==
        IF n = 0 THEN [prs |-> prs, data |-> << >>, done |-> << >>, errors |-> FALSE]
        ELSE Handle(after[n - 1], ops[n])
  IN  after

Handled(ops) == After(ops)[Len(ops)]

\* Mutation of OverLimit: the limit itself is too much.
OverLimitAt(ops) == Len(ops) >= limit

OverLimit(ops) == Len(ops) > limit

\* Only the fault in front is looked at.
Faulted(ops) ==
  /\ faults # << >>
  /\ \/ Head(faults) = "graphql"
     \/ \E op \in Range(ops) : Head(faults) \in {"create", "update"} /\ op.kind = Head(faults)

\* A request that is answered with an error as a whole executes nothing.
Denied(errors, left) ==
  [errors |-> errors, data |-> << >>, done |-> << >>, prs |-> prs, faults |-> left]

Served(ops) ==
  LET h == Handled(ops)
  IN  [errors |-> IF h.errors THEN "other" ELSE "none",
       data |-> h.data, done |-> h.done, prs |-> h.prs, faults |-> faults]

\* Mutation of Reply: an injected fault reads like a resource limit.
ReplyFaultAsLimit(ops) ==
  IF OverLimit(ops) THEN Denied("limit", faults)
  ELSE IF Faulted(ops) THEN Denied("limit", Tail(faults))
  ELSE Served(ops)

\* The response to a request, the operations that were executed, and the pull
\* requests and the faults that are left.
Reply(ops) ==
  IF OverLimit(ops) THEN Denied("limit", faults)
  ELSE IF Faulted(ops) THEN Denied("other", Tail(faults))
  ELSE Served(ops)

\* What the handler does to the server.
Graphql(reply) ==
  /\ faults' = reply.faults
  /\ prs' = reply.prs
  /\ UNCHANGED <<refs, limit, pushes>>

\* git as the interceptor answers for it: an injected fault, or system git.
GitFaulted(operation) == faults # << >> /\ Head(faults) = operation

GitFault(operation) ==
  /\ GitFaulted(operation)
  /\ faults' = Tail(faults)
  /\ UNCHANGED <<prs, refs, limit, pushes>>

\* Mutation of CompleteGit: only pushes that succeed are recorded.
CompleteGitOfSuccess(code) ==
  /\ pushes' = IF code = 0 THEN Append(pushes, code) ELSE pushes
  /\ UNCHANGED <<prs, refs, faults, limit>>

\* complete_git: the interceptor reports how git ended.
CompleteGit(code) ==
  /\ pushes' = Append(pushes, code)
  /\ UNCHANGED <<prs, refs, faults, limit>>
=============================================================================
