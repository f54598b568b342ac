--------------------------- MODULE BatchedGraphql ---------------------------
(***************************************************************************)
(* How gherrit sends a list of GraphQL operations, queries or mutations,   *)
(* to GitHub (run_batched_graphql in src/pre_push/mod.rs, BatchPlan in     *)
(* batching.rs): in batches, one request each, halving the batch when the  *)
(* request is too large or GitHub reports a resource limit, and giving up  *)
(* on any other error.  GitHub executes the mutations of a request one      *)
(* after another, the others too when one is refused, so a request that    *)
(* fails may have executed any of them.                                     *)
(***************************************************************************)
EXTENDS Integers, Sequences, Functions

CONSTANTS
  MaxBatchLen,   \* INITIAL_GRAPHQL_BATCH_LEN (64)
  Costs,         \* what the lengths of the operations' documents may be
  MaxQueryBytes  \* MAX_GRAPHQL_QUERY_BYTES (256 KiB)

ASSUME BatchedAssumption ==
  /\ MaxBatchLen \in Nat \ {0}
  /\ Costs \subseteq Seq(Nat)
  /\ MaxQueryBytes \in Nat \ {0}

VARIABLES
  cost,      \* the lengths of the operations' documents, in their order
  cursor,    \* the first operation that has not been accepted
  batchLen,  \* batch_len, a NonZeroUsize
  executed,  \* how often GitHub has executed every operation
  outputs,   \* the operations whose results have been decoded
  status     \* "running", "done", "failed" or "tooLarge"

\* operations.len(), and the indices of the operations.
ItemCount == Len(cost)
Ops == 0..(ItemCount - 1)

batchVars == <<cost, cursor, batchLen, executed, outputs, status>>

Init ==
  /\ cost \in Costs
  /\ cursor = 0
  /\ batchLen = MaxBatchLen
  /\ executed = [i \in Ops |-> 0]
  /\ outputs = << >>
  /\ status = "running"

\* BatchPlan::current, as a half-open range.
End == IF cursor + batchLen <= ItemCount THEN cursor + batchLen ELSE ItemCount
Current == cursor..(End - 1)

Pending == status = "running" /\ cursor < ItemCount

\* query_exceeds_limit, decided before anything is sent.
ExceedsLimit ==
  LET size[n \in cursor..End] == IF n = cursor THEN 0 ELSE size[n - 1] + cost[n]
  IN  size[End] > MaxQueryBytes

Execute(S) == executed' = [i \in Ops |-> executed[i] + (IF i \in S THEN 1 ELSE 0)]

\* Mutations of AcceptBatch: the next batch begins one operation too early, or
\* one too late.
AcceptBatchTwice ==
  /\ Pending
  /\ ~ExceedsLimit
  /\ Execute(Current)
  /\ outputs' = outputs \o [k \in 1..(End - cursor) |-> cursor + k - 1]
  /\ cursor' = IF End = ItemCount THEN End ELSE End - 1
  /\ UNCHANGED <<cost, batchLen, status>>

AcceptBatchSkipping ==
  /\ Pending
  /\ ~ExceedsLimit
  /\ Execute(Current)
  /\ outputs' = outputs \o [k \in 1..(End - cursor) |-> cursor + k - 1]
  /\ cursor' = IF End = ItemCount THEN End ELSE End + 1
  /\ UNCHANGED <<cost, batchLen, status>>

\* Everything was executed and every result decodes: accept() moves on.
AcceptBatch ==
  /\ Pending
  /\ ~ExceedsLimit
  /\ Execute(Current)
  /\ outputs' = outputs \o [k \in 1..(End - cursor) |-> cursor + k - 1]
  /\ cursor' = End
  /\ UNCHANGED <<cost, batchLen, status>>

\* Mutations of HalveBatch: down to an empty batch, or to the same.
HalveBatchToNothing ==
  /\ Pending
  /\ batchLen' = (End - cursor) \div 2
  /\ UNCHANGED <<cost, cursor, executed, outputs, status>>

HalveBatchRetrying ==
  /\ Pending
  /\ End - cursor > 1
  /\ batchLen' = End - cursor
  /\ UNCHANGED <<cost, cursor, executed, outputs, status>>

\* reject(): the query is too long to be sent, or GitHub answers with nothing
\* but resource limit errors and no data, and has executed nothing.
HalveBatch ==
  /\ Pending
  /\ End - cursor > 1
  /\ batchLen' = (End - cursor) \div 2
  /\ UNCHANGED <<cost, cursor, executed, outputs, status>>

ItemTooLarge ==
  /\ Pending
  /\ End - cursor = 1
  /\ status' = "tooLarge"
  /\ UNCHANGED <<cost, cursor, batchLen, executed, outputs>>

\* A transport error, any other GraphQL error, or a result that does not
\* decode: any operations of the batch may have been executed.
FailWith(S) ==
  /\ Pending
  /\ ~ExceedsLimit
  /\ Execute(S)
  /\ status' = "failed"
  /\ UNCHANGED <<cost, cursor, batchLen, outputs>>

FailBatch == \E S \in SUBSET Current : FailWith(S)

\* current() is None.
AllAccepted ==
  /\ status = "running" /\ cursor = ItemCount
  /\ status' = "done"
  /\ UNCHANGED <<cost, cursor, batchLen, executed, outputs>>

Next == AcceptBatch \/ HalveBatch \/ ItemTooLarge \/ FailBatch \/ AllAccepted

\* The request loop does not stop by itself, and every request is answered or
\* fails.
Spec == Init /\ [][Next]_batchVars /\ WF_batchVars(Next)

-----------------------------------------------------------------------------
(* Properties *)

TypeOK ==
  /\ cost \in Costs
  /\ cursor \in 0..ItemCount
  /\ batchLen \in 1..MaxBatchLen
  /\ executed \in [Ops -> Nat]
  /\ outputs \in Seq(Ops)
  /\ status \in {"running", "done", "failed", "tooLarge"}

\* No operation is sent to GitHub again once GitHub may have executed it:
\* backing off never repeats a mutation, such as the creation of a pull request.
ExecutedAtMostOnce == \A i \in Ops : executed[i] <= 1

\* What a run has executed is known but for one batch, the one it failed in: all
\* that has been accepted and nothing beyond that batch.
InDoubtIsOneBatch ==
  \A i \in Ops : /\ i < cursor => executed[i] > 0
                 /\ i >= End => executed[i] = 0

\* The results are those of all operations, each once and in order, when the
\* loop ends: callers zip them with the operations and assert their number.
OutputsMatch ==
  /\ outputs = [k \in 1..cursor |-> k - 1]
  /\ status = "done" => cursor = ItemCount

-----------------------------------------------------------------------------
(* The inductive invariant *)

\* What has been accepted was executed once, what is in doubt at most once, and
\* nothing else.
BatchInv ==
  /\ TypeOK
  /\ OutputsMatch
  /\ \A i \in Ops : /\ executed[i] \in 0..1
                    /\ i < cursor => executed[i] = 1
                    /\ i >= End => executed[i] = 0
  /\ status # "failed" => \A i \in Ops : i >= cursor => executed[i] = 0
=============================================================================
