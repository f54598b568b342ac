------------------------ MODULE BatchedGraphqlProofs ------------------------
(* Theorems about BatchedGraphql, for every number and length of operations *)
(* and every sequence of answers.                                            *)
EXTENDS BatchedGraphql, SequenceTheorems, TLAPS

\* There are as many operations as documents.
LEMMA ItemCountNat == cost \in Costs => ItemCount \in Nat
BY BatchedAssumption DEF ItemCount

\* The end of the current batch, within the operations.
LEMMA EndBounds == TypeOK => /\ cursor \in Nat /\ ItemCount \in Nat /\ End \in Nat
                             /\ cursor <= End /\ End <= ItemCount
BY BatchedAssumption, ItemCountNat DEF TypeOK, End

LEMMA EndBoundsNext == TypeOK' => /\ cursor' \in Nat /\ ItemCount' \in Nat /\ End' \in Nat
                                  /\ cursor' <= End' /\ End' <= ItemCount'
<1>1. TypeOK' => /\ cursor' \in 0..ItemCount' /\ batchLen' \in 1..MaxBatchLen
                 /\ ItemCount' = Len(cost') /\ cost' \in Seq(Nat)
  BY BatchedAssumption DEF TypeOK, ItemCount
<1> QED BY <1>1, BatchedAssumption DEF End

\* The operations of a call do not change.
LEMMA SameOps == cost' = cost => ItemCount' = ItemCount /\ Ops' = Ops
BY DEF ItemCount, Ops

LEMMA BatchInit == Init => BatchInv
<1> SUFFICES ASSUME Init PROVE BatchInv OBVIOUS
<1> USE BatchedAssumption DEF Init
<1>1. TypeOK
  <2>1. outputs \in Seq(Ops) OBVIOUS
  <2>2. ItemCount \in Nat BY ItemCountNat
  <2> QED BY <2>1, <2>2 DEF TypeOK
<1>2. OutputsMatch BY DEF OutputsMatch
<1>3. \A i \in Ops : executed[i] = 0 /\ i >= 0 BY DEF Ops
<1> QED BY <1>1, <1>2, <1>3 DEF BatchInv

\* The current batch is not empty, and no longer than batch_len.
LEMMA EndFacts ==
  ASSUME TypeOK, Pending
  PROVE  /\ cursor \in Nat /\ ItemCount \in Nat /\ End \in (cursor + 1)..ItemCount
         /\ End - cursor \in 1..batchLen
<1>1. ItemCount \in Nat /\ cursor \in 0..ItemCount /\ batchLen \in 1..MaxBatchLen
  BY BatchedAssumption, ItemCountNat DEF TypeOK
<1> QED BY <1>1, BatchedAssumption DEF Pending, End

\* What executing operations that were not executed before leaves.
LEMMA ExecuteFacts ==
  ASSUME NEW S, Execute(S), executed \in [Ops -> Nat]
  PROVE  /\ executed' \in [Ops -> Nat]
         /\ \A i \in Ops : executed'[i] = IF i \in S THEN executed[i] + 1 ELSE executed[i]
BY DEF Execute

LEMMA BatchStep == BatchInv /\ [Next]_batchVars => BatchInv'
<1> SUFFICES ASSUME BatchInv, [Next]_batchVars PROVE BatchInv'
  OBVIOUS
<1>i. TypeOK /\ OutputsMatch BY DEF BatchInv
<1>o. cost' = cost => ItemCount' = ItemCount /\ Ops' = Ops BY SameOps
<1>1. CASE AcceptBatch
  <2>0. PICK e \in Nat : e = End /\ e \in (cursor + 1)..ItemCount
    BY <1>i, <1>1, EndFacts DEF AcceptBatch
  <2>1. /\ status = "running" /\ status' = "running" /\ cursor' = e
        /\ cost' = cost /\ batchLen' = batchLen /\ Execute(cursor..(e - 1))
        /\ outputs' = outputs \o [k \in 1..(e - cursor) |-> cursor + k - 1]
    BY <1>1, <2>0 DEF AcceptBatch, Pending, Current
  <2>2. cursor \in Nat /\ ItemCount \in Nat /\ cursor <= e
    BY <1>i, EndBounds, <2>0
  <2>3. /\ executed' \in [Ops -> Nat]
        /\ \A i \in Ops : executed'[i] = IF i < e THEN 1 ELSE 0
    <3>1. \A i \in Ops : i \in Int /\ (i < cursor => executed[i] = 1)
                                /\ (i >= cursor => executed[i] = 0)
      BY <2>1, BatchedAssumption DEF BatchInv, Ops
    <3>2. /\ executed' \in [Ops -> Nat]
          /\ \A i \in Ops : executed'[i] =
               IF i \in cursor..(e - 1) THEN executed[i] + 1 ELSE executed[i]
      BY <1>i, <2>1, ExecuteFacts DEF TypeOK
    <3> QED BY <2>2, <3>1, <3>2
  <2>4. outputs' = [k \in 1..e |-> k - 1] /\ outputs' \in Seq(Ops)
    <3> DEFINE new == [k \in 1..(e - cursor) |-> cursor + k - 1]
               all == [k \in 1..e |-> k - 1]
    <3>1. new \in Seq(Ops) /\ Len(new) = e - cursor BY <2>0, <2>2 DEF Ops
    <3>2. all \in Seq(Ops) /\ Len(all) = e BY <2>0, <2>2 DEF Ops
    <3>3. outputs \in Seq(Ops) /\ outputs = [k \in 1..cursor |-> k - 1] /\ Len(outputs) = cursor
      BY <1>i, <2>2 DEF TypeOK, OutputsMatch
    <3>4. outputs' = outputs \o new BY <2>1
    <3>5. /\ outputs \o new \in Seq(Ops) /\ Len(outputs \o new) = e
          /\ \A k \in 1..e : (outputs \o new)[k] =
               IF k <= cursor THEN outputs[k] ELSE new[k - cursor]
      <4> HIDE DEF new
      <4>1. cursor + (e - cursor) = e BY <2>2
      <4>2. /\ outputs \o new \in Seq(Ops)
            /\ Len(outputs \o new) = Len(outputs) + Len(new)
            /\ \A k \in 1..(Len(outputs) + Len(new)) : (outputs \o new)[k] =
                 IF k <= Len(outputs) THEN outputs[k] ELSE new[k - Len(outputs)]
        BY <3>1, <3>3, ConcatProperties
      <4>3. Len(outputs) = cursor /\ Len(outputs) + Len(new) = e BY <3>1, <3>3, <4>1
      <4> QED BY <4>2, <4>3
    <3>6. \A k \in 1..e : (outputs \o new)[k] = all[k]
      <4> SUFFICES ASSUME NEW k \in 1..e PROVE (outputs \o new)[k] = k - 1 OBVIOUS
      <4>1. CASE k <= cursor
        <5>1. k \in 1..cursor BY <4>1, <2>2
        <5>2. outputs[k] = k - 1 BY <3>3, <5>1
        <5> QED BY <3>5, <4>1, <5>2
      <4>2. CASE ~ (k <= cursor)
        <5>1. k - cursor \in 1..(e - cursor) BY <4>2, <2>2
        <5>2. new[k - cursor] = cursor + (k - cursor) - 1 BY <5>1
        <5>3. cursor + (k - cursor) - 1 = k - 1 BY <2>2
        <5>4. (outputs \o new)[k] = new[k - cursor]
          <6> HIDE DEF new
          <6> QED BY <3>5, <4>2
        <5> QED BY <5>2, <5>3, <5>4
      <4> QED BY <4>1, <4>2
    <3> HIDE DEF new, all
    <3>7. outputs \o new = all BY <3>2, <3>5, <3>6, SeqEqual
    <3> QED BY <3>2, <3>4, <3>7 DEF all
  <2>5. TypeOK' BY <1>i, <1>o, <2>0, <2>1, <2>2, <2>3, <2>4 DEF TypeOK
  <2>6. OutputsMatch' BY <2>1, <2>4 DEF OutputsMatch
  <2>7. /\ \A i \in Ops : executed'[i] \in 0..1 /\ (i < cursor' => executed'[i] = 1)
        /\ \A i \in Ops : i >= cursor' => executed'[i] = 0
    BY <2>1, <2>2, <2>3, BatchedAssumption DEF Ops
  <2>8. cursor' \in Nat /\ End' \in Nat /\ cursor' <= End' BY <2>5, EndBoundsNext
  <2>9. \A i \in Ops : i >= End' => executed'[i] = 0 BY <2>7, <2>8 DEF Ops
  <2> QED BY <1>o, <2>1, <2>5, <2>6, <2>7, <2>9 DEF BatchInv
<1>2. CASE HalveBatch
  <2>1. (End - cursor) \div 2 \in 1..MaxBatchLen
    <3>1. End - cursor \in 1..batchLen /\ End - cursor > 1 BY <1>i, <1>2, EndFacts DEF HalveBatch
    <3>2. batchLen \in 1..MaxBatchLen /\ MaxBatchLen \in Nat BY <1>i, BatchedAssumption DEF TypeOK
    <3> HIDE DEF End
    <3> QED BY <3>1, <3>2
  <2>2. /\ batchLen' \in 1..MaxBatchLen
        /\ UNCHANGED <<cost, cursor, executed, outputs, status>>
    BY <1>2, <2>1 DEF HalveBatch
  <2>3. status = "running" BY <1>2 DEF HalveBatch, Pending
  <2>4. TypeOK' /\ OutputsMatch' BY <1>i, <1>o, <2>2 DEF TypeOK, OutputsMatch
  <2>5. cursor' \in Nat /\ End' \in Nat /\ cursor' <= End' BY <2>4, EndBoundsNext
  <2>6. /\ \A i \in Ops : executed'[i] \in 0..1 /\ (i < cursor' => executed'[i] = 1)
        /\ \A i \in Ops : i >= cursor' => executed'[i] = 0
    BY <2>2, <2>3 DEF BatchInv
  <2>7. \A i \in Ops : i >= End' => executed'[i] = 0
    BY <2>5, <2>6 DEF Ops
  <2> QED BY <1>o, <2>2, <2>4, <2>6, <2>7 DEF BatchInv
<1>3. CASE ItemTooLarge
  BY <1>3, <1>o DEF ItemTooLarge, Pending, BatchInv, TypeOK, OutputsMatch, End
<1>4. CASE FailBatch
  <2>1. /\ status = "running" /\ status' = "failed"
        /\ UNCHANGED <<cost, cursor, batchLen, outputs>>
    BY <1>4 DEF FailBatch, FailWith, Pending
  <2>2. PICK S \in SUBSET Current : Execute(S) BY <1>4 DEF FailBatch, FailWith
  <2>3. /\ executed' \in [Ops -> Nat]
        /\ \A i \in Ops : executed'[i] = IF i \in S THEN executed[i] + 1 ELSE executed[i]
    BY <1>i, <2>2, ExecuteFacts DEF TypeOK
  <2>4. \A i \in Ops : /\ executed[i] \in 0..1
                       /\ i < cursor => executed[i] = 1
                       /\ i >= cursor => executed[i] = 0
                       /\ i >= End => executed[i] = 0
    BY <2>1 DEF BatchInv
  <2>5. \A i \in S : i >= cursor /\ i < End
    <3>1. cursor \in Int /\ End \in Int BY <1>i, EndBounds
    <3> QED BY <2>2, <3>1 DEF Current
  <2>6. \A i \in Ops : /\ executed'[i] \in 0..1
                       /\ i < cursor => executed'[i] = 1
                       /\ i >= End => executed'[i] = 0
    <3>1. cursor \in Int /\ End \in Int /\ Ops \subseteq Int
      BY <1>i, EndBounds DEF Ops
    <3> SUFFICES ASSUME NEW i \in Ops
                 PROVE  /\ executed'[i] \in 0..1
                        /\ i < cursor => executed'[i] = 1
                        /\ i >= End => executed'[i] = 0
      OBVIOUS
    <3>2. CASE i \in S BY <2>3, <2>4, <2>5, <3>1, <3>2
    <3>3. CASE i \notin S BY <2>3, <2>4, <3>3
    <3> QED BY <3>2, <3>3
  <2>7. TypeOK' /\ OutputsMatch' BY <1>i, <1>o, <2>1, <2>3 DEF TypeOK, OutputsMatch
  <2>8. End' = End BY <1>o, <2>1 DEF End
  <2> QED BY <1>o, <2>1, <2>6, <2>7, <2>8 DEF BatchInv
<1>5. CASE AllAccepted
  BY <1>5, <1>o DEF AllAccepted, BatchInv, TypeOK, OutputsMatch, End
<1>6. CASE UNCHANGED batchVars
  BY <1>6, <1>o DEF batchVars, BatchInv, TypeOK, OutputsMatch, End
<1> QED BY <1>1, <1>2, <1>3, <1>4, <1>5, <1>6 DEF Next

\* What has been accepted was executed once and in doubt is one batch at most,
\* and results match the operations one to one.
THEOREM BatchInvariance == Spec => []BatchInv
BY BatchInit, BatchStep, PTL DEF Spec

\* Backing off never repeats an operation.
THEOREM ExecutedAtMostOnceHolds == Spec => []ExecutedAtMostOnce
<1>1. BatchInv => ExecutedAtMostOnce BY DEF BatchInv, ExecutedAtMostOnce
<1> QED BY <1>1, BatchInvariance, PTL

\* After a failure only the operations of one batch are in doubt: everything
\* accepted has been executed, and nothing beyond that batch.
THEOREM InDoubtIsOneBatchHolds == Spec => []InDoubtIsOneBatch
<1>1. BatchInv => InDoubtIsOneBatch BY DEF BatchInv, InDoubtIsOneBatch
<1> QED BY <1>1, BatchInvariance, PTL
=============================================================================
