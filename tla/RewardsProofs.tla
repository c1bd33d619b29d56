--------------------------- MODULE RewardsProofs ---------------------------
(***************************************************************************)
(* Proofs about Rewards, for every set of rewards, owners, requests, every *)
(* amount, threshold and bound.  Theorems that need one of the hazards to  *)
(* be absent say so in their ASSUME.                                       *)
(***************************************************************************)
EXTENDS Rewards, TLAPS

\* The state is well typed whatever the environment does: in particular the
\* counters stay natural numbers and every request is at a known step.
THEOREM TypeCorrect == Spec => []TypeOK
<1> USE RewardsAssumption
<1>1. Init => TypeOK
  BY DEF Init, TypeOK, RowsOK, RequestsOK, AtReward, Unread, NoTransfer, Steps
<1>2. TypeOK /\ [Next]_vars => TypeOK'
  <2> SUFFICES ASSUME TypeOK, [Next]_vars PROVE TypeOK'
    OBVIOUS
  <2> USE DEF TypeOK
  <2>1. ASSUME NEW r \in Reward, TriageDecision(r) PROVE TypeOK'
    BY <2>1 DEF TriageDecision, RowsOK, RequestsOK, AtReward, rowVars, callVars
  <2>2. ASSUME NEW r \in Reward, ProposeReward(r) PROVE TypeOK'
    BY <2>2 DEF ProposeReward, RowsOK, RequestsOK, AtReward, rowVars, callVars, RewardStatus
  <2>3. ASSUME NEW r \in Reward, ApproveReward(r) PROVE TypeOK'
    BY <2>3 DEF ApproveReward, RowsOK, RequestsOK, AtReward, rowVars, callVars, RewardStatus
  <2>4. ASSUME NEW r \in Reward, DeclineReward(r) PROVE TypeOK'
    BY <2>4 DEF DeclineReward, RowsOK, RequestsOK, AtReward, rowVars, callVars, RewardStatus
  <2>5. ASSUME NEW r \in Reward, DirectUpdate(r) PROVE TypeOK'
    BY <2>5 DEF DirectUpdate, RowsOK, RequestsOK, AtReward, rowVars, callVars, RewardStatus
  <2>6. ASSUME NEW p \in Payee, RefreshStripeStatus(p) PROVE TypeOK'
    BY <2>6 DEF RefreshStripeStatus, RowsOK, RequestsOK, AtReward, rowVars, callVars
  <2>7. ASSUME NEW c \in Call, NEW S \in SUBSET Reward, Click(c, S) PROVE TypeOK'
    <3>1. RowsOK'
      BY <2>7 DEF Click, RowsOK, RequestsOK, AtReward, rowVars, callVars
    <3>2. RequestsOK'
      BY <2>7 DEF Click, RequestsOK, AtReward, Steps, callVars
    <3>3. AtReward'
      BY <2>7 DEF Click, RequestsOK, AtReward, callVars
    <3> QED
      BY <3>1, <3>2, <3>3
  <2>8. ASSUME NEW c \in Call, ReadReward(c) PROVE TypeOK'
    <3>1. RowsOK'
      BY <2>8 DEF ReadReward, RowsOK, RequestsOK, AtReward, rowVars, callVars
    <3>2. RequestsOK'
      <4>1. PICK r \in batch[c] :
              /\ batch' = [batch EXCEPT ![c] = @ \ {r}]
              /\ \/ /\ pc' = [pc EXCEPT ![c] = "checked"]
                    /\ row' = [row EXCEPT ![c] = r]
                 \/ UNCHANGED <<pc, row>>
        BY <2>8 DEF ReadReward
      <4>2. r \in Reward
        BY DEF RequestsOK
      <4>3. batch' \in [Call -> SUBSET Reward]
        BY <4>1 DEF RequestsOK
      <4>4. row' \in [Call -> Reward \union {NoReward}]
        BY <4>1, <4>2 DEF RequestsOK
      <4>5. pc' \in [Call -> Steps]
        <5>1. "checked" \in Steps
          BY DEF Steps
        <5> QED
          BY <4>1, <5>1 DEF RequestsOK
      <4> QED
        BY <2>8, <4>3, <4>4, <4>5 DEF ReadReward, RequestsOK
    <3>3. AtReward'
      BY <2>8 DEF ReadReward, RequestsOK, AtReward, callVars
    <3> QED
      BY <3>1, <3>2, <3>3
  <2>9. ASSUME NEW c \in Call, ReadPool(c) PROVE TypeOK'
    <3>1. RowsOK'
      BY <2>9 DEF ReadPool, RowsOK, RequestsOK, AtReward, rowVars, callVars
    <3>2. RequestsOK'
      BY <2>9 DEF ReadPool, RequestsOK, AtReward, Steps, callVars, Poolable, EligibleRewards
    <3>3. AtReward'
      BY <2>9 DEF ReadPool, RequestsOK, AtReward, callVars
    <3> QED
      BY <3>1, <3>2, <3>3
  <2>10. ASSUME NEW c \in Call, Hold(c) PROVE TypeOK'
    <3>1. RowsOK'
      BY <2>10, ZenonT(40) DEF Hold, RowsOK, RequestsOK, AtReward, rowVars, callVars
    <3>2. RequestsOK'
      BY <2>10 DEF Hold, RequestsOK, AtReward, Steps, callVars
    <3>3. AtReward'
      BY <2>10 DEF Hold, RequestsOK, AtReward, callVars
    <3> QED
      BY <3>1, <3>2, <3>3
  <2>11. ASSUME NEW c \in Call, MarkProcessing(c) PROVE TypeOK'
    <3>1. RowsOK'
      BY <2>11 DEF MarkProcessing, RowsOK, RequestsOK, AtReward, rowVars, callVars
    <3>2. RequestsOK'
      BY <2>11 DEF MarkProcessing, RequestsOK, AtReward, Steps, callVars
    <3>3. AtReward'
      BY <2>11 DEF MarkProcessing, RequestsOK, AtReward, callVars
    <3> QED
      BY <3>1, <3>2, <3>3
  <2>12. ASSUME NEW c \in Call, StripeTransfers(c) PROVE TypeOK'
    <3>1. RowsOK'
      BY <2>12 DEF StripeTransfers, RowsOK, RequestsOK, AtReward, rowVars, callVars
    <3>2. RequestsOK'
      BY <2>12 DEF StripeTransfers, RequestsOK, AtReward, Steps, callVars
    <3>3. AtReward'
      BY <2>12 DEF StripeTransfers, RequestsOK, AtReward, callVars
    <3> QED
      BY <3>1, <3>2, <3>3
  <2>13. ASSUME NEW c \in Call, StripeRefuses(c) PROVE TypeOK'
    <3>1. RowsOK'
      BY <2>13 DEF StripeRefuses, RowsOK, RequestsOK, AtReward, rowVars, callVars
    <3>2. RequestsOK'
      BY <2>13 DEF StripeRefuses, RequestsOK, AtReward, Steps, callVars
    <3>3. AtReward'
      BY <2>13 DEF StripeRefuses, RequestsOK, AtReward, callVars
    <3> QED
      BY <3>1, <3>2, <3>3
  <2>14. ASSUME NEW c \in Call, RecordPaid(c) PROVE TypeOK'
    <3>1. RowsOK'
      <4>1. /\ status' \in [Reward -> RewardStatus \union {"none"}]
            /\ held' \in [Reward -> BOOLEAN]
        BY <2>14 DEF RecordPaid, RowsOK, RewardStatus
      <4>2. /\ payoutStatus' \in [Reward ->
                    {"not_started", "processing", "succeeded", "failed"}]
            /\ transferId' \in [Reward -> SUBSET Reward]
        BY <2>14, SMTT(30) DEF RecordPaid, RowsOK, RequestsOK
      <4> QED
        BY <2>14, <4>1, <4>2 DEF RecordPaid, RowsOK
    <3>2. RequestsOK'
      BY <2>14 DEF RecordPaid, RequestsOK, AtReward, Steps, callVars
    <3>3. AtReward'
      BY <2>14 DEF RecordPaid, RequestsOK, AtReward, callVars
    <3> QED
      BY <3>1, <3>2, <3>3
  <2>15. ASSUME NEW c \in Call, CreditRead(c) PROVE TypeOK'
    <3>1. RowsOK'
      BY <2>15 DEF CreditRead, RowsOK, RequestsOK, AtReward, rowVars, callVars
    <3>2. RequestsOK'
      <4>1. PICK r \in todo[c] :
              \/ /\ row' = [row EXCEPT ![c] = r]
                 /\ seen' = [seen EXCEPT ![c][r] = totalPaid[ProgramOf[r]]]
                 /\ pc' = [pc EXCEPT ![c] = "creditWrite"]
                 /\ UNCHANGED todo
              \/ /\ todo' = [todo EXCEPT ![c] = @ \ {r}]
                 /\ UNCHANGED <<pc, row, seen>>
        BY <2>15 DEF CreditRead
      <4>2. r \in Reward /\ totalPaid[ProgramOf[r]] \in Nat
        BY DEF RequestsOK, RowsOK
      <4>3. [seen[c] EXCEPT ![r] = totalPaid[ProgramOf[r]]] \in [Reward -> Nat]
        BY <4>2 DEF RequestsOK
      <4>4. seen' \in [Call -> [Reward -> Nat]]
        BY <4>1, <4>3 DEF RequestsOK
      <4>5. row' \in [Call -> Reward \union {NoReward}]
        BY <4>1, <4>2 DEF RequestsOK
      <4>7. todo' \in [Call -> SUBSET Reward]
        BY <4>1 DEF RequestsOK
      <4>6. pc' \in [Call -> Steps]
        <5>1. "creditWrite" \in Steps
          BY DEF Steps
        <5> QED
          BY <4>1, <5>1 DEF RequestsOK
      <4> QED
        BY <2>15, <4>4, <4>5, <4>6, <4>7 DEF CreditRead, RequestsOK
    <3>3. AtReward'
      BY <2>15 DEF CreditRead, RequestsOK, AtReward, callVars
    <3> QED
      BY <3>1, <3>2, <3>3
  <2>16. ASSUME NEW c \in Call, CreditWrite(c) PROVE TypeOK'
    <3>1. RowsOK'
      <4>1. row[c] \in Reward
        BY <2>16 DEF CreditWrite, AtReward
      <4>2. seen[c][row[c]] + Amount[row[c]] \in Nat
        BY <4>1 DEF RequestsOK
      <4>3. totalPaid' \in [Program -> Nat]
        BY <2>16, <4>1, <4>2 DEF CreditWrite, RowsOK
      <4> QED
        BY <2>16, <4>3 DEF CreditWrite, RowsOK, rowVars
    <3>2. RequestsOK'
      BY <2>16 DEF CreditWrite, RequestsOK, AtReward, Steps, callVars, Unread
    <3>3. AtReward'
      BY <2>16 DEF CreditWrite, RequestsOK, AtReward, callVars
    <3> QED
      BY <3>1, <3>2, <3>3
  <2>17. ASSUME NEW c \in Call, RecordFailed(c) PROVE TypeOK'
    <3>1. RowsOK'
      BY <2>17 DEF RecordFailed, RowsOK, RequestsOK, AtReward, rowVars, callVars
    <3>2. RequestsOK'
      BY <2>17 DEF RecordFailed, RequestsOK, AtReward, Steps, callVars
    <3>3. AtReward'
      BY <2>17 DEF RecordFailed, RequestsOK, AtReward, callVars
    <3> QED
      BY <3>1, <3>2, <3>3
  <2>18. ASSUME NEW c \in Call, ReadCounts(c) PROVE TypeOK'
    <3>1. RowsOK'
      BY <2>18 DEF ReadCounts, RowsOK, RequestsOK, AtReward, rowVars, callVars
    <3>2. RequestsOK'
      <4>1. [r \in Reward |-> IF r \in pool[c] THEN retryCount[r] ELSE 0]
              \in [Reward -> Nat]
        BY DEF RowsOK
      <4>2. seen' \in [Call -> [Reward -> Nat]]
        BY <2>18, <4>1 DEF ReadCounts, RequestsOK
      <4>3. todo' \in [Call -> SUBSET Reward]
        BY <2>18 DEF ReadCounts, RequestsOK
      <4> QED
        BY <2>18, <4>2, <4>3 DEF ReadCounts, RequestsOK, Steps
    <3>3. AtReward'
      BY <2>18 DEF ReadCounts, RequestsOK, AtReward, callVars
    <3> QED
      BY <3>1, <3>2, <3>3
  <2>19. ASSUME NEW c \in Call, BumpRetryCount(c) PROVE TypeOK'
    <3>1. RowsOK'
      <4>1. PICK r \in todo[c] :
                \/ retryCount' = [retryCount EXCEPT ![r] = seen[c][r] + 1]
                \/ UNCHANGED retryCount
        BY <2>19 DEF BumpRetryCount
      <4>2. r \in Reward /\ seen[c][r] + 1 \in Nat
        BY DEF RequestsOK
      <4>3. retryCount' \in [Reward -> Nat]
        BY <4>1, <4>2 DEF RowsOK
      <4> QED
        BY <2>19, <4>3 DEF BumpRetryCount, RowsOK
    <3>2. RequestsOK'
      BY <2>19 DEF BumpRetryCount, RequestsOK, AtReward, Steps, callVars
    <3>3. AtReward'
      BY <2>19 DEF BumpRetryCount, RequestsOK, AtReward, callVars
    <3> QED
      BY <3>1, <3>2, <3>3
  <2>20. ASSUME NEW c \in Call, Settled(c) PROVE TypeOK'
    <3>1. RowsOK'
      BY <2>20 DEF Settled, RowsOK, RequestsOK, AtReward, rowVars, callVars
    <3>2. RequestsOK'
      BY <2>20 DEF Settled, RequestsOK, AtReward, Steps, callVars, Unread
    <3>3. AtReward'
      BY <2>20 DEF Settled, RequestsOK, AtReward, callVars
    <3> QED
      BY <3>1, <3>2, <3>3
  <2>21. ASSUME NEW c \in Call, Finish(c) PROVE TypeOK'
    <3>1. RowsOK'
      BY <2>21 DEF Finish, RowsOK, RequestsOK, AtReward, rowVars, callVars
    <3>2. RequestsOK'
      BY <2>21 DEF Finish, RequestsOK, AtReward, Steps, callVars
    <3>3. AtReward'
      BY <2>21 DEF Finish, RequestsOK, AtReward, callVars
    <3> QED
      BY <3>1, <3>2, <3>3
  <2>22. ASSUME NEW c \in Call, Crash(c) PROVE TypeOK'
    <3>1. RowsOK'
      BY <2>22 DEF Crash, RowsOK, RequestsOK, AtReward, rowVars, callVars
    <3>2. RequestsOK'
      BY <2>22 DEF Crash, RequestsOK, AtReward, Steps, callVars, Unread
    <3>3. AtReward'
      BY <2>22 DEF Crash, RequestsOK, AtReward, callVars
    <3> QED
      BY <3>1, <3>2, <3>3
  <2>23. CASE UNCHANGED vars
    BY <2>23 DEF RowsOK, RequestsOK, AtReward, vars, rowVars, callVars
  <2> QED
    BY <2>1, <2>2, <2>3, <2>4, <2>5, <2>6, <2>7, <2>8, <2>9, <2>10, <2>11, <2>12, <2>13, <2>14, <2>15, <2>16, <2>17, <2>18, <2>19, <2>20, <2>21, <2>22, <2>23 DEF Next, RequestStep
<1> QED
  BY <1>1, <1>2, PTL DEF Spec

(***************************************************************************)
(* Which actions can touch what the invariants below talk about.           *)
(***************************************************************************)

\* Only five actions write rewards.status or rewards.approved_by.
LEMMA StatusFrame ==
    ASSUME [Next]_vars
    PROVE  \/ \E r \in Reward : \/ ProposeReward(r) \/ ApproveReward(r)
                                \/ DeclineReward(r) \/ DirectUpdate(r)
           \/ \E c \in Call : RecordPaid(c)
           \/ UNCHANGED <<status, approvedBy>>
  BY SMTT(30) DEF Next, RequestStep, vars, rowVars, TriageDecision, RefreshStripeStatus,
         Click, ReadReward, ReadPool, Hold, MarkProcessing, StripeTransfers,
         StripeRefuses, CreditRead, CreditWrite, RecordFailed, ReadCounts,
         BumpRetryCount, Settled, Finish, Crash

\* Platform invariant 1: an approved or paid reward always has an approver,
\* for every set of hazards, rows written behind rewards.ts included.
THEOREM HumanApproval == Spec => []ApproverRecorded
<1>1. Init => ApproverRecorded
  BY DEF Init, ApproverRecorded
<1>2. TypeOK /\ ApproverRecorded /\ [Next]_vars => ApproverRecorded'
  <2> SUFFICES ASSUME TypeOK, ApproverRecorded, [Next]_vars
               PROVE  ApproverRecorded'
    OBVIOUS
  <2> USE DEF ApproverRecorded, TypeOK, RowsOK
  <2>1. ASSUME NEW r \in Reward, ProposeReward(r) PROVE ApproverRecorded'
    BY <2>1 DEF ProposeReward
  <2>2. ASSUME NEW r \in Reward, ApproveReward(r) PROVE ApproverRecorded'
    BY <2>2 DEF ApproveReward, EnforceHumanApproval
  <2>3. ASSUME NEW r \in Reward, DeclineReward(r) PROVE ApproverRecorded'
    BY <2>3 DEF DeclineReward
  <2>4. ASSUME NEW r \in Reward, DirectUpdate(r) PROVE ApproverRecorded'
    BY <2>4 DEF DirectUpdate, EnforceHumanApproval
  <2>5. ASSUME NEW c \in Call, RecordPaid(c) PROVE ApproverRecorded'
    BY <2>5 DEF RecordPaid, EnforceHumanApproval
  <2>6. CASE UNCHANGED <<status, approvedBy>>
    BY <2>6
  <2> QED
    BY <2>1, <2>2, <2>3, <2>4, <2>5, <2>6, StatusFrame
<1> QED
  BY <1>1, <1>2, TypeCorrect, PTL DEF Spec

(***************************************************************************)
(* The money invariant.  What is promised about transfers and paid rows is *)
(* not inductive: it needs to know what a request between reading its pool *)
(* and recording its transfer holds in its hands.                          *)
(***************************************************************************)

OwnerApproved(r) == approvedBy[r] = OwnerOf[r]

Sending == {"mark", "transfer", "sent"}

ApprovedByOwner ==
    /\ \A r \in Reward : status[r] \in {"approved", "paid"} => OwnerApproved(r)
    /\ \A c \in Call : \A r \in pool[c] : OwnerApproved(r)
    /\ \A t \in transfers : \A r \in t : OwnerApproved(r)

SentIsBacked ==
    /\ \A c \in Call : pc[c] = "sent" => pool[c] \in transfers
    /\ PaidIsBacked

Coherent ==
    /\ \A c \in Call : pc[c] \in Sending => OnePayeeWorthPaying(pool[c])
    /\ PoolsAreCoherent

MoneyInv == ApprovedByOwner /\ SentIsBacked /\ Coherent

\* Nobody writes rows behind rewards.ts.
NoDirectSql == "direct_sql" \notin Hazards

\* Approvals: an approver, once recorded, is never taken away, so a pool is
\* still approved when it is sent, however long ago it was read.
LEMMA ApprovedStep ==
    ASSUME NoDirectSql, TypeOK, ApprovedByOwner, [Next]_vars
    PROVE  ApprovedByOwner'
<1> USE RewardsAssumption DEF TypeOK, RowsOK, RequestsOK, ApprovedByOwner, OwnerApproved
<1>1. ASSUME NEW r \in Reward, ProposeReward(r) PROVE ApprovedByOwner'
  BY <1>1 DEF ProposeReward, callVars
<1>2. ASSUME NEW r \in Reward, ApproveReward(r) PROVE ApprovedByOwner'
  BY <1>2 DEF ApproveReward, callVars
<1>3. ASSUME NEW r \in Reward, DeclineReward(r) PROVE ApprovedByOwner'
  BY <1>3 DEF DeclineReward, callVars
<1>4. ASSUME NEW r \in Reward, DirectUpdate(r) PROVE ApprovedByOwner'
  BY <1>4 DEF DirectUpdate, NoDirectSql
<1>5. ASSUME NEW c \in Call, ReadPool(c) PROVE ApprovedByOwner'
  BY <1>5 DEF ReadPool, Poolable, EligibleRewards, rowVars
<1>6. ASSUME NEW c \in Call, StripeTransfers(c) PROVE ApprovedByOwner'
  BY <1>6 DEF StripeTransfers, rowVars
<1>7. ASSUME NEW c \in Call, RecordPaid(c) PROVE ApprovedByOwner'
  BY <1>7 DEF RecordPaid
<1>8. ASSUME NEW c \in Call, Hold(c) \/ Settled(c) \/ Crash(c) PROVE ApprovedByOwner'
  BY <1>8, SMTT(30) DEF Hold, Settled, Crash, rowVars
<1>9. CASE UNCHANGED <<status, approvedBy, pool, transfers>>
  BY <1>9
<1>10. \/ \E r \in Reward : \/ ProposeReward(r) \/ ApproveReward(r)
                            \/ DeclineReward(r) \/ DirectUpdate(r)
       \/ \E c \in Call : \/ ReadPool(c) \/ StripeTransfers(c) \/ RecordPaid(c)
                          \/ Hold(c) \/ Settled(c) \/ Crash(c)
       \/ UNCHANGED <<status, approvedBy, pool, transfers>>
  BY DEF Next, RequestStep, vars, rowVars, callVars, TriageDecision,
         RefreshStripeStatus, Click, ReadReward, MarkProcessing, StripeRefuses,
         CreditRead, CreditWrite, RecordFailed, ReadCounts, BumpRetryCount, Finish
<1> QED
  BY <1>1, <1>2, <1>3, <1>4, <1>5, <1>6, <1>7, <1>8, <1>9, <1>10

\* Backing: only Stripe's answer brings a request to recording the payment,
\* and transfers are never undone.
LEMMA BackedStep ==
    ASSUME NoDirectSql, TypeOK, SentIsBacked, [Next]_vars
    PROVE  SentIsBacked'
<1> USE DEF TypeOK, RowsOK, RequestsOK, SentIsBacked, PaidIsBacked
<1>1. ASSUME NEW r \in Reward,
             ProposeReward(r) \/ ApproveReward(r) \/ DeclineReward(r)
      PROVE  SentIsBacked'
  BY <1>1 DEF ProposeReward, ApproveReward, DeclineReward, callVars
<1>2. ASSUME NEW r \in Reward, DirectUpdate(r) PROVE SentIsBacked'
  BY <1>2 DEF DirectUpdate, NoDirectSql
<1>3. ASSUME NEW c \in Call, StripeTransfers(c) PROVE SentIsBacked'
  BY <1>3 DEF StripeTransfers, rowVars
<1>4. ASSUME NEW c \in Call, RecordPaid(c) PROVE SentIsBacked'
  BY <1>4 DEF RecordPaid
<1>5. ASSUME NEW c \in Call,
             \/ ReadReward(c) \/ ReadPool(c) \/ Hold(c) \/ MarkProcessing(c)
             \/ StripeRefuses(c) \/ CreditRead(c) \/ CreditWrite(c)
             \/ RecordFailed(c) \/ ReadCounts(c) \/ Settled(c)
             \/ Finish(c) \/ Crash(c) \/ (\E S \in SUBSET Reward : Click(c, S))
      PROVE  SentIsBacked'
  <2>1. UNCHANGED <<status, transferId, transfers>>
    BY <1>5 DEF ReadReward, ReadPool, Hold, MarkProcessing, StripeRefuses,
         CreditRead, CreditWrite, RecordFailed, ReadCounts, Settled, Finish,
         Crash, Click, rowVars
  <2>2. \A d \in Call \ {c} : pc'[d] = pc[d] /\ pool'[d] = pool[d]
    BY <1>5 DEF ReadReward, ReadPool, Hold, MarkProcessing, StripeRefuses,
         CreditRead, CreditWrite, RecordFailed, ReadCounts, Settled, Finish,
         Crash, Click
  <2>3. pc'[c] # "sent"
    BY <1>5 DEF ReadReward, ReadPool, Hold, MarkProcessing, StripeRefuses,
         CreditRead, CreditWrite, RecordFailed, ReadCounts, Settled, Finish,
         Crash, Click, Idle
  <2> QED
    BY <2>1, <2>2, <2>3
<1>6. CASE UNCHANGED <<status, transferId, transfers, pc, pool>>
  BY <1>6
<1>7. ASSUME NEW r \in Reward, TriageDecision(r)
      PROVE  UNCHANGED <<status, transferId, transfers, pc, pool>>
  BY <1>7 DEF TriageDecision, rowVars, callVars
<1>8. ASSUME NEW p \in Payee, RefreshStripeStatus(p)
      PROVE  UNCHANGED <<status, transferId, transfers, pc, pool>>
  BY <1>8 DEF RefreshStripeStatus, rowVars, callVars
<1>9. ASSUME NEW c \in Call, BumpRetryCount(c)
      PROVE  UNCHANGED <<status, transferId, transfers, pc, pool>>
  BY <1>9 DEF BumpRetryCount
<1>10. CASE UNCHANGED vars
  BY <1>6, <1>10 DEF vars, rowVars, callVars
<1> QED
  BY <1>1, <1>2, <1>3, <1>4, <1>5, <1>6, <1>7, <1>8, <1>9, <1>10 DEF Next, RequestStep

\* Coherence: the pool that was compared with the threshold is the pool sent.
LEMMA CoherentStep ==
    ASSUME TypeOK, Coherent, [Next]_vars
    PROVE  Coherent'
<1> USE DEF TypeOK, RequestsOK, Coherent, PoolsAreCoherent, Sending
<1>1. ASSUME NEW c \in Call, ReadPool(c) PROVE Coherent'
  <2>1. PICK P \in Poolable(row[c]) :
          /\ pool' = [pool EXCEPT ![c] = P]
          /\ pc' = [pc EXCEPT ![c] =
                       IF PoolTotal(P) < Threshold THEN "hold" ELSE "mark"]
    BY <1>1 DEF ReadPool
  <2>2. \A q, r \in P : OwnerOf[q] = OwnerOf[r] /\ PayeeOf[q] = PayeeOf[r]
    BY DEF Poolable, EligibleRewards
  <2>3. pc'[c] \in Sending => OnePayeeWorthPaying(pool'[c])
    BY <2>1, <2>2 DEF OnePayeeWorthPaying
  <2>4. \A d \in Call \ {c} : pc'[d] = pc[d] /\ pool'[d] = pool[d]
    BY <2>1
  <2> QED
    BY <1>1, <2>3, <2>4 DEF ReadPool, OnePayeeWorthPaying
<1>2. ASSUME NEW c \in Call, StripeTransfers(c) PROVE Coherent'
  BY <1>2, SMTT(30) DEF StripeTransfers, OnePayeeWorthPaying
<1>3. ASSUME NEW c \in Call,
             \/ ReadReward(c) \/ Hold(c) \/ MarkProcessing(c) \/ StripeRefuses(c)
             \/ RecordPaid(c) \/ CreditRead(c) \/ CreditWrite(c)
             \/ RecordFailed(c) \/ ReadCounts(c) \/ Settled(c) \/ Finish(c)
             \/ Crash(c) \/ (\E S \in SUBSET Reward : Click(c, S))
      PROVE  Coherent'
  <2>1. UNCHANGED transfers
    BY <1>3 DEF ReadReward, Hold, MarkProcessing, StripeRefuses, RecordPaid,
         CreditRead, CreditWrite, RecordFailed, ReadCounts, Settled, Finish,
         Crash, Click
  <2>2. \A d \in Call \ {c} : pc'[d] = pc[d] /\ pool'[d] = pool[d]
    BY <1>3, SMTT(30) DEF ReadReward, Hold, MarkProcessing, StripeRefuses, RecordPaid,
         CreditRead, CreditWrite, RecordFailed, ReadCounts, Settled, Finish,
         Crash, Click
  <2>3. pc'[c] \in Sending => pc[c] \in Sending /\ pool'[c] = pool[c]
    BY <1>3, SMTT(30) DEF ReadReward, Hold, MarkProcessing, StripeRefuses, RecordPaid,
         CreditRead, CreditWrite, RecordFailed, ReadCounts, Settled, Finish,
         Crash, Click, Idle
  <2> QED
    BY <2>1, <2>2, <2>3 DEF OnePayeeWorthPaying
<1>4. CASE UNCHANGED <<transfers, pc, pool>>
  BY <1>4 DEF OnePayeeWorthPaying
<1>5. ASSUME NEW r \in Reward,
             \/ TriageDecision(r) \/ ProposeReward(r) \/ ApproveReward(r)
             \/ DeclineReward(r) \/ DirectUpdate(r)
      PROVE  UNCHANGED <<transfers, pc, pool>>
  BY <1>5 DEF TriageDecision, ProposeReward, ApproveReward, DeclineReward,
              DirectUpdate, callVars
<1>6. ASSUME NEW p \in Payee, RefreshStripeStatus(p)
      PROVE  UNCHANGED <<transfers, pc, pool>>
  BY <1>6 DEF RefreshStripeStatus, callVars
<1>7. ASSUME NEW c \in Call, BumpRetryCount(c) PROVE UNCHANGED <<transfers, pc, pool>>
  BY <1>7 DEF BumpRetryCount
<1>8. CASE UNCHANGED vars
  BY <1>4, <1>8 DEF vars, callVars
<1> QED
  BY <1>1, <1>2, <1>3, <1>4, <1>5, <1>6, <1>7, <1>8 DEF Next, RequestStep

THEOREM MoneyInvariant == ASSUME NoDirectSql PROVE Spec => []MoneyInv
<1>1. Init => MoneyInv
  BY DEF Init, MoneyInv, ApprovedByOwner, SentIsBacked, PaidIsBacked, Coherent,
         PoolsAreCoherent, Sending
<1>2. TypeOK /\ MoneyInv /\ [Next]_vars => MoneyInv'
  BY NoDirectSql, ApprovedStep, BackedStep, CoherentStep DEF MoneyInv
<1> QED
  BY <1>1, <1>2, TypeCorrect, PTL DEF Spec

\* No money without a human: every reward of every transfer was approved by
\* the owner of its organization.
THEOREM MoneyIsApproved == ASSUME NoDirectSql PROVE Spec => []MoneyNeedsApproval
<1>1. MoneyInv => MoneyNeedsApproval
  BY DEF MoneyInv, ApprovedByOwner, MoneyNeedsApproval, OwnerApproved
<1> QED
  BY <1>1, NoDirectSql, MoneyInvariant, PTL

\* A reward shown as paid was transferred, whatever was lost or died on the way.
THEOREM PaidWasTransferred == ASSUME NoDirectSql PROVE Spec => []PaidIsBacked
<1>1. MoneyInv => PaidIsBacked
  BY DEF MoneyInv, SentIsBacked
<1> QED
  BY <1>1, NoDirectSql, MoneyInvariant, PTL

\* Pools never mix owners or payees and respect the threshold, even when
\* rows are written behind rewards.ts.
THEOREM PoolsCoherent == Spec => []PoolsAreCoherent
<1>1. Init => Coherent
  BY DEF Init, Coherent, PoolsAreCoherent, Sending
<1>2. TypeOK /\ Coherent /\ [Next]_vars => Coherent'
  BY CoherentStep
<1>3. Coherent => PoolsAreCoherent
  BY DEF Coherent
<1> QED
  BY <1>1, <1>2, <1>3, TypeCorrect, PTL DEF Spec

\* Splits: as long as no query fails, every pool leaves the split rewards out.
SplitsOut ==
    /\ \A c \in Call : pool[c] \intersect SplitRewards = {}
    /\ SplitsNotPooled

\* No payout, however requests overlap, die or miss an answer, sends a split
\* reward to one researcher: all it takes is that the queries succeed.
THEOREM SplitsStayOut ==
    ASSUME "db_error" \notin Hazards PROVE Spec => []SplitsNotPooled
<1>1. Init => SplitsOut
  BY DEF Init, SplitsOut, SplitsNotPooled
<1>2. TypeOK /\ SplitsOut /\ [Next]_vars => SplitsOut'
  <2> SUFFICES ASSUME TypeOK, SplitsOut, [Next]_vars PROVE SplitsOut'
    OBVIOUS
  <2> USE DEF TypeOK, RequestsOK, SplitsOut, SplitsNotPooled
  <2>1. ASSUME NEW c \in Call, ReadPool(c) PROVE SplitsOut'
    <3>1. \A P \in Poolable(row[c]) : P \intersect SplitRewards = {}
      BY DEF Poolable, DbError
    <3> QED
      BY <2>1, <3>1 DEF ReadPool
  <2>2. ASSUME NEW c \in Call, StripeTransfers(c) PROVE SplitsOut'
    BY <2>2 DEF StripeTransfers
  <2>3. ASSUME NEW c \in Call, Hold(c) \/ Settled(c) \/ Crash(c) PROVE SplitsOut'
    BY <2>3 DEF Hold, Settled, Crash
  <2>4. CASE UNCHANGED <<pool, transfers>>
    BY <2>4
  <2>5. \/ \E c \in Call : \/ ReadPool(c) \/ StripeTransfers(c)
                           \/ Hold(c) \/ Settled(c) \/ Crash(c)
        \/ UNCHANGED <<pool, transfers>>
    BY DEF Next, RequestStep, vars, callVars, TriageDecision, ProposeReward,
           ApproveReward, DeclineReward, DirectUpdate, RefreshStripeStatus, Click,
           ReadReward, MarkProcessing, StripeRefuses, RecordPaid, CreditRead,
           CreditWrite, RecordFailed, ReadCounts, BumpRetryCount, Finish
  <2> QED
    BY <2>1, <2>2, <2>3, <2>4, <2>5
<1>3. SplitsOut => SplitsNotPooled
  BY DEF SplitsOut
<1> QED
  BY <1>1, <1>2, <1>3, TypeCorrect, PTL DEF Spec

(***************************************************************************)
(* Rewards in processing.                                                  *)
(***************************************************************************)

\* Request c has reward r in its pool and will write its outcome.
Owns(c, r) == pc[c] \in {"transfer", "sent", "refused"} /\ r \in pool[c]

\* Requests run to their end, statements go through, and nobody writes rows
\* behind rewards.ts.
Uninterrupted == Hazards \intersect {"crash", "db_error", "direct_sql"} = {}

LEMMA OwnedStep ==
    ASSUME Uninterrupted, TypeOK, ApprovedByOwner, ProcessingIsOwned, [Next]_vars
    PROVE  ProcessingIsOwned'
<1> USE DEF TypeOK, RowsOK, RequestsOK
<1>0. \A r \in Reward : payoutStatus[r] = "processing" => \E c \in Call : Owns(c, r)
  BY DEF ProcessingIsOwned, Owns
<1>1. SUFFICES ASSUME NEW r \in Reward, payoutStatus'[r] = "processing"
               PROVE  \E c \in Call : Owns(c, r)'
  BY DEF ProcessingIsOwned, Owns
<1>2. ASSUME NEW c \in Call, MarkProcessing(c)
      PROVE  \E d \in Call : Owns(d, r)'
  <2>1. CASE r \in pool[c]
    BY <1>2, <2>1 DEF MarkProcessing, Owns
  <2>2. CASE r \notin pool[c]
    <3>1. payoutStatus[r] = "processing"
      BY <1>1, <1>2, <2>2 DEF MarkProcessing
    <3>2. PICK d \in Call : Owns(d, r)
      BY <1>0, <3>1
    <3> QED
      BY <1>2, <3>2 DEF MarkProcessing, Owns
  <2> QED
    BY <2>1, <2>2
<1>3. ASSUME NEW c \in Call, RecordPaid(c)
      PROVE  \E d \in Call : Owns(d, r)'
  <2>1. \A q \in pool[c] : approvedBy[q] # NoOne
    BY RewardsAssumption DEF ApprovedByOwner, OwnerApproved
  <2>2. payoutStatus' = [q \in Reward |-> IF q \in pool[c] THEN "succeeded" ELSE payoutStatus[q]]
    BY <1>3, <2>1 DEF RecordPaid, EnforceHumanApproval, Uninterrupted, DbError
  <2>3. r \notin pool[c] /\ payoutStatus[r] = "processing"
    BY <1>1, <2>2
  <2>4. PICK d \in Call : Owns(d, r)
    BY <1>0, <2>3
  <2> QED
    BY <1>3, <2>3, <2>4 DEF RecordPaid, Owns
<1>4. ASSUME NEW c \in Call, RecordFailed(c)
      PROVE  \E d \in Call : Owns(d, r)'
  <2>1. payoutStatus' = [q \in Reward |-> IF q \in pool[c] THEN "failed" ELSE payoutStatus[q]]
    BY <1>4 DEF RecordFailed, Uninterrupted, DbError
  <2>2. r \notin pool[c] /\ payoutStatus[r] = "processing"
    BY <1>1, <2>1
  <2>3. PICK d \in Call : Owns(d, r)
    BY <1>0, <2>2
  <2> QED
    BY <1>4, <2>2, <2>3 DEF RecordFailed, Owns
<1>5. ASSUME NEW c \in Call, \/ ReadReward(c) \/ ReadPool(c) \/ Hold(c) \/ CreditRead(c)
                              \/ CreditWrite(c) \/ ReadCounts(c) \/ Settled(c) \/ Finish(c)
                              \/ StripeTransfers(c) \/ StripeRefuses(c)
      PROVE  \E d \in Call : Owns(d, r)'
  <2>1. payoutStatus' = payoutStatus
    BY <1>5 DEF ReadReward, ReadPool, Hold, CreditRead, CreditWrite, ReadCounts, Settled,
                Finish, StripeTransfers, StripeRefuses, rowVars
  <2>2. PICK d \in Call : Owns(d, r)
    BY <1>0, <1>1, <2>1
  <2> QED
    BY <1>5, <2>2 DEF ReadReward, ReadPool, Hold, CreditRead, CreditWrite, ReadCounts, Settled,
                      Finish, StripeTransfers, StripeRefuses, Owns
<1>6. ASSUME NEW c \in Call, NEW S, Click(c, S)
      PROVE  \E d \in Call : Owns(d, r)'
  <2>1. PICK d \in Call : Owns(d, r)
    BY <1>0, <1>1, <1>6 DEF Click, rowVars
  <2> QED
    BY <1>6, <2>1 DEF Click, Idle, Owns
<1>7. ASSUME UNCHANGED <<payoutStatus, pc, pool>>
      PROVE  \E d \in Call : Owns(d, r)'
  BY <1>0, <1>1, <1>7 DEF Owns
<1>8. ASSUME \/ \E q \in Reward : \/ TriageDecision(q) \/ ProposeReward(q) \/ ApproveReward(q)
                                   \/ DeclineReward(q) \/ DirectUpdate(q)
             \/ \E p \in Payee : RefreshStripeStatus(p)
             \/ \E c \in Call : BumpRetryCount(c)
             \/ UNCHANGED vars
      PROVE  UNCHANGED <<payoutStatus, pc, pool>>
  BY <1>8 DEF TriageDecision, ProposeReward, ApproveReward, DeclineReward, DirectUpdate,
              RefreshStripeStatus, BumpRetryCount, vars, rowVars, callVars
<1>9. \A c \in Call : ~Crash(c)
  BY DEF Crash, Uninterrupted
<1> QED
  BY <1>2, <1>3, <1>4, <1>5, <1>6, <1>7, <1>8, <1>9 DEF Next, RequestStep

\* However requests overlap, miss answers or work from outdated pages, a reward
\* in processing has a request that will write its outcome, provided that
\* requests run to their end and their statements go through.
THEOREM ProcessingOwned == ASSUME Uninterrupted PROVE Spec => []ProcessingIsOwned
<1>1. Init => ProcessingIsOwned
  BY DEF Init, ProcessingIsOwned
<1>2. NoDirectSql
  BY Uninterrupted DEF Uninterrupted, NoDirectSql
<1>3. MoneyInv => ApprovedByOwner
  BY DEF MoneyInv
<1>4. TypeOK /\ ApprovedByOwner /\ ProcessingIsOwned /\ [Next]_vars => ProcessingIsOwned'
  BY Uninterrupted, OwnedStep
<1> QED
  BY <1>1, <1>2, <1>3, <1>4, TypeCorrect, MoneyInvariant, PTL DEF Spec

(***************************************************************************)
(* The payout code implements the ledger.                                  *)
(***************************************************************************)

\* Every step of the code is a ledger step or leaves the ledger alone: an
\* approval authorises or reopens, Stripe's answer moves, the unconditional
\* update of the pool settles what was moved, a refusal reopens.
LEMMA LedgerStep ==
    ASSUME NoDirectSql, TypeOK, MoneyInv, [Next]_vars
    PROVE  Ledger!LedgerNext \/ UNCHANGED Ledger!ledgerVars
<1> USE RewardsAssumption DEF TypeOK, RowsOK, RequestsOK, MoneyInv
<1>1. ASSUME NEW r \in Reward, ProposeReward(r)
      PROVE  UNCHANGED Ledger!ledgerVars
  BY <1>1 DEF ProposeReward, Ledger!ledgerVars
<1>2. ASSUME NEW r \in Reward, ApproveReward(r)
      PROVE  Ledger!Authorise(r) \/ Ledger!Reopen(r)
  <2>1. CASE status[r] = "paid"
    <3>1. approvedBy' = approvedBy
      BY <1>2, <2>1 DEF ApproveReward, ApprovedByOwner, OwnerApproved
    <3> QED
      BY <1>2, <2>1, <3>1 DEF ApproveReward, Ledger!Reopen
  <2>2. CASE status[r] # "paid"
    <3>1. {q \in Reward : approvedBy'[q] # NoOne}
            = {q \in Reward : approvedBy[q] # NoOne} \union {r}
      BY <1>2 DEF ApproveReward
    <3>2. {q \in Reward : status'[q] = "paid"} = {q \in Reward : status[q] = "paid"}
      BY <1>2, <2>2 DEF ApproveReward
    <3> QED
      BY <1>2, <3>1, <3>2 DEF ApproveReward, Ledger!Authorise
  <2> QED
    BY <2>1, <2>2
<1>3. ASSUME NEW r \in Reward, DeclineReward(r)
      PROVE  Ledger!Reopen(r)
  <2>1. {q \in Reward : status'[q] = "paid"}
          = {q \in Reward : status[q] = "paid"} \ {r}
    BY <1>3 DEF DeclineReward
  <2> QED
    BY <1>3, <2>1 DEF DeclineReward, Ledger!Reopen
<1>4. ASSUME NEW c \in Call, StripeTransfers(c)
      PROVE  Ledger!Move(pool[c])
  <2>1. pool[c] \subseteq {r \in Reward : approvedBy[r] # NoOne}
    BY DEF ApprovedByOwner, OwnerApproved
  <2> QED
    BY <1>4, <2>1 DEF StripeTransfers, Ledger!Move, rowVars
<1>5. ASSUME NEW c \in Call, RecordPaid(c)
      PROVE  Ledger!Settle(pool[c]) \/ UNCHANGED Ledger!ledgerVars
  <2>1. UNCHANGED <<approvedBy, transfers>> /\ pool[c] \in transfers
    BY <1>5 DEF RecordPaid, SentIsBacked
  <2>2. CASE UNCHANGED status
    BY <2>1, <2>2 DEF Ledger!ledgerVars
  <2>3. CASE status' = [r \in Reward |-> IF r \in pool[c] THEN "paid" ELSE status[r]]
    <3>1. {r \in Reward : status'[r] = "paid"}
            = {r \in Reward : status[r] = "paid"} \union pool[c]
      BY <2>3
    <3> QED
      BY <2>1, <3>1 DEF Ledger!Settle
  <2> QED
    BY <1>5, <2>2, <2>3 DEF RecordPaid
<1>6. CASE UNCHANGED <<status, approvedBy, transfers>>
  BY <1>6 DEF Ledger!ledgerVars
<1>7. \/ \E r \in Reward : ProposeReward(r) \/ ApproveReward(r) \/ DeclineReward(r)
      \/ \E c \in Call : StripeTransfers(c) \/ RecordPaid(c)
      \/ UNCHANGED <<status, approvedBy, transfers>>
  BY NoDirectSql
     DEF NoDirectSql, Next, RequestStep, vars, rowVars, callVars, TriageDecision,
         DirectUpdate, RefreshStripeStatus, Click, ReadReward, ReadPool, Hold,
         MarkProcessing, StripeRefuses, CreditRead, CreditWrite, RecordFailed,
         ReadCounts, BumpRetryCount, Settled, Finish, Crash
<1>8. ASSUME NEW c \in Call, StripeTransfers(c) \/ RecordPaid(c)
      PROVE  Ledger!LedgerNext \/ UNCHANGED Ledger!ledgerVars
  <2>1. pool[c] \in SUBSET Reward
    OBVIOUS
  <2>2. Ledger!Move(pool[c]) \/ Ledger!Settle(pool[c]) \/ UNCHANGED Ledger!ledgerVars
    BY <1>4, <1>5, <1>8
  <2>3. CASE Ledger!Move(pool[c])
    <3>1. \E S \in SUBSET Reward : Ledger!Move(S)
      <4> WITNESS pool[c] \in SUBSET Reward
      <4> QED
        BY <2>3
    <3> QED
      BY <3>1 DEF Ledger!LedgerNext
  <2>4. CASE Ledger!Settle(pool[c])
    <3>1. \E S \in SUBSET Reward : Ledger!Settle(S)
      <4> WITNESS pool[c] \in SUBSET Reward
      <4> QED
        BY <2>4
    <3> QED
      BY <3>1 DEF Ledger!LedgerNext
  <2> QED
    BY <2>2, <2>3, <2>4
<1>9. ASSUME NEW r \in Reward, ProposeReward(r) \/ ApproveReward(r) \/ DeclineReward(r)
      PROVE  Ledger!LedgerNext \/ UNCHANGED Ledger!ledgerVars
  BY <1>1, <1>2, <1>3, <1>9 DEF Ledger!LedgerNext
<1> QED
  BY <1>6, <1>7, <1>8, <1>9

\* The detailed specification implements the abstract one.
THEOREM LedgerRefinement == ASSUME NoDirectSql PROVE Spec => ImplementsLedger
<1>1. Init => Ledger!LedgerInit
  BY DEF Init, Ledger!LedgerInit
<1>2. TypeOK /\ MoneyInv /\ [Next]_vars => [Ledger!LedgerNext]_(Ledger!ledgerVars)
  BY NoDirectSql, LedgerStep
<1> QED
  BY <1>1, <1>2, NoDirectSql, TypeCorrect, MoneyInvariant, PTL
     DEF Spec, ImplementsLedger, Ledger!LedgerSpec

(***************************************************************************)
(* Without hazards no reward is paid twice.                                *)
(***************************************************************************)

\* At most one request runs; what it is about to send is approved; and only
\* paid rewards, or the pool of a request that has just heard from Stripe,
\* are covered by a transfer.
OneAtATime == \A c, d \in Call : pc[c] # "idle" /\ pc[d] # "idle" => c = d

SendsApproved ==
    \A c \in Call : pc[c] \in Sending => \A r \in pool[c] : status[r] = "approved"

CoveredIsPaid ==
    \A r \in Reward :
        \/ status[r] = "paid"
        \/ \E c \in Call : pc[c] = "sent" /\ r \in pool[c]
        \/ \A t \in transfers : r \notin t

SinglePayInv == OneAtATime /\ SendsApproved /\ CoveredIsPaid /\ NoSecondTransfer

LEMMA SinglePayStep ==
    ASSUME Hazards = {}, TypeOK, ApproverRecorded, SinglePayInv, [Next]_vars
    PROVE  SinglePayInv'
<1> USE DEF TypeOK, RowsOK, RequestsOK, SinglePayInv, OneAtATime, SendsApproved,
            CoveredIsPaid, NoSecondTransfer, Idle, Sending
<1>1. ASSUME NEW r \in Reward, ProposeReward(r) PROVE SinglePayInv'
  BY <1>1 DEF ProposeReward, callVars
<1>2. ASSUME NEW r \in Reward, ApproveReward(r) PROVE SinglePayInv'
  BY <1>2 DEF ApproveReward, ButtonShown, callVars
<1>3. ASSUME NEW r \in Reward, DeclineReward(r) PROVE SinglePayInv'
  BY <1>3 DEF DeclineReward, ButtonShown, callVars
<1>4. ASSUME NEW r \in Reward, DirectUpdate(r) PROVE SinglePayInv'
  BY <1>4 DEF DirectUpdate
<1>5. ASSUME NEW c \in Call, NEW S \in SUBSET Reward, Click(c, S) PROVE SinglePayInv'
  <2>1. /\ \A d \in Call : pc[d] = "idle"
        /\ pc' = [pc EXCEPT ![c] = "next"]
        /\ UNCHANGED <<status, transfers, pool>>
    BY <1>5 DEF Click, rowVars
  <2>2. \A d \in Call : pc'[d] = "idle" \/ (d = c /\ pc'[d] = "next")
    BY <2>1
  <2>3. OneAtATime'
    BY <2>2
  <2>4. SendsApproved'
    BY <2>2
  <2>5. CoveredIsPaid'
    BY <2>1, <2>2
  <2>6. NoSecondTransfer'
    BY <2>1
  <2> QED
    BY <2>3, <2>4, <2>5, <2>6
<1>6. ASSUME NEW c \in Call, ReadPool(c) PROVE SinglePayInv'
  <2>1. PICK P \in Poolable(row[c]) :
          /\ pool' = [pool EXCEPT ![c] = P]
          /\ pc' = [pc EXCEPT ![c] =
                       IF PoolTotal(P) < Threshold THEN "hold" ELSE "mark"]
    BY <1>6 DEF ReadPool
  <2>2. \A r \in P : status[r] = "approved"
    BY DEF Poolable, EligibleRewards, DbError
  <2>3. UNCHANGED <<status, transfers>> /\ pc[c] = "checked"
    BY <1>6 DEF ReadPool, rowVars
  <2>4. /\ \A d \in Call \ {c} : pc'[d] = pc[d] /\ pool'[d] = pool[d]
        /\ pc'[c] \in {"hold", "mark"} /\ pool'[c] = P
    BY <2>1
  <2>5. OneAtATime'
    BY <2>3, <2>4
  <2>6. SendsApproved'
    BY <2>2, <2>3, <2>4
  <2>7. CoveredIsPaid'
    <3>1. ASSUME NEW r \in Reward, NEW d \in Call, pc[d] = "sent", r \in pool[d]
          PROVE  pc'[d] = "sent" /\ r \in pool'[d]
      BY <2>3, <2>4, <3>1
    <3> QED
      BY <2>3, <3>1
  <2>8. NoSecondTransfer'
    BY <2>3
  <2> QED
    BY <2>5, <2>6, <2>7, <2>8
<1>7. ASSUME NEW c \in Call, StripeTransfers(c) PROVE SinglePayInv'
  <2>1. /\ transfers' = transfers \union {pool[c]}
        /\ pc' = [pc EXCEPT ![c] = "sent"]
        /\ UNCHANGED <<status, pool>>
    BY <1>7 DEF StripeTransfers, rowVars
  <2>2. \A r \in pool[c] : \A t \in transfers : r \notin t
    BY <1>7 DEF StripeTransfers
  <2>3. NoSecondTransfer'
    BY <2>1, <2>2
  <2>4. ASSUME NEW r \in Reward
        PROVE  \/ status'[r] = "paid"
               \/ \E d \in Call : pc'[d] = "sent" /\ r \in pool'[d]
               \/ \A t \in transfers' : r \notin t
    <3>1. CASE r \in pool[c]
      BY <2>1, <3>1
    <3>2. CASE r \notin pool[c]
      <4>1. \A d \in Call : pc[d] = "sent" => pc'[d] = "sent"
        BY <2>1
      <4> QED
        BY <2>1, <3>2, <4>1
    <3> QED
      BY <3>1, <3>2
  <2>5. \A d \in Call \ {c} : pc'[d] = pc[d]
    BY <2>1
  <2>6. pc[c] = "transfer" /\ pc'[c] = "sent"
    BY <1>7, <2>1 DEF StripeTransfers
  <2>7. OneAtATime'
    BY <2>5, <2>6
  <2>8. SendsApproved'
    BY <2>1, <2>5, <2>6
  <2> QED
    BY <2>3, <2>4, <2>7, <2>8
<1>8. ASSUME NEW c \in Call, RecordPaid(c) PROVE SinglePayInv'
  <2>1. \A r \in pool[c] : EnforceHumanApproval("paid", approvedBy[r])
    BY <1>8 DEF RecordPaid, ApproverRecorded, EnforceHumanApproval
  <2>2. /\ status' = [r \in Reward |-> IF r \in pool[c] THEN "paid" ELSE status[r]]
        /\ pc' = [pc EXCEPT ![c] = "credit"]
        /\ UNCHANGED <<pool, transfers>>
    BY <1>8, <2>1 DEF RecordPaid, DbError
  <2>3. pc[c] = "sent" /\ pc'[c] = "credit" /\ \A d \in Call \ {c} : pc'[d] = pc[d]
    BY <1>8, <2>2 DEF RecordPaid
  <2>4. OneAtATime'
    BY <2>3
  <2>5. SendsApproved'
    BY <2>2, <2>3, SMTT(30)
  <2>6. CoveredIsPaid'
    BY <2>2, <2>3
  <2>7. NoSecondTransfer'
    BY <2>2
  <2> QED
    BY <2>4, <2>5, <2>6, <2>7
<1>9. ASSUME NEW c \in Call,
             \/ ReadReward(c) \/ Hold(c) \/ MarkProcessing(c) \/ StripeRefuses(c)
             \/ CreditRead(c) \/ CreditWrite(c) \/ RecordFailed(c)
             \/ ReadCounts(c) \/ BumpRetryCount(c) \/ Settled(c) \/ Finish(c)
      PROVE  SinglePayInv'
  <2>1. UNCHANGED <<status, transfers>>
    BY <1>9 DEF ReadReward, Hold, MarkProcessing, StripeRefuses, CreditRead,
         CreditWrite, RecordFailed, ReadCounts, BumpRetryCount, Settled, Finish, rowVars
  <2>2. \A d \in Call \ {c} : pc'[d] = pc[d] /\ pool'[d] = pool[d]
    BY <1>9 DEF ReadReward, Hold, MarkProcessing, StripeRefuses, CreditRead,
         CreditWrite, RecordFailed, ReadCounts, BumpRetryCount, Settled, Finish
  <2>3. /\ pc'[c] \in Sending => pc[c] \in Sending /\ pool'[c] = pool[c]
        /\ pc[c] # "sent" /\ ~Idle(c)
    BY <1>9 DEF ReadReward, Hold, MarkProcessing, StripeRefuses, CreditRead,
         CreditWrite, RecordFailed, ReadCounts, BumpRetryCount, Settled, Finish
  <2>4. OneAtATime'
    BY <2>2, <2>3
  <2>5. SendsApproved'
    <3>1. ASSUME NEW d \in Call, pc'[d] \in Sending
          PROVE  pc[d] \in Sending /\ pool'[d] = pool[d]
      <4>1. CASE d = c
        BY <2>3, <3>1, <4>1
      <4>2. CASE d # c
        BY <2>2, <3>1, <4>2
      <4> QED
        BY <4>1, <4>2
    <3> QED
      BY <2>1, <3>1
  <2>6. CoveredIsPaid'
    <3>1. ASSUME NEW r \in Reward, NEW d \in Call, pc[d] = "sent", r \in pool[d]
          PROVE  pc'[d] = "sent" /\ r \in pool'[d]
      <4>1. d # c
        BY <2>3, <3>1
      <4> QED
        BY <2>2, <3>1, <4>1
    <3> QED
      BY <2>1, <3>1
  <2>7. NoSecondTransfer'
    BY <2>1
  <2> QED
    BY <2>4, <2>5, <2>6, <2>7
<1>10. ASSUME NEW c \in Call, Crash(c) PROVE SinglePayInv'
  BY <1>10 DEF Crash
<1>11. CASE UNCHANGED <<status, transfers, pc, pool>>
  BY <1>11
<1>12. ASSUME NEW r \in Reward, TriageDecision(r)
       PROVE  UNCHANGED <<status, transfers, pc, pool>>
  BY <1>12 DEF TriageDecision, rowVars, callVars
<1>13. ASSUME NEW p \in Payee, RefreshStripeStatus(p)
       PROVE  UNCHANGED <<status, transfers, pc, pool>>
  BY <1>13 DEF RefreshStripeStatus, rowVars, callVars
<1>14. CASE UNCHANGED vars
  BY <1>11, <1>14 DEF vars, rowVars, callVars
<1> QED
  BY <1>1, <1>2, <1>3, <1>4, <1>5, <1>6, <1>7, <1>8, <1>9, <1>10, <1>11, <1>12, ZenonT(40),
     <1>13, <1>14 DEF Next, RequestStep

\* lib/stripe/client.ts promises no second transfer for the same reward; this
\* is what it takes: one request at a time, every answer and every statement
\* goes through, no request dies, and nobody approves a paid reward again.
THEOREM PaidAtMostOnce == ASSUME Hazards = {} PROVE Spec => []NoSecondTransfer
<1>1. Init => SinglePayInv
  BY DEF Init, SinglePayInv, OneAtATime, SendsApproved, CoveredIsPaid,
         NoSecondTransfer, Sending
<1>2. TypeOK /\ ApproverRecorded /\ SinglePayInv /\ [Next]_vars => SinglePayInv'
  BY SinglePayStep
<1>3. SinglePayInv => NoSecondTransfer
  BY DEF SinglePayInv
<1> QED
  BY <1>1, <1>2, <1>3, TypeCorrect, HumanApproval, PTL DEF Spec
=============================================================================
